SPECIFICATION Spec
CONSTANTS
    Proposals = {p1, p2}
    NoProposal = NoProposal
    Requests = {r1}
    NoRequest = NoRequest
    Operations = {"publish", "deleteDraft", "close", "cancel", "adminClose", "requestCompletion", "complete", "submit", "reject", "withdraw", "accept", "prepare", "fund", "fundAndAccept", "openDispute", "refundClient", "releaseFreelancer", "initiate", "webhook"}
    ProviderOutcomes = {"succeeded", "failed", "pending"}
    MaxProviderCalls = 2
SYMMETRY Symmetry
INVARIANTS TypeOK EngagementCoherent PagesServe
PROPERTIES KeepsEscrowPromise
CHECK_DEADLOCK FALSE
