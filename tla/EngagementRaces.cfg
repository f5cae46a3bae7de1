SPECIFICATION Spec
CONSTANTS
    Proposals = {p1, p2}
    NoProposal = NoProposal
    Requests = {r1, r2}
    NoRequest = NoRequest
    Operations = {"publish", "deleteDraft", "close", "cancel", "adminClose", "requestCompletion", "complete", "submit", "reject", "withdraw", "accept", "prepare", "fund", "fundAndAccept", "openDispute", "refundClient", "releaseFreelancer"}
    ProviderOutcomes = {"succeeded"}
    MaxProviderCalls = 2
SYMMETRY Symmetry
INVARIANTS OneAccepted HiredOnDeposit CompletedOnce UndisputedLedger ChargedByOne
PROPERTIES HireIsFinal KeepsPromise
CHECK_DEADLOCK FALSE
