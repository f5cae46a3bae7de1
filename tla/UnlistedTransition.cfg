SPECIFICATION Spec
CONSTANTS
    Proposals = {p1}
    NoProposal = NoProposal
    Requests = {r1, r2}
    NoRequest = NoRequest
    Operations = {"publish", "close", "cancel", "deleteDraft", "adminClose", "submit", "fundAndAccept"}
    ProviderOutcomes = {"succeeded"}
    MaxProviderCalls = 1
PROPERTIES ListedTransitions
CHECK_DEADLOCK FALSE
