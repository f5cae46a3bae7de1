SPECIFICATION Spec
CONSTANTS
    Proposals = {p1}
    NoProposal = NoProposal
    Requests = {r1, r2}
    NoRequest = NoRequest
    Operations = {"publish", "submit", "adminClose"}
    ProviderOutcomes = {"succeeded"}
    MaxProviderCalls = 1
PROPERTIES ClosingRejectsPending
CHECK_DEADLOCK FALSE
