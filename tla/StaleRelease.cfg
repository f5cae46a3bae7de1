SPECIFICATION Spec
CONSTANTS
    Proposals = {p1}
    NoProposal = NoProposal
    Requests = {r1, r2}
    NoRequest = NoRequest
    Operations = {"publish", "submit", "fundAndAccept", "complete", "openDispute"}
    ProviderOutcomes = {"succeeded"}
    MaxProviderCalls = 1
PROPERTIES DisputeBlocksCompletion
CHECK_DEADLOCK FALSE
