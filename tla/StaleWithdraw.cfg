SPECIFICATION Spec
CONSTANTS
    Proposals = {p1}
    NoProposal = NoProposal
    Requests = {r1, r2}
    NoRequest = NoRequest
    Operations = {"publish", "submit", "fundAndAccept", "withdraw"}
    ProviderOutcomes = {"succeeded"}
    MaxProviderCalls = 1
PROPERTIES AcceptedNotWithdrawn
CHECK_DEADLOCK FALSE
