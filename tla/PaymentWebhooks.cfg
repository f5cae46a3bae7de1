SPECIFICATION Spec
CONSTANTS
    Proposals = {p1}
    NoProposal = NoProposal
    Requests = {r1, r2}
    NoRequest = NoRequest
    Operations = {"publish", "submit", "prepare", "fund", "initiate", "webhook", "openDispute", "refundClient"}
    ProviderOutcomes = {"succeeded", "failed", "pending"}
    MaxProviderCalls = 2
SYMMETRY Symmetry
INVARIANTS DepositBookedOnce BackedByCharge
CHECK_DEADLOCK FALSE
