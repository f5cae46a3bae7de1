SPECIFICATION Spec
CONSTANTS
    Requests = {r1, r2}
    Projects = {1, 2}
    Amounts = {15, 20, 87}
    Terms <- MCTerms
    Percents <- MCPercents
    Operations <- MCOperations
    Workloads <- MCWorkloads
    MaxTime = 2
    MaxVersions = 3
    Shares <- MCShares
    Caps <- MCCaps
    Payouts = {p1, p2}
    PayoutAmount = 2
    DaysPerMonth = 1
SYMMETRY Symmetry
INVARIANTS TypeOK OneActivePolicy ResolvesDecision SplitFair AccrualsAllowed StatementComplete
PROPERTIES KeepsRatePromise
CHECK_DEADLOCK FALSE
