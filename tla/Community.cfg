CONSTANTS
    Requests = {r1, r2}
    Operations <- MCOperations
    Workloads <- MCWorkloads
    Sockets = {s1}
    MaxTokens = 3
    Tabs = {t1, t2}
    Terms = {1, 2}
    MaxRows = 2
    Bidders = {b1, b2}
    MaxResets = 1
    MaxRevocations = 2
    MessageLimit = 2
    TypingLimit = 2
    Window = 2
    MaxClock = 5
    MaxMessages = 2
    Reader = "FREELANCER"
    Reviewers = {v1, v2}
    Instances = {i1, i2}
    MaxPatches = 2
    Keys = {k1, k2}
    NoKey = nokey
    MaxBroadcasts = 2
    Audience = {u1, u2, u3}
    BatchSize = 2
    MaxImages = 1
    MaxFiles = 3
SPECIFICATION Spec
INVARIANTS TypeOK SessionsNotMultiplied RevokedForGood SessionSurvives TermsHeld OneListing UnreadAnnounced ClosedConversationStops RateKept CacheHeals NotifiedOnce RowsHaveFiles
PROPERTIES InactiveEventCloses ShownOnce EventuallyEnforced BroadcastReaches
CHECK_DEADLOCK FALSE
