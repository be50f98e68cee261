SPECIFICATION MCFairSpec
CONSTANTS
    n1 = n1
    n2 = n2
    r1 = r1
    r2 = r2
    Nodes = {n1, n2}
    Requests = {r1, r2}
    MaxConnectAttempts = 1
    MaxDials = 3
CHECK_DEADLOCK FALSE
INVARIANTS
    OneOpenClient
    TokenIsCurrent
    LocalCloseIsPrivate
PROPERTIES
    EvictedNodeRedials
    CloseEnds
