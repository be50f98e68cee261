SPECIFICATION MCSpec
CONSTANTS
    c1 = c1
    c2 = c2
    Conns = {c1, c2}
    MaxRequests <- MCMaxRequests
    Ids = {i1, i2}
    MaxEntries = 2
CHECK_DEADLOCK FALSE
INVARIANTS
    RequestsShown
    SessionsExact
PROPERTIES
    ImplementsRegistry
    SessionEnds
    RunTerminates
