SPECIFICATION MCFairSpec
CONSTANTS
    c1 = c1
    c2 = c2
    Conns = {c1, c2}
    MaxPending = 1
    MaxWebsite = 1
    MaxChunks = 2
CHECK_DEADLOCK FALSE
INVARIANTS
    SlotsExact
    ClosedIsQuiet
    ChargedFirst
PROPERTIES
    ImplementsRegistry
    HandlersEnd
