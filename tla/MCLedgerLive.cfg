SPECIFICATION FairSpec
CONSTANTS
    Users = {u1}
    Nodes = {n1}
    n1 = n1
    s1 = s1
    s2 = s2
    Streams = {s1, s2}
    Payloads = {1}
    Policies <- LimitedOrDisabled
    MaxMonth = 1
    MaxCalls = 2
    MaxUpdates = 1
    MaxRestarts = 0
PROPERTIES
    CallsReturn
    ChargedIsPersisted
