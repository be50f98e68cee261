SPECIFICATION Spec
CONSTANTS
    Users = {u1}
    Nodes = {n1, n2}
    n1 = n1
    s1 = s1
    s2 = s2
    Streams = {s1, s2}
    Payloads = {1}
    Policies <- QuotaPolicies
    MaxMonth = 2
    MaxCalls = 3
    MaxUpdates = 2
    MaxRestarts = 1
ACTION_CONSTRAINT PolicyOrMonth
SYMMETRY StreamSymmetry
INVARIANTS
    IndInv
    CachedUsageExact
    ForwardedWithinQuota
PROPERTIES
    ImplementsLedger
