SPECIFICATION Spec
CONSTANTS
    u1 = u1
    u2 = u2
    n1 = n1
    a1 = a1
    a2 = a2
    Users = {u1}
    Nodes = {n1}
    Admins = {a1, a2}
    LegacyUsers = {u1}
    LegacyNodes = {n1}
    LegacyRoutes = {n1}
    MaxRequests = 2
    MaxStarts = 1
    MaxImports = 1
    MaxErrors = 0
    MaxNow = 0

CHECK_DEADLOCK FALSE
INVARIANT
    ResetRevokes
