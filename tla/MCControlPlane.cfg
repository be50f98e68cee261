SPECIFICATION FairSpec
CONSTANTS
    u1 = u1
    u2 = u2
    n1 = n1
    a1 = a1
    a2 = a2
    Users = {u1, u2}
    Nodes = {n1}
    Admins = {a1, a2}
    LegacyUsers = {u2}
    LegacyNodes = {n1}
    LegacyRoutes = {n1}
    MaxRequests = 2
    MaxStarts = 2
    MaxImports = 1
    MaxErrors = 1
    MaxNow = 1
ACTION_CONSTRAINT FailsOrExpires
CHECK_DEADLOCK FALSE
INVARIANTS
    PendingRestartShown
    AuthorizedByStartup
    SubscriptionWorks
PROPERTIES
    DisabledIsRefused
