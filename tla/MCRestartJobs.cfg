SPECIFICATION FairSpec
CONSTANTS
    Window = 0
    MaxJobs = 2
    MaxNow = 1
    MaxExits = 2
    MaxErrors = 1
CHECK_DEADLOCK FALSE
INVARIANTS
    ExecutedOnce
    RunsAreTheirProcesses
PROPERTIES
    JobSettles
