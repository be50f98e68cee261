SPECIFICATION ProcessSpec
CONSTANTS
  Configs <- MCConfigs
  Legacies <- MCLegacies
  Signals = TRUE
  Stoppable <- MCStoppable
  Inbounds <- MCInbounds
  Waiting = {"trojan"}
  NonCooperative = {"hysteria2"}
  WorkerBudget = 2
  TotalBudget = 4
  MaxNow = 6
CHECK_DEADLOCK FALSE
INVARIANTS
    FailedStartReleases
    AcceptedServes
    KilledAfterMiss
    BudgetsKept
PROPERTIES
    ProcessEnds
