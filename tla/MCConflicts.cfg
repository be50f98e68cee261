SPECIFICATION ProcessSpec
CONSTANTS
  Configs <- AdminDocs
  Legacies = {}
  Signals = FALSE
  Stoppable = {}
  Inbounds <- MCInbounds
  Waiting = {"trojan"}
  NonCooperative = {}
  WorkerBudget = 2
  TotalBudget = 4
  MaxNow = 6
CHECK_DEADLOCK FALSE
INVARIANT ConflictsReported
