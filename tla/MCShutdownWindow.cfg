SPECIFICATION Spec
CONSTANTS
    Inbounds <- TwoInbounds
    Trojan = {"trojan"}
    NonCooperative = {"background"}
    WorkerBudget = 2
    TotalBudget = 4
    MaxNow = 6
CHECK_DEADLOCK FALSE
INVARIANT FinalizationReserved
