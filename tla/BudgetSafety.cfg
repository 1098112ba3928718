SPECIFICATION Spec
CONSTANTS
    server = server
    mmctl = mmctl
    k1 = k1
    k2 = k2
    Idle = Idle
    Procs <- MCProcs
    Tasks <- MCTasks
    MonthOf <- MCMonthOf
    MaxDay = 2
    MaxAmount = 1
    SessionCap = 1
    DailyCap = 1
    MonthlyCap = 2
    MaxCalls = 4
    MaxStarts = 2
CHECK_DEADLOCK FALSE
SYMMETRY BudgetSymmetry
INVARIANTS
    OverrunBounded
    CapsHoldInOrder
    LedgerMatchesBill
PROPERTY IsAMeter
