SPECIFICATION FairSpec
CONSTANTS
    t1 = t1
    t2 = t2
    h1 = h1
    Scheduler = Scheduler
    NoTrigger = NoTrigger
    TriggerIds <- MCTriggerIds
    ManualSweeps <- MCNone
    Hooks <- MCHooks
    Kinds <- MCKinds
    FirstTables <- MCFirstTables
    MaxClock = 2
    MaxEdits = 1
    MaxSaves = 1
    MaxRuns = 2
    MaxCrashes = 1
CHECK_DEADLOCK FALSE
INVARIANTS
    TriggersOK
    RunsAreRecorded
PROPERTIES OncePerInterval DueIsAttempted
