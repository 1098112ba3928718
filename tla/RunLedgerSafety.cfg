SPECIFICATION Spec
CONSTANTS
    r1 = r1
    r2 = r2
    s1 = s1
    s2 = s2
    Idle = Idle
    RunIds <- MCRunIds
    Slots <- MCSlots
    DepChoices <- MCDepChoices
    Requests <- MCEveryRequest
    StaleAfter = 1
    MaxOps = 3
    MaxRestarts = 1
SYMMETRY SlotSymmetry
INVARIANTS
    DependenciesDone
    BareOnlyAfterRemoval
    StalledMeansSilent
