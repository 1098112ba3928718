SPECIFICATION FairSpec
CONSTANTS
    r1 = r1
    r2 = r2
    s1 = s1
    s2 = s2
    Idle = Idle
    RunIds <- MCRunIds
    Slots <- MCSlots
    DepChoices <- MCDepChoices
    Requests <- MCPlainClients
    StaleAfter = 2
    MaxOps = 4
    MaxRestarts = 1
INVARIANT SingleCallWhilePrompt
PROPERTY ActiveRunEndsOrStalls
