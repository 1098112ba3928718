SPECIFICATION Spec
CONSTANTS
    t1 = t1
    t2 = t2
    s1 = s1
    s2 = s2
    p1 = p1
    p2 = p2
    c1 = c1
    Turns <- MCTurns
    Runs <- MCTurns
    Sessions <- MCSessions
    Projects <- MCProjects
    Clients <- MCClients
    NoSession = NoSession
    Tokens <- MCTokens
    MaxTokens = 4
    Capacity = 3
    MaxCrashes = 2
SYMMETRY Symmetry
CHECK_DEADLOCK FALSE
INVARIANTS
    DrainedViewIsRecent
    SessionsOK
    DeletedStaysDeleted
PROPERTIES
    CrashesKeepAnswers
