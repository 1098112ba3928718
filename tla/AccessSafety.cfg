SPECIFICATION Spec
CONSTANTS
    c1 = c1
    c2 = c2
    Clients <- MCClients
    MaxFailed = 2
    Lockout = 2
    EnvTokens = {0, 1}
    MaxClock = 3
    MaxToken = 2
    MaxRestarts = 1
    MaxSaves = 1
    MaxFaults = 1
CHECK_DEADLOCK FALSE
SYMMETRY Symmetry
INVARIANTS
    FailuresAreBounded
    RotationsStick
    DecisionsStick
