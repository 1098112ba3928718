SPECIFICATION SkillsSpec
CONSTANTS
    s1 = s1
    s2 = s2
    server = server
    command = command
    plain = plain
    capped = capped
    elevated = elevated
    Names <- MCNames
    Processes <- MCProcesses
    Contents <- MCContents
    Policy <- MCPolicy
    Declared <- MCDeclared
    HighImpact <- MCHighImpact
    Signed <- MCSigned
    FileCap <- MCFileCap
    Options <- MCOptions
    Costs <- MCCosts
    Sittings <- MCSittings
    NoFile = NoFile
    MaxSteps = 2
    MaxOps = 3
    MaxCrashes = 1
SYMMETRY MCSymmetry
CHECK_DEADLOCK FALSE
INVARIANTS
    SerialChangesStick
    RegistryOK
    RunOverspendsOneCall
