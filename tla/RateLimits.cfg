SPECIFICATION LimiterSpec
CONSTANTS
    Calls = {c1, c2}
    Rpm = 2
    Tpm = 3
    Sizes = {1, 2}
    Window = 1
    MaxWait = 2
    MaxBuilds = 2
INVARIANT LimiterOK
PROPERTY CallsReturn
CHECK_DEADLOCK FALSE
