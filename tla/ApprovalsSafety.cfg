SPECIFICATION Spec
CONSTANTS
    a1 = a1
    a2 = a2
    q1 = q1
    q2 = q2
    echo = echo
    send = send
    sendOther = sendOther
    NoToken = NoToken
    NoCall = NoCall
    Idle = Idle
    ApprovalIds <- MCApprovalIds
    Requests <- MCRequests
    Calls <- MCCalls
    Risky <- MCRisky
    Providers = 2
    MaxAsks = 3
    MaxDecisions = 3
    MaxCrashes = 1
CHECK_DEADLOCK FALSE
SYMMETRY ApprovalSymmetry
INVARIANTS
    UsesWithinGrants
    ExecutedAsShown
PROPERTY DenialStands
