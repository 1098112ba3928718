SPECIFICATION FairSpec
CONSTANTS
    j1 = j1
    f1 = f1
    d1 = d1
    Jobs <- MCOneJob
    Followers <- MCFollowers
    Deleters <- MCDeleters
    MaxDeletes = 2
    MaxCrashes = 1
CHECK_DEADLOCK FALSE
INVARIANTS
    JobsOK
    OrphansAreExplained
    WorkspaceIsRemoved
    DoneMissesOnlyTheLast
PROPERTY FollowEnds
