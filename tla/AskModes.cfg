SPECIFICATION FairBatchSpec
CONSTANTS
    Enabled = 2
    Cap = 13
    Before = {0, 11, 12, 13}
    Count = 3
    NoQuery = NoQuery
    Query <- MCQuery
    Named <- MCNamed
    MaxCrashes = 1
    MaxResumes = 2
CHECK_DEADLOCK FALSE
INVARIANTS
    SpendingIsBounded
    AnswersOK
    BatchOK
PROPERTY AskedIsEnded
