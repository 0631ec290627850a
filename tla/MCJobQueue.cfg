SPECIFICATION FairSpec
CONSTANTS
    small = small
    big = big
    huge = huge
    Jobs <- MCJobs
    Size <- MCSize
    MaxActive = 2
    MaxQueued = 0
    MaxBytes = 3
    KeepFinished = 1
INVARIANTS TypeOK AnswersAreTrue RecentResultsKept HeldBytesBounded
PROPERTIES PositionNeverGrows ImplementsJobLifecycle
CHECK_DEADLOCK FALSE
