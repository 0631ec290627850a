SPECIFICATION FairSpec
CONSTANTS
    Tasks = {a, b}
    Workers = {sys2, sys3}
    Affine = {sys2}
    Local = sys4
    Free = none
    BadInput = {b}
    MaxFaults = 2
INVARIANTS TypeOK PendingMatchesCalls NoNeedlessDuplicate BusyIsNotDead
PROPERTY RunEnds
CHECK_DEADLOCK FALSE
