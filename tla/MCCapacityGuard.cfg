SPECIFICATION FairSpec
CONSTANTS
    Threads = {t1, t2, t3}
    Slots = 2
    Budget = 500
    Reserve = 150
    BaseUse = 150
    StageUse = 150
    MaxCalls = 5
INVARIANTS TypeOK SlotsMatchHolders DrainedNodeAccepts
PROPERTY ImplementsSlotPool
CHECK_DEADLOCK FALSE
