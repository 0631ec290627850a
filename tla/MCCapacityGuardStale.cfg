SPECIFICATION Spec
CONSTANTS
    Threads = {t1, t2}
    Slots = 1
    Budget = 500
    Reserve = 150
    BaseUse = 250
    StageUse = 150
    MaxCalls = 4
PROPERTY AdmissionLeavesReserve
CHECK_DEADLOCK FALSE
