SPECIFICATION ClientSpec
CONSTANTS
    p = p
    q = q
    Points = {p, q}
    MaxCalls = 3
    MaxStorms = 1
    MaxRestarts = 1
INVARIANTS LoadingIsCall ReportsAreTrue ReadyIsHere
PROPERTY CallsEnd
CHECK_DEADLOCK FALSE
