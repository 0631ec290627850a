SPECIFICATION Spec
CONSTANTS
    Callers = {c1, c2}
    Areas = {here}
    Nobody = nobody
    CacheMax = 1
    MaxCalls = 2
INVARIANT NeverRaises
CHECK_DEADLOCK FALSE
