SPECIFICATION Spec
CONSTANTS
    NumRegions = 2
    Radius = 2
    Survey = 4
    Farthest = 5
    Requests <- MCRequests
INVARIANT RelaxedFallbackHelps
CHECK_DEADLOCK FALSE
