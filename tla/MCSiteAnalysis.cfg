SPECIFICATION Spec
CONSTANTS
    NumRegions = 2
    Radius = 2
    Survey = 4
    Farthest = 5
    Requests <- MCRequests
INVARIANTS TypeOK NoBuildKept StatusHonest StormRespected
PROPERTIES AnalysisEnds ImplementsContract
CHECK_DEADLOCK FALSE
