CONSTANTS
    Rows = 3
    Cols = 5
    NoText = NoText
    Tiles = Tiles
    NoElevation = NoElevation
    FeetPerMetre = 3
    SnapCells = 1
    Threshold = 1
    Steepest4 = 12
    MinCells = 3
    MaxCells = 4
    MinWidth = 2
    Files <- MapsHere
    TileSurfaces <- Bumps
    ScoreMaps <- MapsOfScores
    Zones <- ZonesHere
SPECIFICATION Spec
INVARIANTS CatchmentExact AreaIsAccumulation FootprintsSound
CHECK_DEADLOCK FALSE
