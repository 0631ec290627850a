SPECIFICATION FairSpec
CONSTANTS
    MaxFlips = 1
    MaxFailures = 1
    MaxCuts = 1
    StartChecks = 2
    MaxTroubles = 1
    Watched = "sys2"
    MayBeDown = {"sys1"}
INVARIANTS TypeOK LoadedIsInstalled
PROPERTIES Hysteresis OnlyUnhealthyLeave RoutingFollows KilledForCause ServiceReturns
CHECK_DEADLOCK FALSE
