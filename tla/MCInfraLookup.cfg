SPECIFICATION FairSpec
CONSTANTS
    Callers = {c1, c2, c3}
    Areas = {a1, a2, a3}
    Nobody = nobody
    CacheMax = 2
    MaxCalls = 4
INVARIANTS TypeOK SingleFlight NoNeedlessFetch RecentAnswersKept
PROPERTY LookupsEnd
CHECK_DEADLOCK FALSE
