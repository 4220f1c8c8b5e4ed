SPECIFICATION Spec
CHECK_DEADLOCK FALSE
SYMMETRY CallerSymmetry
CONSTANTS
    Callers = {c1, c2}
    QueryModes = {"Refresh", "CacheOnly", "ForceFull"}
    Lifetimes = {0, 2}
    Ingested = {1, 3, 4}
    PageSize = 1
    MaxPerRound = 2
    MaxRound = 2
    MaxClock = 2
    MaxFailures = 1
    MaxCrashes = 1
INVARIANTS
    TypeOK
    WatermarkCovers
    ExactlyOnceWhenClean
PROPERTY
    WatermarkOnlyAdvances
