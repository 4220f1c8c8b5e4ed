SPECIFICATION Spec
CHECK_DEADLOCK FALSE
CONSTANTS
    Callers = {c1}
    QueryModes = {"Refresh", "ForceFull"}
    Lifetimes = {2}
    Ingested = {1}
    PageSize = 1
    MaxPerRound = 1
    MaxRound = 1
    MaxClock = 2
    MaxFailures = 1
    MaxCrashes = 0
PROPERTY
    RefreshServesScannedCache
