SPECIFICATION Spec
CHECK_DEADLOCK FALSE
CONSTANTS
    Callers = {c1}
    QueryModes = {"Refresh"}
    Lifetimes = {0}
    Ingested = {1, 2}
    PageSize = 1
    MaxPerRound = 2
    MaxRound = 1
    MaxClock = 1
    MaxFailures = 1
    MaxCrashes = 0
INVARIANT
    PushedOnce
