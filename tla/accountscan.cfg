SPECIFICATION FairSpec
CHECK_DEADLOCK FALSE
CONSTANTS
    NumAccounts = 2
    LocalStates = {s1, s2}
    OptedOut = out
    Rejected = {s2}
    NoEntry = none
    Lifetimes = {0, 2}
    PageSize = 1
    MaxRound = 4
    MaxClock = 2
    MaxCrashes = 1
INVARIANTS
    TypeOK
    ScanInv
    WatermarkHonest
PROPERTIES
    WatermarkOnlyAdvances
    CatchesUp
