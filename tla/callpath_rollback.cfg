SPECIFICATION Spec
CHECK_DEADLOCK FALSE
CONSTANTS
    DayLen = 3
    DayStartOffset = 1
    MaxPerDay = 3
    MaxRequestsPerWindow = 1
    PerWindow = 1
    Threads = {t1, t2}
    BudgetOn = TRUE
    BucketOn = FALSE
    Mode = "Block"
    Kinds = {"Algod"}
    Answers = {"ok"}
    MaxRetries = 0
    StartWall = 3
    MaxWall = 4
    MaxRequests = 9
    ClockSteps = {}
    MaxSetBacks = 0
    MaxRestarts = 0
    MayReadSeed = FALSE
INVARIANT
    WindowAdmitsMaxPlusRacers
