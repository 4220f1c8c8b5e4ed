SPECIFICATION FairSpec
CHECK_DEADLOCK FALSE
CONSTANTS
    DayLen = 2
    DayStartOffset = 3
    MaxPerDay = 5
    MaxRequestsPerWindow = 4
    PerWindow = 2
    Threads = {t1, t2}
    BudgetOn = TRUE
    BucketOn = TRUE
    Mode = "Block"
    Kinds = {"Algod", "IndexerRead"}
    Answers = {"ok", "retryable", "http500", "httpOther", "transport", "timeout"}
    MaxRetries = 3
    StartWall = 1
    MaxWall = 2
    MaxRequests = 2
    ClockSteps = {}
    MaxSetBacks = 0
    MaxRestarts = 0
    MayReadSeed = TRUE
INVARIANTS
    RetriesExhausted
    CountedBeforeSent
PROPERTIES
    CallReturnsOrSleeps
