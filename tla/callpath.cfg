SPECIFICATION Spec
CHECK_DEADLOCK FALSE
SYMMETRY ThreadSymmetry
CONSTANTS
    DayLen = 2
    DayStartOffset = 3
    MaxPerDay = 1
    MaxRequestsPerWindow = 1
    PerWindow = 1
    Threads = {t1, t2}
    BudgetOn = TRUE
    BucketOn = TRUE
    Mode = "Reject"
    Kinds = {"Algod"}
    Answers = {"ok"}
    MaxRetries = 0
    StartWall = 2
    MaxWall = 3
    MaxRequests = 3
    ClockSteps = {2}
    MaxSetBacks = 1
    MaxRestarts = 1
    MayReadSeed = FALSE
INVARIANTS
    TypeOK
    ChargedTogether
    SpentWithinSoftCap
    AdmittedWithinCap
    BudgetInv
    RefusalWaitExact
PROPERTIES
    SpentForgottenOnlyWithWindow
