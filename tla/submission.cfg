SPECIFICATION Spec
CONSTANTS
    Clients = {"creator", "other"}
    Operations <- AllOperations
    Timeout = 2
    Supply = 1
    MaxOps = 2
    MaxRound = 4
INVARIANTS
    TypeOK
    OkMeansDone
    NextOnlyAfterConfirmed
    HandedOver
    ConfirmedInTimeIsSeen
CHECK_DEADLOCK FALSE
