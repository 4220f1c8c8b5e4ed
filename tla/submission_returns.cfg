SPECIFICATION FairSpec
CONSTANTS
    Clients = {"creator", "other"}
    Operations <- AllOperations
    Timeout = 2
    Supply = 1
    MaxOps = 1
    MaxRound = 4
PROPERTIES
    EveryOperationReturns
CHECK_DEADLOCK FALSE
