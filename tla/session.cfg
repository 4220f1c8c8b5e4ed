SPECIFICATION FairSpec
CHECK_DEADLOCK FALSE
CONSTANTS
    Nodes = {n1, n2}
    Addresses = {a1, a2}
    Callers = {c1, c2}
    Requests = {r1}
    Ops = {"submit", "watch", "operations", "health", "get"}
    Nobody = nobody
    MaxRetries = 1
    MaxCalls = 2
    MaxChanges = 2
INVARIANTS
    TypeOK
    AppliedOnce
    PinnedOnly
    HeardIsFinal
PROPERTY
    WatchReturns
