SPECIFICATION Spec
CONSTANTS
    MaxRequestsPerWindow = 2
    PerWindow = 5
    Threads = {t1, t2, t3}
    Horizon = 5
INVARIANTS
    TypeOK
    EveryIntervalBounded
    WaitIsExact
PROPERTIES
    SomeoneProceeds
    AloneGoesOut
