SPECIFICATION Spec
CONSTANTS
    U64_MAX = 5
    NS_PER_SEC = 2
    Threads = {t1, t2}
    WallReadings = {0, 3, 4}
    MaxCalls = 3
INVARIANTS
    TypeOK
    TimestampsIncrease
PROPERTIES
    AtomicClamp
    CallsReturn
CHECK_DEADLOCK FALSE
