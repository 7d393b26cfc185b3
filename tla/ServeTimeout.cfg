SPECIFICATION Spec
CONSTANTS
    Cpus = {cpu0}
    RING_SLOTS = 1
    CHANNEL_CAPACITY = 1
    MaxRecords = 2
    SHUTDOWN_DRAIN_TIMEOUT = 1
    MaxOpen = 1
INVARIANTS
    LeavesOnlyAfterSignal
CHECK_DEADLOCK FALSE
