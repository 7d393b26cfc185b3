SPECIFICATION Spec
CONSTANTS
    Cpus = {cpu0, cpu1}
    RING_SLOTS = 2
    CHANNEL_CAPACITY = 1
    MaxRecords = 3
    SHUTDOWN_DRAIN_TIMEOUT = 1
    MaxOpen = 1
INVARIANTS
    ServeTypeOK
    DeadStaysDown
    NothingLostInTransit
    StatsAgree
PROPERTIES
    SourceDeathReported
    PipelineDeathReported
    RecordsDelivered
    ShutdownCompletes
CHECK_DEADLOCK FALSE
