SPECIFICATION Spec
CONSTANTS
    Basename <- MCBasename
    ToLower <- MCToLower
    NormalizePath <- MCNormalizePath
    GlobMatches <- MCMatches
    DestinationMatches <- MCMatches
    TICKS_PER_SEC = 1
    U64_MAX = 3
    NS_PER_SEC = 2
    Drain = drain
    Handlers = {h1}
    Events <- MCEvents
    RuleSets <- MCRuleSets
    InitialRules <- Strict
    EVENT_CAP = 1
    VIOLATION_CAP = 1
    LATENCY_SAMPLE_CAP = 2
    WallReadings = {0}
    MaxEvents = 2
    MaxBatch = 2
    MaxTick = 1
INVARIANTS
    TypeOK
    CountersAgree
    BooksBalance
    RulesWereInForce
    SeqsNeverReused
    RingsHoldNewest
    AlertsMatchPolicy
    StreamInOrder
    ProcessesRecordExecs
PROPERTIES
    ImplementsTrail
