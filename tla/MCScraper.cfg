SPECIFICATION ScraperSpec
CONSTANTS
    Basename <- MCIdentity
    ToLower <- MCIdentity
    NormalizePath <- MCIdentity
    GlobMatches <- MCMatches
    DestinationMatches <- MCMatches
    TICKS_PER_SEC = 1
    U64_MAX = 6
    NS_PER_SEC = 2
    Drain = drain
    Handlers = {}
    Events <- MCEvents
    RuleSets <- MCRuleSets
    InitialRules <- MCRules
    EVENT_CAP = 2
    VIOLATION_CAP = 2
    LATENCY_SAMPLE_CAP = 2
    WallReadings = {0}
    MaxEvents = 3
    MaxBatch = 1
    MaxTick = 0
INVARIANTS
    HistogramIsBacked
PROPERTIES
    ScrapesSettle
