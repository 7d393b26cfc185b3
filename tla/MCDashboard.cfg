SPECIFICATION DashSpec
CONSTANTS
    Basename <- MCIdentity
    ToLower <- MCIdentity
    NormalizePath <- MCIdentity
    GlobMatches <- MCMatches
    DestinationMatches <- MCMatches
    TICKS_PER_SEC = 1
    U64_MAX = 6
    NS_PER_SEC = 2
    Drain = drain
    Handlers = {}
    Events <- MCOneExec
    RuleSets <- MCRuleSets
    InitialRules <- MCRules
    EVENT_CAP = 2
    VIOLATION_CAP = 2
    LATENCY_SAMPLE_CAP = 2
    WallReadings = {0}
    MaxEvents = 2
    MaxBatch = 1
    MaxTick = 0
    PageLimit = 1
    STREAM_CAPACITY = 1
    PAGE_EVENT_CAP = 2
    FEED_LIMIT = 1
    Polls = {p1, p2}
INVARIANTS
    EventsAscend
PROPERTIES
    FeedSettlesOnNewest
