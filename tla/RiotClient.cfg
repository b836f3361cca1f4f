SPECIFICATION FairClientSpec
CONSTANTS
    Calls = {"a", "b", "c"}
    Lists = {}
    Procs = {"p", "q"}
    At <- MCAt
    Buckets = {"match"}
    Capacity = 1
    MaxWait = 1
    KeyTTL = 2
    RetryAfters = {3}
    DefaultPenalty = 1
    MaxRetries = 1
    Threshold = 1
    Window = 1
    Cooldown = 1
    LeaseTTL = 2
    FollowerTimeout = 1
    CacheTTL = 1
    NoCall = NoCall
    NoHeader = NoHeader
    MaxMishaps = 1
CHECK_DEADLOCK FALSE
INVARIANT PenaltyHolds
INVARIANT OneLeader
PROPERTY CallsEnd
