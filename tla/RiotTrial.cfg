SPECIFICATION ClientSpec
CONSTANTS
    Calls = {"a", "b", "c"}
    Lists = {"b"}
    Procs = {"p", "q"}
    At <- MCAt
    Buckets = {"ids", "match"}
    Capacity = 1
    MaxWait = 1
    KeyTTL = 3
    RetryAfters = {2}
    DefaultPenalty = 1
    MaxRetries = 1
    Threshold = 1
    Window = 1
    Cooldown = 1
    LeaseTTL = 2
    FollowerTimeout = 1
    CacheTTL = 1
    NoCall = NoCall
    NoHeader = NoHeader
    MaxMishaps = 2
CHECK_DEADLOCK FALSE
INVARIANT OneTrial
