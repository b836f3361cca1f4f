SPECIFICATION ClientSpec
CONSTANTS
    Calls = {"a", "b"}
    Lists = {"a", "b"}
    Procs = {"p", "q"}
    At <- MCAt
    Buckets = {"ids"}
    Capacity = 2
    MaxWait = 1
    KeyTTL = 2
    RetryAfters = {1, 4}
    DefaultPenalty = 1
    MaxRetries = 0
    Threshold = 3
    Window = 1
    Cooldown = 1
    LeaseTTL = 2
    FollowerTimeout = 1
    CacheTTL = 1
    NoCall = NoCall
    NoHeader = NoHeader
    MaxMishaps = 2
CHECK_DEADLOCK FALSE
INVARIANT KeyOutlivesPenalty
