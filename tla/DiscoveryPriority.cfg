SPECIFICATION Spec
CONSTANTS
    Players = {1, 2}
    N = 2
    Lobby <- MCLobby
    Tracked0 = {2}
    Seeds = {1}
    Newest = 1
    SweepBatch = 1
    ScanBatch = 1
    ScanCap = 2
    HighWater = 3
    PollHigh = 2
    PollLow = 1
    SkipDedup = TRUE
    MaxMisses = 1
    Recency = 0
    GapThreshold = 1
    MaxGap = 9
    NoWindow = NoWindow
    AtOnce = 1
    MaxFaults = 0
CHECK_DEADLOCK FALSE
PROPERTY PriorityIsNotBuried
