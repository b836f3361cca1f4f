SPECIFICATION FairSpec
CONSTANTS
    p1 = p1
    p2 = p2
    Players = {p1, p2}
    Matches = {1, 2, 3}
    Lobby <- ChainLobby
    Seeds = {p1}
    Recent = {3}
    Cap = 2
    Streak = 2
    MaxAttempts = 2
    NoTick = NoTick
    MaxOrders = 1
    MaxFaults = 1
INVARIANTS NobodyIsForgotten ImportedIsOnItsWay
PROPERTIES ReachableIsRated RefillEnds
CHECK_DEADLOCK FALSE
