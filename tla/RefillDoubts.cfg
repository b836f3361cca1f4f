SPECIFICATION Spec
CONSTANTS
    p1 = p1
    p2 = p2
    Players = {p1, p2}
    Matches = {1, 2, 3}
    Lobby <- ChainLobby
    Seeds = {p1}
    Recent = {3}
    Cap = 2
    Streak = 2
    MaxAttempts = 2
    NoTick = NoTick
    MaxOrders = 2
    MaxFaults = 1
PROPERTIES SaturatedMeansExhausted
CHECK_DEADLOCK FALSE
