\* Three matches and a replay that may fail half-way.
SPECIFICATION Spec
CONSTANTS
    Players <- MCPlayers
    Roster <- MCRoster
    PlayedAt <- MCPlayedAt
    Matches = {"at1", "at2", "at4"}
    None = None
    Tolerance = 2
    MaxWindow = 3
    MaxFullReplays = 0
    MaxInterrupts = 1
INVARIANTS NothingStaysWiped
CHECK_DEADLOCK FALSE
