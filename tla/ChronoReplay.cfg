\* Four matches in any order of arrival, incremental and whole-season replays,
\* one failure; the armed floor is consumed all the same.
SPECIFICATION FairSpec
CONSTANTS
    Players <- MCPlayers
    Roster <- MCRoster
    PlayedAt <- MCPlayedAt
    Matches = {"at1", "at2", "at4", "at5"}
    None = None
    Tolerance = 2
    MaxWindow = 4
    MaxFullReplays = 1
    MaxInterrupts = 1
INVARIANTS ReplayRestoresOrder RewindIsExact
PROPERTIES FloorIsConsumed
CHECK_DEADLOCK FALSE
