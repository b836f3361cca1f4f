\* Every job ends, with one crash or cancellation on the way.
SPECIFICATION FairSpec
CONSTANTS
    Players <- MCPlayers
    Matches <- MCMatches
    Roster <- MCRoster
    Frozen <- MCFrozen
    MatchOf <- MCMatchOf
    Discoveries = {"a1", "b1"}
    Requeues = {}
    Drains = {}
    Free = Free
    Orphan = Orphan
    MaxTries = 2
    MaxInterrupts = 1
    MaxFaults = 0
PROPERTIES JobsEnd
CHECK_DEADLOCK FALSE
