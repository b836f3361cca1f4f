\* One crash or cancellation, and no failing Redis command: is the redelivered
\* job skipped although nobody rated the match?
SPECIFICATION Spec
CONSTANTS
    Players <- MCPlayers
    Matches <- MCMatches
    Roster <- MCRoster
    Frozen <- MCFrozen
    MatchOf <- MCMatchOf
    Discoveries = {"a1", "b1"}
    Requeues = {}
    Drains = {}
    Free = Free
    Orphan = Orphan
    MaxTries = 2
    MaxInterrupts = 1
    MaxFaults = 0
INVARIANTS NoFalseAlreadyDone
CHECK_DEADLOCK FALSE
