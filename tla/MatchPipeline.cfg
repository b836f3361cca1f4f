\* Discovery jobs, an operator's requeue and the drain of the backlog over two
\* overlapping matches: duplicates, one crash, cancellation or lost
\* acknowledgement, one failing Redis command.
SPECIFICATION Spec
CONSTANTS
    Players <- MCPlayers
    Matches <- MCMatches
    Roster <- MCRoster
    Frozen <- MCFrozen
    MatchOf <- MCMatchOf
    Discoveries = {"a1", "b1"}
    Requeues = {"a2"}
    Drains = {d1}
    Free = Free
    Orphan = Orphan
    MaxTries = 1
    MaxInterrupts = 1
    MaxFaults = 1
INVARIANTS RestorePoints NoRowDeadlock FailuresLoseNothing
PROPERTIES ImplementsLadder StagedUntilRated
CHECK_DEADLOCK FALSE
