\* Two workers with crossing lobbies: batches interleave, keys expire at any
\* moment, workers die, one release pipeline may fail.
SPECIFICATION FairSpec
CONSTANTS
    Players <- ThreePlayers
    Lobbies <- CrossingLobbies
    Workers = {w1, w2}
    Orphan = Orphan
    Free = Free
    MaxBackoffs = 1
    MaxFaults = 1
INVARIANT CriticalExclusion
PROPERTIES OnlyExpiryTakesALock ImplementsMutex Resolves
