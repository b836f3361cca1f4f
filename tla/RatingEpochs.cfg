SPECIFICATION Spec
CONSTANTS
    Params <- MCParams
    Earlier <- MCEarlier
    Premade <- MCPremade
    Units = 10
    PLDelta <- MCSteep
    PLSigma <- MCSettled
    Players = {"a", "b", "c"}
    Listed <- MCListed
    Absent = Absent
    Null = Null
    Cutoff = 10
    None = None
    ChampionOf <- MCChampions
    PageSize = 2
    HotDelta = 5
    MaxMatches = 3
    MaxFailures = 1
INVARIANT ClearedWasNotBound
CHECK_DEADLOCK FALSE
