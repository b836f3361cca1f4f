SPECIFICATION Spec
CONSTANTS
    Params <- MCParams
    Earlier <- MCEarlier
    Premade <- MCPremade
    Units = 10
    PLDelta <- MCDelta
    PLSigma <- MCSigma
    Players = {"a", "b", "c"}
    Listed <- MCListed
    Absent = Absent
    Null = Null
    Cutoff = 10
    None = None
    ChampionOf <- MCChampions
    PageSize = 2
    HotDelta = 5
    MaxMatches = 3
    MaxFailures = 1
INVARIANT ProfileShowsTheBoardsCr
CHECK_DEADLOCK FALSE
