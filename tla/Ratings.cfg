\* Three matches out of eight kinds of payload, one failing commit, replays from any
\* match: zero floor, caps, minimum gain and dampener all come to bear.
SPECIFICATION Spec
CONSTANTS
    Params <- MCParams
    Earlier <- MCEarlier
    Premade <- MCPremade
    Units = 10
    PLDelta <- MCDelta
    PLSigma <- MCSigma
    Players = {"a", "b", "c"}
    Listed <- MCListed
    Absent = Absent
    Null = Null
    Cutoff = 10
    None = None
    ChampionOf <- MCChampions
    PageSize = 2
    HotDelta = 5
    MaxMatches = 3
    MaxFailures = 1
INVARIANTS GoodPlacementsPay CountersAgreeWithRows
    RatedAsPlayed ExplanationCloses LedgersAddUp StrangersAreNotDampened
    PagesTellOneStory
CHECK_DEADLOCK FALSE
