SPECIFICATION TournamentSpec
CONSTANTS
    Spellings = {"ana", "ANA", "bia"}
    Canonical <- MCCanonical
    NumTeams = 2
    NumMatches = 2
    Size = 2
    Sheets <- MCSheets
    Fines <- MCFines
    Callers = {r1, r2}
    Readers = {d}
    MaxCalls = 3
    Ttl = 1
    Nobody = Nobody
    Empty = Empty
    NoSheet = NoSheet
    NoPage = NoPage
INVARIANTS
    StandingsFollowTheRules
