SPECIFICATION RollupSpec
CONSTANTS
    Rows <- MCRows
    Prismatic = {9}
    LastSeason = 2
    MaxDay = 0
    Window = 1
    WriteFloor = 1
    ReadFloor = 1
    RecordFloor = 2
    Catalogue <- MCCatalogue
    TableFloor = 2
    Pool = 2
    Shown = 1
    Week = 1
    Followed = {{}}
    OnTime = FALSE
    MaxFaults = 0
    MaxStep = 1
INVARIANTS
    RatedSeasonKeepsItsSnapshots
CHECK_DEADLOCK FALSE
