SPECIFICATION FairRollupSpec
CONSTANTS
    Rows <- MCRows
    Prismatic = {9}
    LastSeason = 1
    MaxDay = 2
    Window = 1
    WriteFloor = 1
    ReadFloor = 1
    RecordFloor = 2
    Catalogue <- MCCatalogue
    TableFloor = 2
    Pool = 2
    Shown = 1
    Week = 1
    Followed = {{"daily", "picks"}}
    OnTime = TRUE
    MaxFaults = 0
    MaxStep = 0
PROPERTIES
    SharesSettle
CHECK_DEADLOCK FALSE
