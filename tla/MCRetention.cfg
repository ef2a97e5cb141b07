\* Two projects with a window of a day, and no failing call.
SPECIFICATION MCRetentionSpec
CONSTANTS
    Ids <- MCIds
    Reserved = {}
    Admins = {}
    GlobalDays = 0
    Windows = {1}
    TrimTables <- MCTrimTables
    MaxFields = 1
    Copies = 1
    MaxAge = 2
    StoreFails = FALSE
CHECK_DEADLOCK FALSE
PROPERTIES
    WindowsKept
