\* Two hubs, one of which fails between DROP VIEW and CREATE.
SPECIFICATION SchemaSpec
CONSTANTS
    Hubs = {"h1", "h2"}
    Jobs = {}
    Versions = {1, 6, 23}
    Statements <- MCStatements
    Expected <- MCExpected
    Objects = {"traces", "errors", "view"}
    Views = {"view"}
    BaseOf <- MCBaseOf
    Defs = {"old", "new"}
    Absent = "absent"
    AutoMigrate = TRUE
    Faults = TRUE
    MaxApply = 1
CHECK_DEADLOCK FALSE
INVARIANTS
    SettlesRight
