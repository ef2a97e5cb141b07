\* A watched file, edited and removed; two hubs and a migrate Job that fail and
\* crash anywhere; one account tried from two addresses; two groups
\* mapped; two admins at one overlay.
SPECIFICATION HubSpec
CONSTANTS
    Contents = {"a", "b", "bad"}
    Valid = {"a", "b"}
    NoConfig = "none"
    ReadFaults = FALSE
    MaxTime = 5
    Hubs = {"h1", "h2"}
    Jobs = {"job"}
    Versions = {1, 6, 23}
    Statements <- MCStatements
    Expected <- MCExpected
    Objects = {"traces", "errors", "view"}
    Views = {"view"}
    BaseOf <- MCBaseOf
    Defs = {"old", "new"}
    Absent = "absent"
    AutoMigrate = TRUE
    Faults = TRUE
    MaxApply = 1
    Accounts = {"a"}
    IPs = {"i", "j"}
    Logins = {"l1", "l2"}
    MaxPair = 2
    MaxIP = 3
    MaxAcct = 2
    LoginWindow = 2
    OidcGroups = {"g", "h"}
    Parsed = {"viewer"}
    Retired = {"bogus"}
    NoRule = "none"
    Authors = {"q"}
    MaxChanges = 2
    Declared <- MCDeclared
    Signals <- MCSignals
    Overlays <- MCOverlays
    NoOverlay <- MCNoOverlay
    Bases <- MCBases
    Writers = {"w1", "w2"}
    Nobody = "nobody"
    MaxWrites = 3
CHECK_DEADLOCK FALSE
INVARIANTS
    NoMissedEdit
    OpenGateHasTables
    SettlesUnlessCutShort
    GuessesBounded
    SensorsFollow
PROPERTIES
    EditTakesEffect
    GateOpens
    KeepsContract
    MappingConverges
