\* Every route, caller and installation, with failing calls and an edit on the
\* way; two admins at work on two projects, and the trimmer on their rows.
SPECIFICATION MCApiSpec
CONSTANTS
    None = None
    A = A
    B = B
    Agg = Agg
    MaxEdits = 1
    Ids <- MCIds
    Reserved = {"d"}
    Admins = {w1, w2}
    GlobalDays = 2
    Windows = {1}
    TrimTables <- MCTrimTables
    MaxFields = 1
    Copies = 1
    MaxAge = 2
    StoreFails = TRUE
SYMMETRY Symmetry
CHECK_DEADLOCK FALSE
INVARIANTS
    ReadsWithinGrants
    OutageIsNotRefusal
    WritesEarned
    MatrixTellsTruth
    AggregatesSound
PROPERTIES
    TrimEarned
