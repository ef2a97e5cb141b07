\* Every mode: one key, provisioned by the chart or minted, revoked and moved
\* between two projects, two concurrent workers.
SPECIFICATION Spec
CONSTANTS
    k1 = k1
    p1 = p1
    p2 = p2
    r1 = r1
    r2 = r2
    Keys = {k1}
    Projects = {p1, p2}
    Claims = {p1}
    Modes = {"off", "log", "enforce"}
    Requests = {r1, r2}
    CacheTTL = 1
    StaleGrace = 3
    Timeout = 1
    MaxClock = 3
    Invalid = Invalid
    NoKey = NoKey
    NoEntry = NoEntry
    NoTenant = NoTenant
SYMMETRY MCSymmetry
INVARIANTS
    EnforcedVerdictRecent
    GraceHonoured
    DropInSafe
