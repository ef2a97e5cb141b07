\* The bootstrap admin and one SSO user, two requests at a time; one grant and
\* two token pairs.
SPECIFICATION AccessSpec
CONSTANTS
    Users = {root, x}
    Local = {root}
    Root = root
    Passwords = {p, q}
    Workers = {w1, w2}
    Sessions = {s1, s2}
    Absent = Absent
    NoHash = NoHash
    Dead = Dead
    Handlers = {h1, h2}
    Tokens = {t1, t2, t3, t4}
    NoToken = NoToken
SYMMETRY Symmetry
CHECK_DEADLOCK FALSE
INVARIANTS
    RotationReported
    NoOrphanGrants
    CodeIssuesOnce
    DisconnectIsFinal
    OnePair
PROPERTIES
    LastAdminStays
