SPECIFICATION ConnSpec
CONSTANTS
    Sessions = {s1}
    Sockets = {c1, c2, c3}
    Calls = {h1, h2}
    Users = {u1, u2}
    NoSession = NoSession
    NoSocket = NoSocket
    NoUser = NoUser
SYMMETRY MCSymmetry
CHECK_DEADLOCK FALSE
INVARIANTS
    ConnSafe
PROPERTIES
    LegalUntilEnded
