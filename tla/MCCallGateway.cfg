SPECIFICATION Spec
CONSTANTS
    Users = {u1, u2}
    Sockets = {k1, k2, k3}
    Calls = {c1, c2}
    HangUps = {h1}
    None = None
    u1 = u1
    u2 = u2
    k1 = k1
    k2 = k2
    k3 = k3
    Owner <- MCOwner
INVARIANTS
    TypeOK
    OnlineSocketIsOpen
    AbandonedCallsAreCleanedUp
    RecordsMatchMap
PROPERTIES
    PeerLossEndsCall
CHECK_DEADLOCK FALSE
