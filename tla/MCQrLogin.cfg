SPECIFICATION Spec
CONSTANTS
    Sessions = {s1, s2}
    Users = {u1, u2}
    Requests = {r1, r2}
    Lifetime = 1
    MaxTime = 2
    None = None
INVARIANTS
    TypeOK
    MapsAgree
    LoginIsConfirmed
PROPERTIES
    ImplementsTickets
    BrowserGetsAnswer
CHECK_DEADLOCK FALSE
