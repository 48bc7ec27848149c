SPECIFICATION GatewaySpec
CONSTANTS
    Users = {u1, u2, u3}
    Sockets = {k1, k2, k3, k4}
    Calls = {}
    HangUps = {}
    GroupCalls = {g1}
    GroupClosers = {h1, h2}
    None = None
    u1 = u1
    u2 = u2
    u3 = u3
    k1 = k1
    k2 = k2
    k3 = k3
    k4 = k4
    Owner <- MCOwner
INVARIANTS
    GroupTypeOK
    ActiveMeansPopulated
    ClosedOnce
    GroupRecordsMatchMap
    CompletedCallIsOver
PROPERTIES
    MessageIsCompleted
CHECK_DEADLOCK FALSE
