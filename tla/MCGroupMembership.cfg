SPECIFICATION Spec
CONSTANTS
    None = None
    Users = {u1, u2, u3}
    Handlers = {h1, h2}
    Requests = {q1}
    Invites = {i1}
    Limit = 2
    CoAdminLimit = 1
    MaxStarts = 4
SYMMETRY Symmetry
INVARIANTS
    TypeOK
    ParticipantIsMember
    OneOwner
    TablesAgree
PROPERTIES
    GrowsToLimit
    DecisionIsFinal
CHECK_DEADLOCK FALSE
