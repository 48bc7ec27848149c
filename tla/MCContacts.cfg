SPECIFICATION Spec
CONSTANTS
    None = None
    Users = {u1, u2}
    Handlers = {h1, h2}
    Requests = {q1, q2}
    Convs = {c1, c2}
    MaxStarts = 4
SYMMETRY Symmetry
INVARIANTS
    TypeOK
    BlockStands
    NoTextUnderBlock
    OneConversation
CHECK_DEADLOCK FALSE
