SPECIFICATION Spec
CONSTANTS
    None = None
    Users = {u1, u2}
    Emojis = {e1, e2}
    Keys = {k1}
    Texts = {x1}
    Handlers = {h1, h2}
    PinLimit = 1
    PageSize = 2
    Second = 3
    MaxTime = 2
    MaxMessages = 4
    MaxStarts = 3
SYMMETRY Symmetry
INVARIANTS
    TypeOK
    PinsAreShown
    OnlyTiesAreSkipped
PROPERTIES
    ImplementsBoard
CHECK_DEADLOCK FALSE
