SPECIFICATION Spec
CONSTANTS
    None = None
    Users = {u1, u2, u3}
    Handlers = {h1, h2}
    Limits = {2, 3}
    MaxStarts = 4
SYMMETRY Symmetry
INVARIANTS
    TypeOK
    Owned
CHECK_DEADLOCK FALSE
