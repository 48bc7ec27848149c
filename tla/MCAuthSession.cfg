SPECIFICATION Spec
CONSTANTS
    Requests = {r1, r2, r3}
    MaxTime = 2
    MaxHash = 1
    None = None
SYMMETRY Symmetry
INVARIANTS
    TypeOK
    PlatformSeparation
    NoOrphanSession
    ConflictAfterStore
PROPERTIES
    NoResurrection
CHECK_DEADLOCK FALSE
