SPECIFICATION Spec
CONSTANTS
    Requests = {r1, r2}
    MaxTime = 1
    MaxHash = 1
    None = None
INVARIANTS
    ConflictFindsNewToken
CHECK_DEADLOCK FALSE
