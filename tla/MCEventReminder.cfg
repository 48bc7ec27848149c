SPECIFICATION Spec
CONSTANTS
    None = None
    Events = {e1, e2}
    Handlers = {h1}
    Starts = {2, 3}
    Notices = {1, 2}
    BatchSize = 1
    MaxTime = 3
    MaxScans = 2
    MaxStarts = 1
INVARIANTS
    TypeOK
    RemindedOnce
PROPERTIES
    EventuallyReminded
CHECK_DEADLOCK FALSE
