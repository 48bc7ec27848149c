SPECIFICATION Spec
CONSTANTS
    None = None
    Users = {u1, u2}
    Handlers = {h1}
    Requests = {}
    Invites = {i1}
    Limit = 2
    CoAdminLimit = 1
    MaxStarts = 2
INVARIANT AcceptedInviteCanChat
CHECK_DEADLOCK FALSE
