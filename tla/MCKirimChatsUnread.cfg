SPECIFICATION ChatsSpec
CONSTANTS
    Call = {k1}
    MaxItems = 3
    MaxRevision = 2
INVARIANT UnreadKept
CHECK_DEADLOCK FALSE
