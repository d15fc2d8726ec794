SPECIFICATION Spec
CONSTANTS
    Paths = {"a", "b"}
    NoPath = NoPath
    Times = {1, 2, 3, 4}
    IdleTimeout = 1
    Kinds = {"session_started", "file_modified", "session_stopped"}
    Confidences = {"observed", "exact"}
    Lines = {"structured", "git"}
    NoLines = NoLines
    Statuses = {"pending", "known", "unknown"}
    NoStatus = NoStatus
    NoSession = NoSession
    Failed = Failed
    SessionIds = {"s"}
    Feed <- SessionFeed
    NoFocus = NoFocus
    MaxLoads = 1
    JournalCapacity = 2
    GitLines = {"git"}
INVARIANT ReplayRestoresWork
CHECK_DEADLOCK FALSE
