SPECIFICATION Spec
CONSTANTS
    Paths = {"a", "b"}
    NoPath = NoPath
    Times = {1, 2, 3}
    IdleTimeout = 1
    Kinds = {"session_started", "file_modified", "session_stopped"}
    Confidences = {"observed", "exact"}
    Lines = {"structured", "git"}
    NoLines = NoLines
    Statuses = {"pending", "known", "unknown"}
    NoStatus = NoStatus
    NoSession = NoSession
    Failed = Failed
    SessionIds = {"s", "t"}
    Feed <- ReloadFeed
    NoFocus = NoFocus
    MaxLoads = 2
    JournalCapacity = 0
    GitLines = {"git"}
INVARIANTS FocusIsCurrent PendingHasRequest
PROPERTIES PendingSettles
CHECK_DEADLOCK FALSE
