SPECIFICATION Spec
CONSTANTS
    Paths = {a, b}
    NoPath = NoPath
    Times = {1, 3}
    IdleTimeout = 1
    Kinds = {"session_started", "session_stopped", "file_modified"}
    Confidences = {"observed"}
    Lines = {}
    NoLines = NoLines
    Statuses = {}
    NoStatus = NoStatus
    SessionIds = {s, t}
    NoSession = NoSession
    MaxIntervals = 3
    Unreadable = Unreadable
    MaxStarts = 3
    MaxPublished = 3
    MaxGenerations = 2
INVARIANTS TypeOK StaleSessionsAreClosed EvidenceIsKept
PROPERTY RecoveryKeepsTrail
CHECK_DEADLOCK FALSE
