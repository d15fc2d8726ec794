SPECIFICATION EngineSpec
CONSTANTS
    Paths = {a, b}
    NoPath = NoPath
    Times = {1, 2, 4}
    IdleTimeout = 2
    Kinds = {"session_started", "session_stopped", "file_created", "file_read",
             "file_renamed", "activity"}
    Confidences = {"observed", "exact"}
    Lines = {}
    NoLines = NoLines
    Statuses = {known}
    NoStatus = NoStatus
    SessionIds = {s1}
    NoSession = NoSession
    MaxIntervals = 2
INVARIANTS TableOK TrailsOrdered FocusFollowsTrail
PROPERTIES HistoryIsKept FocusNeverRollsBack
SYMMETRY PathSymmetry
