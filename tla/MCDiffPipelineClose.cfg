SPECIFICATION Spec
CONSTANTS
    Offerers = {o1}
    Requests <- MCRequests
    Capacity = 1
    BatchSize = 2
    MaxRecent = 2
    NoRequest = NoRequest
INVARIANT CanceledWorkIsUnknown
CHECK_DEADLOCK FALSE
