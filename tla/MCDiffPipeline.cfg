SPECIFICATION Spec
CONSTANTS
    Offerers = {o1, o2}
    Requests <- MCRequests
    Capacity = 1
    BatchSize = 3
    MaxRecent = 2
    NoRequest = NoRequest
INVARIANTS TypeOK PendingIsInFlight WorkIsUnique
PROPERTIES ImplementsService CloseCompletes
CHECK_DEADLOCK FALSE
