SPECIFICATION Spec
CONSTANTS
    Capacity = 2
    MaxConns = 3
    Payloads <- MCPayloads
    Slots = 2
    NoEvent = NoEvent
INVARIANTS TypeOK HighValueIsKept StatsAccountForEvents HighValueInOrder ShutdownDrains
PROPERTIES TakenIsSettled ShutdownCompletes
CHECK_DEADLOCK FALSE
