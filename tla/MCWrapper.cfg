SPECIFICATION Spec
CONSTANTS
  Keys = {a, b, c, n}
  Keyless = {n}
  TapQueue = 1
  GateQueue = 1
  GateCapacity = 2
  DeliveryQueue = 1
  MaxEvents = 1
  MaxActivity = 3
  MaxSaid = 3
INVARIANTS TypeOK TeardownDelivers NeverSpliced
SYMMETRY KeySymmetry
CHECK_DEADLOCK FALSE
