SPECIFICATION Spec
CONSTANTS
  Projects = {p}
  NoProject = NoProject
  Paths = {a, b, c}
  StartTree = {a}
  MaxOperations = 4
  MaxPages = 2
INVARIANTS TypeOK IdsAreShared QuietViewIsCurrent
CHECK_DEADLOCK FALSE
