SPECIFICATION Spec
CONSTANTS
  x = x
  y = y
  EntrySets <- OneEntry
  Hooks = {old, new}
  None = None
INVARIANTS UserContentIsKept CommandsComplete Recoverable
SYMMETRY Symmetry
