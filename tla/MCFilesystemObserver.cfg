SPECIFICATION ObserverSpec
CONSTANTS
  Files <- MCFiles
  Dirs <- MCDirs
  Parent <- MCParent
  Root = "."
  Order <- MCOrder
  Prints = {"old", "new"}
  Fresh = "new"
  StartDisk <- MCDisk
  Staged <- MCStaged
  QueueSize = 2
  MaxPending = 3
  BatchSize = 2
  MaxChanges = 3
  MaxOverflows = 1
INVARIANTS ObserverTypeOK PictureCatchesUp
PROPERTY ChangesAreReported
CHECK_DEADLOCK FALSE
