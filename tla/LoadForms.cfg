SPECIFICATION Spec
CONSTANTS
  Keys = {"k1", "k2"}
  MaxRows = 5
  BadRows = 2
  Files <- MCFiles
  MaxBatch = 2
  ServiceLimit = 2
  MaxAttempts = 2
  Late = TRUE
INVARIANTS
  TypeOK
  NothingLost
  StopsAtOneRequest
  CleanFileAccepted
  OnlyItemsWritten
  CountIsWritten
CHECK_DEADLOCK FALSE
