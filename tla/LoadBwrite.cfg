SPECIFICATION Spec
CONSTANTS
  Keys = {"k1", "k2"}
  MaxRows = 2
  BadRows = 0
  Files <- MCFiles
  MaxBatch = 2
  ServiceLimit = 2
  MaxAttempts = 2
  Late = FALSE
INVARIANTS
  BwriteExecutesAll
CHECK_DEADLOCK FALSE
