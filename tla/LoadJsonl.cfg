SPECIFICATION Spec
CONSTANTS
  Keys = {"k1"}
  MaxRows = 3
  BadRows = 1
  Files <- MCFiles
  MaxBatch = 2
  ServiceLimit = 2
  MaxAttempts = 2
  Late = FALSE
INVARIANTS
  EveryValidLineImported
CHECK_DEADLOCK FALSE
