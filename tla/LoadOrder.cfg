SPECIFICATION FairSpec
CONSTANTS
  Keys = {"k1", "k2", "k3"}
  MaxRows = 6
  BadRows = 0
  Files <- MCFiles
  MaxBatch = 3
  ServiceLimit = 3
  MaxAttempts = 2
  Late = FALSE
INVARIANTS
  LastRowWins
PROPERTIES
  ImplementsKeyedLoad
  Terminates
CHECK_DEADLOCK FALSE
