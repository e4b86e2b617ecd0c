SPECIFICATION FairSpec
CONSTANTS
  Samples <- MCSamples
  MaxTables = 3
  MaxBatch = 2
  ServiceLimit = 2
  MaxRuns = 2
  MaxDeletes = 1
INVARIANTS
  TypeOK
  LoadedWhenDone
  UndisturbedSucceeds
  ReadyBeforeLoad
PROPERTIES
  Ends
CHECK_DEADLOCK FALSE
