SPECIFICATION Spec
CONSTANTS
  Size = 3
  Sparse = {3}
  MaxWrites = 2
  MaxRuns = 2
INVARIANTS
  TypeOK
  ExportIsComplete
  OutputIsWellFormed
  UnfinishedJsonIsInvalid
PROPERTIES
  FailedScanLeavesNothing
CHECK_DEADLOCK FALSE
