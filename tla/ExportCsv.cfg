SPECIFICATION Spec
CONSTANTS
  Size = 2
  Sparse = {}
  MaxWrites = 0
  MaxRuns = 1
INVARIANTS
  PagesMakeCsv
CHECK_DEADLOCK FALSE
