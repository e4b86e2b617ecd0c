SPECIFICATION Spec
CONSTANTS
  Procs = {p1}
  Names = {"a", "b"}
  Regions = {"r1"}
  DefaultRegion = "r1"
  None = "none"
  MaxGen = 1
  MaxRuns = 1
  MaxCommands = 2
SYMMETRY Symmetry
INVARIANTS
  UsedTableIsKnown

CHECK_DEADLOCK FALSE
