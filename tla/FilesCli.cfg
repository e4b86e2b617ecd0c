SPECIFICATION Spec
CONSTANTS
  Procs = {p1, p2}
  Names = {"a"}
  Regions = {"r1", "r2"}
  DefaultRegion = "r1"
  None = "none"
  MaxGen = 2
  MaxRuns = 3
  MaxCommands = 0
SYMMETRY Symmetry
INVARIANTS
  TypeOK
  TargetIsCached
PROPERTIES
  EntriesLostByRaceOnly
CHECK_DEADLOCK FALSE
