CONSTANTS
  None = None
  Exact = 4
  MaxI64 = 6
  MaxU64 = 8
  Commands <- AdminMenu
  Worlds <- Beginnings
  Units = {1, 3}
  DefaultUnits = 5
  MaxAttempts = 2
  MaxOthers = 2
  MaxTime = 1
  Scripts <- AllScripts
  Clap <- MCClap
  ToPlain <- JsonItems
  FromPlain <- FromJsonItems
  Unreadable <- Panics
  ToRaw <- TypedItems
  FromRaw <- FromTypedItems
  Allowed <- Valid
SPECIFICATION Spec
INVARIANTS
  TypeOK
  TypedIsStored
  SettingsAreOwn
  CopiesKeepItems
  CounterCounts
PROPERTIES
  
  RestoresWhatWasNamed
  ImplementsTableAdmin
CHECK_DEADLOCK FALSE
