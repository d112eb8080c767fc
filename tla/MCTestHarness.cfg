CONSTANTS
  Levels = {1, 2, 3, 4, 5}
  MaxLoads = 3
  SharedLine = TRUE
SPECIFICATION Spec
CHECK_DEADLOCK FALSE
INVARIANTS
  DmaNeedsLevel5
  UnloadIsClean
  RunsWhatWasLoaded
