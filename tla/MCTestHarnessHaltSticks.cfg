CONSTANTS
  Levels = {1, 2, 3, 4, 5}
  MaxLoads = 2
  SharedLine = TRUE
SPECIFICATION Spec
CHECK_DEADLOCK FALSE
INVARIANT HaltSticks
