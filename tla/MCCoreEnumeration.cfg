SPECIFICATION Spec
CONSTANTS
  Roms <- MCRoms
  Size = 20
  MaxMoves = 1
INVARIANTS
  WindowGivenBack
  CoresAreRight
PROPERTY ScriptEnds
CHECK_DEADLOCK FALSE
