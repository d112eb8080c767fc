SPECIFICATION Spec
CONSTANTS
  Scale = 4
  N = 3
  Vectors = 0
  Programs <- MCPrograms
  Node <- MCNode
  Deepest <- MCDeepest
INVARIANTS
  EnclosingIsRight
  EveryCallIsFound
  WritersAreFound
  VerdictsAreRight
  WalkIsSound
CHECK_DEADLOCK FALSE
