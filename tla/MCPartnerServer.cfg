SPECIFICATION Spec
CONSTANTS
  Calls = {1, 2}
  Requests <- MCRequests
  Files = {"notes.md", "wl.ko"}
  Blocked = {"wl.ko"}
  MaxEdits = 2
INVARIANTS
  PromptsAreClean
  TreeChangesAsAsked
PROPERTY RequestServed
CHECK_DEADLOCK FALSE
