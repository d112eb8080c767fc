CONSTANTS
  MaxProbes = 3
  Settings <- MCSettings
SPECIFICATION FairSpec
CHECK_DEADLOCK FALSE
INVARIANTS
  FaultsHaveCause
  HandlerHasItsData
  NothingLeaks
  RemoverIsSafe
PROPERTY
  FailedSetupUnbinds
