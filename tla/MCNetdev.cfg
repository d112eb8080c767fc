SPECIFICATION Spec
CONSTANTS
  Bss <- MCBss
  Ifidx <- MCIfidx
  Ifs <- MCIfs
  MaxFrames = 1
  MaxDrift = 2
  Traffic <- MCTraffic
INVARIANTS
  FaultsHaveCause
  MapAgrees
  QueueHonoursReasons
  NoStrandedQueue
  PendCountsFrames
  DetachFreesAll
CHECK_DEADLOCK FALSE
