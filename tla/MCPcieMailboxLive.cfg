CONSTANTS
  SharedLine = TRUE
  SlowDevice = FALSE
  OldPcieCore = TRUE
  HostRdy = TRUE
  FwDoes = {"sleep", "halt"}
SPECIFICATION FairSpec
PROPERTIES
  RequestServed
  SleepAnswered
  SuspendEnds
  CrashLeadsToReset
