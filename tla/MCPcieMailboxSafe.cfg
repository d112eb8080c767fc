CONSTANTS
  SharedLine = TRUE
  SlowDevice = TRUE
  OldPcieCore = FALSE
  HostRdy = FALSE
  FwDoes = {"sleep", "halt", "complete"}
SPECIFICATION Spec
PROPERTY KeepsHandshake
INVARIANTS
  TypeOK
  MailboxNeverStranded
  MaskHasOwner
  AsleepAndQuiet
  CompletionsAccounted
  SuspendIsAllOrNothing
