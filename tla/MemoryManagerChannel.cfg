SPECIFICATION FairSpec
CONSTANTS
  SlotCount = 2
  Boot = "boot"
  Loop = "loop"
  Workers = {"creator"}
  Operations = {"claim frames", "create address space", "query mapping"}
  FrameOperations = {"claim frames"}
  LocalOperations = {"query mapping"}
  CapabilitiesLinked = FALSE
  StepBudget = 2
  IdCount = 4
INVARIANTS
  TypeOK
  MailboxesDrained
  ServiceTakesRequests
PROPERTIES
  KeepsContract
  EveryCallReturns
CHECK_DEADLOCK FALSE
