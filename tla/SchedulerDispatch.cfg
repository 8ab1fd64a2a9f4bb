SPECIFICATION Spec
CONSTANTS
  MaxTasks = 4
  IdleTask = 0
  UserTasks <- MCUserTasks
  Priority <- MCPriority
  AgingInterval = 1
  MaxAgingBoost = 1
  WakeBoostAge = 0
  WaitCap = 1
  BootTasks <- MCBootTasks
  Creator = 1
  SleepLengths <- MCSleepLengths
  ExitingTasks <- MCExitingTasks
  QuantumTicks = 2
  Windows <- AllWindows
INVARIANTS
  TypeOK
  NoStrandedTask
  SelectionNeverEmpty
  ExecutingTaskIsCurrent
  PreemptionIsPrompt
PROPERTIES
  WakesOnTime
  ServesThreads
CHECK_DEADLOCK FALSE
