SPECIFICATION FairSpec
CONSTANTS
  MaxTasks = 4
  IdleTask = 0
  UserTasks <- NoUserTasks
  Priority <- MCPriority
  AgingInterval = 2
  MaxAgingBoost = 2
  WakeBoostAge = 0
  WaitCap = 4
  BootTasks <- MCBootTasks
  Creator = 1
  SleepLengths <- MCSleepLengths
  ExitingTasks <- MCExitingTasks
  QuantumTicks = 2
  MaxStayTicks = 1
  Windows <- NoWindows
PROPERTIES
  HeartbeatContinues
  NobodyStarves
