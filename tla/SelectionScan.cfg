SPECIFICATION Spec
CONSTANTS
  MaxTasks = 4
  IdleTask = 0
  UserTasks <- MCUserTasks
  Priority <- MCPriority
  AgingInterval = 2
  MaxAgingBoost = 3
  WakeBoostAge = 2
  WaitCap = 8
  Waits <- MCWaits
  Sleeps <- MCSleeps
  MaxTicks = 2
INVARIANTS
  QuietScanFollowsPolicy
  WakePreferenceHonoured
  InversionBoundedByTicks
