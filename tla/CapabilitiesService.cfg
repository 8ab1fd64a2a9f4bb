CONSTANTS
  PolicyFiles <- MCPolicyFiles
  PrincipalTypes <- MCPrincipalTypes
  ProfileIds <- MCProfileIds
  MaxBlocks = 2
  MaxGrantsPerBlock = 3
  MaxAssignments = 2
  MaxBootEvents = 4
  BlockSpan = 10
  MaxRecords = 6
  MaxGrants = 7
  MaxEvents = 11
  IdSpan = 4
  InstalledImages = {"LOGIN", "STRING"}
  LinkedImages = {}
  Builtins = {"HELP", "STATUS"}
  ConsoleLines <- MCConsoleLines
  SlotCount = 2
  Clients = {"shell", "login"}
  ConnectRequests <- MCConnectRequests
  AccessRequests <- MCAccessRequests
  GrantRequests <- MCGrantRequests
  TransportSpin = 2
  MaxCalls = 5
SPECIFICATION Spec
INVARIANTS
  TypeOK
  LaunchFollowsPolicy
  LedgerExplainsGrants
  AnswersFollowGrants
CHECK_DEADLOCK FALSE
