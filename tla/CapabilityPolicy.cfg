CONSTANTS
  PolicyFiles <- MCPolicyFiles
  PrincipalTypes <- MCPrincipalTypes
  ProfileIds <- MCProfileIds
  MaxBlocks = 8
  MaxGrantsPerBlock = 16
  MaxAssignments = 16
  MaxBootEvents = 64
  BlockSpan = 100
SPECIFICATION PolicySpec
PROPERTIES
  PolicyReachesKernel
CHECK_DEADLOCK FALSE
