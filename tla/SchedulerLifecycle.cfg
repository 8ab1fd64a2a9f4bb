SPECIFICATION FairSpec
CONSTANTS
  MaxTasks = 3
  MaxProcesses = 3
  BootCount = 2
  Creator = 1
  s1 = s1
  s2 = s2
  s3 = s3
  Spaces <- ThreeSpaces
INVARIANTS
  TypeOK
  CountsAgree
  SpacesAccountedFor
  OneTransientProcess
  AddressSpaceFollowsThread
  StacksAccountedFor
PROPERTIES
  DestroyedSpaceIsUnused
  LifecycleCompletes
