CONSTANTS
  NumFrames = 10
  BlockSizes <- MCBlockSizes
  PageBytes = 4
  MaxSlabPages = 1
  MaxLarge = 5
  MetadataPages = 1
  ObjectBytes = 2
  LowHalfLimit = 16
  TableSpans <- MCTableSpans
  MaxRegions = 2
  DefaultStackBase = 7
  StackGap = 1
  Images <- MCImages
  StackRequests <- MCStackRequests
  PageRequests <- MCPageRequests
  EntryFrames = 16
  PhysicalEnd = 64
  MaxSpaces = 2
SPECIFICATION Spec
INVARIANTS
  TypeOK
  FramesAccountedFor
  
  RepeatedRequestsAnswerTheSame
  DestroyGivesBack
CHECK_DEADLOCK FALSE
