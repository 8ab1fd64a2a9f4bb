SPECIFICATION Spec
CONSTANTS
  MaxEntries = 7
  AddressPages = 16
  FourGigabytes = 6
  Usages <- MCUsages
  Owners = {"none", "claimed", "other"}
  Sources = {"efi", "runtime"}
  RegionTables <- MCRegionTables
  Overlays <- MCOverlays
  ClaimRequests <- MCClaimRequests
  ReserveRequests <- MCReserveRequests
  FreeRanges <- MCFreeRanges
  TrackedRequests <- MCTrackedRequests
CONSTRAINT UntilOneRanOut
INVARIANTS
  TablesStayCanonical
  DatabaseShowsGrants
  AnswersFollowGrants
  ReportsFollowGrants
PROPERTIES
  KeepsLedger
CHECK_DEADLOCK FALSE
