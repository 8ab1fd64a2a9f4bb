SPECIFICATION Spec
CONSTANTS
  MaxEntries = 12
  AddressPages = 16
  FourGigabytes = 6
  Usages <- MCUsages
  Owners = {"none", "claimed", "other"}
  Sources = {"efi", "runtime"}
  RegionTables <- MCRegionTables
  Overlays <- MCOverlays
  ClaimRequests <- MCClaimRequests
  ReserveRequests <- MCReserveRequests
  FreeRanges <- MCFreeRanges
  TrackedRequests <- MCTrackedRequests
INVARIANTS
  UnownedStopIsGenuine
CHECK_DEADLOCK FALSE
