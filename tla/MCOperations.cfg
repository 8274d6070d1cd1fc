SPECIFICATION MCSpec
CONSTANTS
  Ids = {i1, i2, i3}
  Calls = {c1, c2}
  Cap <- MCCap
  MaxLate <- MCMaxLate
  Parts = {"registry", "writes"}
  None = None
  Folder = Folder
  Torn = Torn
  Original = Original
  Jobs = {1, 2}
  Places <- MCPlaces
  ServerPlaces = {"f", "e"}
  Inside <- MCInside
  FirstFiles <- MCFirstFiles
  Requests <- MCRequests
  MaxEntries = 1
  MaxMoves = 1
  MaxGrants = 2
INVARIANTS
  RegistryNamesRunningCalls
  RegistryBounded
  CancelledEarlyDoesNothing
  LateWorkIsBounded
PROPERTIES
  CancelledCallEnds
  ImplementsLease
  FilesAreReplacedWhole
CHECK_DEADLOCK FALSE
