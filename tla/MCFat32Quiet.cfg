SPECIFICATION Spec
CONSTANTS
  SlotsPerCluster = 2
  LastCluster = 5
  FatEntries = 7
  EntriesPerSector = 4
  MaxDepth = 3
  MaxSize = 6
  FaultKinds = {}
  MaxFaults = 0
  a = a
  b = b
  ShortNames <- MCShortNames
  Paths <- MCPaths
  Moves <- MCMoves
  Inputs <- MCInputs
INVARIANTS
  ListingMatchesLookup
PROPERTIES
  OkLosesNothing
  StoreSpec
CHECK_DEADLOCK FALSE
