SPECIFICATION Spec
CONSTANTS
  SlotsPerCluster = 2
  LastCluster = 5
  FatEntries = 6
  EntriesPerSector = 4
  MaxDepth = 3
  MaxSize = 3
  FaultKinds = {"crash", "read", "write"}
  MaxFaults = 2
  a = a
  b = b
  ShortNames <- MCShortNames
  Paths <- FewPaths
  Moves <- FewMoves
  Inputs <- MCInputs
INVARIANTS
  VolumeSound
  BackupLags
  CrashAtomic
PROPERTIES
  FaultContained
CONSTRAINTS NotTorn OneFaultyCall
CHECK_DEADLOCK FALSE
