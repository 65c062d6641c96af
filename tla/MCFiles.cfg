SPECIFICATION Spec
CONSTANTS
  Inputs <- UserInputs
  InputPairs <- UserPairs
  SavePaths <- UserSaves
  Texts <- UserTexts
  Settings <- SettingLines
  Defaults <- DefaultLines
  MaxEntries = 1
  MaxDepth = 2
  MaxNodes = 2
  MaxFaults = 2
INVARIANTS
  CwdStands
PROPERTIES
  HitsItsTarget
  CopyFaithful
  BootSound
CHECK_DEADLOCK FALSE
