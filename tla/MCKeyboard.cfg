CONSTANTS
  Keys <- MCKeys
  Layouts <- MCLayouts
  Capitals <- MCCapitals
  None = None
  MaxHeld = 2
  MaxQueue = 4
  MaxCodes = 2
SPECIFICATION Spec
INVARIANT KeysAsMeant
