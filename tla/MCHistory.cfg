CONSTANTS
  x = x
  y = y
  Chars <- MCChars
  NL = NL
  HISTORY_LIMIT = 2
  BUFFER_SIZE = 3
  MaxFile = 6
  MaxFaults = 2
SPECIFICATION Spec
SYMMETRY MCSymmetry
INVARIANTS TypeOK DraftReturns ReloadMatches SavedSurvives
