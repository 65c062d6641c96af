CONSTANTS
  x = x
  y = y
  sp = sp
  slash = slash
  Space = sp
  Slash = slash
  Files <- MCFiles
  out = out
  Blank = Blank
  NL = NL
  TERMINAL_WIDTH = 2
  TERMINAL_HEIGHT = 3
  VGA_SCROLLBACK_HEIGHT = 1
  BUFFER_SIZE = 5
  Characters <- MCCharacters
  Letters <- MCLetters
  Keys <- MCKeys
  PromptText <- MCPrompt
  EofText <- MCEof
  Outputs <- MCOutputs
  Names <- MCNames
  ListingText <- MCListing
  MaxRow = 3
  Recalled <- MCRecalled
SPECIFICATION Spec
INVARIANTS TypeOK InputOnScreen ViewIsShown
PROPERTY EditsStayInLine
