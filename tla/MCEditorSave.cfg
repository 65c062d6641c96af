CONSTANTS
  x = x
  y = y
  Chars <- MCChars
  NL = NL
  NoFile = NoFile
  EDITOR_LINE_LENGTH = 2
  EDITOR_MAX_LINES = 2
  VGA_WIDTH = 1
  VGA_HEIGHT = 2
  MaxFile = 3
SPECIFICATION Spec
PROPERTY SavedFileIsBuffer
CHECK_DEADLOCK FALSE
