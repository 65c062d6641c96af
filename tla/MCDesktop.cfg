CONSTANTS
  PollEvery = 2
  Seconds = 2
  Places <- MCPlaces
  Centre <- MCCentre
  MaxKeys = 2
  MaxBytes = 6
SPECIFICATION DesktopSpec
INVARIANTS DesktopTypeOK PacketsInSync NothingForgotten
PROPERTY ScreenCatchesUp
