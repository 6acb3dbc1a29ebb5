SPECIFICATION ConsoleSpec
CONSTANTS
  VGA_WIDTH = 3
  VGA_HEIGHT = 2
  map <- MCMap
  shift_map <- MCShiftMap
  Codes <- MCCodes
  Outputs <- MCOutputs
  Banner <- MCBanner
  MaxInput = 4
  MaxHistory = 2
INVARIANTS
  ConsoleTypeOK
  LineIsShown
  WritesOnScreen
  PositionIsOnScreen
  FaultsAreKnown
CONSTRAINT Near
VIEW MCView
CHECK_DEADLOCK FALSE
