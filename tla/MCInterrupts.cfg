SPECIFICATION IrqSpec
CONSTANTS
  MaxKeys = 3
INVARIANTS
  IrqTypeOK
  KeysInOrder
  NeverStuck
  StopsAreKnown
PROPERTIES
  KeysAreHandled
  ClockGoesOn
CHECK_DEADLOCK FALSE
