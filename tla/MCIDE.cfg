SPECIFICATION IDESpec
CONSTANTS
  Sectors = {1, 2}
  Words = 2
  Values = {0, 1}
  Kinds <- AllKinds
INVARIANTS
  IDETypeOK
  StaysInStep
  ReadsAreRight
PROPERTIES
  Implements
  CommandsEnd
CHECK_DEADLOCK FALSE
