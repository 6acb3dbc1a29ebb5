SPECIFICATION StringSpec
CONSTANTS
  Names = {s, t}
  Char = {"a", "b"}
  Classes = {2, 4, 8, 16}
  MaxText = 3
INVARIANTS
  StringTypeOK
  HarmIsKnown
PROPERTIES
  FramesComeBack
  TextsAreRight
CONSTRAINTS
  Clean
