SPECIFICATION Spec
CONSTANTS
  Values = {"a", "b", "c"}
  Raw = "raw"
  Moved = "moved"
  MaxBuffer = 5
INVARIANT MovesElements
PROPERTY Terminates
CHECK_DEADLOCK FALSE
