SPECIFICATION PathSpec
CONSTANTS
  MaxLength = 4
  MaxPlain = 5
  Depth = 2
INVARIANT HiddenNamesKept
CHECK_DEADLOCK FALSE
