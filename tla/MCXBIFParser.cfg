SPECIFICATION Spec
CONSTANTS
  Documents <- Files
  Numerals <- Integers123
  MaxFiles = 4
CHECK_DEADLOCK FALSE
INVARIANT NetworkRead
