SPECIFICATION Spec
CONSTANTS
  Element = {a, b, c, d}
  MaxRank = 3
INVARIANTS
  TypeOK
  RankIncreases
PROPERTIES
  Implements
  CallsReturn
