SPECIFICATION Spec
CONSTANTS
  Name <- CliqueLabels
  Iterator = {t}
  t = t
  MaxEdges = 3
INVARIANTS
  TypeOK
  Filed
  Lookup
PROPERTY Implements
