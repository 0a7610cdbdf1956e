SPECIFICATION SpecAll
CONSTANTS
  N = 4
  Dags <- AllDags
CHECK_DEADLOCK FALSE
INVARIANTS
  TypeOK
  FamilyCovered
  NoSetBelowASuperset
  CliquesWhenPerfect
  JunctionTree
  FamilyHoused
PROPERTIES
  OnlyAbsorbs
  Finishes
