SPECIFICATION Spec
CONSTANTS
  N = 4
  Dags <- AllDags
CHECK_DEADLOCK FALSE
INVARIANT Triangulated
