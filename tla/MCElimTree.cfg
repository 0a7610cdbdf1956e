SPECIFICATION Spec
CONSTANTS
  Size = 4
  Variable = {1, 2, 3}
  Collections <- AllCollections
CHECK_DEADLOCK FALSE
INVARIANTS
  TreesAreSets
  SpanningTree
  WidestSeparators
  WidestPaths
