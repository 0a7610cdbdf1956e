SPECIFICATION SpecTables
CONSTANTS
  NULL = NULL
  Log = FALSE
  Card <- NestedCards
  Clique <- NestedCliques
  Trees <- JunctionTrees
  Networks <- NestedNetworks
  Orders <- AnyOrder
INVARIANT JointKept
