SPECIFICATION SpecTables
CONSTANTS
  NULL = NULL
  Log = TRUE
  Card <- ChainCards
  Clique <- ChainCliques
  Trees <- JunctionTrees
  Networks <- ObservedNetworks
  Orders <- ChainOrders
PROPERTY StaysZero
