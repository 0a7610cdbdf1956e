SPECIFICATION SpecInference
CONSTANTS
  NULL = NULL
  Log = FALSE
  Card <- ChainCards
  Clique <- ChainCliques
  Trees <- ChainAndStar
  Networks <- ChainNetworks
  Orders <- ChainOrders
INVARIANTS
  NoDoubleCount
  Charge
  SpreadsFromHome
  TablesTypeOK
  JointKept
  Exact
  SeparatorsExact
  MemoCurrent
  Answers
  SweepsAnswer
  MarginalsConsistent
PROPERTIES
  NothingForgotten
  StaysZero
