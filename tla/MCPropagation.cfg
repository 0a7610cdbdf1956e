SPECIFICATION Spec
CONSTANTS
  Clique = {c1, c2, c3, c4}
  Trees <- AllTrees
INVARIANTS
  RootComplete
  NeighborsComplete
PROPERTIES
  RepeatsChangeNothing
  CompleteMessages
  SweepsReturn
