SPECIFICATION Spec
CONSTANTS
  Clique = {c1, c2, c3, c4}
  Trees <- AllTrees
INVARIANT Calibrated
