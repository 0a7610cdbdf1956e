SPECIFICATION Spec
CONSTANTS
  Name <- Labels
  vbls <- Four
  CHAR_BIT = 3
  Networks <- AllNetworks
CHECK_DEADLOCK FALSE
PROPERTY Implements
