\* Short lives of small sets, every order of five keys, and two lean ones of twelve.
CONSTANTS
  Key <- Thirteen
  MaxNodes = 12
  Program <- Programs
SPECIFICATION Spec
INVARIANTS TreeOK CellsAccounted WalkExact
PROPERTIES HandlesStay ImplementsKeySet
CHECK_DEADLOCK FALSE
