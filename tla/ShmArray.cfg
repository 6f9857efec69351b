\* Blocks of one cell and of one or two; the process that adds does not come back.
CONSTANTS
  x = x
  y = y
  Process <- Two
  Thread <- Three
  ProcessOf <- OfThree
  Writers <- First
  Readers <- OfSecond
  Returning <- Second
  Data = {x}
  FirstBlock = 1
  MaxCells = 4
  T_ARRAY_VMAP_MAX_SIZE = 5
  Nothing = Nothing
SPECIFICATION FairSpec
INVARIANTS MapAgrees
PROPERTIES ImplementsArray ReadsReturn
CHECK_DEADLOCK FALSE
