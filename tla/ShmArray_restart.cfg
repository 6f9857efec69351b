\* A process that attaches to an array of several blocks and adds to it.
CONSTANTS
  x = x
  y = y
  Process <- One
  Thread <- OneThread
  ProcessOf <- OfOne
  Writers <- First
  Readers <- OneThread
  Returning <- First
  Data = {x}
  FirstBlock = 1
  MaxCells = 4
  T_ARRAY_VMAP_MAX_SIZE = 5
  Nothing = Nothing
SPECIFICATION Spec
INVARIANT MapAgrees
CHECK_DEADLOCK FALSE
