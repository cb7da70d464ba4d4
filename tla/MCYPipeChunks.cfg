SPECIFICATION Spec
SYMMETRY Symmetry
CONSTANTS
  Chunks = {a1, a2, a3, a4}
  N = 2
  MaxWrites = 6
  NULL = NULL
  Wild = Wild
INVARIANTS ChunksAccounted PositionsInList
PROPERTY ImplementsFlushedPipe
CHECK_DEADLOCK FALSE
