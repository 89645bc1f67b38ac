CONSTANTS
  Values = {v1, v2}
  None = None
  Sizes = {1, 3}
  MaxSize = 6
  ElemSize = 1
  MaxBatch = 2
  HeadBatch = 1
SPECIFICATION Spec
INVARIANT OccupiedIsWritten
PROPERTY ImplementsDeque
