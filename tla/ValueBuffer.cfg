CONSTANTS
  Values = {v1, v2}
  None = None
  Sizes = {1, 2, 3}
  MaxSize = 6
  GrowsEmpty = FALSE
SPECIFICATION Spec
INVARIANT FreeSlotsEmpty
PROPERTY ImplementsDeque
