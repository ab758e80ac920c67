SPECIFICATION Spec
CONSTANTS
  Size = 4
  Elems <- MCElems
  Ids = {a, b, c}
  NoId = none
  Base = 2
  PageSize = 4
  MaxCap = 2
  MaxDepth = 3
INVARIANTS
  Disjoint
  ContentsIntact
  Aligned
  IInv
CHECK_DEADLOCK FALSE
SYMMETRY IdSymmetry
