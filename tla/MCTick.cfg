SPECIFICATION TickSpec
CONSTANTS
  Size = 28
  Elems <- TickElems
  GUnit <- Unit
  GMac <- AgxPrev
  PElem <- PidPrev
  XElem <- Scrap
  MaxGpu = 1
  MaxProc = 2
  MaxTable = 1
  Ids = {a, b, c, d, e, f, g, h}
  NoId = none
  Base = 2
  PageSize = 8
  MaxCap = 2
  MaxDepth = 3
INVARIANTS
  RotationReady
  NoCreep
  ContentsIntact
