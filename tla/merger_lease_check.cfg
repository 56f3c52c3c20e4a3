SPECIFICATION Spec
CONSTANTS
  a = a  b = b
  Rasterizers = {a, b}  First = a
  LeaseTerm = 3  MaxFrames = 5  MaxSurfaces = 2  MaxOverlap = 0
  QuickRestart = FALSE
INVARIANTS LeaseCheckHolds
CHECK_DEADLOCK FALSE
