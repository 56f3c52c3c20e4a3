SPECIFICATION Spec
CONSTANTS
  a = a
  Rasterizers = {a}  First = a
  LeaseTerm = 3  MaxFrames = 2  MaxSurfaces = 2  MaxOverlap = 1
  QuickRestart = TRUE
INVARIANTS NeverWaitsForItself
CHECK_DEADLOCK FALSE
