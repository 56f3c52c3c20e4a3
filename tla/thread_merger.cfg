SPECIFICATION FairSpec
CONSTANTS
  a = a  b = b
  Rasterizers = {a, b}  First = a
  LeaseTerm = 3  MaxFrames = 3  MaxSurfaces = 3  MaxOverlap = 1
  QuickRestart = FALSE
INVARIANTS TypeOK MergedHasLease OnlyLeaseCheckFails LoneNeverWaitsForItself
PROPERTIES ThreadsChangeInTurn YieldsOnlyUnrecorded EveryFrameLeaves
CHECK_DEADLOCK FALSE
