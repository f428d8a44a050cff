\* The finalizer patch of a cluster whose selector is contested is rejected.
CONSTANTS
  e1 = e1
  e2 = e2
  NoOwner = NoOwner
  EC = {e1, e2}
  BD <- MCBD
  Selections <- MCOverlapping
  Size0 <- MCSize0
  MaxSize = 0
  MaxConcurrentReconciles = 1
  MaxDisturbances = 0
SPECIFICATION FairSpec
PROPERTIES
  ConflictSurfaced
CHECK_DEADLOCK FALSE
