\* One worker; progress of both clusters after one disturbance.
CONSTANTS
  e1 = e1
  e2 = e2
  NoOwner = NoOwner
  EC = {e1, e2}
  BD <- MCBD
  Selections <- MCOverlapping
  Size0 <- MCSize0
  MaxSize = 2
  MaxConcurrentReconciles = 1
  MaxDisturbances = 1
SPECIFICATION FairSpec
INVARIANTS
  PvcRequestFits
PROPERTIES
  EventuallyProvisioned
CHECK_DEADLOCK FALSE
