\* Two clusters, two devices, two workers, one disturbance at any point.
CONSTANTS
  e1 = e1
  e2 = e2
  NoOwner = NoOwner
  EC = {e1, e2}
  BD <- MCBD
  Selections <- MCSelections
  Size0 <- MCSize0
  MaxSize = 0
  MaxConcurrentReconciles = 2
  MaxDisturbances = 1
SPECIFICATION Spec
SYMMETRY Symmetry
INVARIANTS
  TypeOK
  PlumbingOwned
  CountedDevicesBacked
PROPERTIES
  ImplementsClaims
  StageBarrier
CHECK_DEADLOCK FALSE
