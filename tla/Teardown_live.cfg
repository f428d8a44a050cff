\* An RBD class; passes cut short until the errors end.
CONSTANTS
  rbd = rbd
  fs = fs
  ESC = {rbd}
  CephFS = {}
  MaxClasses = 1
SPECIFICATION FairSpec
PROPERTIES
  EscTornDown
  EcTornDown
CHECK_DEADLOCK FALSE
