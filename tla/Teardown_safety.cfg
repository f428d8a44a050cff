\* A storage class of either type; passes cut short at any point.
CONSTANTS
  rbd = rbd
  fs = fs
  ESC = {rbd, fs}
  CephFS = {fs}
  MaxClasses = 1
SPECIFICATION Spec
INVARIANTS
  TypeOK
  NothingLeft
  NoFilesystemOrphaned
PROPERTIES
  ImplementsCustody
CHECK_DEADLOCK FALSE
