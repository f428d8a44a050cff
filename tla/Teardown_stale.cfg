\* A storage class created against a cluster under deletion.
CONSTANTS
  rbd = rbd
  fs = fs
  ESC = {rbd, fs}
  CephFS = {fs}
  MaxClasses = 1
SPECIFICATION FairSpec
PROPERTY PoolHasCluster
CHECK_DEADLOCK FALSE
