\* One node, two zones; a namespaced kind, a cluster-wide one and one of Rook's.
CONSTANTS
  n1 = n1
  Node = {n1}
  Zone = {"a", "b"}
  Kind = {"Secret", "ElasticCluster", "CephCluster"}
SPECIFICATION FairSpec
INVARIANTS
  TypeOK
  HookThorough
PROPERTIES
  DisableGuarded
  Unwedged
  PatchesJustified
  LabelsFollow
CHECK_DEADLOCK FALSE
