\* Either controller; sources told by a late CRD, by no one and by an event.
CONSTANTS
  Volatile = {"volumes", "ceph", "ec", "pool", "csc"}
  LateKinds = {"CephCluster", "CephBlockPool"}
  MaxGeneration = 2
SPECIFICATION FairSpec
INVARIANTS
  TypeOK
  StatusConsistent
  RestMeansReady
PROPERTIES
  Converges
  SourcesFollowed
  SnapshotFollows
CHECK_DEADLOCK FALSE
