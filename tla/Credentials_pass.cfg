\* Two Ceph clusters in turn, two keys, one removal of the Secret, one lost pass.
CONSTANTS
  MaxFsid = 2
  MaxKey = 2
  MaxMons = 1
  MaxRemovals = 1
  MaxAborts = 1
SPECIFICATION FairSpec
INVARIANTS
  TypeOK
  PopulatedMeansComplete
  RestMeansConnected
PROPERTIES
  IdentityKept
  EventuallyConnected
CHECK_DEADLOCK FALSE
