\* Two daemons, one new version, a status that may be read late or lost once.
CONSTANTS
  Daemon = {1, 2}
  MaxVersion = 2
  StatusLags = TRUE
  MaxAborts = 1
SPECIFICATION FairSpec
INVARIANTS
  TypeOK
  RestMeansServed
PROPERTIES
  UpgradeReadyTruthful
  SignalAccurate
  DemotionAccounted
  EventuallyPromoted
  EventuallyUpgraded
CHECK_DEADLOCK FALSE
