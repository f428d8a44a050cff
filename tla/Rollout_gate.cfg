\* Two daemons, one new version, no pass cut short.
CONSTANTS
  Daemon = {1, 2}
  MaxVersion = 2
  StatusLags = FALSE
  MaxAborts = 0
SPECIFICATION FairSpec
PROPERTY HealthGate
CHECK_DEADLOCK FALSE
