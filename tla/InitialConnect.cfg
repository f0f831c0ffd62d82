SPECIFICATION FairSpec
CHECK_DEADLOCK FALSE
CONSTANTS
  MaxDelay = 30
  MaxFaults = 2
PROPERTY FailedConnectIsRetried
