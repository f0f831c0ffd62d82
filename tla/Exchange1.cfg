SPECIFICATION FairSpec
\* After the destructor nothing is left to do.
CHECK_DEADLOCK FALSE
CONSTANTS
  MaxDelay = 30
  MaxFaults = 7
INVARIANT ExchangeTypeOK
PROPERTIES
  FeedSpec
  FeedResumes
