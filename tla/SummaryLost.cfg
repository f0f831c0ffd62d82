SPECIFICATION Spec
CHECK_DEADLOCK FALSE
CONSTANTS
  Eager = FALSE
  None = None
  Instance = "live-1"
  Capacity = 2
  Interval = 1
  MaxTotal = 1
  MaxSamples = 3
  Week = 2
  Retention = 2
  MaxClock = 4
  Others = {1, 2}
  Crashes = FALSE
PROPERTY IntervalIsStored
