SPECIFICATION FairSpec
\* After the last replay and stop_replay() nothing is left to do.
CHECK_DEADLOCK FALSE
CONSTANTS
  Replays = {r1, r2}
  None = None
  Rows = 2
  r1 = r1
  r2 = r2
INVARIANTS
  BacktestTypeOK
  AloneIsWhole
  QuietIsDisconnected
PROPERTY ReplayIsTold
