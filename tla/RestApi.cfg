SPECIFICATION Spec
CONSTANTS
  Eager = FALSE
  None = None
  Threads = {t1, t2}
  t1 = t1
  t2 = t2
  a1 = a1
  w1 = w1
  w2 = w2
  i1 = i1
  Alert = a1
  Threshold = w1
  Orphan = w2
  Instance = i1
  Requests <- MCRequests
  Serves <- MCServes
INVARIANTS
  RestApiTypeOK
  NoLostWrite
  RepliesAreTrue
  RoutesReached
