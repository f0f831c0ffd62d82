SPECIFICATION Spec
CONSTANTS
  Eager = FALSE
  None = None
  Keys = {k1}
  k1 = k1
  MaxRows = 2
INVARIANTS
  AdapterTypeOK
  ReferencesHold
PROPERTY AnswersAreTrue
