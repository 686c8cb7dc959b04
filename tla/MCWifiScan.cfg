CONSTANTS
  QueueSize = 3
  Attempts = 3
  MaxScans = 4
  MaxResults = 2
  MaxJoins = 1
SPECIFICATION Spec
INVARIANTS
  TypeOK
  PendingIsTimed
  AnswerIsOwed
  NewestListStays
CHECK_DEADLOCK FALSE
