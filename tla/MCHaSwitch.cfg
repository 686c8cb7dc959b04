CONSTANTS
  Generations = 16
  Values = {0, 1}
  QueueSize = 2
  MaxChanges = 3
  MaxRemote = 1
SPECIFICATION FairSpec
INVARIANTS TypeOK NothingUnwatched WidgetConverges
PROPERTY UnconfirmedEnds
CHECK_DEADLOCK FALSE
