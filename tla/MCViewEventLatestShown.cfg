CONSTANTS
  p1 = p1
  k1 = k1
  k2 = k2
  k3 = k3
  NoEntry = NoEntry
  Producers = {p1}
  Keys = {k1, k2}
  NumSlots = 2
  QueueSize = 2
  CommandAttempts = 2
  MaxPublications = 3
  MaxCommands = 2
SPECIFICATION Spec
INVARIANT LatestShown
CHECK_DEADLOCK FALSE
