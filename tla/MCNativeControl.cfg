CONSTANTS
  Keys = {k1}
  NoKey = NoKey
  Slots = {s1}
  Closed = Closed
  MaxChanges = 5
  MaxFailures = 1
  MaxReboots = 1
SPECIFICATION FairSpec
INVARIANTS TypeOK AppliedIsServed
PROPERTIES NoOlderKey Converges
