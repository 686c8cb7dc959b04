CONSTANTS
  Levels = {1}
  MaxPresses = 3
  MaxSettings = 3
SPECIFICATION FairSpec
INVARIANTS TypeOK AbortsNeedOverlap PressActsOnce
PROPERTY LitGoesDark
CHECK_DEADLOCK FALSE
