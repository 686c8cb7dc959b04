CONSTANTS
  c1 = c1
  c2 = c2
  ui = ui
  native = native
  nan = nan
  Clients = {c1, c2}
  Observers = {ui, native}
  NumEntities = 2
  Sensors = {0}
  Values = {1, 2}
  NonFinite = nan
  Minimum <- MCMinimum
  Maximum <- MCMaximum
  Step <- MCStep
  Defaults <- MCDefaults
  Capacity = 1
  MaxWrites = 2
  NoClient = NoClient
SPECIFICATION FairSpec
INVARIANTS TypeOK ReplayedIsCurrent
PROPERTIES IsRegister CallsReturn
