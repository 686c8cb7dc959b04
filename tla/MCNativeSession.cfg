CONSTANTS
  NumClients = 1
  NumEntities = 2
  TxCapacity = 3
  NetCapacity = 1
  Modes = {TRUE, FALSE}
  Openings = {"hello", "garbled", "bad"}
  Requests = {"subscribe", "list", "set", "disconnect"}
  Changing = {1}
  MaxFrames = 3
  MaxConnections = 1
  MaxCommits = 1
SPECIFICATION FairSpec
INVARIANTS TypeOK StatesAreCurrent ListIsComplete
PROPERTIES FarewellIsSent Delivered MuteIsDropped
