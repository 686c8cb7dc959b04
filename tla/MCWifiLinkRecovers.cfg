\* One outage, no command.
CONSTANTS
  RetryMax = 1
  ReconnectAfter = 0
  NetworkChecks = 0
  MaxEvents = 2
  MaxCommands = 0
  MaxOutages = 1
  MaxRefusals = 0
SPECIFICATION FairSpec
PROPERTY Recovers
CHECK_DEADLOCK FALSE
