CONSTANTS
  RetryMax = 1
  ReconnectAfter = 0
  NetworkChecks = 0
  MaxEvents = 2
  MaxCommands = 1
  MaxOutages = 1
  MaxRefusals = 1
SPECIFICATION FairSpec
INVARIANT LinkTypeOK
PROPERTIES ConnectIsAnswered RecoversUnlessOvertaken
CHECK_DEADLOCK FALSE
