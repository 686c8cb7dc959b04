\* The IP comes, goes and comes back; one console command; nothing fails.
CONSTANTS
  Configs = {tls, plain}
  WithCa = {tls}
  NoConfig = NoConfig
  NoClient = NoClient
  Handles = {h1}
  QueueSize = 1
  CfgQueueSize = 1
  Replays = 1
  InitKeys = {"unset"}
  MaxLinks = 3
  MaxSettings = 1
  MaxFailures = 0
SPECIFICATION Spec
INVARIANT BrokerChangeApplied
CHECK_DEADLOCK FALSE
