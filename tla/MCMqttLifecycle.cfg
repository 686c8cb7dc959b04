\* One has_ip change each way, one console command, one failure.
CONSTANTS
  Configs = {tls}
  WithCa = {tls}
  NoConfig = NoConfig
  NoClient = NoClient
  Handles = {h1}
  QueueSize = 1
  CfgQueueSize = 1
  Replays = 1
  InitKeys = {"unset"}
  MaxLinks = 2
  MaxSettings = 1
  MaxFailures = 1
SPECIFICATION Spec
INVARIANTS TypeOK PendingIsWoken ClientsOwnTheirCa StopIsObeyed SessionIsSubscribed
PROPERTIES ReadyStarts
CHECK_DEADLOCK FALSE
