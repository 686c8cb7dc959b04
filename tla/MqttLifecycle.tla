--------------------------- MODULE MqttLifecycle ---------------------------
(***************************************************************************)
(* The lifecycle of the MQTT client (mqtt/mqtt.c, ha/ha_mqtt.c).           *)
(*                                                                         *)
(* Three tasks ask for the client to be started, restarted or stopped: the *)
(* delivery task when a Wi-Fi status arrives, the configuration task after *)
(* a broker change, the console for `mqtt enable' and `mqtt disable'.  They *)
(* merge their request into one mailbox and then post a wake to the queue  *)
(* of the lifecycle task, which alone creates and destroys clients.  The   *)
(* task of the client itself reports its connections through the same      *)
(* mailbox.                                                                *)
(*                                                                         *)
(* A step ends where another task can see a difference: each critical      *)
(* section, each access to is_using, mqtt_net_flag or NVS, each post.      *)
(* mqtt_connected_flag is the member `flag'.  The generation counter is    *)
(* read only to be compared with the copy a CONNECTED report took, so the  *)
(* report holds the outcome of that comparison, `current', which advancing *)
(* the generation makes FALSE.  An event of the queue is a wake or a       *)
(* publication; each begins with a look at the mailbox, and what follows   *)
(* a publication changes nothing here, so only their number is kept.       *)
(***************************************************************************)
EXTENDS Naturals

CONSTANTS
  Configs,          \* broker configurations that can be stored
  WithCa,           \* those whose client holds a pointer to the stored CA
  NoConfig,         \* no valid configuration is stored, or no CA loaded
  Handles,          \* client handles; a freed one may be given out again
  NoClient,         \* NULL
  QueueSize,        \* places of the lifecycle queue, MQTT_APP_EVENT_QUEUE_SIZE
  CfgQueueSize,     \* places of the queue of the configuration task
  Replays,          \* publications of one replay to a new session
  InitKeys,         \* enable keys to begin with
  MaxLinks,         \* bound: how often has_ip changes
  MaxSettings,      \* bound: console commands that change a setting
  MaxFailures       \* bound: failures while a client is built

ASSUME ValueAssumption ==
  WithCa \subseteq Configs /\ NoConfig \notin Configs /\ NoClient \notin Handles
ASSUME BoundAssumption ==
  /\ QueueSize \in Nat \ {0} /\ CfgQueueSize \in Nat \ {0} /\ Replays \in Nat
  /\ InitKeys \subseteq {"yes", "no", "unset"}
  /\ MaxLinks \in Nat /\ MaxSettings \in Nat /\ MaxFailures \in Nat

Requesters == {"delivery", "config", "console"}
Lifecycle == {"START", "RESTART", "STOP"}
NoReport == [client |-> NoClient, current |-> FALSE]
Empty == [lifecycle |-> "none", connected |-> NoReport]

VARIABLES
  key,         \* NVS: the stored enable key
  stored,      \* NVS: the stored broker configuration
  ip,          \* has_ip of the last published Wi-Fi status
  fresh,       \* that status waits for delivery
  told,        \* has_ip of the status in delivery
  netFlag,     \* mqtt_net_flag
  using,       \* is_using
  flag,        \* mqtt_connected_flag
  client,      \* mqtt_client
  mailbox,     \* control
  queue,       \* number of events for the lifecycle task
  cfgQueue,    \* number of events for the configuration task
  pc, seen, event,    \* requesters: where they are, enabled as read, request
  life, then, job, doomed,  \* lifecycle task: where it is, where it goes on
                            \* after a stop, mailbox copy, client to destroy
  ca,          \* configuration whose CA s_tls_ca holds, NoConfig if none
  built,       \* configuration each client was initialised with
  task,        \* state of each client's own task
  subscribed,  \* history: the session of the client got its subscriptions
  lastStop,    \* history: the request merged last was STOP
  left         \* what is left of the bounds

settings == <<key, stored, ip, fresh, left>>
requests == <<told, pc, seen, event, cfgQueue>>
lifecycle == <<life, then, job, doomed, ca>>
clients == <<built, task, subscribed>>
instance == <<netFlag, using, flag, client, mailbox, lastStop>>
vars == <<settings, requests, lifecycle, clients, instance, queue>>

----------------------------------------------------------------------------
\* ha_mqtt_enabled_get: without a key a valid stored configuration decides.
Enabled == key = "yes" \/ (key = "unset" /\ stored # NoConfig)

Init ==
  /\ key \in InitKeys /\ stored \in Configs \cup {NoConfig}
  /\ ip = FALSE /\ fresh = FALSE /\ told = FALSE /\ netFlag = FALSE
  /\ using = Enabled
  /\ flag = FALSE /\ client = NoClient /\ mailbox = Empty
  /\ queue = 0 /\ cfgQueue = 0
  /\ pc = [t \in Requesters |-> "idle"]
  /\ seen = [t \in Requesters |-> FALSE]
  /\ event = [t \in Requesters |-> "none"]
  /\ life = "idle" /\ then = "idle" /\ job = Empty /\ doomed = NoClient
  /\ ca = NoConfig /\ built = [h \in Handles |-> NoConfig]
  /\ task = [h \in Handles |-> "none"] /\ subscribed = FALSE
  /\ lastStop = FALSE
  /\ left = [b \in {"link", "settings", "failure"} |->
              CASE b = "link" -> MaxLinks
                [] b = "settings" -> MaxSettings
                [] b = "failure" -> MaxFailures]

Spend(bound) == left[bound] > 0 /\ left' = [left EXCEPT ![bound] = @ - 1]

\* Mutant: a queue without a limit.
PostUnbounded(times) == queue' = queue + times

\* Posting without waiting: what a full queue has no place for is dropped.
Post(times) ==
  queue' = IF queue + times < QueueSize THEN queue + times ELSE QueueSize

Goto(t, label) == pc' = [pc EXCEPT ![t] = label]

----------------------------------------------------------------------------
(* The surroundings: the Wi-Fi status, and publications of other tasks.    *)

\* The device gets or loses its IP and publishes the status.
LinkChanges ==
  /\ Spend("link")
  /\ ip' = ~ip /\ fresh' = TRUE
  /\ UNCHANGED <<key, stored, requests, lifecycle, clients, instance, queue>>

\* mqtt_publish_enqueue, on whatever task.
Publish ==
  /\ queue < QueueSize
  /\ Post(1)
  /\ UNCHANGED <<settings, requests, lifecycle, clients, instance>>

----------------------------------------------------------------------------
(* The requesters.                                                         *)

\* is_using is assigned what NVS says now, but in a later step.
ReadEnabled(t) ==
  /\ seen' = [seen EXCEPT ![t] = Enabled]
  /\ Goto(t, "store")

\* The delivery task takes the latest status; ha_mqtt.c subscribed first.  While
\* there is an IP, every ping ends in a publication of the same status.
StatusArrives ==
  /\ pc["delivery"] = "idle" /\ (fresh \/ ip)
  /\ fresh' = FALSE /\ told' = ip
  /\ ReadEnabled("delivery")
  /\ UNCHANGED <<key, stored, ip, left, event, cfgQueue, lifecycle, clients,
                 instance, queue>>

\* The configuration task takes its next event.
ConfigArrives ==
  /\ pc["config"] = "idle" /\ cfgQueue > 0
  /\ cfgQueue' = cfgQueue - 1
  /\ ReadEnabled("config")
  /\ UNCHANGED <<settings, told, event, lifecycle, clients, instance, queue>>

\* `setmqtt': the configuration goes to NVS, then the event is posted.
SetConfig ==
  /\ pc["console"] = "idle" /\ Spend("settings")
  /\ stored' \in Configs
  /\ Goto("console", "post")
  /\ UNCHANGED <<key, ip, fresh, told, seen, event, cfgQueue, lifecycle,
                 clients, instance, queue>>

PostConfig ==
  /\ pc["console"] = "post" /\ cfgQueue < CfgQueueSize
  /\ cfgQueue' = cfgQueue + 1
  /\ Goto("console", "idle")
  /\ UNCHANGED <<settings, told, seen, event, lifecycle, clients, instance,
                 queue>>

\* ha_mqtt_set_enabled: NVS, then is_using, then the common part.
SetEnabled ==
  /\ pc["console"] = "idle" /\ Spend("settings")
  /\ \E enabled \in BOOLEAN :
       /\ key' = IF enabled THEN "yes" ELSE "no"
       /\ seen' = [seen EXCEPT !["console"] = enabled]
  /\ Goto("console", "enable")
  /\ UNCHANGED <<stored, ip, fresh, told, event, cfgQueue, lifecycle, clients,
                 instance, queue>>

EnableUsing ==
  /\ pc["console"] = "enable"
  /\ using' = seen["console"]
  /\ ReadEnabled("console")
  /\ UNCHANGED <<settings, told, event, cfgQueue, lifecycle, clients,
                 netFlag, flag, client, mailbox, lastStop, queue>>

StoreUsing(t) ==
  /\ pc[t] = "store"
  /\ using' = seen[t]
  /\ seen' = [seen EXCEPT ![t] = FALSE]
  /\ Goto(t, "decide")
  /\ UNCHANGED <<settings, told, event, cfgQueue, lifecycle, clients, netFlag,
                 flag, client, mailbox, lastStop, queue>>

\* The status handler goes by the status it was given, the others by the flag.
Decide(t) ==
  /\ pc[t] = "decide"
  /\ event' = [event EXCEPT ![t] =
       IF t = "delivery" THEN IF told /\ using THEN "START" ELSE "STOP"
       ELSE IF using /\ netFlag THEN "RESTART" ELSE "STOP"]
  /\ Goto(t, "request")
  /\ UNCHANGED <<settings, told, seen, cfgQueue, lifecycle, clients, instance,
                 queue>>

\* Mutant: a pending request is replaced by a RESTART only.
MergeKeepsPending(pending, e) ==
  IF pending = "none" \/ e = "RESTART" THEN e ELSE pending

\* A START leaves a pending START or RESTART as it is.
Merge(pending, e) ==
  IF pending \in {"none", "STOP"} \/ e \in {"STOP", "RESTART"}
  THEN e ELSE pending

\* Mutant: no wake while the lifecycle task runs, as it will look again.
RequestWakesIdle(t) ==
  /\ pc[t] = "request"
  /\ mailbox' = [mailbox EXCEPT !.lifecycle = Merge(@, event[t])]
  /\ lastStop' = (event[t] = "STOP")
  /\ event' = [event EXCEPT ![t] = "none"]
  /\ Goto(t, IF life = "idle" THEN "wake"
             ELSE IF t = "delivery" THEN "flag" ELSE "idle")
  /\ UNCHANGED <<settings, told, seen, cfgQueue, lifecycle, clients, netFlag,
                 using, flag, client, queue>>

Request(t) ==
  /\ pc[t] = "request"
  /\ mailbox' = [mailbox EXCEPT !.lifecycle = Merge(@, event[t])]
  /\ lastStop' = (event[t] = "STOP")
  /\ event' = [event EXCEPT ![t] = "none"]
  /\ Goto(t, "wake")
  /\ UNCHANGED <<settings, told, seen, cfgQueue, lifecycle, clients, netFlag,
                 using, flag, client, queue>>

Wake(t) ==
  /\ pc[t] = "wake"
  /\ Post(1)
  /\ Goto(t, IF t = "delivery" THEN "flag" ELSE "idle")
  /\ UNCHANGED <<settings, told, seen, event, cfgQueue, lifecycle, clients,
                 instance>>

\* The subscription of mqtt.c, the later of the two, stores has_ip.
SetNetFlag ==
  /\ pc["delivery"] = "flag"
  /\ netFlag' = told /\ told' = FALSE
  /\ Goto("delivery", "idle")
  /\ UNCHANGED <<settings, seen, event, cfgQueue, lifecycle, clients, using,
                 flag, client, mailbox, lastStop, queue>>

RequestStep(t) ==
  \/ StoreUsing(t) \/ Decide(t) \/ Request(t) \/ Wake(t)

----------------------------------------------------------------------------
(* The lifecycle task.                                                     *)

\* Whatever the event is, the mailbox comes first.
Dispatch ==
  /\ life = "idle" /\ queue > 0
  /\ queue' = queue - 1
  /\ job' = mailbox /\ mailbox' = Empty
  /\ life' = "lifecycle"
  /\ UNCHANGED <<settings, requests, then, doomed, ca, clients, netFlag, using,
                 flag, client, lastStop>>

\* generation++: no report made before it is current any more.
Advance(box) == [box EXCEPT !.connected.current = FALSE]

MayStart(e) == netFlag /\ using /\ (e = "START" => client = NoClient)

ServeNothing ==
  /\ life = "lifecycle"
  /\ \/ job.lifecycle = "none"
     \/ job.lifecycle # "STOP" /\ ~MayStart(job.lifecycle)
  /\ life' = "connected"
  /\ UNCHANGED <<settings, requests, then, job, doomed, ca, clients, instance,
                 queue>>

ServeStop ==
  /\ life = "lifecycle" /\ job.lifecycle = "STOP"
  /\ life' = "detach" /\ then' = "connected"
  /\ UNCHANGED <<settings, requests, job, doomed, ca, clients, instance, queue>>

\* The starter begins with a stop of its own.
ServeStart ==
  /\ life = "lifecycle" /\ job.lifecycle \in {"START", "RESTART"}
  /\ MayStart(job.lifecycle)
  /\ job' = Advance(job) /\ mailbox' = Advance(mailbox)
  /\ life' = "detach" /\ then' = "recheck"
  /\ UNCHANGED <<settings, requests, doomed, ca, clients, netFlag, using, flag,
                 client, lastStop, queue>>

\* Mutant: the CA is freed before the client is destroyed.
DetachFreesCa ==
  /\ life = "detach"
  /\ doomed' = client /\ client' = NoClient /\ flag' = FALSE
  /\ job' = Advance(job) /\ mailbox' = Advance(mailbox)
  /\ ca' = NoConfig
  /\ life' = "destroy"
  /\ UNCHANGED <<settings, requests, then, clients, netFlag, using, lastStop,
                 queue>>

\* mqtt_instance_stop: first the critical section,
Detach ==
  /\ life = "detach"
  /\ doomed' = client /\ client' = NoClient /\ flag' = FALSE
  /\ job' = Advance(job) /\ mailbox' = Advance(mailbox)
  /\ life' = "destroy"
  /\ UNCHANGED <<settings, requests, then, ca, clients, netFlag, using, lastStop,
                 queue>>

\* then the client, whose stop waits until its task has left the handler,
Destroy ==
  /\ life = "destroy"
  /\ doomed # NoClient => task[doomed] \notin {"report", "wake"}
  /\ built' = [h \in Handles |-> IF h = doomed THEN NoConfig ELSE built[h]]
  /\ task' = [h \in Handles |-> IF h = doomed THEN "none" ELSE task[h]]
  /\ doomed' = NoClient /\ subscribed' = FALSE /\ life' = "free"
  /\ UNCHANGED <<settings, requests, then, job, ca, instance, queue>>

\* and last what the client pointed to.
Free ==
  /\ life = "free"
  /\ ca' = NoConfig
  /\ life' = then /\ then' = "idle"
  /\ UNCHANGED <<settings, requests, job, doomed, clients, instance, queue>>

\* _mqtt_ha_start looks again before it builds a client.
Recheck ==
  /\ life = "recheck"
  /\ life' = IF netFlag /\ using /\ Enabled THEN "build" ELSE "connected"
  /\ UNCHANGED <<settings, requests, then, job, doomed, ca, clients, instance,
                 queue>>

\* The CA is loaded beside the configuration; the client comes next.
Build ==
  /\ life = "build" /\ stored # NoConfig
  /\ ca' = IF stored \in WithCa THEN stored ELSE NoConfig
  /\ \E h \in {g \in Handles : built[g] = NoConfig} :
       client' = h /\ built' = [built EXCEPT ![h] = stored]
  /\ life' = "start"
  /\ UNCHANGED <<settings, requests, then, job, doomed, task, subscribed,
                 netFlag, using, flag, mailbox, lastStop, queue>>

\* No valid configuration, or no memory for it.
BuildNothing ==
  /\ life = "build"
  /\ \/ stored = NoConfig /\ UNCHANGED left
     \/ Spend("failure")
  /\ life' = "connected"
  /\ UNCHANGED <<key, stored, ip, fresh, requests, then, job, doomed, ca,
                 clients, instance, queue>>

\* esp_mqtt_client_init returns NULL after the CA was loaded.
BuildFails ==
  /\ life = "build" /\ stored # NoConfig /\ Spend("failure")
  /\ ca' = IF stored \in WithCa THEN stored ELSE NoConfig
  /\ life' = "detach" /\ then' = "connected"
  /\ UNCHANGED <<key, stored, ip, fresh, requests, job, doomed, clients,
                 instance, queue>>

Start ==
  /\ life = "start"
  /\ task' = [task EXCEPT ![client] = "down"]
  /\ life' = "connected"
  /\ UNCHANGED <<settings, requests, then, job, doomed, ca, built, subscribed,
                 instance, queue>>

\* Mutant: a client that could not be started is kept.
StartFailsKeepsClient ==
  /\ life = "start" /\ Spend("failure")
  /\ life' = "connected"
  /\ UNCHANGED <<key, stored, ip, fresh, requests, then, job, doomed, ca,
                 clients, instance, queue>>

\* Registering the handler or starting the client fails.
StartFails ==
  /\ life = "start" /\ Spend("failure")
  /\ life' = "detach" /\ then' = "connected"
  /\ UNCHANGED <<key, stored, ip, fresh, requests, job, doomed, ca, clients,
                 instance, queue>>

\* mqtt_connected_interface.
Acceptable(report) ==
  report.client # NoClient /\ report.client = client /\ report.current /\ flag

InSession(h) == task[h] \in {"report", "wake", "up"}

\* Mutant: a report beside a lifecycle request is not looked at.
ConnectedElse ==
  /\ life = "connected"
  /\ IF job.lifecycle = "none" /\ Acceptable(job.connected)
     THEN /\ subscribed' = (subscribed \/ InSession(client))
          /\ Post(Replays)
     ELSE UNCHANGED <<subscribed, queue>>
  /\ job' = Empty /\ life' = "idle"
  /\ UNCHANGED <<settings, requests, then, doomed, ca, built, task, instance>>

\* Subscribing succeeds only in a session; the replay is posted to the own
\* queue, as much of it as fits.
Connected ==
  /\ life = "connected"
  /\ IF Acceptable(job.connected)
     THEN /\ subscribed' = (subscribed \/ InSession(client))
          /\ Post(Replays)
     ELSE UNCHANGED <<subscribed, queue>>
  /\ job' = Empty /\ life' = "idle"
  /\ UNCHANGED <<settings, requests, then, doomed, ca, built, task, instance>>

LifeStep ==
  \/ Dispatch \/ ServeNothing \/ ServeStop \/ ServeStart
  \/ Detach \/ Destroy \/ Free \/ Recheck \/ Build \/ BuildNothing \/ BuildFails
  \/ Start \/ StartFails \/ Connected

----------------------------------------------------------------------------
(* The task of a client.                                                   *)

ClientConnects(h) ==
  /\ task[h] = "down"
  /\ task' = [task EXCEPT ![h] = "report"]
  /\ flag' = TRUE /\ subscribed' = FALSE
  /\ UNCHANGED <<settings, requests, lifecycle, built, netFlag, using, client,
                 mailbox, lastStop, queue>>

\* mqtt_instance_connected takes the generation of this moment.
ClientReports(h) ==
  /\ task[h] = "report"
  /\ mailbox' = [mailbox EXCEPT !.connected = [client |-> h, current |-> TRUE]]
  /\ task' = [task EXCEPT ![h] = "wake"]
  /\ UNCHANGED <<settings, requests, lifecycle, built, subscribed, netFlag,
                 using, flag, client, lastStop, queue>>

ClientWakes(h) ==
  /\ task[h] = "wake"
  /\ Post(1)
  /\ task' = [task EXCEPT ![h] = "up"]
  /\ UNCHANGED <<settings, requests, lifecycle, built, subscribed, instance>>

ClientDisconnects(h) ==
  /\ task[h] = "up"
  /\ task' = [task EXCEPT ![h] = "down"]
  /\ flag' = FALSE
  /\ UNCHANGED <<settings, requests, lifecycle, built, subscribed, netFlag,
                 using, client, mailbox, lastStop, queue>>

----------------------------------------------------------------------------
Surroundings == LinkChanges \/ Publish
Arrivals == StatusArrives \/ ConfigArrives \/ SetConfig \/ PostConfig
            \/ SetEnabled \/ EnableUsing \/ SetNetFlag
ClientStep(h) ==
  \/ ClientConnects(h) \/ ClientReports(h) \/ ClientWakes(h)
  \/ ClientDisconnects(h)

Next ==
  \/ Surroundings \/ Arrivals \/ LifeStep
  \/ \E t \in Requesters : RequestStep(t)
  \/ \E h \in Handles : ClientStep(h)

\* Every task is scheduled; while there is an IP the Wi-Fi task pings.  The
\* stop of a client waits for a lock that its task gives back in every turn,
\* and gets it even if the client keeps reconnecting.
Fairness ==
  /\ WF_vars(LifeStep) /\ SF_vars(Destroy)
  /\ WF_vars(StatusArrives) /\ WF_vars(ConfigArrives)
  /\ WF_vars(PostConfig) /\ WF_vars(EnableUsing) /\ WF_vars(SetNetFlag)
  /\ \A t \in Requesters : WF_vars(RequestStep(t))
  /\ \A h \in Handles : WF_vars(ClientReports(h) \/ ClientWakes(h))

Spec == Init /\ [][Next]_vars /\ Fairness

----------------------------------------------------------------------------
Boxes == [lifecycle : Lifecycle \cup {"none"},
          connected : [client : Handles \cup {NoClient}, current : BOOLEAN]]

TypeSettings ==
  /\ key \in {"yes", "no", "unset"} /\ stored \in Configs \cup {NoConfig}
  /\ ip \in BOOLEAN /\ fresh \in BOOLEAN
  /\ left \in [{"link", "settings", "failure"} -> Nat]

TypeRequests ==
  /\ pc \in [Requesters -> {"idle", "post", "enable", "store", "decide",
                            "request", "wake", "flag"}]
  /\ seen \in [Requesters -> BOOLEAN] /\ told \in BOOLEAN
  /\ event \in [Requesters -> Lifecycle \cup {"none"}]
  /\ cfgQueue \in 0..CfgQueueSize

TypeLifecycle ==
  /\ life \in {"idle", "lifecycle", "detach", "destroy", "free", "recheck",
               "build", "start", "connected"}
  /\ then \in {"idle", "recheck", "connected"}
  /\ job \in Boxes /\ doomed \in Handles \cup {NoClient}
  /\ ca \in Configs \cup {NoConfig}

TypeClients ==
  /\ built \in [Handles -> Configs \cup {NoConfig}]
  /\ task \in [Handles -> {"none", "down", "report", "wake", "up"}]
  /\ subscribed \in BOOLEAN

TypeInstance ==
  /\ netFlag \in BOOLEAN /\ using \in BOOLEAN /\ flag \in BOOLEAN
  /\ client \in Handles \cup {NoClient}
  /\ mailbox \in Boxes /\ lastStop \in BOOLEAN

\* Types: no queue holds more than it has places (the lengths are checked by
\* esp_event, not by mqtt.c).
TypeOK ==
  /\ TypeSettings /\ TypeRequests /\ TypeLifecycle /\ TypeClients
  /\ TypeInstance
  /\ queue \in 0..QueueSize

\* No request sleeps: what is in the mailbox has an event in the queue or a
\* task about to post one, even though a wake that meets a full queue is dropped
\* (mqtt_control_wake).
PendingIsWoken ==
  mailbox.lifecycle # "none" \/ mailbox.connected.client # NoClient =>
    \/ queue > 0
    \/ \E t \in Requesters : pc[t] = "wake"
    \/ \E h \in Handles : task[h] = "wake"

\* Every client there is can still be reached and destroyed, and the CA it
\* points to has not been freed or replaced (_mqtt_ha_start and
\* mqtt_instance_stop).
ClientsOwnTheirCa ==
  \A h \in Handles : built[h] # NoConfig =>
    /\ h \in {client, doomed}
    /\ built[h] \in WithCa => ca = built[h]

\* When the last request was to stop and the lifecycle task has served it, no
\* client is left, whatever requests it was merged with or raced.
StopIsObeyed ==
  lastStop /\ mailbox.lifecycle = "none" /\ life = "idle" =>
    client = NoClient /\ \A h \in Handles : built[h] = NoConfig

\* Nothing is under way.
Quiet ==
  /\ queue = 0 /\ cfgQueue = 0 /\ ~fresh /\ life = "idle"
  /\ \A t \in Requesters : pc[t] = "idle"
  /\ \A h \in Handles : task[h] \notin {"report", "wake"}

\* A session that is up has its subscriptions: its CONNECTED report was not
\* taken for that of an older client (mqtt_connected_interface).
SessionIsSubscribed ==
  Quiet => \A h \in Handles : task[h] = "up" => subscribed

\* With an IP, MQTT enabled and a configuration for good, a client runs for
\* good: a START that came before the IP flag, or whose client could not be
\* built, is repeated at a later status (handle_wifi_status_change).
ReadyStarts ==
  <>[](ip /\ Enabled /\ stored # NoConfig)
    => <>[](client # NoClient /\ task[client] # "none")

\* hardware-smoke-checklist.md:160: after a change of the broker "the old
\* client stops, the stored URI is applied, and a new client starts when
\* enabled/LAN-ready."
BrokerChangeApplied ==
  Quiet /\ ip /\ netFlag /\ Enabled /\ client # NoClient
    => built[client] = stored
============================================================================
