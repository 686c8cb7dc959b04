------------------------------ MODULE WifiLink ------------------------------
(***************************************************************************)
(* main/wifi/wifi_model.c: the state of the Wi-Fi link.                    *)
(*                                                                         *)
(* Four tasks share it.  The event loop handles what the Wi-Fi driver      *)
(* reports, a delivery task carries out the user's commands, the Wi-Fi     *)
(* task looks at the state at least every 5 s, and a ping session ends in  *)
(* a callback of its own.  The mutex guards each copy of the state, not    *)
(* the reading, changing and writing back of it, nor its publication: each *)
(* of these is a step, the publication with the call that follows it.      *)
(*                                                                         *)
(* The state's SSID and signal strength are left out, and of what is       *)
(* published only has_ip is kept, which starts and stops the transports    *)
(* (modules NativeControl and MqttLifecycle).  _g_net_check_sem only       *)
(* shortens a wait that ends anyway.  wifi_retry_max is 3 whenever it is   *)
(* assigned.  The driver and the access point are external; a driver that  *)
(* is called as the code does returns no error, except esp_wifi_connect,   *)
(* whose result the code ignores, and a ping session can be created.       *)
(* A publication succeeds: one that the delivery module drops is repeated  *)
(* by the next event or ping.  A command it rejects is modelled.           *)
(***************************************************************************)
EXTENDS Naturals, Sequences

CONSTANTS
  RetryMax,        \* wifi_retry_max
  ReconnectAfter,  \* looks at a lost link before it is restarted, 5
  NetworkChecks,   \* looks at a good link before it is pinged again, 60
  MaxEvents,       \* events the driver has room for
  MaxCommands, MaxOutages,    \* bounds
  MaxRefusals      \* bound on the results of one request that are rejected

ASSUME LinkAssumptions ==
  /\ {RetryMax, ReconnectAfter, NetworkChecks} \subseteq Nat
  /\ MaxEvents \in Nat \ {0} /\ {MaxCommands, MaxOutages, MaxRefusals} \subseteq Nat

VARIABLES
  status,       \* _g_wifi_model.st
  told,         \* has_ip as published last
  configured,   \* is_cfg
  looks,        \* wifi_reconnect_cnt
  checks,       \* cnt of the Wi-Fi task
  retries,      \* s_retry_num
  handler,      \* the event being handled, how far, and the status it writes
  command,      \* the command being carried out, and how far
  task,         \* how far the Wi-Fi task is in a restart
  ping,         \* the ping session and the status its callback writes;
                \* _g_ping_done is ping.step = "none"
  radio, station, stored,   \* the driver, its link, and its configuration
  events,       \* events it has posted
  reachable,    \* the access point is up
  request,      \* the last VIEW_EVENT_WIFI_CONNECT: waiting for its result, or left
                \* with a failure or a success that the event queue rejected
  overtaken,    \* a status was written or published over a newer one
  commands, outages, refusals    \* counted for the bounds

model  == <<status, told, configured, looks, checks, retries>>
driver == <<radio, station, stored, events>>
counts == <<commands, outages, refusals>>
linkVars ==
  <<status, told, configured, looks, checks, retries, handler, command,
    task, ping, radio, station, stored, events, reachable, request, overtaken,
    commands, outages, refusals>>

\* wifi_model_state_reset, _start, _disconnected, _got_ip, and the assignments
\* of WIFI_EVENT_STA_CONNECTED.
Reset == [connecting |-> FALSE, connected |-> FALSE, hasIp |-> FALSE,
          network |-> FALSE]
Connecting == [Reset EXCEPT !.connecting = TRUE]
Disconnected(again) == [Reset EXCEPT !.connecting = again]
Connected == [Reset EXCEPT !.connected = TRUE]
GotIp(st) == [st EXCEPT !.connected = TRUE, !.connecting = FALSE, !.hasIp = TRUE]

NoEvent   == [event |-> "none", step |-> "idle", status |-> Reset, count |-> 0]
NoCommand == [kind |-> "none", step |-> "idle"]
NoPing    == [step |-> "none", status |-> Reset]

\* indicator_wifi_model_init, which starts the driver either way.
LinkInit ==
  /\ status = Reset
  /\ told = FALSE
  /\ stored \in {"none", "right", "wrong"}
  /\ configured = (stored # "none")
  /\ looks = 0 /\ checks = 0 /\ retries = 0
  /\ handler = NoEvent /\ command = NoCommand
  /\ task = "idle" /\ ping = NoPing
  /\ radio = "started" /\ station = "idle"
  /\ events = <<"start">>
  /\ reachable \in BOOLEAN
  /\ request = "none" /\ overtaken = FALSE
  /\ commands = 0 /\ outages = 0 /\ refusals = 0

-----------------------------------------------------------------------------
(* The driver's interface.  Its events wait for room in the event loop.    *)

PostEvent(e) ==
  /\ Len(events) < MaxEvents
  /\ events' = Append(events, e)

\* esp_wifi_stop reports a link it cuts.
Stop ==
  /\ radio' = "stopped" /\ station' = "idle"
  /\ IF station \in {"associated", "addressed"}
       THEN PostEvent("disconnected") ELSE UNCHANGED events

\* esp_wifi_start reports that it has started, unless it had.
Start ==
  /\ radio' = "started"
  /\ IF radio = "stopped" THEN PostEvent("start") ELSE UNCHANGED events
  /\ UNCHANGED station

\* esp_wifi_connect, which fails when the driver is stopped or busy or knows no
\* network.
Connect ==
  station' = IF radio = "started" /\ station = "idle" /\ stored # "none"
               THEN "connecting" ELSE station

-----------------------------------------------------------------------------
(* Writing and publishing the status.                                      *)

\* Some other task has read the status and is about to write it back.
HandlerIsBetween == handler.step = "write" /\ handler.event # "start"
PingIsBetween    == ping.step = "write"

\* _wifi_st_set.
Write(st, overtakes) ==
  /\ status' = st
  /\ overtaken' = (overtaken \/ overtakes)

\* view_event_publish_state of VIEW_EVENT_WIFI_ST.
Publish(st) ==
  /\ told' = st.hasIp
  /\ overtaken' = (overtaken \/ st.hasIp # status.hasIp)

-----------------------------------------------------------------------------
(* The event loop: _wifi_event_handler and _ip_event_handler.              *)

\* _wifi_st_get and the changes the event makes.
StatusAfter(e) ==
  CASE e = "start"        -> Connecting
    [] e = "connected"    -> Connected
    [] e = "disconnected" -> Disconnected(retries < RetryMax)
    [] e = "gotIp"        -> GotIp(status)

TakeEvent ==
  /\ handler = NoEvent
  /\ events # <<>>
  /\ events' = Tail(events)
  /\ handler' = [event |-> Head(events), step |-> "write",
                 status |-> StatusAfter(Head(events)), count |-> 0]
  /\ retries' = IF Head(events) = "gotIp" THEN 0 ELSE retries
  /\ UNCHANGED <<status, told, configured, looks, checks, command, task, ping,
                 radio, station, stored, reachable, request, overtaken, counts>>

WriteEvent ==
  /\ handler.step = "write"
  /\ Write(handler.status, PingIsBetween)
  /\ handler' = [handler EXCEPT !.step = "publish"]
  /\ UNCHANGED <<told, configured, looks, checks, retries, command, task, ping,
                 driver, reachable, request, counts>>

\* view_event_post_command of VIEW_EVENT_WIFI_CONNECT_RET.  That the queue rejects
\* the result is logged, no more.
Answer(result) ==
  \/ request' = "none" /\ refusals' = 0
  \/ /\ request # "none"
     /\ refusals < MaxRefusals
     /\ refusals' = refusals + 1
     /\ request' = result

\* Mutant: a connection that failed is not reported.
PublishEventSilent ==
  /\ handler.step = "publish"
  /\ Publish(handler.status)
  /\ LET again == handler.event = "disconnected" /\ handler.status.connecting
     IN /\ IF again \/ handler.event = "start" THEN Connect
                                               ELSE UNCHANGED station
        /\ handler' = IF again THEN [handler EXCEPT !.step = "count",
                                                    !.count = retries + 1]
                               ELSE NoEvent
        /\ IF handler.event = "connected" THEN Answer("success")
                                          ELSE UNCHANGED <<request, refusals>>
  /\ UNCHANGED <<status, configured, looks, checks, retries, command, task,
                 ping, radio, stored, events, reachable, commands, outages>>

\* The status is published; then connect, or report a result to the screen.
PublishEvent ==
  /\ handler.step = "publish"
  /\ Publish(handler.status)
  /\ LET again == handler.event = "disconnected" /\ handler.status.connecting
     IN /\ IF again \/ handler.event = "start" THEN Connect
                                               ELSE UNCHANGED station
        /\ handler' = IF again THEN [handler EXCEPT !.step = "count",
                                                    !.count = retries + 1]
                               ELSE NoEvent
        /\ IF again \/ handler.event \in {"start", "gotIp"}
             THEN UNCHANGED <<request, refusals>>
             ELSE Answer(IF handler.event = "connected" THEN "success"
                                                        ELSE "failure")
  /\ UNCHANGED <<status, configured, looks, checks, retries, command, task,
                 ping, radio, stored, events, reachable, commands, outages>>

\* s_retry_num++ was not atomic with the resets of the other tasks.
CountRetry ==
  /\ handler.step = "count"
  /\ retries' = handler.count
  /\ handler' = NoEvent
  /\ UNCHANGED <<status, told, configured, looks, checks, command, task, ping,
                 driver, reachable, request, overtaken, counts>>

-----------------------------------------------------------------------------
(* The delivery task: _view_event_handler.                                 *)

\* What a command does, in order: _wifi_connect, _wifi_cfg_restore and
\* _wifi_shutdown.
Steps(kind) ==
  CASE kind = "connect"  -> <<"stop", "configure", "write", "publish", "start">>
    [] kind = "delete"   -> <<"forget", "write", "publish", "restore">>
    [] kind = "shutdown" -> <<"forget", "write", "publish", "stop">>

\* The step of the command under way that follows its present one.
Done ==
  LET steps == Steps(command.kind)
      i     == CHOOSE j \in DOMAIN steps : steps[j] = command.step
  IN command' = IF i = Len(steps) THEN NoCommand
                                  ELSE [command EXCEPT !.step = steps[i + 1]]

BeginCommand(kind) ==
  /\ command = NoCommand
  /\ commands < MaxCommands
  /\ commands' = commands + 1
  /\ command' = [kind |-> kind, step |-> Head(Steps(kind))]
  /\ retries' = IF kind = "connect" THEN 0 ELSE retries
  /\ request' = IF kind = "connect" THEN "waiting" ELSE "none"
  /\ refusals' = 0
  /\ UNCHANGED <<status, told, configured, looks, checks, handler, task, ping,
                 driver, reachable, overtaken, outages>>

CommandRadio ==
  /\ \/ command.step = "stop" /\ Stop
     \/ command.step = "start" /\ Start
  /\ Done
  /\ UNCHANGED <<model, handler, task, ping, stored, reachable, request,
                 overtaken, counts>>

CommandConfig(network) ==
  /\ \/ command.step = "configure" /\ configured' = TRUE /\ stored' = network
     \/ command.step = "forget" /\ configured' = FALSE /\ UNCHANGED stored
     \/ command.step = "restore" /\ stored' = "none" /\ UNCHANGED configured
  /\ Done
  /\ UNCHANGED <<status, told, looks, checks, retries, handler, task, ping,
                 radio, station, events, reachable, request, overtaken, counts>>

CommandStatus ==
  /\ \/ command.step = "write" /\ UNCHANGED told
        /\ Write(Reset, HandlerIsBetween \/ PingIsBetween)
     \/ command.step = "publish" /\ UNCHANGED status /\ Publish(Reset)
  /\ Done
  /\ UNCHANGED <<configured, looks, checks, retries, handler, task, ping,
                 driver, reachable, request, counts>>

-----------------------------------------------------------------------------
(* _indicator_wifi_task and the ping session.                              *)

LookAtGoodLink ==
  /\ task = "idle" /\ status.hasIp /\ ping = NoPing
  /\ IF status.network /\ checks < NetworkChecks
       THEN checks' = checks + 1 /\ UNCHANGED ping
       ELSE /\ checks' = IF status.network THEN 0 ELSE checks
            /\ ping' = [NoPing EXCEPT !.step = "running"]
  /\ UNCHANGED <<status, told, configured, looks, retries, handler, command,
                 task, driver, reachable, request, overtaken, counts>>

\* The driver and the event loop have something under way.
Busy == station \in {"connecting", "associated"} \/ events # <<>> \/ handler # NoEvent

\* Mutant: the looks are not counted anew after a restart.
LookAtLostLinkOnce ==
  /\ task = "idle" /\ ~status.hasIp /\ configured /\ ~status.connecting
  /\ looks <= ReconnectAfter + 1
  /\ looks' = looks + 1
  /\ IF looks > ReconnectAfter
       THEN /\ retries' = 0 /\ task' = "stop"
            /\ outages' = outages + IF Busy THEN 1 ELSE 0
            /\ outages' <= MaxOutages
       ELSE UNCHANGED <<retries, task, outages>>
  /\ UNCHANGED <<status, told, configured, checks, handler, command, ping,
                 driver, reachable, request, overtaken, commands, refusals>>

\* The looks are 5 s apart: whatever is under way is over before they are used
\* up, but for MaxOutages times.
LookAtLostLink ==
  /\ task = "idle" /\ ~status.hasIp /\ configured /\ ~status.connecting
  /\ IF looks > ReconnectAfter
       THEN /\ looks' = 1 /\ retries' = 0 /\ task' = "stop"
            /\ outages' = outages + IF Busy THEN 1 ELSE 0
            /\ outages' <= MaxOutages
       ELSE looks' = looks + 1 /\ UNCHANGED <<retries, task, outages>>
  /\ UNCHANGED <<status, told, configured, checks, handler, command, ping,
                 driver, reachable, request, overtaken, commands, refusals>>

RestartRadio ==
  /\ \/ task = "stop" /\ Stop /\ task' = "start"
     \/ task = "start" /\ Start /\ task' = "idle"
  /\ UNCHANGED <<model, handler, command, ping, stored, reachable, request,
                 overtaken, counts>>

\* Mutant: an answer means the network is there, whatever has_ip says.
PingEndsBlindly(received) ==
  /\ ping.step = "running"
  /\ ping' = [step |-> "write", status |-> [status EXCEPT !.network = received]]
  /\ UNCHANGED <<model, handler, command, task, driver, reachable, request,
                 overtaken, counts>>

\* _ping_end: the status is read, ...
PingEnds(received) ==
  /\ ping.step = "running"
  /\ ping' = [step |-> "write",
              status |-> [status EXCEPT !.network = status.hasIp /\ received]]
  /\ UNCHANGED <<model, handler, command, task, driver, reachable, request,
                 overtaken, counts>>

\* ... written, ...
PingWrites ==
  /\ ping.step = "write"
  /\ Write(ping.status, HandlerIsBetween)
  /\ ping' = [ping EXCEPT !.step = "publish"]
  /\ UNCHANGED <<told, configured, looks, checks, retries, handler, command,
                 task, driver, reachable, request, counts>>

\* ... and published, and the session is over.
PingPublishes ==
  /\ ping.step = "publish"
  /\ Publish(ping.status)
  /\ ping' = NoPing
  /\ UNCHANGED <<status, configured, looks, checks, retries, handler, command,
                 task, driver, reachable, request, counts>>

-----------------------------------------------------------------------------
(* The driver's link and the access point.                                 *)

Usable == reachable /\ stored = "right"

\* An attempt succeeds, an address is obtained, an attempt fails or a link is
\* lost.
LinkChanges ==
  /\ \/ station = "connecting" /\ Usable
        /\ station' = "associated" /\ PostEvent("connected")
     \/ station = "associated" /\ reachable
        /\ station' = "addressed" /\ PostEvent("gotIp")
     \/ station = "connecting" /\ ~Usable
        /\ station' = "idle" /\ PostEvent("disconnected")
     \/ station \in {"associated", "addressed"} /\ ~reachable
        /\ station' = "idle" /\ PostEvent("disconnected")
  /\ UNCHANGED <<model, handler, command, task, ping, radio, stored, reachable,
                 request, overtaken, counts>>

AccessPoint ==
  /\ reachable' = ~reachable
  /\ outages' = outages + IF reachable THEN 1 ELSE 0
  /\ outages' <= MaxOutages
  /\ UNCHANGED <<model, handler, command, task, ping, driver, request, overtaken,
                 commands, refusals>>

-----------------------------------------------------------------------------
EventLoop == TakeEvent \/ WriteEvent \/ PublishEvent \/ CountRetry
Dispatch  == \/ CommandRadio \/ CommandStatus
             \/ \E network \in {"right", "wrong"} : CommandConfig(network)
WifiTask  == LookAtGoodLink \/ LookAtLostLink \/ RestartRadio
Ping      == \/ \E received \in BOOLEAN : PingEnds(received)
             \/ PingWrites \/ PingPublishes

LinkNext ==
  \/ EventLoop \/ Dispatch \/ WifiTask \/ Ping \/ LinkChanges \/ AccessPoint
  \/ \E kind \in {"connect", "delete", "shutdown"} : BeginCommand(kind)

LinkSpec == LinkInit /\ [][LinkNext]_linkVars

\* The tasks run, a ping session ends, and an attempt to connect has an outcome.
\* Nobody has to give a command or to repair the access point.
FairSpec ==
  /\ LinkSpec
  /\ WF_linkVars(EventLoop) /\ WF_linkVars(Dispatch) /\ WF_linkVars(WifiTask)
  /\ WF_linkVars(Ping) /\ WF_linkVars(LinkChanges)

-----------------------------------------------------------------------------
\* Every task writes a whole status, so that it stays one the handlers make.
Statuses == {st \in [connecting : BOOLEAN, connected : BOOLEAN, hasIp : BOOLEAN,
                     network : BOOLEAN] :
               /\ st.network => st.hasIp
               /\ st.hasIp => st.connected
               /\ ~(st.connecting /\ st.connected)}

Requests == {"none", "waiting", "failure", "success"}

\* Type invariant; the retries stay within their limit although two tasks reset
\* and count them.
LinkTypeOK ==
  /\ status \in Statuses
  /\ told \in BOOLEAN /\ configured \in BOOLEAN /\ reachable \in BOOLEAN
  /\ request \in Requests /\ overtaken \in BOOLEAN
  /\ looks \in 0 .. ReconnectAfter + 1
  /\ checks \in 0 .. NetworkChecks
  /\ retries \in 0 .. RetryMax
  /\ handler \in [event : {"none", "start", "connected", "disconnected", "gotIp"},
                  step : {"idle", "write", "publish", "count"},
                  status : Statuses, count : 0 .. RetryMax]
  /\ command = NoCommand \/
       \E kind \in {"connect", "delete", "shutdown"} :
         \E i \in DOMAIN Steps(kind) :
           command = [kind |-> kind, step |-> Steps(kind)[i]]
  /\ task \in {"idle", "stop", "start"}
  /\ ping \in [step : {"none", "running", "write", "publish"}, status : Statuses]
  /\ radio \in {"started", "stopped"}
  /\ station \in {"idle", "connecting", "associated", "addressed"}
  /\ stored \in {"none", "right", "wrong"}
  /\ events \in Seq({"start", "connected", "disconnected", "gotIp"})
  /\ Len(events) <= MaxEvents
  /\ commands \in 0 .. MaxCommands /\ outages \in 0 .. MaxOutages
  /\ refusals \in 0 .. MaxRefusals

\* A request to connect gets a result, with success or with failure, unless it is
\* superseded, whatever the retries and the Wi-Fi task's restarts do meanwhile.
\* If the event queue rejects a failure, the request is not given up: the next
\* restart of the Wi-Fi task leads to another result, unless the failure was
\* overtaken by an older status.  A rejected success is not repeated while the
\* link is up, and that request stays unanswered.
ConnectIsAnswered ==
  /\ request = "waiting" ~> request # "waiting"
  /\ []~overtaken => (request = "failure" ~> request # "failure")

Available == configured /\ Usable

\* When the configured network is there for good, the link comes up and is said
\* to be up.
Recovers == <>[]Available => <>[](station = "addressed" /\ told)

\* It does unless one task wrote or published a status over a newer one.
RecoversUnlessOvertaken == []~overtaken => Recovers
=============================================================================
