# Formal models of the SenseCAP Indicator Home Assistant firmware

This directory holds TLA+ specifications of the concurrent core of the firmware
(`main/` of the repository, ESP32-S3 with FreeRTOS), TLC configurations that
model-check them on small instances, and proofs checked by TLAPS. `PROJECT.json`
lists the runs, the mutants, the theorems, the hazards and, under `map`, the source
lines each definition models.

## 1. The system

The ESP32-S3 runs the UI (LVGL), the MQTT and Native (ESPHome) transports to Home
Assistant, Wi-Fi, and reads sensors from an RP2040 over a serial link. Components talk
through *view events* (a bounded queue with coalesced state), through the *entity
core* (authoritative values with observers) and through two private event loops.

| Component | State it keeps | Operations | Hard behaviours | What makes it correct |
| --- | --- | --- | --- | --- |
| View-event delivery `view_event/` | state slots, event loop queue, retry queue, delivery lock | `post_command`, `publish_state`, two delivery tasks | lock tried and given up, tokens deferred to a second task, handlers that publish, full queues | an accepted state or a newer one is shown, commands are handled once, no overflow, no abort |
| Entity core `ha/entity_core.c` | snapshot per entity, version, observers | submit, set_sensor, replay, get_snapshot, add_observer | two mutexes, callbacks outside the state mutex, replay between commits | atomic register, observers told in order, none misses a commit |
| HA switch `ha/ha_switch*.c` | widget, debounce and result timers, generations | user change, debounce, result, timeout, model update | late results, lost SETs, newer values during a wait, a second writer | widget converges to the core, no unconfirmed value without a timer |
| HA sensors `ha/ha_sensor.c`, `sensor/` | last sample per sensor | packet, core update, MQTT publish | same handler on two tasks | core holds the newest sample |
| MQTT lifecycle `mqtt/mqtt.c`, `ha/ha_mqtt.c` | client, generation, mailbox, net flag | request, start, stop, connected, publish | requests merged, Wi-Fi status seen by two handlers, events of a replaced client | running iff enabled and online, old clients ignored |
| Native server `ha/native_api_server.c` | control generation, PSK, clients, transmit queues, dirty sets | setters, apply, retry, accept, read, flush, produce | configuration changed during restart, slow clients, queue limits | no stale key, subscribers get the last value, slots come back |
| Noise, framing `ha/native_api_noise.c`, `native_api_protocol.c` | parser and session state | feed, process, encode | split and joined reads, errors in the middle | same frames for every split |
| Wi-Fi `wifi/wifi_model.c` | link status, retry counters | Wi-Fi, IP and ping callbacks, task | unsynchronised read-modify-write | status follows the last event |
| Wi-Fi scan `wifi/wifi_scan_worker.c`, `wifi_view.c` | generation, busy flag, timer | request, execute, post, timeout | late and lost results | loading always ends, no stale list |
| Display `display/display_model.c` | backlight, timer flag, configuration | sleep, wake, configure | check-then-act on the timer, three tasks | no abort, backlight follows the last request |
| Button `btn/` | elapsed time, emitted flags | press, hold, release | release without a begin, rejected command | each action once, for its own press |
| LVGL health, RP2040 link, storage, console, screens, boot | counters, buffers | - | resynchronisation on a lossy stream | see `PROJECT.json` |

Interaction: a widget posts `HA_SWITCH_ST` to the event queue; the delivery task submits
it to the core; the core tells its observers (the switch adapter and the Native server)
under the notification mutex; the adapter publishes `HA_SWITCH_SET` and queues an MQTT
publish; a result goes back through the queue. Remote commands enter the core from the
MQTT task and the Native task.

## 2. Modules

| Module | Models |
| --- | --- |
| `DeliveryContract` | what the view events promise, without slots, queues and locks: per key the newest accepted value, each at most once; commands once and in order |
| `ViewEvent` | `view_event.c` and `view_event_esp_adapter.c`, one step per lock, scan, post and unlock; implements `DeliveryContract` |
| `EntityRegister` | what `entity_core.h` promises: an atomic register with observers |
| `EntityCore` | `entity_core.c` with its two mutexes; implements `EntityRegister` |
| `HaSwitchSync` | `ha_switch_sync.c`, seven pure functions |
| `HaSwitch` | one control from widget to core and back, over an abstraction of the two modules above |
| `MqttLifecycle` | `mqtt.c` and `ha_mqtt.c` with the settings of `ha_config.c` and `cmd.c` they read: who asks for a client, who makes and destroys it |
| `NativeControl` | `native_api_server.c`: configuration, restart and retry, with `native_config.c` and `native_api.c` |
| `NativeSession` | `native_api_server.c`: the server loop, client slots, transmit queues, keepalive, with what frames do to a session |
| `WifiLink` | `wifi_model.c`: one link status shared by four tasks, and the driver |
| `WifiScan` | `wifi_view.c`, `wifi_scan_ui_state.c`, `wifi_scan_worker*.c`: a scan from the modal to the list |
| `DisplaySleep` | `display_model.c`, `btn/`: backlight, sleep timer, configuration and the button |
| `MC*` | instances for TLC |
| `*Proofs` | theorems about the module of that name; `WifiProofs` extends both `WifiScan` and `WifiLink` (whose `LinkInit`, `LinkNext`, `LinkSpec` are named apart for it), which share no variable |

`EntityCore` instantiates `EntityRegister` and `ViewEvent` instantiates `DeliveryContract`
(refinements); `HaSwitch` extends `HaSwitchSync`; the others stand alone. Where they meet, each assumes of the other what is
checked there: `NativeSession` takes a `Restart` as what `NativeControl` decides and a commit
as what `EntityCore` tells; `NativeControl` and `MqttLifecycle` take `has_ip` as an input,
which `WifiLink` produces; `HaSwitch`, `WifiScan` and `DisplaySleep` take a command as
accepted or rejected and a state as coalesced and delivered once, as in `ViewEvent`.

**ViewEvent.** `slots`, `eventQ`, `retryQ` and `lock` are `s_state_slots`, the ESP event
loop's queue, `s_state_retry_queue` and `s_lock`. `callPc` says where a caller is in
`publish_state` or `post_command`, `pc` where a delivery task is. A payload is the
number of the accepted publication of its key, so "newer" is visible. Handlers run on
the tasks and may themselves publish and post (`Threads`). `PublishBusy` and
`DispatchDefer` are the two timeouts on the lock: zero and 5 ms. Both may happen whenever
somebody else holds the lock. A post may fail with room in the queue since ESP event
posting allocates. Ghosts: `accepted`, `taken`, `shown`, `posted`, `handled`.
`Contract` maps it to `DeliveryContract`: what a task delivers (`Delivering`) is what it took from a
slot, or the command in its hand, while its handlers run, and commands begun (`Begun`) are those
handled and the one in hand. An accepted publication is the contract's `Accept`, the clearing of a
slot its `Take`, an accepted command its `Post`, the receipt of one its `Begin`, the return of the
handlers its `Show` or `Handle`; all else stutters.

**EntityCore.** `notifyLock` and `stateLock` are the two mutexes; `states`, `version`,
`observers` the three statics. A commit is two steps (`WriteValue`, `WriteVersion`), as
its fields are written one by one. Each observer callback is one step. `answer`, `told`
and `caughtUp` are ghosts. Sensor validity is "version > 0". `entity_core_init` runs
before every other call (`indicator_model.c`), so the NOT_INITIALIZED returns are left out.
Observers never call the core: they set a bit, or publish and post without waiting.

**HaSwitch.** Callbacks of the screen hold the LVGL lock and are one step. The queue
carries commands, results and the token of the slot's SET; a SET may be coalesced,
dropped or deferred. A commit and its SET are one step, which `EntityCore` justifies: the
notification mutex orders the SETs like the commits. The core accepts every UI value, as
the widget ranges equal the registry's. Init is the screen after its creation; the
replay of `ha_switch_init` is one of the `Replay` steps.

**MqttLifecycle.** Three requesters (`pc`): the delivery task with a Wi-Fi status, the
configuration task after `setmqtt`, the console with `mqtt enable` and `disable`. Each
reads NVS (`ReadEnabled`), stores `is_using` (`StoreUsing`), chooses a request (`Decide`), merges
it into `mailbox` (`Request`, the critical section of `mqtt_control_request`) and posts a
wake (`Wake`), which a full queue drops. The status handler of `mqtt.c` stores the network
flag afterwards (`SetNetFlag`), since `ha_mqtt.c` subscribed before it. The lifecycle task
(`life`) takes the mailbox (`Dispatch`), serves the request (`ServeStop`, `ServeStart`,
`ServeNothing`), stops the old client in the three steps of `mqtt_instance_stop` (`Detach`,
`Destroy`, `Free`), builds and starts one (`Recheck` to `StartFails`) and takes the report
(`Connected`). A client's own task (`task`) connects, reports and disconnects. Handles are
given out again after destruction (`Handles` has one), so a report of a destroyed client
can name the handle of the next one; only the generation tells them apart. It is kept as
one bit of the report, whether it is still current. Simplifications: statuses are handled
by one delivery task, a configuration and its CA are read in one step, the pings repeat the last
status while there is an IP, boot is done, and a wake fails only on a full queue (in the code also
when the heap is exhausted). `lastStop` and `subscribed` are ghosts.

**NativeControl.** The console writes NVS first and announces afterwards
(`WriteEnabled`/`AnnounceEnabled`, `WriteKey`/`AnnounceKey`), Wi-Fi sets `has_ip`; each
change bumps `generation` (`s_control_generation`). The server task (`pc`) takes a snapshot
(`BeginRestart`), stops, reads the key (`ReadKey`, `ReadFails`), looks at the generation
again (`CheckAfterRead`), listens (`Listen`, `ListenFails`) and looks once more
(`CheckAfterStart`). A failed listen is retried (`RetryServer`). A stored key carries the
number of its write, so that "older" means something; `announced` and `checked` are ghosts,
the newest announcement and what it was when the task last looked. The device may reboot at
any step (`Reboot`): NVS stays.

**NativeSession.** `clients` is `s_clients`; its `tx` is the transmit queue, `dirty` the
entities marked for one client, the variable `dirty` is `s_dirty`, which the core's observer sets.
One turn of the server loop is `Distribute`, `Service` for each client (listing, one state,
keepalive, flush), `Accept`, and `ReadFrame` for the frames of a chunk, then `FinishClient`. A
message leaves the queue with its last byte; the network holds `NetCapacity` of them. Peers
may send any frame, keep silent, stop reading, or close. Time is left out: at any turn a client is late or
it is not. `current`, which pairs what was queued last with the core's state, and `listed`
are ghosts.

**WifiLink.** Each task copies `status` under the mutex, works on the copy, writes it back and
publishes it, in separate steps (`TakeEvent`, `WriteEvent`, `PublishEvent`; `PingEnds`,
`PingWrites`, `PingPublishes`). `Command*` are the three commands, `LookAt*` and
`RestartRadio` the Wi-Fi task. The driver (`radio`, `station`, `stored`, `events`) and the access
point are external. `overtaken` becomes true when a status is written or published over a newer one:
nothing in the code prevents it, and the properties that hold name it.
`request` is what became of the last request to connect: waiting for a result, answered, or left with a
failure or success that the event queue rejected (`Answer`). Published states are never dropped here:
the next event or ping repeats them.

**WifiScan.** `scan` is `s_wifi_scan_state`, `timer` the generation of the LVGL timer, `modal`,
`spinner`, `shown`, `dialog` and `toasts` what is on the screen, `slot` and `worker` the worker's
request queue and its state. Steps hold the LVGL lock, so `VIEW_EVENT_WIFI_CONNECT_RET`, which takes it twice,
is two (`DeliverResult`, `FinishResult`). `lost` is a ghost: scans whose answer was given up.

**DisplaySleep.** `cfg`, `timer_st` and `display_st` are the fields of `_g_display_model`,
`armed` says that `esp_timer` has the sleep timer running, `pc` and `job` where a task is in an
operation: the event loop's (a configuration, a brightness), the retry task's (a brightness)
and the ESP timer task's (expiry, clicks, holds and releases, one at a time). `CheckTimer` to
`StartTimer` are `_sleep_mode_restart` with its check of `timer_st`, `esp_timer_stop`, the flag
and `esp_timer_start_once`. `Abort` is an `ESP_ERROR_CHECK` of these two that fails: the device
restarts from NVS. `button` and `repeat` are the state of the button library, `elapsed` the number
of thresholds `s_elapsed_ms` has passed, `emitted` the emitted flags. The hold time of a second
press cannot reach 3 s while a factory reset of 3 s is due, which is a guard of `HoldPasses`.
`applied`, `waited`, `raced` and `shutdowns` are ghosts.

## 3. Runs

| Run | Instance | Shows |
| --- | --- | --- |
| `view_event` | 1 producer beside the handlers, 3 keys, 2 slots, queue of 2, 3 publications, 1 command, fair | no state lost, duplicated, split over two slots or taken twice; no retry overflow; refinement of the contract; accepted states are shown and commands handled |
| `view_event_latest_shown` | 2 keys and slots | **violated**: an older value can be handled last |
| `entity_core` | 2 tasks, sensor and number, 2 observers for 1 place, 2 writes, fair | refinement of the register (and with it the order of notifications), their completeness, every call returns |
| `mqtt_lifecycle` | 3 requesters, 1 handle, queue of 1, 2 link changes, 1 console command, 1 failure, fair | no request or report is lost, no client leaks, outlives its CA or a last STOP, sessions get subscribed, a ready device ends with a client |
| `mqtt_broker_change` | 2 configurations, 3 link changes, 1 command, no failure | **violated**: the old client can stay on the old broker after a change |
| `ha_switch` | toggle and debounced control, 3 user changes, 1 remote write or replay, fair | timers cover every unconfirmed value and end it, convergence by SETs and by results alone |
| `native_control` | 1 key or none, 1 slot, 5 changes, 1 failure, 1 reboot, fair | what is applied is what is stored, no client under an older key, the server converges |
| `native_session` | 1 client, plain or Noise, 2 entities, queue of 3, network of 1, 3 frames, 1 commit, fair | no state is forgotten, lists are complete, goodbyes are last words, readers catch up, mute peers are dropped |
| `wifi_link` | 1 retry, 1 command, 1 outage, 2 driver events, 1 rejected result, fair | a result of a request to connect is posted, and another one if a failure is rejected; a network that is back is joined and said so, unless a status was overtaken |
| `wifi_recovers` | the same without a command | **violated**: without that condition |
| `wifi_scan` | 4 scans, 2 results, 1 join, queue of 3, 3 attempts | a waiting modal has its timer, the newest request is owed an answer, the newest list stays |
| `display_sleep` | 3 presses, 3 settings, fair | checks only fail after an overlap, a press acts once, a display lit by `display_st` goes dark |

**Bounds.** All `Max*` constants cap calls, events and failures.
In `view_event` more keys than slots makes the "no slot" path and reuse of a slot happen, and three
publications allow a deferral, a coalesced value behind it and a reuse of the slot; the instance is
small because it carries the liveness; its invariants and the refinement, with the order of several
commands, are proved for every size. In
`entity_core` two writes allow two racing commits to one entity with a replay between them, and two
observers for one place the rejection of the second. In `ha_switch` three changes give an
answered, a timed-out and a rejected generation at once. `Generations` is 16 in the run, above what
the bounded changes can reach; the wrap at 2^32 is not exercised. In `mqtt_lifecycle` a queue of one
place makes dropped wakes common, and one link change each way with one command and one failure
lets a START, a RESTART and a STOP of three tasks meet in the mailbox while a client is being
built or destroyed. The stored configuration is one with a CA, or none to begin with.
In `native_control` five changes are an address, a key, the setting and two of them again during
the restart they cause. In `native_session` one client suffices, as slots share only `s_dirty` and
the turn; the queue has three places because with two, one for control frames and one for states,
a ping may fill the second at each turn: time being abstracted, nothing spaces pings 30 s apart.
In `wifi_link` one retry, restarts and pings after a single look stand for three, five and sixty; `MaxRefusals`
bounds how many results of one request the event queue rejects.
In `wifi_scan` three places in the queue hold a request, an answer and a dialog's command; the
run stops where its bounds are used up. In `display_sleep` three presses give a long press, a short one
judged by its time and a click; brightness has one level, as no property reads it.

**Fairness.** ViewEvent: weak fairness only, of a caller inside a call and of each delivery
task, including the receive step; the tasks' waits for the lock end because each holder has it for a
few instructions, and a wait that times out is itself a step. EntityCore: weak fairness of a
caller and strong fairness of the notification mutex, as FreeRTOS hands a mutex to its
waiters and every caller is event driven. MqttLifecycle: weak fairness of every task, as all are
FreeRTOS tasks that block between events, and strong fairness of `Destroy`, which waits for a lock
the client task gives back in each turn of its loop. HaSwitch: weak fairness of delivery and of due
timers. NativeControl: weak fairness of the server task, of an announcement that was begun and of
the passing of the retry delay. NativeSession: weak fairness of the server loop, of an observer call and
of a peer that reads, and strong fairness of a turn at which a client is late: time passes, so
a client is not early at every turn for ever. WifiLink: weak fairness of the tasks, of the end of a ping
session and of an attempt to connect, each of which the driver bounds. DisplaySleep: weak fairness of
the tasks' work and of the sleep timer. No fairness is assumed of producers, users, brokers, the network
or remote clients. `WifiScan` has no liveness: that a wait ends follows from `PendingIsTimed`
and the timer.

Runs with `CHECK_DEADLOCK FALSE` stop when their bounds are used up, or, in `display_sleep`, when
nobody touches the device.

## 4. Findings

1. The documents promise the latest value per key; the lock is given back before the
   handlers run, so the retry task may show an older copy last.
2. `docs/stability/hardware-smoke-checklist.md:160` says that after a change of the broker the
   old client stops and a new one starts with the stored URI. The RESTART of the change may
   replace the STOP of a Wi-Fi loss in the mailbox and then be dropped because there is no IP
   (`mqtt.c:135`), or be replaced by that STOP and the START of the recovery (`mqtt.c:44-48`). Then
   every later START finds the old client (`mqtt.c:142`), which stays on the old broker.
3. `docs/stability/hardware-smoke-checklist.md:142` says recovery starts the transports. `_ping_end`
   (`wifi_model.c:283`) can write "connecting, no IP" from before an outage over "connected, IP"
   of the recovery and publish it; nothing looks at a connecting link again.

Seen in the models, without a sentence of the repository that they contradict in a run:

* `view_event.h:37` says handlers run serially on one task; deferred states are
  dispatched by a second one (`view_event_esp_adapter.c:37-47`), beside the first: in `ViewEvent`
  both tasks can be at `"handle"`. `DisplaySleep` and finding 1 show what follows from it.
* Two races of `is_using` heal by themselves: a handler may store a value read before `mqtt
  disable`, and a START may be dropped since it came before the network flag. Each later status, at
  latest the next ping's, repeats the request.
* Native server: a client that asked to disconnect is exempt from the keepalive
  (`native_api_server.c:952`), so one that never reads keeps its slot; a full transmit queue keeps the
  ping from being queued. `MuteIsDropped` therefore asks the peer to take what it is sent.
* Wi-Fi: a shutdown may race the Wi-Fi task's restart and leave the radio on; a stale connected event may
  answer a newer request to connect; statuses are published outside the mutex, in any order. A result that
  the event queue rejects is only logged (`wifi_model.c:125`, `:155`): after a failure the next restart by
  the Wi-Fi task leads to another result, which `ConnectIsAnswered` says, but a success is not repeated
  while the link is up, so that request stays unanswered.
* Wi-Fi view: the spinner of a connection has no timer, so a rejected result leaves it until the
  modal is opened again; two results within 1.5 s leak the handle of the first toast.
* Display: `timer_st` is read before the timer is stopped or started, so a click, hold or expiry on
  the timer task beside a configuration on the event loop can make `ESP_ERROR_CHECK` fail
  (`display_model.c:145`, `:159`), or leave `timer_st` wrong without failing, so that a later
  configuration, alone, reboots the device. `indicator_display_sleep_restart` may work with a configuration just replaced
  (`display_model.c:282`), and a brightness can write an old sleep setting back
  (`display_model.c:232`): the display then stays lit. A brightness that comes while the display is
  off lights it without a timer. All but the last need two tasks at once, which `raced` records.
* Button: a release whose shutdown is rejected is judged again at the next short press
  (`button_press_state.c:52`), a second chance to shut down, which
  `hardware-smoke-checklist.md:97` allows; `PressActsOnce` bounds it.

## 5. Proofs

TLAPS proves these for every value of the constants, from the named assumptions of each
module (disjoint names, positive sizes, well-formed registry constants).

* `ViewEventProofs`: `TypeCorrect`; `LockCorrect` (who is in a critical section);
  `TokensCorrect`: every used slot has exactly one token in the event queue, in the retry
  queue or in a task's hand, or is being written by the lock's holder. That is
  inductive together with the lock invariant, and with it the retry queue holds
  different slots only, so it has room for one more and the adapter never aborts.
  `AcceptedCorrect` from `HeldInv`: what each slot holds, per step of a publisher and of a
  delivery task, is the newest accepted value of its key and newer than what was taken.
  `CommandsCorrect`: the commands in the event queue are exactly those accepted and not begun, each
  once and in order, and only the event loop's task holds one. `ImplementsContract`: every step is a
  step of `DeliveryContract` or a stutter. It rests on `HeldInv` (what `DispatchClear` takes is the
  accepted value and was not taken before), `CommandInv` (what `LoopReceive` takes is the next
  command) and `DeliveredInv` (what is in a task's hand was taken). `StepsAreCounted`: a call has a
  measure that each of its steps lowers and nothing else changes, so a publication ends three steps
  after it took the lock and a command after `CommandAttempts`. Handlers publish and post: this
  bounds how long they can keep a delivery task.
* `EntityCoreProofs`: `TypeCorrect`, `LockCorrect`; `CaughtUpStaysCurrent` from `TellInv`,
  which says for an observer that was replayed what it was told of each entity: the
  current snapshot, or a commit is being told that still has it in its list;
  `NeverToldBackwards` (`ToldInOrder`, which the refinement implies and no run lists) from the same
  invariant; `ImplementsRegister`: every step of the
  two-mutex core is a step of `EntityRegister` or a stutter under the mapping
  that keeps a state's old snapshot until its version is written. For the safety that `CallsReturn`
  rests on, `HolderNeverWaits`: whoever waits for one of the mutexes waits for the holder of the
  notification mutex, which does not wait; and `StepsAreCounted`: a call has a measure that each of
  its steps lowers and no other call raises, at most `Capacity + 4` for a commit and
  `2 * NumEntities + 1` for a replay.
* `MqttLifecycleProofs`: `TypeCorrect`; `CaOutlivesClients` from `ClientInv`: a
  client with a task has been built, a handle to be destroyed exists only during
  `Destroy`, and from the stop of the old client until the new one is built there is no
  `client` (which makes the CA safe to free and load); `LastStopIsObeyed` from `StopInv`: a last
  STOP is in the mailbox, or the lifecycle task is serving it, or no client is left and
  nothing in hand could make one; `NoRequestSleeps`, where `Dispatch` empties the whole
  mailbox and everything that fills it posts afterwards; `SessionsGetSubscribed` from `SessionInv`:
  as long as a client in session is the current one and not being detached, the connected flag is up
  and, until it is subscribed, its own CONNECTED report is due from it, in the mailbox or in the
  lifecycle task's hand.
* `HaSwitchProofs`: `TypeCorrect`; `UnconfirmedIsWatched` from `WatchInv`: generations in the state,
  in the queue and in hand are ordered and below `next_generation`, so the timer that runs can only be the one of the
  visible generation. It assumes `Unwrapped`, that the generations (2^32 in the code) do not wrap: after
  a wrap an old result compares as newer. `WidgetFollowsCore` needs the same assumption, and
  `ConvergeInv` beside `WatchInv`. `BusInv`: a SET in its slot or in hand has a version the core has had,
  and the core's value if it has the core's version. `Showing`: once the SET of the last commit was
  shown, the state machine has accepted the core's value and no answer on its way is newer.
  `Lined` and `Answering`, for when no SET is shown at all: commands, answers and results wait in the order
  of their generations, and the newest answer, or the accepted value if none is on its way, has the core's
  value. At rest nothing is on its way, so widget and core agree.
* `NativeControlProofs`: `TypeCorrect`; `ServesWhatIsStored` and `KeysNeverGoBack` from `ServedInv`: what
  a restart has seen is the current configuration as long as the generation is the one it saw, and the key
  read afterwards is at least as new as what was announced with it.
* `NativeSessionProofs`: `TypeCorrect` (queues keep to their size, for every handler);
  `StatesReachSubscribers`: each operator on a client record owes the peer no more than before, and each
  step that takes a mark away has queued the state or passed the mark on. The invariant is inductive beside the types.
  `ListsAreComplete` from `ListInv`, which looks at the network and the transmit queue as one stream: every
  end of a list in it has all entities before it, in what was delivered or in the stream, and a listing under
  way has put there all entities below the one it is at. `FarewellsAreSent` from `ByeInv` and `InboxInv`: a closing session
  that is not to be removed has its farewell last in its queue, and only a frame that a peer sends when it
  is gone or breaks the protocol lets it be removed before that is written.
* `WifiProofs`: for the scan `TypeCorrect`; `WaitsAreTimed`, `ListsAreNew`; `NewestIsOwed` from `InOrder`: requests
  wait in the queue, the slot and the worker in the order of their generations, so what is overwritten in the slot
  is never the newest. For the link, `LinkTypeCorrect` (`WifiLink`'s `LinkTypeOK`), which needs that a status said to be connecting
  after a loss still has a retry (`RetryInv`), as several tasks write statuses and the retry counter.
* `DisplaySleepProofs`: `TypeCorrect`, `TimerChecksHold`, `OneShutdownPerPress`, from one `DisplayInv` beside
  the types. `TimerInv`: unless operations have overlapped at most one task is in one, and `timer_st`
  agrees with the timer except between the two writes of that task or between the expiry and the
  callback's end. `PressInv`: a shutdown is counted exactly if this press emitted it, a held button or a
  factory reset on its way has emitted none, and once the reset is due no new press gets as far as a threshold.

Every invariant of a passing run is proved, and so are both refinements. Only model-checked are the liveness properties
(`AcceptedIsDelivered`, `CallsReturn`, `UnconfirmedEnds`, `Converges`, `Delivered`, `MuteIsDropped`,
`ConnectIsAnswered`, `RecoversUnlessOvertaken`, `LitGoesDark`, `ReadyStarts`): they need fairness, and with it
`ENABLED`, which TLAPS has no rules for here.

## 6. Plan

Done: all modules of section 2 with their runs, in the order of what depends on what, and the
theorems of section 5. Next:

1. Proofs: call bounds and waits like those of `ViewEvent` and `EntityCore` for the tasks of
   `MqttLifecycle` and `NativeControl`.
2. `Rp2040Framing`: COBS and packet framing over a lossy stream, and the Native framing, against
   reference definitions over bounded inputs; the sensor path behind it.
3. `LvglHealth`: the watchdog's verdict over sampled counters.
4. A codec module for values: the float tolerance of `validate_command` and the `(int)` truncation.

## 7. Not modelled

* The sensor path, the RP2040 link and the RP2040's firmware, LVGL health: planned above.
* Native framing byte by byte and the protobuf messages: sequential code; a frame that cannot be parsed is an
  input of `NativeSession`. Noise cryptography is a library.
* The settings screen: it posts screen commands and holds nothing else.
* Widget layout and drawing, logging and counters, JSON text, NVS and driver I/O, boot order (an
  assumption), the console's parsing, the simulator, scripts and vendored code.
* The float tolerance of the step check and the `(int)` truncation are abstracted to exact integers.
