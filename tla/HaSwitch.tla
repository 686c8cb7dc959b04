------------------------------ MODULE HaSwitch ------------------------------
(***************************************************************************)
(* One control slot from the widget to the entity core and back:           *)
(* main/ha/ha_switch_screen.c (the widget, its timers and its view-event   *)
(* handler), ha_switch_sync.c (HaSwitchSync) and ha_switch.c (the adapter  *)
(* to the entity core).                                                    *)
(*                                                                         *)
(* A user value goes to the core as a command; the commit publishes a SET  *)
(* for the slot and is answered by a result.  SETs are replaceable state   *)
(* that may be coalesced, dropped or deferred to the second delivery task; *)
(* commands and results share the queue and may be rejected (ViewEvent).   *)
(* Callbacks of the screen run under the LVGL lock and are one step each.  *)
(* The core accepts every value of a widget, whose range and step are the  *)
(* entity's; a commit and its SET are one step, since the notification     *)
(* mutex keeps them in the same order (EntityCore).                        *)
(***************************************************************************)
EXTENDS HaSwitchSync, Sequences

CONSTANTS
  Values,      \* values of the widget
  QueueSize,   \* VIEW_EVENT_QUEUE_SIZE
  MaxChanges,  \* bound on user changes
  MaxRemote    \* bound on remote commands and replays

Loop  == "view_event_task"
Retry == "view_state_retry"
Tasks == {Loop, Retry}
Default == 0   \* switch_defaults and the entity's default value

\* Events: the user's command, the core's result, and the SET of the slot,
\* whose version tells which commit it shows.
Command(g, v) == [kind |-> "command", generation |-> g, value |-> v]
Result(g, v)  == [kind |-> "result", generation |-> g, value |-> v]
Token         == [kind |-> "token"]
Set(v, n)     == [kind |-> "set", value |-> v, version |-> n]
Nothing       == [kind |-> "none"]

Answered(kinds) == [kind : kinds, generation : Generation, value : Values]
Sets            == [kind : {"set"}, value : Values, version : Nat]

ASSUME Assumptions ==
  /\ Values \subseteq Int
  /\ Default \in Values
  /\ QueueSize \in Nat \ {0}
  /\ MaxChanges \in Nat
  /\ MaxRemote \in Nat

VARIABLES
  debounced,          \* an arc or a slider, not a toggle
  widget,             \* the value the widget shows
  sync,               \* slot->sync
  debounce_timer,     \* slot->debounce_timer is running
  result_timer,       \* slot->result_timer is running
  result_generation,  \* slot->result_generation
  queue,              \* the event loop's queue
  slot,               \* the state slot of HA_SWITCH_SET
  deferred,           \* its token is in the retry queue
  hand,               \* per task, the event its handler works on
  core,               \* the entity's snapshot: value and version
  shown,              \* version of the SET that was applied last
  lost,               \* a result was rejected by the queue
  changes, remotes    \* user changes, and remote commands and replays, so far

screen == <<widget, sync, debounce_timer, result_timer, result_generation>>
bus    == <<queue, slot, deferred>>
vars   == <<debounced, widget, sync, debounce_timer, result_timer,
            result_generation, queue, slot, deferred, hand, core, shown, lost,
            changes, remotes>>

Init ==
  /\ debounced \in BOOLEAN
  /\ widget = Default
  /\ sync = Fresh(Default)
  /\ debounce_timer = FALSE
  /\ result_timer = FALSE
  /\ result_generation = 0
  /\ queue = <<>>
  /\ slot = Nothing
  /\ deferred = FALSE
  /\ hand = [t \in Tasks |-> Nothing]
  /\ core = [value |-> Default, version |-> 0]
  /\ shown = -1
  /\ lost = FALSE
  /\ changes = 0
  /\ remotes = 0

-----------------------------------------------------------------------------
\* Mutant: the queue takes an event more than it has room for.
EnqueueBeyondCapacity(e) == queue' = Append(queue, e)

\* view_event_post_command: it may also be rejected with room in the queue.
Enqueue(e) == Len(queue) < QueueSize /\ queue' = Append(queue, e)

\* view_event_publish_state for HA_SWITCH_SET: coalesced, enqueued or dropped.
PublishSet(v, n) ==
  \/ /\ slot # Nothing
     /\ slot' = Set(v, n)
     /\ UNCHANGED queue
  \/ /\ slot = Nothing
     /\ Enqueue(Token)
     /\ slot' = Set(v, n)
  \/ UNCHANGED <<queue, slot>>

\* _apply_sync_action: suppress_post keeps the widget's own event from posting.
Apply(outcome, visible) ==
  /\ sync' = outcome.sync
  /\ widget' = IF outcome.action = "apply" THEN outcome.sync.visible_value
                                           ELSE visible

\* _publish_action: the command is posted and its result awaited; with no timer
\* for that the wait is over at once, and a rejected command is rolled back.
PublishAction(s, visible) ==
  LET g == s.visible_generation IN
  \/ /\ Enqueue(Command(g, s.visible_value))
     /\ Apply(Outcome(s, "none"), visible)
     /\ result_timer' = TRUE
     /\ result_generation' = g
  \/ /\ Enqueue(Command(g, s.visible_value))
     /\ Apply(ResultTimeout(s, g), visible)
     /\ result_timer' = FALSE
     /\ result_generation' = g
  \/ /\ Apply(LocalRejected(s, g), visible)
     /\ UNCHANGED <<queue, result_timer, result_generation>>

\* _switch_toggle_event_cb, a user's tap: published at once.
UserTaps(v) ==
  /\ ~debounced
  /\ changes < MaxChanges
  /\ changes' = changes + 1
  /\ v # widget
  /\ PublishAction(UserChanged(sync, v, FALSE).sync, v)
  /\ UNCHANGED <<debounced, debounce_timer, slot, deferred, hand, core, shown,
                 lost, remotes>>

\* _arc_event_cb and _slider_event_cb: published once the value rests.
UserDrags(v) ==
  /\ debounced
  /\ changes < MaxChanges
  /\ changes' = changes + 1
  /\ v # widget
  /\ Apply(UserChanged(sync, v, TRUE), v)
  /\ debounce_timer' = TRUE
  /\ UNCHANGED <<debounced, result_timer, result_generation, bus, hand, core,
                 shown, lost, remotes>>

\* _schedule_debounce without a timer to be had: published at once.
UserDragsWithoutTimer(v) ==
  /\ debounced
  /\ ~debounce_timer
  /\ changes < MaxChanges
  /\ changes' = changes + 1
  /\ v # widget
  /\ PublishAction(DebounceElapsed(UserChanged(sync, v, TRUE).sync).sync, v)
  /\ UNCHANGED <<debounced, debounce_timer, slot, deferred, hand, core, shown,
                 lost, remotes>>

\* _debounce_timer_cb.
DebounceElapses ==
  /\ debounce_timer
  /\ debounce_timer' = FALSE
  /\ LET elapsed == DebounceElapsed(sync) IN
       IF elapsed.action = "publish"
         THEN PublishAction(elapsed.sync, widget)
         ELSE UNCHANGED <<queue, widget, sync, result_timer, result_generation>>
  /\ UNCHANGED <<debounced, slot, deferred, hand, core, shown, lost, changes,
                 remotes>>

\* _result_timeout_cb.
ResultTimesOut ==
  /\ result_timer
  /\ result_timer' = FALSE
  /\ Apply(ResultTimeout(sync, result_generation), widget)
  /\ UNCHANGED <<debounced, debounce_timer, result_generation, bus, hand, core,
                 shown, lost, changes, remotes>>

-----------------------------------------------------------------------------
Take(t, e) == hand' = [hand EXCEPT ![t] = e]

\* The delivery task takes a command or a result.
Receive ==
  /\ hand[Loop] = Nothing
  /\ queue # <<>>
  /\ Head(queue).kind # "token"
  /\ queue' = Tail(queue)
  /\ Take(Loop, Head(queue))
  /\ UNCHANGED <<debounced, screen, slot, deferred, core, shown, lost, changes,
                 remotes>>

\* It takes the token of the SET and with it the newest value of the slot, ...
ReceiveSet ==
  /\ hand[Loop] = Nothing
  /\ queue # <<>>
  /\ Head(queue).kind = "token"
  /\ queue' = Tail(queue)
  /\ Take(Loop, slot)
  /\ slot' = Nothing
  /\ UNCHANGED <<debounced, screen, deferred, core, shown, lost, changes,
                 remotes>>

\* ... unless the delivery lock is busy and the token goes to the other task.
Defer ==
  /\ hand[Loop] = Nothing
  /\ queue # <<>>
  /\ Head(queue).kind = "token"
  /\ queue' = Tail(queue)
  /\ deferred' = TRUE
  /\ UNCHANGED <<debounced, screen, slot, hand, core, shown, lost, changes,
                 remotes>>

ReceiveDeferred ==
  /\ hand[Retry] = Nothing
  /\ deferred
  /\ deferred' = FALSE
  /\ Take(Retry, slot)
  /\ slot' = Nothing
  /\ UNCHANGED <<debounced, screen, queue, core, shown, lost, changes, remotes>>

\* The core commits a value, and core_state_observer publishes the SET.
Commit(v) ==
  /\ core' = [value |-> v, version |-> core.version + 1]
  /\ PublishSet(v, core.version + 1)

\* publish_switch_command: the command is submitted, ...
Submit ==
  /\ hand[Loop].kind = "command"
  /\ Commit(hand[Loop].value)
  /\ Take(Loop, [hand[Loop] EXCEPT !.kind = "answer"])
  /\ UNCHANGED <<debounced, screen, deferred, shown, lost, changes, remotes>>

\* ... then publish_switch_result posts the answer, on the queue its own task
\* drains; a result that is rejected is lost.
PostResult ==
  /\ hand[Loop].kind = "answer"
  /\ \/ /\ Enqueue(Result(hand[Loop].generation, hand[Loop].value))
        /\ UNCHANGED lost
     \/ /\ lost' = TRUE
        /\ UNCHANGED queue
  /\ Take(Loop, Nothing)
  /\ UNCHANGED <<debounced, screen, slot, deferred, core, shown, changes, remotes>>

\* Mutant: the pending debounce outlives its timer.
HandleModelUpdateKeepsPending(t) ==
  /\ hand[t].kind = "set"
  /\ debounce_timer' = FALSE
  /\ result_timer' = FALSE
  /\ Apply(LET o == ModelChanged(sync, hand[t].value) IN
             [o EXCEPT !.sync.debounce_pending = sync.debounce_pending], widget)
  /\ shown' = hand[t].version
  /\ Take(t, Nothing)
  /\ UNCHANGED <<debounced, result_generation, bus, core, lost, changes, remotes>>

\* _handle_model_update: both timers are cancelled and the value is shown.
HandleModelUpdate(t) ==
  /\ hand[t].kind = "set"
  /\ debounce_timer' = FALSE
  /\ result_timer' = FALSE
  /\ Apply(ModelChanged(sync, hand[t].value), widget)
  /\ shown' = hand[t].version
  /\ Take(t, Nothing)
  /\ UNCHANGED <<debounced, result_generation, bus, core, lost, changes, remotes>>

\* Mutant: a result ends the wait for whatever generation is awaited.
HandlePublishResultEndsAnyWait ==
  /\ hand[Loop].kind = "result"
  /\ result_timer' = FALSE
  /\ Apply(PublishResult(sync, hand[Loop].generation, hand[Loop].value, TRUE),
           widget)
  /\ Take(Loop, Nothing)
  /\ UNCHANGED <<debounced, debounce_timer, result_generation, bus, core, shown,
                 lost, changes, remotes>>

\* _handle_publish_result: only the awaited result stops the timer.
HandlePublishResult ==
  /\ hand[Loop].kind = "result"
  /\ result_timer' = (result_timer /\ result_generation # hand[Loop].generation)
  /\ Apply(PublishResult(sync, hand[Loop].generation, hand[Loop].value, TRUE),
           widget)
  /\ Take(Loop, Nothing)
  /\ UNCHANGED <<debounced, debounce_timer, result_generation, bus, core, shown,
                 lost, changes, remotes>>

\* ha_switch_on_mqtt_data or a Native command: another task commits a value.
RemoteSet(v) ==
  /\ remotes < MaxRemote
  /\ remotes' = remotes + 1
  /\ Commit(v)
  /\ UNCHANGED <<debounced, screen, deferred, hand, shown, lost, changes>>

\* publish_current_switch_states, on every MQTT connection.
Replay ==
  /\ remotes < MaxRemote
  /\ remotes' = remotes + 1
  /\ PublishSet(core.value, core.version)
  /\ UNCHANGED <<debounced, screen, deferred, hand, core, shown, lost, changes>>

-----------------------------------------------------------------------------
Deliver ==
  \/ Receive
  \/ ReceiveSet
  \/ Defer
  \/ Submit
  \/ PostResult
  \/ HandlePublishResult
  \/ HandleModelUpdate(Loop)

Redeliver == ReceiveDeferred \/ HandleModelUpdate(Retry)

Next ==
  \/ \E v \in Values : UserTaps(v) \/ UserDrags(v) \/ UserDragsWithoutTimer(v)
  \/ DebounceElapses
  \/ ResultTimesOut
  \/ Deliver
  \/ Redeliver
  \/ \E v \in Values : RemoteSet(v)
  \/ Replay

Spec == Init /\ [][Next]_vars

\* The delivery tasks are scheduled and LVGL runs the timers that are due.
Fairness ==
  /\ WF_vars(Deliver)
  /\ WF_vars(Redeliver)
  /\ WF_vars(DebounceElapses)
  /\ WF_vars(ResultTimesOut)

FairSpec == Spec /\ Fairness

-----------------------------------------------------------------------------
TypeScreen ==
  /\ debounced \in BOOLEAN
  /\ widget \in Values
  /\ sync \in Sync
  /\ sync.visible_value \in Values
  /\ sync.accepted_value \in Values
  /\ debounce_timer \in BOOLEAN
  /\ result_timer \in BOOLEAN
  /\ result_generation \in Generation

TypeBus ==
  /\ queue \in Seq(Answered({"command", "result"}) \cup {Token})
  /\ Len(queue) <= QueueSize
  /\ slot \in Sets \cup {Nothing}
  /\ deferred \in BOOLEAN
  /\ hand \in [Tasks -> Answered({"command", "answer", "result"})
                        \cup Sets \cup {Nothing}]

TypeCore ==
  /\ core \in [value : Values, version : Nat]
  /\ shown \in Nat \cup {-1}
  /\ lost \in BOOLEAN
  /\ changes \in Nat
  /\ remotes \in Nat

\* Type invariant; the queue stays within its length.
TypeOK == TypeScreen /\ TypeBus /\ TypeCore

Unconfirmed ==
  /\ sync.visible_generation # sync.accepted_generation
  /\ ~sync.result_timed_out

\* A debounce that is pending in the state machine has its timer on the screen,
\* and a value on the widget that the core has not confirmed is otherwise
\* watched by a result timer, the one of its generation, so that neither a SET
\* between two drags nor a lost answer can leave it there.
NothingUnwatched ==
  /\ sync.debounce_pending => debounce_timer
  /\ Unconfirmed /\ ~sync.debounce_pending =>
       result_timer /\ result_generation = sync.visible_generation

Quiet ==
  /\ queue = <<>>
  /\ ~deferred
  /\ \A t \in Tasks : hand[t] = Nothing
  /\ ~debounce_timer
  /\ ~result_timer

\* Whatever the user, remote clients, timeouts and late results did meanwhile:
\* when all is delivered and the SET of the last commit was the last one shown,
\* the widget shows what the core holds.
SetsConverge == Quiet /\ shown = core.version => widget = core.value

\* The results alone keep the widget right when every SET is dropped, as long
\* as no other client writes and no result is lost: also after timeouts, late
\* answers and rejected commands.
ResultsConverge ==
  Quiet /\ shown = -1 /\ remotes = 0 /\ ~lost => widget = core.value

\* The widget ends on the value of the core by either way it learns of it.
WidgetConverges == SetsConverge /\ ResultsConverge

\* A value the core has not confirmed does not stay on the widget for ever.
UnconfirmedEnds == Unconfirmed ~> ~Unconfirmed
=============================================================================
