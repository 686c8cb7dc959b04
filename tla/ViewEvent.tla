----------------------------- MODULE ViewEvent -----------------------------
(***************************************************************************)
(* The view-event delivery module: main/view_event/view_event.c on top of  *)
(* main/view_event/view_event_esp_adapter.c.                               *)
(*                                                                         *)
(* Producers on any task publish replaceable state (one slot per semantic  *)
(* key, coalesced while it waits) or post critical commands.  A token for  *)
(* a state slot, or the command itself, travels through the bounded event  *)
(* loop queue to the delivery task, which copies the slot under the        *)
(* delivery lock and runs the subscribed handlers.  A token the delivery   *)
(* task consumed while the lock was busy moves to a retry queue with a     *)
(* task of its own.                                                        *)
(*                                                                         *)
(* A payload is its version: how many values of its key were accepted when *)
(* it was.  Subscriptions are complete before the first event; statistics  *)
(* counters and logging are left out.                                      *)
(***************************************************************************)
EXTENDS Naturals, Sequences

CONSTANTS
  Producers,        \* tasks outside the module that publish and post
  Keys,             \* semantic keys: an event id with its coalescing key
  NumSlots,         \* VIEW_EVENT_MAX_STATE_SLOTS
  QueueSize,        \* VIEW_EVENT_QUEUE_SIZE
  CommandAttempts,  \* VIEW_EVENT_COMMAND_ATTEMPTS
  MaxPublications,  \* bound on publish_state calls
  MaxCommands,      \* bound on post_command calls
  NoEntry           \* what an unused slot holds

Loop  == "view_event_task"
Retry == "view_state_retry"
Tasks == {Loop, Retry}
NoThread == "none"
NoKey == "none"

\* Handlers run on the tasks and publish and post in their turn.
Threads == Producers \cup Tasks

Slots == 0 .. NumSlots - 1
Entry == [key : Keys, version : Nat]

\* What the event loop queue carries: a slot index or a command's number.
State(s)   == [kind |-> "state",   ref |-> s]
Command(n) == [kind |-> "command", ref |-> n]
Token == [kind : {"state"}, ref : Slots] \cup [kind : {"command"}, ref : Nat]

ASSUME Assumptions ==
  /\ Producers \cap (Tasks \cup {NoThread}) = {}
  /\ NumSlots \in Nat \ {0}
  /\ QueueSize \in Nat \ {0}
  /\ CommandAttempts \in Nat \ {0}
  /\ MaxPublications \in Nat
  /\ MaxCommands \in Nat
  /\ NoEntry \notin Entry

VARIABLES
  slots,     \* s_state_slots
  eventQ,    \* the event loop's queue
  retryQ,    \* s_state_retry_queue
  lock,      \* holder of s_lock
  aborted,   \* ESP_ERROR_CHECK(ESP_FAIL) was reached in the adapter
  callPc,    \* where a thread is in publish_state or post_command
  callKey,   \* the key it publishes
  callSlot,  \* the slot its scan chose
  attempt,   \* post_command's loop counter
  pc,        \* where a task is in its loop
  hand,      \* the token a task holds
  copy,      \* dispatch_state's local copy of the slot
  accepted,  \* per key: version of the last accepted publication
  taken,     \* per key: newest version removed from its slot
  shown,     \* per key: version the subscribers handled last
  posted,    \* commands accepted
  handled,   \* commands whose handlers returned
  publishCalls, postCalls  \* calls made so far, for the two bounds

bus   == <<slots, eventQ, retryQ, lock, aborted>>
call  == <<callPc, callKey, callSlot, attempt>>
task  == <<pc, hand, copy>>
ghost == <<accepted, taken, shown, posted, handled>>
calls == <<publishCalls, postCalls>>
vars  == <<slots, eventQ, retryQ, lock, aborted, callPc, callKey, callSlot,
           attempt, pc, hand, copy, accepted, taken, shown, posted, handled,
           publishCalls, postCalls>>

Init ==
  /\ slots = [s \in Slots |-> NoEntry]
  /\ eventQ = <<>>
  /\ retryQ = <<>>
  /\ lock = NoThread
  /\ aborted = FALSE
  /\ callPc = [th \in Threads |-> "idle"]
  /\ callKey = [th \in Threads |-> NoKey]
  /\ callSlot = [th \in Threads |-> 0]
  /\ attempt = [th \in Threads |-> 0]
  /\ pc = [t \in Tasks |-> "receive"]
  /\ hand = [t \in Tasks |-> State(0)]
  /\ copy = [t \in Tasks |-> NoEntry]
  /\ accepted = [k \in Keys |-> 0]
  /\ taken = [k \in Keys |-> 0]
  /\ shown = [k \in Keys |-> 0]
  /\ posted = 0
  /\ handled = 0
  /\ publishCalls = 0
  /\ postCalls = 0

-----------------------------------------------------------------------------
\* A producer may call at any time, a task only from inside a handler.
MayCall(th) ==
  /\ callPc[th] = "idle"
  /\ th \in Tasks => pc[th] = "handle"

GoCall(th, to) == callPc' = [callPc EXCEPT ![th] = to]
Go(t, to)      == pc' = [pc EXCEPT ![t] = to]

\* A task goes back to waiting for its queue.
Done(t) ==
  /\ Go(t, "receive")
  /\ hand' = [hand EXCEPT ![t] = State(0)]
  /\ copy' = [copy EXCEPT ![t] = NoEntry]

Used(s) == slots[s] # NoEntry

\* view_event_publish_state, first step: the lock is tried, never awaited.
PublishLock(th, k) ==
  /\ MayCall(th)
  /\ publishCalls < MaxPublications
  /\ publishCalls' = publishCalls + 1
  /\ lock = NoThread
  /\ lock' = th
  /\ callKey' = [callKey EXCEPT ![th] = k]
  /\ GoCall(th, "scan")
  /\ UNCHANGED <<slots, eventQ, retryQ, aborted, callSlot, attempt, task, ghost,
                 postCalls>>

\* The lock is busy: the state is DROPPED.
PublishBusy(th) ==
  /\ MayCall(th)
  /\ publishCalls < MaxPublications
  /\ publishCalls' = publishCalls + 1
  /\ lock # NoThread
  /\ UNCHANGED <<bus, call, task, ghost, postCalls>>

NextEntry(th) ==
  [key |-> callKey[th], version |-> accepted[callKey[th]] + 1]

Holds(s, k) == Used(s) /\ slots[s].key = k

\* Mutant: a coalesced value posts a token as well.
PublishCoalesceReposts(th) ==
  /\ callPc[th] = "scan"
  /\ \E s \in Slots :
       /\ Holds(s, callKey[th])
       /\ slots' = [slots EXCEPT ![s] = NextEntry(th)]
       /\ callSlot' = [callSlot EXCEPT ![th] = s]
  /\ GoCall(th, "post")
  /\ UNCHANGED <<eventQ, retryQ, lock, aborted, callKey, attempt, task,
                 ghost, calls>>

\* COALESCED: the key already waits in a slot, whose value is replaced.
PublishCoalesce(th) ==
  /\ callPc[th] = "scan"
  /\ \E s \in Slots :
       /\ Holds(s, callKey[th])
       /\ slots' = [slots EXCEPT ![s] = NextEntry(th)]
  /\ accepted' = [accepted EXCEPT ![callKey[th]] = @ + 1]
  /\ GoCall(th, "unlock")
  /\ UNCHANGED <<eventQ, retryQ, lock, aborted, callKey, callSlot, attempt,
                 task, taken, shown, posted, handled, calls>>

\* Mutant: the first unused slot ends the scan, a later slot of the key or not.
PublishClaimFirstUnused(th) ==
  /\ callPc[th] = "scan"
  /\ \E s \in Slots :
       /\ ~Used(s)
       /\ \A r \in Slots : r < s => Used(r) /\ ~Holds(r, callKey[th])
       /\ slots' = [slots EXCEPT ![s] = NextEntry(th)]
       /\ callSlot' = [callSlot EXCEPT ![th] = s]
  /\ GoCall(th, "post")
  /\ UNCHANGED <<eventQ, retryQ, lock, aborted, callKey, attempt, task,
                 ghost, calls>>

\* Otherwise the first unused slot takes the value.
PublishClaim(th) ==
  /\ callPc[th] = "scan"
  /\ \A s \in Slots : ~Holds(s, callKey[th])
  /\ \E s \in Slots :
       /\ ~Used(s)
       /\ \A r \in Slots : r < s => Used(r)
       /\ slots' = [slots EXCEPT ![s] = NextEntry(th)]
       /\ callSlot' = [callSlot EXCEPT ![th] = s]
  /\ GoCall(th, "post")
  /\ UNCHANGED <<eventQ, retryQ, lock, aborted, callKey, attempt, task,
                 ghost, calls>>

\* No slot is left: DROPPED.
PublishNoSlot(th) ==
  /\ callPc[th] = "scan"
  /\ \A s \in Slots : Used(s) /\ ~Holds(s, callKey[th])
  /\ GoCall(th, "unlock")
  /\ UNCHANGED <<bus, callKey, callSlot, attempt, task, ghost, calls>>

\* Mutant: the queue takes an event more than it has room for.
EnqueueBeyondCapacity(token) == eventQ' = Append(eventQ, token)

\* esp_event_post_to: it also copies the event to the heap, and so may fail
\* while the queue has room.
Enqueue(token) ==
  /\ Len(eventQ) < QueueSize
  /\ eventQ' = Append(eventQ, token)

\* ENQUEUED: the slot's token entered the queue.
PublishPost(th) ==
  /\ callPc[th] = "post"
  /\ Enqueue(State(callSlot[th]))
  /\ accepted' = [accepted EXCEPT ![callKey[th]] = @ + 1]
  /\ GoCall(th, "unlock")
  /\ UNCHANGED <<slots, retryQ, lock, aborted, callKey, callSlot, attempt,
                 task, taken, shown, posted, handled, calls>>

\* Mutant: the slot of a value that was dropped stays used.
PublishPostFailsKeepsSlot(th) ==
  /\ callPc[th] = "post"
  /\ GoCall(th, "unlock")
  /\ UNCHANGED <<bus, callKey, callSlot, attempt, task, ghost, calls>>

\* DROPPED by the adapter: the slot is cleared again.
PublishPostFails(th) ==
  /\ callPc[th] = "post"
  /\ slots' = [slots EXCEPT ![callSlot[th]] = NoEntry]
  /\ GoCall(th, "unlock")
  /\ UNCHANGED <<eventQ, retryQ, lock, aborted, callKey, callSlot, attempt,
                 task, ghost, calls>>

PublishUnlock(th) ==
  /\ callPc[th] = "unlock"
  /\ lock' = NoThread
  /\ callKey' = [callKey EXCEPT ![th] = NoKey]
  /\ callSlot' = [callSlot EXCEPT ![th] = 0]
  /\ GoCall(th, "idle")
  /\ UNCHANGED <<slots, eventQ, retryQ, aborted, attempt, task, ghost, calls>>

-----------------------------------------------------------------------------
\* view_event_post_command: at most CommandAttempts bounded waits for room.
PostBegin(th) ==
  /\ MayCall(th)
  /\ postCalls < MaxCommands
  /\ postCalls' = postCalls + 1
  /\ attempt' = [attempt EXCEPT ![th] = 0]
  /\ GoCall(th, "attempt")
  /\ UNCHANGED <<bus, callKey, callSlot, task, ghost, publishCalls>>

PostAccepted(th) ==
  /\ callPc[th] = "attempt"
  /\ Enqueue(Command(posted + 1))
  /\ posted' = posted + 1
  /\ GoCall(th, "idle")
  /\ UNCHANGED <<slots, retryQ, lock, aborted, callKey, callSlot, attempt,
                 task, accepted, taken, shown, handled, calls>>

\* Mutant: a failed attempt is not counted.
PostFailsUncounted(th) ==
  /\ callPc[th] = "attempt"
  /\ UNCHANGED vars

\* An attempt failed; after the last one the command is REJECTED.
PostFails(th) ==
  /\ callPc[th] = "attempt"
  /\ attempt' = [attempt EXCEPT ![th] = @ + 1]
  /\ IF attempt[th] + 1 < CommandAttempts
       THEN UNCHANGED callPc
       ELSE GoCall(th, "idle")
  /\ UNCHANGED <<bus, callKey, callSlot, task, ghost, calls>>

-----------------------------------------------------------------------------
\* Mutant: a command is dispatched under the lock and lost when it is busy.
LoopReceiveCommandNeedsLock ==
  /\ pc[Loop] = "receive"
  /\ eventQ # <<>>
  /\ eventQ' = Tail(eventQ)
  /\ IF Head(eventQ).kind = "command" /\ lock # NoThread
       THEN UNCHANGED <<pc, hand>>
       ELSE /\ hand' = [hand EXCEPT ![Loop] = Head(eventQ)]
            /\ Go(Loop, IF Head(eventQ).kind = "state" THEN "lock" ELSE "handle")
  /\ UNCHANGED <<slots, retryQ, lock, aborted, call, copy, ghost, calls>>

\* The event loop hands its task the next event; a command is dispatched
\* without the lock.
LoopReceive ==
  /\ pc[Loop] = "receive"
  /\ eventQ # <<>>
  /\ eventQ' = Tail(eventQ)
  /\ hand' = [hand EXCEPT ![Loop] = Head(eventQ)]
  /\ Go(Loop, IF Head(eventQ).kind = "state" THEN "lock" ELSE "handle")
  /\ UNCHANGED <<slots, retryQ, lock, aborted, call, copy, ghost, calls>>

\* view_event_state_retry_task: xQueueReceive.
RetryReceive ==
  /\ pc[Retry] = "receive"
  /\ retryQ # <<>>
  /\ retryQ' = Tail(retryQ)
  /\ hand' = [hand EXCEPT ![Retry] = State(Head(retryQ))]
  /\ Go(Retry, "lock")
  /\ UNCHANGED <<slots, eventQ, lock, aborted, call, copy, ghost, calls>>

\* Mutant: the slot is read and cleared without waiting for the lock.
DispatchLockUnheeded(t) ==
  /\ pc[t] = "lock"
  /\ lock' = t
  /\ Go(t, "copy")
  /\ UNCHANGED <<slots, eventQ, retryQ, aborted, call, hand, copy, ghost, calls>>

\* view_event_internal_dispatch_state.
DispatchLock(t) ==
  /\ pc[t] = "lock"
  /\ lock = NoThread
  /\ lock' = t
  /\ Go(t, "copy")
  /\ UNCHANGED <<slots, eventQ, retryQ, aborted, call, hand, copy, ghost, calls>>

\* Mutant: the consumed token is dropped when the lock is busy.
DispatchDeferDrops(t) ==
  /\ pc[t] = "lock"
  /\ lock # NoThread
  /\ Done(t)
  /\ UNCHANGED <<bus, call, ghost, calls>>

\* 5 ms passed with the lock held elsewhere: the token moves to the retry
\* queue, and a full retry queue aborts the firmware.
DispatchDefer(t) ==
  /\ pc[t] = "lock"
  /\ lock # NoThread
  /\ IF Len(retryQ) < NumSlots
       THEN /\ retryQ' = Append(retryQ, hand[t].ref)
            /\ UNCHANGED aborted
       ELSE /\ aborted' = TRUE
            /\ UNCHANGED retryQ
  /\ Done(t)
  /\ UNCHANGED <<slots, eventQ, lock, call, ghost, calls>>

DispatchCopy(t) ==
  /\ pc[t] = "copy"
  /\ copy' = [copy EXCEPT ![t] = slots[hand[t].ref]]
  /\ Go(t, "clear")
  /\ UNCHANGED <<bus, call, hand, ghost, calls>>

\* The slot is freed and the lock given back; a token of an unused slot
\* would run no handler.
DispatchClear(t) ==
  /\ pc[t] = "clear"
  /\ slots' = [slots EXCEPT ![hand[t].ref] = NoEntry]
  /\ lock' = NoThread
  /\ IF copy[t] = NoEntry
       THEN /\ Done(t)
            /\ UNCHANGED taken
       ELSE /\ Go(t, "handle")
            /\ taken' = [taken EXCEPT ![copy[t].key] = copy[t].version]
            /\ UNCHANGED <<hand, copy>>
  /\ UNCHANGED <<eventQ, retryQ, aborted, call, accepted, shown, posted,
                 handled, calls>>

\* The subscribed handlers have run and returned.
HandlerReturn(t) ==
  /\ pc[t] = "handle"
  /\ callPc[t] = "idle"
  /\ IF hand[t].kind = "command"
       THEN /\ handled' = handled + 1
            /\ UNCHANGED shown
       ELSE /\ shown' = [shown EXCEPT ![copy[t].key] = copy[t].version]
            /\ UNCHANGED handled
  /\ Done(t)
  /\ UNCHANGED <<bus, call, accepted, taken, posted, calls>>

-----------------------------------------------------------------------------
CallStep(th) ==
  \/ PublishCoalesce(th)
  \/ PublishClaim(th)
  \/ PublishNoSlot(th)
  \/ PublishPost(th)
  \/ PublishPostFails(th)
  \/ PublishUnlock(th)
  \/ PostAccepted(th)
  \/ PostFails(th)

DispatchStep(t) ==
  \/ DispatchLock(t)
  \/ DispatchDefer(t)
  \/ DispatchCopy(t)
  \/ DispatchClear(t)
  \/ HandlerReturn(t)

Next ==
  \/ \E th \in Threads, k \in Keys : PublishLock(th, k)
  \/ \E th \in Threads : PublishBusy(th)
  \/ \E th \in Threads : PostBegin(th)
  \/ \E th \in Threads : CallStep(th)
  \/ LoopReceive
  \/ RetryReceive
  \/ \E t \in Tasks : DispatchStep(t)

Spec == Init /\ [][Next]_vars

(***************************************************************************)
(* A thread inside a call and a task with something to do are scheduled.   *)
(* Nobody has to publish, post or call from a handler.  The bound on calls *)
(* means that the lock is contended only for a time: what liveness says is *)
(* what happens once the producers pause.                                  *)
(***************************************************************************)
Fairness ==
  /\ \A th \in Threads : WF_vars(CallStep(th))
  /\ WF_vars(LoopReceive)
  /\ WF_vars(RetryReceive)
  /\ \A t \in Tasks : WF_vars(DispatchStep(t))

FairSpec == Spec /\ Fairness

-----------------------------------------------------------------------------
CallPc == {"idle", "scan", "post", "unlock", "attempt"}
TaskPc == {"receive", "lock", "copy", "clear", "handle"}

TypeBus ==
  /\ slots \in [Slots -> Entry \cup {NoEntry}]
  /\ lock \in Threads \cup {NoThread}
  /\ aborted \in BOOLEAN

TypeQueues ==
  /\ eventQ \in Seq(Token)
  /\ Len(eventQ) <= QueueSize
  /\ retryQ \in Seq(Slots)
  /\ Len(retryQ) <= NumSlots

TypeCall ==
  /\ callPc \in [Threads -> CallPc]
  /\ callKey \in [Threads -> Keys \cup {NoKey}]
  /\ callSlot \in [Threads -> Slots]
  /\ attempt \in [Threads -> Nat]
  /\ \A th \in Threads : callPc[th] \in {"scan", "post"} => callKey[th] \in Keys

TypeTask ==
  /\ pc \in [Tasks -> TaskPc]
  /\ hand \in [Tasks -> Token]
  /\ copy \in [Tasks -> Entry \cup {NoEntry}]
  /\ \A t \in Tasks :
       /\ pc[t] \in {"lock", "copy", "clear"} => hand[t].kind = "state"
       /\ pc[t] = "handle" /\ hand[t].kind = "state" => copy[t] \in Entry

TypeGhost ==
  /\ accepted \in [Keys -> Nat]
  /\ taken \in [Keys -> Nat]
  /\ shown \in [Keys -> Nat]
  /\ posted \in Nat
  /\ handled \in Nat
  /\ publishCalls \in Nat
  /\ postCalls \in Nat

\* Type invariant; both queues stay within the lengths they were created with.
TypeOK == TypeBus /\ TypeQueues /\ TypeCall /\ TypeTask /\ TypeGhost

Occurs(x, q)     == \E i \in DOMAIN q : q[i] = x
AtMostOnce(x, q) == \A i, j \in DOMAIN q : q[i] = x /\ q[j] = x => i = j

\* Where the token of a slot can be: in a queue, in the hands of a task that
\* has not cleared the slot yet, or about to be posted by a publisher.
Places == {"event queue", "retry queue", "publisher"} \cup Tasks

TokenIn(p, s) ==
  \/ p = "event queue" /\ Occurs(State(s), eventQ)
  \/ p = "retry queue" /\ Occurs(s, retryQ)
  \/ p = "publisher" /\ \E th \in Threads : callPc[th] = "post" /\ callSlot[th] = s
  \/ /\ p \in Tasks
     /\ pc[p] \in {"lock", "copy", "clear"}
     /\ hand[p] = State(s)

\* Every used slot has exactly one token and an unused slot has none: a
\* coalesced value can neither be stranded in its slot nor be delivered
\* through two tokens.
OneTokenPerUsedSlot ==
  \A s \in Slots :
    /\ AtMostOnce(State(s), eventQ)
    /\ AtMostOnce(s, retryQ)
    /\ Used(s) <=> \E p \in Places : TokenIn(p, s)
    /\ \A p, r \in Places : TokenIn(p, s) /\ TokenIn(r, s) => p = r

\* The retry queue has room for every token that is deferred, so the abort in
\* view_event_adapter_defer_state is never reached.
RetryNeverOverflows == ~aborted

\* The tokens are neither lost nor doubled nor too many for their queues.
TokensAreKept == OneTokenPerUsedSlot /\ RetryNeverOverflows

\* publish_state answered ENQUEUED or COALESCED for the newest value of a key
\* and no task has removed it yet: the value is in a slot, although slots are
\* freed, reclaimed, cleared after a failed post and overwritten by others.
\* The key has no other slot, and what its slot holds was never delivered, so
\* tasks remove the values of a key once and in order.
AcceptedIsHeld ==
  \A k \in Keys :
    /\ accepted[k] > taken[k] =>
         \E s \in Slots : slots[s] = [key |-> k, version |-> accepted[k]]
    /\ \A s, r \in Slots : Holds(s, k) /\ Holds(r, k) => s = r
    /\ \A s \in Slots : Holds(s, k) => slots[s].version > taken[k]

\* An accepted state that still waits in its slot, or a newer one of its key,
\* reaches the subscribers, also when its token is deferred any number of times.
AcceptedIsShown ==
  \A k \in Keys : \A v \in 1 .. MaxPublications :
    (accepted[k] >= v /\ taken[k] < v) ~> (shown[k] >= v)

\* A command that was answered ENQUEUED is handled.
CommandIsHandled ==
  \A n \in 1 .. MaxCommands : (posted >= n) ~> (handled >= n)

\* Nothing that was accepted is forgotten, state or command, also while handlers
\* publish and post on the task that drains the queue.
AcceptedIsDelivered == AcceptedIsShown /\ CommandIsHandled

-----------------------------------------------------------------------------
\* What a task's handlers are given now, in the terms of DeliveryContract.
Running == pc[Loop] = "handle" /\ hand[Loop].kind = "command"
Begun   == IF Running THEN handled + 1 ELSE handled
Delivering(t) ==
  IF pc[t] # "handle" THEN {}
  ELSE IF hand[t].kind = "command" THEN {[command |-> hand[t].ref]}
  ELSE {copy[t]}

Contract == INSTANCE DeliveryContract WITH
  Deliverers <- Tasks,
  begun      <- Begun,
  delivering <- [t \in Tasks |-> Delivering(t)]

\* The module keeps what its header promises, with every queue, slot, lock and
\* deferral in between: a value leaves for the subscribers only as the newest
\* accepted one of its key and once, and the commands are handled once each, one
\* at a time and in the order in which they were accepted.
IsContract == Contract!Spec

-----------------------------------------------------------------------------
\* docs/stability/milestone-1-event-reliability.md:76 and :144, one latest
\* value per key: with nothing left to deliver, the subscribers have handled
\* the newest accepted value last.
Quiet == /\ \A s \in Slots : ~Used(s)
         /\ \A t \in Tasks : pc[t] = "receive"
LatestShown == Quiet => shown = accepted
=============================================================================
