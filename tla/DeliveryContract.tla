-------------------------- MODULE DeliveryContract --------------------------
(***************************************************************************)
(* What main/view_event/view_event.h promises whoever publishes a state or *)
(* posts a command and whoever subscribes to them: an accepted state is    *)
(* handed to the subscribers unless a newer one of its key replaced it, no *)
(* state is handed over twice or after a newer one of its key was, and the *)
(* accepted commands are handled once each, one at a time and in order.    *)
(* The header also says that there is one task which runs the handlers;    *)
(* the code has two, so values may be shown out of order here as well.     *)
(*                                                                         *)
(* There is no queue, no slot, no lock and no deferral here: ViewEvent,    *)
(* which has them, implements this module.                                 *)
(***************************************************************************)
EXTENDS Naturals

CONSTANTS
  Keys,       \* semantic keys
  Deliverers  \* tasks that run the handlers

VARIABLES
  accepted,   \* per key: publications answered ENQUEUED or COALESCED
  taken,      \* per key: the newest one that left for the subscribers
  shown,      \* per key: the one the subscribers handled last
  posted,     \* commands answered ENQUEUED
  begun,      \* commands whose handlers were started
  handled,    \* commands whose handlers returned
  delivering  \* per task: what its handlers are given now, at most one thing

vars == <<accepted, taken, shown, posted, begun, handled, delivering>>

Value(k, v)  == [key |-> k, version |-> v]
Order(n)     == [command |-> n]
Busy(t, x)   == delivering' = [delivering EXCEPT ![t] = {x}]
Free(t)      == delivering' = [delivering EXCEPT ![t] = {}]

Init ==
  /\ accepted = [k \in Keys |-> 0]
  /\ taken = [k \in Keys |-> 0]
  /\ shown = [k \in Keys |-> 0]
  /\ posted = 0
  /\ begun = 0
  /\ handled = 0
  /\ delivering = [t \in Deliverers |-> {}]

Accept(k) ==
  /\ accepted' = [accepted EXCEPT ![k] = @ + 1]
  /\ UNCHANGED <<taken, shown, posted, begun, handled, delivering>>

\* The newest accepted value of a key, unless it was taken before.
Take(t, k) ==
  /\ delivering[t] = {}
  /\ taken[k] < accepted[k]
  /\ taken' = [taken EXCEPT ![k] = accepted[k]]
  /\ Busy(t, Value(k, accepted[k]))
  /\ UNCHANGED <<accepted, shown, posted, begun, handled>>

Show(t, k) ==
  /\ \E v \in 1 .. taken[k] :
       /\ delivering[t] = {Value(k, v)}
       /\ shown' = [shown EXCEPT ![k] = v]
  /\ Free(t)
  /\ UNCHANGED <<accepted, taken, posted, begun, handled>>

Post ==
  /\ posted' = posted + 1
  /\ UNCHANGED <<accepted, taken, shown, begun, handled, delivering>>

\* The next command, once the one before it was handled.
Begin(t) ==
  /\ delivering[t] = {}
  /\ begun = handled
  /\ begun < posted
  /\ begun' = begun + 1
  /\ Busy(t, Order(begun + 1))
  /\ UNCHANGED <<accepted, taken, shown, posted, handled>>

Handle(t) ==
  /\ delivering[t] = {Order(begun)}
  /\ handled' = begun
  /\ Free(t)
  /\ UNCHANGED <<accepted, taken, shown, posted, begun>>

Next ==
  \/ \E k \in Keys : Accept(k)
  \/ \E t \in Deliverers, k \in Keys : Take(t, k) \/ Show(t, k)
  \/ Post
  \/ \E t \in Deliverers : Begin(t) \/ Handle(t)

Spec == Init /\ [][Next]_vars
=============================================================================
