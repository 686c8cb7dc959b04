----------------------------- MODULE WifiProofs -----------------------------
(***************************************************************************)
(* Safety of the scan view for every number of scans, queue places and     *)
(* attempts.  PendingIsTimed and NewestListStays are inductive beside the  *)
(* types.  AnswerIsOwed is not: that a request replaces another one in the *)
(* worker's slot is harmless only because requests wait in the order of    *)
(* their generations, which InOrder says.                                  *)
(***************************************************************************)
EXTENDS WifiScan, WifiLink, SequenceTheorems, TLAPS

Kinds == {"request", "list", "failed", "connect", "details", "result"}
Events == [kind : Kinds, scan : Scans]

ScanTypes == scan \in [active : Scans, pending : BOOLEAN, accept : BOOLEAN]

ScreenTypes ==
  /\ timer \in Scans /\ shown \in Scans
  /\ modal \in BOOLEAN /\ spinner \in BOOLEAN /\ handling \in BOOLEAN
  /\ dialog \in {"none", "connect", "details"}

\* The toast that is held is one of those on the screen.
ToastTypes ==
  /\ toasts \in [shown : Nat, timers : Nat, held : BOOLEAN]
  /\ toasts.held => toasts.shown > 0

QueueTypes == queue \in Seq(Events) /\ Len(queue) <= QueueSize

WorkTypes ==
  /\ slot \in Scans /\ lost \subseteq Scans
  /\ worker \in [step : {"idle", "scan", "list", "failed"}, scan : Scans,
                 attempt : 0 .. Attempts - 1]

CountTypes == results \in 0 .. MaxResults /\ joins \in 0 .. MaxJoins

Types ==
  /\ ScanTypes /\ ScreenTypes /\ ToastTypes /\ QueueTypes /\ WorkTypes
  /\ CountTypes

LEMMA TypesImplyTypeOK == Types => TypeOK
  BY DEF Types, TypeOK, ScanTypes, ScreenTypes, ToastTypes, QueueTypes, WorkTypes,
     CountTypes, Events, Kinds

LEMMA InitTypes == Init => Types
<1> SUFFICES ASSUME Init PROVE Types
  OBVIOUS
<1>0. 0 \in Scans
  BY ScanAssumptions DEF Scans
<1>1. ScanTypes
  BY <1>0, Zenon DEF Init, ScanTypes, NoScan
<1>2. ScreenTypes
  BY <1>0, Zenon DEF Init, ScreenTypes, NoScan
<1>3. ToastTypes
  <2>1. 0 \in Nat
    OBVIOUS
  <2>2. toasts = [shown |-> 0, timers |-> 0, held |-> FALSE]
    BY DEF Init
  <2>3. toasts \in [shown : Nat, timers : Nat, held : BOOLEAN]
    BY <2>1, <2>2, Zenon
  <2>4. ~toasts.held
    BY <2>2, Zenon
  <2> QED BY <2>3, <2>4, Zenon DEF ToastTypes
<1>4. QueueTypes
  BY ScanAssumptions DEF Init, QueueTypes
<1>5. WorkTypes
  <2>1. slot \in Scans /\ lost \subseteq Scans
    BY <1>0 DEF Init, NoScan
  <2>2. worker \in [step : {"idle", "scan", "list", "failed"}, scan : Scans,
                    attempt : 0 .. Attempts - 1]
    BY <1>0, ScanAssumptions DEF Init, NoScan, Idle
  <2> QED BY <2>1, <2>2 DEF WorkTypes
<1>6. CountTypes
  BY ScanAssumptions DEF Init, CountTypes
<1> QED BY <1>1, <1>2, <1>3, <1>4, <1>5, <1>6 DEF Types

-----------------------------------------------------------------------------
(* What the queue and the request of a scan keep.                          *)

\* An event that is posted finds room in the queue.
LEMMA PostTypes ==
  ASSUME NEW rest \in Seq(Events), Len(rest) <= QueueSize,
         NEW e \in Events, NEW enqueued \in BOOLEAN, Post(rest, e, enqueued)
  PROVE  QueueTypes'
<1>1. CASE enqueued
  BY <1>1, ScanAssumptions DEF Post, QueueTypes
<1>2. CASE ~enqueued
  BY <1>2 DEF Post, QueueTypes
<1> QED BY <1>1, <1>2

\* The rest of a queue is a queue with room for one more.
LEMMA TailTypes ==
  ASSUME QueueTypes, queue # <<>>
  PROVE  /\ Head(queue) \in Events
         /\ Tail(queue) \in Seq(Events)
         /\ Len(Tail(queue)) <= QueueSize
  BY ScanAssumptions DEF QueueTypes

LEMMA RequestTypes ==
  ASSUME Types, NEW rest \in Seq(Events), Len(rest) <= QueueSize,
         NEW enqueued \in BOOLEAN, NEW created \in BOOLEAN,
         RequestScan(rest, enqueued, created)
  PROVE  /\ ScanTypes' /\ QueueTypes'
         /\ timer' \in Scans /\ shown' \in Scans /\ spinner' \in BOOLEAN
<1>1. scan.active \in Scans /\ scan.active < MaxScans /\ timer \in Scans
  BY DEF Types, ScanTypes, ScreenTypes, RequestScan
<1>2. scan.active + 1 \in Scans /\ 0 \in Scans
  BY <1>1, ScanAssumptions DEF Scans
<1>3. ScanTypes'
  <2>1. scan' = [active |-> scan.active + 1, pending |-> enqueued /\ created,
                 accept |-> TRUE]
    BY DEF RequestScan
  <2>2. (enqueued /\ created) \in BOOLEAN
    BY Zenon
  <2> QED BY <2>1, <2>2, <1>2, Zenon DEF ScanTypes
<1>4. QueueTypes'
  <2>1. Event("request", scan.active + 1) \in Events
    BY <1>2 DEF Event, Events, Kinds
  <2>2. Post(rest, Event("request", scan.active + 1), enqueued)
    BY DEF RequestScan
  <2> QED BY <2>1, <2>2, PostTypes
<1>5. timer' \in Scans
  BY <1>1, <1>2 DEF RequestScan, NoScan
<1>6. shown' \in Scans
  BY <1>2 DEF RequestScan, NoScan
<1>7. spinner' \in BOOLEAN
  BY Zenon DEF RequestScan
<1> QED BY <1>3, <1>4, <1>5, <1>6, <1>7

\* An answer that is not stale ends the wait and leaves the types alone.
LEMMA CompleteTypes ==
  ASSUME ScanTypes, Complete
  PROVE  ScanTypes'
  BY Zenon DEF ScanTypes, Complete

-----------------------------------------------------------------------------
LEMMA UserTypes ==
  ASSUME Types, User
  PROVE  Types'
<1>0. /\ ScanTypes /\ ScreenTypes /\ ToastTypes /\ QueueTypes /\ WorkTypes
      /\ CountTypes
  BY DEF Types
<1>1. CASE HideModal
  <2>1. ScanTypes'
    BY <1>0, <1>1, Zenon DEF HideModal, ScanTypes
  <2>2. ScreenTypes'
    BY <1>0, <1>1, Zenon DEF HideModal, ScreenTypes
  <2>3. ToastTypes' /\ QueueTypes' /\ WorkTypes' /\ CountTypes'
    BY <1>0, <1>1 DEF HideModal, work, ToastTypes, QueueTypes, WorkTypes,
       CountTypes
  <2> QED BY <2>1, <2>2, <2>3 DEF Types
<1>2. CASE CancelDialog \/ \E kind \in {"connect", "details"} : OpenDialog(kind)
  <2>1. ScreenTypes'
    BY <1>0, <1>2, Zenon DEF CancelDialog, OpenDialog, ScreenTypes
  <2>2. /\ ScanTypes' /\ ToastTypes' /\ QueueTypes' /\ WorkTypes'
        /\ CountTypes'
    BY <1>0, <1>2 DEF CancelDialog, OpenDialog, work, ScanTypes, ToastTypes,
       QueueTypes, WorkTypes, CountTypes
  <2> QED BY <2>1, <2>2 DEF Types
<1>3. CASE \E e \in BOOLEAN : ConfirmDialog(e)
  <2>0. PICK e \in BOOLEAN : ConfirmDialog(e)
    BY <1>3
  <2>1. ScreenTypes'
    BY <1>0, <2>0, Zenon DEF ConfirmDialog, ScreenTypes
  <2>2. QueueTypes'
    <3>1. dialog \in Kinds /\ 0 \in Scans
      BY <1>0, <2>0, ScanAssumptions DEF ScreenTypes, ConfirmDialog, Kinds, Scans
    <3>2. Event(dialog, NoScan) \in Events
      BY <3>1 DEF Event, Events, NoScan
    <3> QED BY <1>0, <2>0, <3>2, PostTypes DEF ConfirmDialog, QueueTypes
  <2>3. CountTypes'
    BY <1>0, <2>0, ScanAssumptions DEF ConfirmDialog, CountTypes
  <2>4. ScanTypes' /\ ToastTypes' /\ WorkTypes'
    BY <1>0, <2>0 DEF ConfirmDialog, work, ScanTypes, ToastTypes, WorkTypes
  <2> QED BY <2>1, <2>2, <2>3, <2>4 DEF Types
<1>4. CASE \E e, c \in BOOLEAN : OpenModal(e, c)
  <2>0. PICK e \in BOOLEAN, c \in BOOLEAN : OpenModal(e, c)
    BY <1>4
  <2>1. /\ ScanTypes' /\ QueueTypes'
        /\ timer' \in Scans /\ shown' \in Scans /\ spinner' \in BOOLEAN
    BY <1>0, <2>0, RequestTypes DEF OpenModal, QueueTypes
  <2>2. ScreenTypes'
    BY <1>0, <2>0, <2>1, Zenon DEF OpenModal, ScreenTypes
  <2>3. ToastTypes' /\ WorkTypes' /\ CountTypes'
    BY <1>0, <2>0 DEF OpenModal, work, ToastTypes, WorkTypes, CountTypes
  <2> QED BY <2>1, <2>2, <2>3 DEF Types
<1> QED BY <1>1, <1>2, <1>3, <1>4 DEF User

LEMMA TimerTypes ==
  ASSUME Types, TimeoutFires \/ ToastCloses
  PROVE  Types'
<1>0. /\ ScanTypes /\ ScreenTypes /\ ToastTypes /\ QueueTypes /\ WorkTypes
      /\ CountTypes
  BY DEF Types
<1>1. CASE TimeoutFires
  <2>1. ScanTypes'
    BY <1>0, <1>1, CompleteTypes, Zenon DEF TimeoutFires, ScanTypes
  <2>2. 0 \in Scans
    BY ScanAssumptions DEF Scans
  <2>3. ScreenTypes'
    BY <1>0, <1>1, <2>2, Zenon DEF TimeoutFires, ScreenTypes, NoScan
  <2>4. ToastTypes' /\ QueueTypes' /\ WorkTypes' /\ CountTypes'
    BY <1>0, <1>1 DEF TimeoutFires, work, ToastTypes, QueueTypes, WorkTypes,
       CountTypes
  <2> QED BY <2>1, <2>3, <2>4 DEF Types
<1>2. CASE ToastCloses
  <2>1. /\ toasts' = [shown  |-> IF toasts.held THEN toasts.shown - 1
                                 ELSE toasts.shown,
                      timers |-> toasts.timers - 1,
                      held   |-> FALSE]
        /\ toasts.shown \in Nat /\ toasts.timers \in Nat /\ toasts.timers > 0
        /\ toasts.held => toasts.shown > 0
    BY <1>0, <1>2, Zenon DEF ToastCloses, ToastTypes
  <2>2. /\ toasts.timers - 1 \in Nat
        /\ (IF toasts.held THEN toasts.shown - 1 ELSE toasts.shown) \in Nat
    BY <2>1
  <2>3. ToastTypes'
    BY <2>1, <2>2, Zenon DEF ToastTypes
  <2>4. ScanTypes' /\ ScreenTypes' /\ QueueTypes' /\ WorkTypes' /\ CountTypes'
    BY <1>0, <1>2 DEF ToastCloses, work, ScanTypes, ScreenTypes, QueueTypes,
       WorkTypes, CountTypes
  <2> QED BY <2>3, <2>4 DEF Types
<1> QED BY <1>1, <1>2

LEMMA DeliveryTypes ==
  ASSUME Types, Delivery
  PROVE  Types'
<1>0. /\ ScanTypes /\ ScreenTypes /\ ToastTypes /\ QueueTypes /\ WorkTypes
      /\ CountTypes
  BY DEF Types
<1>s. 0 \in Scans
  BY ScanAssumptions DEF Scans
<1>t. ASSUME queue # <<>>
      PROVE  /\ Head(queue) \in Events /\ Head(queue).scan \in Scans
             /\ Tail(queue) \in Seq(Events) /\ Len(Tail(queue)) <= QueueSize
  BY <1>0, <1>t, TailTypes DEF Events
<1>1. CASE DeliverList \/ DeliverFailure
  <2>1. /\ queue # <<>> /\ queue' = Tail(queue)
        /\ scan' = scan \/ Complete
    BY <1>1, Zenon DEF DeliverList, DeliverFailure, Delivers
  <2>2. ScanTypes'
    BY <1>0, <2>1, CompleteTypes, Zenon DEF ScanTypes
  <2>3. QueueTypes'
    BY <2>1, <1>t DEF QueueTypes
  <2>4. ScreenTypes'
    BY <1>0, <1>1, <1>s, <1>t, <2>1, Zenon
       DEF DeliverList, DeliverFailure, ScreenTypes, NoScan
  <2>5. ToastTypes' /\ WorkTypes' /\ CountTypes'
    BY <1>0, <1>1 DEF DeliverList, DeliverFailure, work, ToastTypes, WorkTypes,
       CountTypes
  <2> QED BY <2>2, <2>3, <2>4, <2>5 DEF Types
<1>2. CASE DeliverConnect
  <2>1. ScreenTypes'
    BY <1>0, <1>2, <1>s, Zenon DEF DeliverConnect, ScreenTypes, NoScan
  <2>2. QueueTypes'
    BY <1>2, <1>t DEF DeliverConnect, Delivers, QueueTypes
  <2>3. ScanTypes' /\ ToastTypes' /\ WorkTypes' /\ CountTypes'
    BY <1>0, <1>2 DEF DeliverConnect, work, ScanTypes, ToastTypes, WorkTypes,
       CountTypes
  <2> QED BY <2>1, <2>2, <2>3 DEF Types
<1>3. CASE DeliverResult
  <2>1. ScreenTypes'
    BY <1>0, <1>3, Zenon DEF DeliverResult, view, screen, ScreenTypes
  <2>2. QueueTypes'
    BY <1>3, <1>t DEF DeliverResult, Delivers, QueueTypes
  <2>3. ScanTypes' /\ ToastTypes' /\ WorkTypes' /\ CountTypes'
    BY <1>0, <1>3 DEF DeliverResult, view, screen, work, ScanTypes, ToastTypes,
       WorkTypes, CountTypes
  <2> QED BY <2>1, <2>2, <2>3 DEF Types
<1>4. CASE \E e, busy \in BOOLEAN : DeliverRequest(busy, e)
  <2>0. PICK e \in BOOLEAN, busy \in BOOLEAN : DeliverRequest(busy, e)
    BY <1>4
  <2>1. queue # <<>>
    BY <2>0 DEF DeliverRequest, Delivers
  <2>2. CASE busy
    <3>1. Event("failed", Head(queue).scan) \in Events
      BY <1>t, <2>1 DEF Event, Events, Kinds
    <3>2. QueueTypes'
      BY <2>0, <2>1, <2>2, <3>1, <1>t, PostTypes DEF DeliverRequest
    <3>3. WorkTypes'
      BY <1>0, <1>t, <2>0, <2>1, <2>2 DEF DeliverRequest, WorkTypes
    <3> QED BY <1>0, <2>0, <3>2, <3>3 DEF DeliverRequest, view, screen, Types,
               ScanTypes, ScreenTypes, ToastTypes, CountTypes
  <2>3. CASE ~busy
    <3>1. QueueTypes'
      BY <1>t, <2>0, <2>1, <2>3 DEF DeliverRequest, QueueTypes
    <3>2. WorkTypes'
      BY <1>0, <1>t, <2>0, <2>1, <2>3 DEF DeliverRequest, Submit, WorkTypes
    <3> QED BY <1>0, <2>0, <3>1, <3>2 DEF DeliverRequest, view, screen, Types,
               ScanTypes, ScreenTypes, ToastTypes, CountTypes
  <2> QED BY <2>2, <2>3
<1>5. CASE \E e, c \in BOOLEAN : DeliverDelete(e, c)
  <2>0. PICK e \in BOOLEAN, c \in BOOLEAN : DeliverDelete(e, c)
    BY <1>5
  <2>1. /\ ScanTypes' /\ QueueTypes'
        /\ timer' \in Scans /\ shown' \in Scans /\ spinner' \in BOOLEAN
    BY <1>t, <2>0, RequestTypes DEF DeliverDelete, Delivers
  <2>2. ScreenTypes'
    BY <1>0, <2>0, <2>1, Zenon DEF DeliverDelete, ScreenTypes
  <2>3. ToastTypes' /\ WorkTypes' /\ CountTypes'
    BY <1>0, <2>0 DEF DeliverDelete, work, ToastTypes, WorkTypes, CountTypes
  <2> QED BY <2>1, <2>2, <2>3 DEF Types
<1>6. CASE \E e, c \in BOOLEAN : FinishResult(e, c)
  <2>0. PICK e \in BOOLEAN, c \in BOOLEAN : FinishResult(e, c)
    BY <1>6
  <2>1. /\ ScanTypes' /\ QueueTypes'
        /\ timer' \in Scans /\ shown' \in Scans /\ spinner' \in BOOLEAN
    BY <1>0, <2>0, RequestTypes DEF FinishResult, QueueTypes
  <2>2. ScreenTypes'
    BY <1>0, <2>0, <2>1, Zenon DEF FinishResult, ScreenTypes
  <2>3. ToastTypes'
    <3>1. /\ toasts' = [shown |-> toasts.shown + 1,
                        timers |-> toasts.timers + 1, held |-> TRUE]
          /\ toasts.shown \in Nat /\ toasts.timers \in Nat
      BY <1>0, <2>0, Zenon DEF FinishResult, ToastTypes
    <3>2. /\ toasts.shown + 1 \in Nat /\ toasts.timers + 1 \in Nat
          /\ toasts.shown + 1 > 0
      BY <3>1
    <3> QED BY <3>1, <3>2, Zenon DEF ToastTypes
  <2>4. WorkTypes' /\ CountTypes'
    BY <1>0, <2>0 DEF FinishResult, work, WorkTypes, CountTypes
  <2> QED BY <2>1, <2>2, <2>3, <2>4 DEF Types
<1> QED BY <1>1, <1>2, <1>3, <1>4, <1>5, <1>6 DEF Delivery

LEMMA WorkerTypes ==
  ASSUME Types, Worker \/ \E e \in BOOLEAN : ConnectionEnds(e)
  PROVE  Types'
<1>0. /\ ScanTypes /\ ScreenTypes /\ ToastTypes /\ QueueTypes /\ WorkTypes
      /\ CountTypes
  BY DEF Types
<1>s. 0 \in Scans /\ 0 \in 0 .. Attempts - 1
  BY ScanAssumptions DEF Scans
<1>1. CASE WorkerTakes
  <2>1. WorkTypes'
    BY <1>0, <1>1, <1>s DEF WorkerTakes, WorkTypes, NoScan
  <2> QED BY <1>0, <1>1, <2>1 DEF WorkerTakes, view, screen, Types, ScanTypes,
             ScreenTypes, ToastTypes, QueueTypes, CountTypes
<1>2. CASE \E b \in BOOLEAN : WorkerScans(b)
  <2>1. WorkTypes'
    BY <1>0, <1>2 DEF WorkerScans, WorkTypes
  <2> QED BY <1>0, <1>2, <2>1 DEF WorkerScans, view, screen, Types, ScanTypes,
             ScreenTypes, ToastTypes, QueueTypes, CountTypes
<1>3. CASE \E b \in BOOLEAN : WorkerPosts(b)
  <2>0. PICK b \in BOOLEAN : WorkerPosts(b)
    BY <1>3
  <2>1. /\ worker.step \in {"list", "failed"} /\ worker.scan \in Scans
        /\ worker.attempt \in 0 .. Attempts - 1
    BY <1>0, <2>0 DEF WorkerPosts, WorkTypes
  <2>2. Event(worker.step, worker.scan) \in Events
    BY <2>1 DEF Event, Events, Kinds
  <2>3. QueueTypes'
    BY <1>0, <2>0, <2>2, PostTypes DEF WorkerPosts, QueueTypes
  <2>4. lost' \subseteq Scans /\ slot' \in Scans
    BY <1>0, <2>0, <2>1 DEF WorkerPosts, WorkTypes
  <2>5. \/ worker' = Idle
        \/ TriesAgain /\ worker' = [worker EXCEPT !.attempt = @ + 1]
        \/ worker' = [worker EXCEPT !.step = "failed", !.attempt = 0]
    BY <2>0 DEF WorkerPosts
  <2>6. worker' \in [step : {"idle", "scan", "list", "failed"}, scan : Scans,
                     attempt : 0 .. Attempts - 1]
    <3>1. CASE worker' = Idle
      BY <3>1, <1>s DEF Idle, NoScan
    <3>2. CASE TriesAgain /\ worker' = [worker EXCEPT !.attempt = @ + 1]
      <4>1. worker.attempt + 1 \in 0 .. Attempts - 1
        BY <2>1, <3>2, ScanAssumptions DEF TriesAgain
      <4> QED BY <1>0, <3>2, <4>1 DEF WorkTypes
    <3>3. CASE worker' = [worker EXCEPT !.step = "failed", !.attempt = 0]
      BY <1>0, <1>s, <3>3 DEF WorkTypes
    <3> QED BY <2>5, <3>1, <3>2, <3>3
  <2>7. WorkTypes'
    BY <2>4, <2>6 DEF WorkTypes
  <2> QED BY <1>0, <2>0, <2>3, <2>7 DEF WorkerPosts, view, screen, Types,
             ScanTypes, ScreenTypes, ToastTypes, CountTypes
<1>4. CASE \E e \in BOOLEAN : ConnectionEnds(e)
  <2>0. PICK e \in BOOLEAN : ConnectionEnds(e)
    BY <1>4
  <2>1. Event("result", NoScan) \in Events
    BY <1>s DEF Event, Events, Kinds, NoScan
  <2>2. QueueTypes'
    BY <1>0, <2>0, <2>1, PostTypes DEF ConnectionEnds, QueueTypes
  <2>3. CountTypes'
    BY <1>0, <2>0, ScanAssumptions DEF ConnectionEnds, CountTypes
  <2> QED BY <1>0, <2>0, <2>2, <2>3 DEF ConnectionEnds, view, screen, work, Types,
             ScanTypes, ScreenTypes, ToastTypes, WorkTypes
<1> QED BY <1>1, <1>2, <1>3, <1>4 DEF Worker

LEMMA TypesAlways == Spec => []Types
<1>1. Types /\ [Next]_vars => Types'
  BY UserTypes, TimerTypes, DeliveryTypes, WorkerTypes DEF Next, vars, Types,
     ScanTypes, ScreenTypes, ToastTypes, QueueTypes, WorkTypes, CountTypes
<1> QED BY InitTypes, <1>1, PTL DEF Spec

\* Types of the view, the queue and the worker: the queue keeps to its room and
\* the worker to its attempts, and a toast that closes was on the screen.
THEOREM TypeCorrect == Spec => []TypeOK
  BY TypesAlways, TypesImplyTypeOK, PTL

-----------------------------------------------------------------------------
(* The view alone: its state is consistent whatever the rest of the system *)
(* does with its commands.                                                 *)

\* A step of the view keeps both of its invariants.
LEMMA ViewKeeps ==
  ASSUME Types, PendingIsTimed, NewestListStays, [Next]_vars
  PROVE  PendingIsTimed' /\ NewestListStays'
<1> USE DEF PendingIsTimed, NewestListStays
<1>0. scan.active \in Nat /\ scan.active + 1 # NoScan /\ Types
  BY ScanAssumptions DEF Types, ScanTypes, Scans, NoScan
<1>1. ASSUME NEW rest, NEW e \in BOOLEAN, NEW c \in BOOLEAN,
             RequestScan(rest, e, c)
      PROVE  PendingIsTimed' /\ NewestListStays'
  <2>1. /\ scan' = [active |-> scan.active + 1, pending |-> e /\ c,
                    accept |-> TRUE]
        /\ (e /\ c => timer' = scan.active + 1) /\ shown' = NoScan
    BY <1>1, Zenon DEF RequestScan
  <2> QED BY <2>1, Zenon
<1>2. CASE HideModal
  <2>1. /\ scan'.pending = scan.pending /\ scan'.active = scan.active
        /\ UNCHANGED <<timer, shown, spinner>>
    BY <1>0, <1>2, Zenon DEF HideModal, Types, ScanTypes
  <2> QED BY <2>1, Zenon
<1>3. ASSUME Complete
      PROVE  scan'.pending = FALSE /\ scan'.active = scan.active
  BY <1>0, <1>3, Zenon DEF Complete, Types, ScanTypes
<1>4. CASE TimeoutFires
  <2>1. CASE Completes(timer)
    BY <1>3, <1>4, <2>1, Zenon DEF TimeoutFires
  <2>2. CASE ~Completes(timer)
    BY <1>4, <2>2, Zenon DEF TimeoutFires, Completes
  <2> QED BY <2>1, <2>2
<1>5. CASE DeliverList
  <2>1. CASE Completes(Head(queue).scan)
    BY <1>3, <1>5, <2>1, Zenon DEF DeliverList, Completes
  <2>2. CASE ~Completes(Head(queue).scan)
    BY <1>5, <2>2, Zenon DEF DeliverList
  <2> QED BY <2>1, <2>2
<1>6. CASE DeliverFailure
  <2>1. CASE Completes(Head(queue).scan)
    BY <1>3, <1>6, <2>1, Zenon DEF DeliverFailure
  <2>2. CASE ~Completes(Head(queue).scan)
    BY <1>6, <2>2, Zenon DEF DeliverFailure
  <2> QED BY <2>1, <2>2
<1>7. CASE DeliverConnect
  BY <1>7, Zenon DEF DeliverConnect
<1>8. CASE \E e, c \in BOOLEAN :
             OpenModal(e, c) \/ DeliverDelete(e, c) \/ FinishResult(e, c)
  BY <1>1, <1>8 DEF OpenModal, DeliverDelete, FinishResult
<1>9. CASE UNCHANGED <<scan, timer, spinner, shown>>
  BY <1>9, Zenon
<1> QED
  BY <1>2, <1>4, <1>5, <1>6, <1>7, <1>8, <1>9 DEF Next, User, Delivery, Worker,
     CancelDialog, OpenDialog, ConfirmDialog, ToastCloses, DeliverResult,
     DeliverRequest, WorkerTakes, WorkerScans, WorkerPosts, ConnectionEnds, view,
     screen, vars

\* The modal never waits for a scan without the timer of that very scan, so a
\* wait ends although commands, results and failures may all be rejected.
THEOREM WaitsAreTimed == Spec => []PendingIsTimed
<1>1. Init => PendingIsTimed /\ NewestListStays
  BY DEF Init, PendingIsTimed, NewestListStays
<1> QED BY <1>1, TypesAlways, ViewKeeps, PTL DEF Spec

\* Late results never replace the list of a newer scan, nor is a list shown
\* while a newer scan is under way.
THEOREM ListsAreNew == Spec => []NewestListStays
<1>1. Init => PendingIsTimed /\ NewestListStays
  BY DEF Init, PendingIsTimed, NewestListStays
<1> QED BY <1>1, TypesAlways, ViewKeeps, PTL DEF Spec

-----------------------------------------------------------------------------
(* The newest request: what happens to the queue on its way.               *)

Carries(e, g) == e.scan = g /\ e.kind \in {"request", "list", "failed"}

Holds(q, g) == \E i \in 1 .. Len(q) : Carries(q[i], g)

\* Requests wait in the order of their generations, after the one in the slot,
\* and nothing carries a generation that was not asked for yet.
Ordered(q, s, n) ==
  /\ \A i \in 1 .. Len(q) : q[i].scan <= n
  /\ \A i \in 1 .. Len(q) : q[i].kind = "request" => s < q[i].scan
  /\ \A i, j \in 1 .. Len(q) :
       i < j /\ q[i].kind = "request" /\ q[j].kind = "request" =>
         q[i].scan < q[j].scan

InOrder ==
  /\ slot <= scan.active /\ worker.scan <= scan.active
  /\ Ordered(queue, slot, scan.active)

LEMMA HoldsInQueue ==
  ASSUME queue \in Seq(Events), NEW g
  PROVE  InQueue(g) <=> Holds(queue, g)
<1>1. DOMAIN queue = 1 .. Len(queue)
  OBVIOUS
<1> QED BY <1>1, Zenon DEF InQueue, Holds, Carries

\* An event that is appended keeps what the queue held and is held itself.
LEMMA HoldsAppend ==
  ASSUME NEW q \in Seq(Events), NEW e \in Events, NEW g
  PROVE  Holds(Append(q, e), g) <=> Holds(q, g) \/ Carries(e, g)
<1>1. /\ Len(Append(q, e)) = Len(q) + 1
      /\ Append(q, e)[Len(q) + 1] = e
      /\ \A i \in 1 .. Len(q) : Append(q, e)[i] = q[i]
      /\ 1 .. Len(q) + 1 = (1 .. Len(q)) \cup {Len(q) + 1}
  OBVIOUS
<1> QED BY <1>1, Zenon DEF Holds

\* The rest of the queue holds all but what its head carries.
LEMMA HoldsTail ==
  ASSUME NEW q \in Seq(Events), q # <<>>, NEW g
  PROVE  Holds(q, g) => Carries(Head(q), g) \/ Holds(Tail(q), g)
<1> SUFFICES ASSUME NEW i \in 1 .. Len(q), Carries(q[i], g), i # 1
             PROVE  Holds(Tail(q), g)
  <2>1. q[1] = Head(q)
    OBVIOUS
  <2> QED BY <2>1, Zenon DEF Holds
<1>1. i - 1 \in 1 .. Len(Tail(q)) /\ Tail(q)[i - 1] = q[i]
  OBVIOUS
<1> QED BY <1>1, Zenon DEF Holds

LEMMA EventScans == \A e \in Events : e.scan \in Nat
  BY ScanAssumptions DEF Events, Scans

LEMMA OrderedTail ==
  ASSUME NEW q \in Seq(Events), q # <<>>, NEW s \in Nat, NEW n \in Nat,
         Ordered(q, s, n)
  PROVE  /\ Ordered(Tail(q), s, n)
         /\ Head(q).scan <= n
         /\ Head(q).kind = "request" =>
              s < Head(q).scan /\ Ordered(Tail(q), Head(q).scan, n)
<1>1. /\ Head(q) = q[1] /\ 1 \in 1 .. Len(q)
      /\ \A i \in 1 .. Len(Tail(q)) : Tail(q)[i] = q[i + 1]
      /\ \A i \in 1 .. Len(Tail(q)) : i + 1 \in 1 .. Len(q)
      /\ \A i \in 1 .. Len(Tail(q)) : 1 < i + 1
      /\ \A i, j \in 1 .. Len(Tail(q)) : i < j => i + 1 < j + 1
  OBVIOUS
<1> QED BY <1>1, Zenon DEF Ordered

LEMMA OrderedAppend ==
  ASSUME NEW q \in Seq(Events), NEW s \in Nat, NEW n \in Nat, NEW m \in Nat,
         Ordered(q, s, n), s <= n, n <= m, NEW e \in Events, e.scan <= m,
         e.kind = "request" => n < e.scan
  PROVE  Ordered(Append(q, e), s, m)
<1> DEFINE r == Append(q, e)
<1>1. /\ Len(r) = Len(q) + 1 /\ r[Len(q) + 1] = e
      /\ \A i \in 1 .. Len(q) : r[i] = q[i]
      /\ \A i \in 1 .. Len(r) : i \in 1 .. Len(q) \/ i = Len(q) + 1
  OBVIOUS
<1>2. \A i \in 1 .. Len(q) : q[i].scan \in Nat
  <2>1. \A i \in 1 .. Len(q) : q[i] \in Events
    OBVIOUS
  <2> QED BY <2>1, EventScans
<1>3. e.scan \in Nat
  BY EventScans
<1> HIDE DEF r
<1>4. \A i \in 1 .. Len(r) : r[i].scan <= m
  BY <1>1, <1>2 DEF Ordered
<1>5. \A i \in 1 .. Len(r) : r[i].kind = "request" => s < r[i].scan
  BY <1>1, <1>2, <1>3 DEF Ordered
<1>6. \A i, j \in 1 .. Len(r) :
        i < j /\ r[i].kind = "request" /\ r[j].kind = "request" =>
          r[i].scan < r[j].scan
  <2> SUFFICES ASSUME NEW i \in 1 .. Len(r), NEW j \in 1 .. Len(r), i < j,
                      r[i].kind = "request", r[j].kind = "request"
               PROVE  r[i].scan < r[j].scan
    OBVIOUS
  <2>1. i \in 1 .. Len(q)
    BY <1>1
  <2>2. CASE j \in 1 .. Len(q)
    BY <1>1, <2>1, <2>2 DEF Ordered
  <2>3. CASE j = Len(q) + 1
    BY <1>1, <1>2, <1>3, <2>1, <2>3 DEF Ordered
  <2> QED BY <1>1, <2>2, <2>3
<1> QED BY <1>4, <1>5, <1>6 DEF Ordered, r

\* An older bound is a weaker one.
LEMMA OrderedWeaker ==
  ASSUME NEW q \in Seq(Events), NEW s \in Nat, NEW n \in Nat, NEW m \in Nat,
         Ordered(q, s, n), n <= m
  PROVE  Ordered(q, s, m)
<1>1. \A i \in 1 .. Len(q) : q[i].scan \in Nat
  <2>1. \A i \in 1 .. Len(q) : q[i] \in Events
    OBVIOUS
  <2> QED BY <2>1, EventScans
<1>2. \A i \in 1 .. Len(q) : q[i].scan <= m
  BY <1>1 DEF Ordered
<1> QED BY <1>2, Zenon DEF Ordered

-----------------------------------------------------------------------------
(* The newest request: every step.                                         *)

Owed ==
  scan.pending =>
    \/ Holds(queue, scan.active) \/ slot = scan.active
    \/ worker.step # "idle" /\ worker.scan = scan.active
    \/ scan.active \in lost

\* What the types say of the numbers that are compared.
LEMMA Numbers ==
  ASSUME Types
  PROVE  /\ scan.active \in Nat /\ slot \in Nat /\ worker.scan \in Nat
         /\ queue \in Seq(Events) /\ scan.active \in Scans
  BY ScanAssumptions DEF Types, ScanTypes, WorkTypes, QueueTypes, Scans

\* An event that is no request, on a queue in order.
LEMMA PostKeeps ==
  ASSUME NEW rest \in Seq(Events), NEW s \in Nat, NEW n \in Nat, s <= n,
         Ordered(rest, s, n), NEW e \in Events, e.kind # "request",
         e.scan <= n, NEW enqueued \in BOOLEAN, Post(rest, e, enqueued)
  PROVE  /\ Ordered(queue', s, n)
         /\ \A g : Holds(rest, g) => Holds(queue', g)
         /\ \A g : enqueued /\ Carries(e, g) => Holds(queue', g)
<1>1. CASE enqueued
  <2>1. queue' = Append(rest, e)
    BY <1>1 DEF Post
  <2>2. Ordered(Append(rest, e), s, n)
    BY OrderedAppend, n <= n
  <2> QED BY <2>1, <2>2, HoldsAppend
<1>2. CASE ~enqueued
  BY <1>2 DEF Post
<1> QED BY <1>1, <1>2

\* A new request goes behind all others.
LEMMA RequestKeeps ==
  ASSUME Types, NEW rest \in Seq(Events), slot <= scan.active,
         worker.scan <= scan.active, Ordered(rest, slot, scan.active),
         NEW enqueued \in BOOLEAN, NEW created \in BOOLEAN,
         RequestScan(rest, enqueued, created), UNCHANGED work
  PROVE  InOrder' /\ Owed'
<1> DEFINE n == scan.active
           e == Event("request", n + 1)
<1>1. n \in Nat /\ slot \in Nat /\ worker.scan \in Nat
  BY Numbers
<1>2. scan'.active = n + 1 /\ slot' = slot /\ worker' = worker
  BY Zenon DEF RequestScan, work
<1>3. e \in Events /\ e.kind = "request" /\ e.scan = n + 1
  <2>1. n + 1 \in Scans
    BY Numbers, ScanAssumptions DEF RequestScan, Scans
  <2> QED BY <2>1 DEF Event, Events, Kinds
<1>4. Post(rest, e, enqueued) /\ (scan'.pending => enqueued)
  BY Zenon DEF RequestScan
<1>5. Ordered(Append(rest, e), slot, n + 1) /\ Ordered(rest, slot, n + 1)
  BY <1>1, <1>3, OrderedAppend, OrderedWeaker
<1>6. Ordered(queue', slot, n + 1)
  BY <1>4, <1>5, Zenon DEF Post
<1>7. slot <= n + 1 /\ worker.scan <= n + 1
  BY <1>1
<1>8. InOrder'
  BY <1>2, <1>6, <1>7, Zenon DEF InOrder
<1>9. enqueued => Holds(queue', n + 1)
  <2>1. enqueued => queue' = Append(rest, e)
    BY <1>4, Zenon DEF Post
  <2>2. Carries(e, n + 1)
    BY <1>3 DEF Carries
  <2> QED BY <1>3, <2>1, <2>2, HoldsAppend
<1> QED BY <1>2, <1>4, <1>8, <1>9, Zenon DEF Owed

\* An event leaves the queue, the view or the worker takes it.
LEMMA TakeKeeps ==
  ASSUME Types, InOrder, queue # <<>>
  PROVE  /\ Ordered(Tail(queue), slot, scan.active)
         /\ Head(queue) \in Events /\ Tail(queue) \in Seq(Events)
         /\ Head(queue).scan <= scan.active
         /\ Head(queue).kind = "request" =>
              /\ slot < Head(queue).scan
              /\ Ordered(Tail(queue), Head(queue).scan, scan.active)
         /\ \A g : Holds(queue, g) => Carries(Head(queue), g)
                                      \/ Holds(Tail(queue), g)
<1>1. queue \in Seq(Events) /\ slot \in Nat /\ scan.active \in Nat
  BY Numbers
<1>2. Head(queue) \in Events /\ Tail(queue) \in Seq(Events)
  BY <1>1
<1>3. Ordered(queue, slot, scan.active)
  BY DEF InOrder
<1> QED BY <1>1, <1>2, <1>3, OrderedTail, HoldsTail

LEMMA QuietKeeps ==
  ASSUME InOrder, Owed, UNCHANGED <<slot, worker, lost, queue>>,
         scan'.active = scan.active, scan'.pending => scan.pending
  PROVE  InOrder' /\ Owed'
  BY Zenon DEF InOrder, Owed

LEMMA AnswersKeep ==
  ASSUME Types, InOrder, Owed, DeliverList \/ DeliverFailure
  PROVE  InOrder' /\ Owed'
<1> DEFINE h == Head(queue)
<1>0. /\ queue # <<>> /\ queue' = Tail(queue) /\ UNCHANGED work
      /\ \/ Completes(h.scan) /\ Complete
         \/ ~Completes(h.scan) /\ scan' = scan
  BY DEF DeliverList, DeliverFailure, Delivers
<1>1. scan'.active = scan.active /\ (Complete => ~scan'.pending)
  BY <1>0, Zenon DEF Complete, Types, ScanTypes
<1>2. InOrder'
  BY <1>0, <1>1, TakeKeeps, Zenon DEF InOrder, work
<1>3. Owed'
  <2> SUFFICES ASSUME scan'.pending PROVE Owed'
    BY Zenon DEF Owed
  <2>1. scan' = scan /\ ~Completes(h.scan)
    BY <1>0, <1>1
  <2>2. h.scan # scan.active
    BY <2>1 DEF Completes
  <2>3. Holds(queue, scan.active) => Holds(queue', scan.active)
    BY <1>0, <2>2, TakeKeeps, Zenon DEF Carries
  <2> QED BY <1>0, <2>1, <2>3, Zenon DEF Owed, work
<1> QED BY <1>2, <1>3

LEMMA RequestsKeep ==
  ASSUME Types, InOrder, Owed, NEW e \in BOOLEAN, NEW busy \in BOOLEAN,
         DeliverRequest(busy, e)
  PROVE  InOrder' /\ Owed'
<1> DEFINE h == Head(queue)
           g == Head(queue).scan
           f == Event("failed", g)
<1>0. /\ queue # <<>> /\ h.kind = "request" /\ scan' = scan
      /\ worker' = worker
  BY DEF DeliverRequest, Delivers, view
<1>1. scan.active \in Nat /\ slot \in Nat /\ h \in Events /\ g \in Nat
  BY <1>0, Numbers, TakeKeeps, EventScans
<1>2. slot < g /\ g <= scan.active
  BY <1>0, TakeKeeps
<1>3. slot # scan.active
  BY <1>1, <1>2
<1>4. CASE busy
  <2>1. /\ Post(Tail(queue), f, e) /\ slot' = slot
        /\ lost' = IF e THEN lost ELSE lost \cup {g}
    BY <1>4 DEF DeliverRequest
  <2>2. f \in Events /\ f.kind = "failed" /\ f.scan = g
    BY <1>1 DEF Event, Events, Kinds
  <2>3. slot <= scan.active
    BY <1>1, <1>2
  <2>4. /\ Ordered(queue', slot, scan.active)
        /\ \A a : Holds(Tail(queue), a) => Holds(queue', a)
        /\ \A a : e /\ Carries(f, a) => Holds(queue', a)
    BY <1>0, <1>1, <1>2, <2>1, <2>2, <2>3, TakeKeeps, PostKeeps
  <2>5. InOrder'
    BY <1>0, <2>1, <2>4, Zenon DEF InOrder
  <2>6. Holds(queue, scan.active) =>
          Holds(queue', scan.active) \/ scan.active \in lost'
    <3>1. CASE g = scan.active
      BY <2>1, <2>2, <2>4, <3>1, Zenon DEF Carries
    <3>2. CASE g # scan.active
      BY <1>0, <2>4, <3>2, TakeKeeps, Zenon DEF Carries
    <3> QED BY <3>1, <3>2
  <2>7. lost \subseteq lost'
    BY <2>1
  <2> QED BY <1>0, <1>3, <2>5, <2>6, <2>7, Zenon DEF Owed
<1>5. CASE ~busy
  <2>1. slot' = g /\ queue' = Tail(queue) /\ lost' = lost
    BY <1>5 DEF DeliverRequest, Submit
  <2>2. InOrder'
    BY <1>0, <1>2, <2>1, TakeKeeps, Zenon DEF InOrder
  <2>3. Holds(queue, scan.active) =>
          Holds(queue', scan.active) \/ slot' = scan.active
    BY <1>0, <2>1, TakeKeeps, Zenon DEF Carries
  <2> QED BY <1>0, <1>3, <2>1, <2>2, <2>3, Zenon DEF Owed
<1> QED BY <1>4, <1>5

LEMMA WorkersKeep ==
  ASSUME Types, InOrder, Owed, Worker
  PROVE  InOrder' /\ Owed'
<1>0. /\ scan.active \in Nat /\ slot \in Nat /\ worker.scan \in Nat
      /\ queue \in Seq(Events) /\ Ordered(queue, slot, scan.active)
      /\ slot <= scan.active /\ worker.scan <= scan.active
  BY Numbers DEF InOrder
<1>1. CASE WorkerTakes
  <2>1. /\ worker'.step = "scan" /\ worker'.scan = slot /\ slot' = 0
        /\ worker.step = "idle" /\ UNCHANGED <<scan, queue, lost>>
    BY <1>1 DEF WorkerTakes, view, NoScan, Idle
  <2>2. Ordered(queue, 0, scan.active)
    <3>1. \A i \in 1 .. Len(queue) : queue[i].scan \in Nat
      <4>1. \A i \in 1 .. Len(queue) : queue[i] \in Events
        BY <1>0
      <4> QED BY <4>1, EventScans
    <3>2. \A n \in Nat : slot < n => 0 < n
      BY <1>0
    <3> QED BY <1>0, <3>1, <3>2, Zenon DEF Ordered
  <2>3. InOrder'
    BY <1>0, <2>1, <2>2 DEF InOrder
  <2> QED BY <2>1, <2>3 DEF Owed
<1>2. CASE \E b \in BOOLEAN : WorkerScans(b)
  <2>1. /\ worker'.step # "idle" /\ worker'.scan = worker.scan
        /\ worker.step # "idle" /\ UNCHANGED <<scan, queue, lost, slot>>
    BY <1>2 DEF WorkerScans, view, Types, WorkTypes
  <2> QED BY <2>1, Zenon DEF InOrder, Owed
<1>3. CASE \E b \in BOOLEAN : WorkerPosts(b)
  <2>0. PICK b \in BOOLEAN : WorkerPosts(b)
    BY <1>3
  <2> DEFINE e == Event(worker.step, worker.scan)
  <2>1. /\ Post(queue, e, b) /\ slot' = slot /\ scan' = scan
        /\ worker.step \in {"list", "failed"} /\ lost \subseteq lost'
    BY <2>0 DEF WorkerPosts, view
  <2>2. e \in Events /\ e.kind # "request" /\ Carries(e, worker.scan)
        /\ e.scan = worker.scan
    BY <2>1 DEF Event, Events, Kinds, Carries, Types, WorkTypes
  <2>3. /\ Ordered(queue', slot, scan.active)
        /\ \A a : Holds(queue, a) => Holds(queue', a)
        /\ b => Holds(queue', worker.scan)
    BY <1>0, <2>1, <2>2, PostKeeps
  <2>4. \/ worker' = Idle /\ (b \/ worker.scan \in lost')
        \/ worker'.step # "idle" /\ worker'.scan = worker.scan
    BY <2>0 DEF WorkerPosts, Types, WorkTypes
  <2>5. worker'.scan <= scan.active
    BY <1>0, <2>4 DEF Idle, NoScan
  <2>6. InOrder'
    BY <1>0, <2>1, <2>3, <2>5, Zenon DEF InOrder
  <2> QED BY <2>1, <2>3, <2>4, <2>6, Zenon DEF Owed
<1> QED BY <1>1, <1>2, <1>3 DEF Worker

LEMMA NewestKept ==
  ASSUME Types, InOrder, Owed, [Next]_vars
  PROVE  InOrder' /\ Owed'
<1>0. /\ scan.active \in Nat /\ slot \in Nat /\ worker.scan \in Nat
      /\ queue \in Seq(Events) /\ Ordered(queue, slot, scan.active)
      /\ slot <= scan.active /\ worker.scan <= scan.active
  BY Numbers DEF InOrder
<1>1. CASE UNCHANGED <<slot, worker, lost, queue, scan>>
  BY <1>1, QuietKeeps
<1>2. CASE HideModal \/ TimeoutFires
  <2>1. /\ scan'.active = scan.active /\ (scan'.pending => scan.pending)
        /\ UNCHANGED <<slot, worker, lost, queue>>
    BY <1>2, Zenon DEF HideModal, TimeoutFires, Complete, work, Types, ScanTypes
  <2> QED BY <2>1, QuietKeeps
<1>3. ASSUME NEW e \in Events, NEW b \in BOOLEAN, Post(queue, e, b),
             e.kind # "request", e.scan = NoScan, UNCHANGED <<scan, work>>
      PROVE  InOrder' /\ Owed'
  <2>1. 0 <= scan.active
    BY <1>0
  <2>2. /\ Ordered(queue', slot, scan.active)
        /\ \A g : Holds(queue, g) => Holds(queue', g)
    BY <1>0, <1>3, <2>1, PostKeeps DEF NoScan
  <2> QED BY <1>0, <1>3, <2>2, Zenon DEF InOrder, Owed, work
<1>4. CASE \E e \in BOOLEAN : ConfirmDialog(e) \/ ConnectionEnds(e)
  <2>0. PICK b \in BOOLEAN : ConfirmDialog(b) \/ ConnectionEnds(b)
    BY <1>4
  <2>1. 0 \in Scans
    BY ScanAssumptions DEF Scans
  <2>2. CASE ConfirmDialog(b)
    <3>1. /\ Event(dialog, NoScan) \in Events
          /\ Event(dialog, NoScan).kind # "request"
          /\ Event(dialog, NoScan).scan = NoScan
      BY <2>1, <2>2 DEF ConfirmDialog, Event, Events, Kinds, NoScan, Types,
         ScreenTypes
    <3> QED BY <1>3, <2>2, <3>1 DEF ConfirmDialog
  <2>3. CASE ConnectionEnds(b)
    <3>1. /\ Event("result", NoScan) \in Events
          /\ Event("result", NoScan).kind # "request"
          /\ Event("result", NoScan).scan = NoScan
      BY <2>1 DEF Event, Events, Kinds, NoScan
    <3> QED BY <1>3, <2>3, <3>1 DEF ConnectionEnds, view
  <2> QED BY <2>0, <2>2, <2>3
<1>5. CASE \E e, c \in BOOLEAN : OpenModal(e, c) \/ FinishResult(e, c)
  BY <1>0, <1>5, RequestKeeps DEF OpenModal, FinishResult
<1>6. CASE \E e, c \in BOOLEAN : DeliverDelete(e, c)
  BY <1>0, <1>6, TakeKeeps, RequestKeeps DEF DeliverDelete, Delivers
<1>7. CASE DeliverConnect \/ DeliverResult
  <2>1. /\ queue # <<>> /\ queue' = Tail(queue)
        /\ UNCHANGED <<scan, slot, worker, lost>>
        /\ Head(queue).kind \notin {"request", "list", "failed"}
    BY <1>7 DEF DeliverConnect, DeliverResult, Delivers, view, work
  <2>2. /\ Ordered(Tail(queue), slot, scan.active)
        /\ Holds(queue, scan.active) => Holds(Tail(queue), scan.active)
    BY <2>1, TakeKeeps, Zenon DEF Carries
  <2> QED BY <2>1, <2>2, Zenon DEF InOrder, Owed
<1>8. CASE DeliverList \/ DeliverFailure
  BY <1>8, AnswersKeep
<1>9. CASE \E e, busy \in BOOLEAN : DeliverRequest(busy, e)
  BY <1>9, RequestsKeep
<1>10. CASE Worker
  BY <1>10, WorkersKeep
<1> QED
  BY <1>1, <1>2, <1>4, <1>5, <1>6, <1>7, <1>8, <1>9, <1>10 DEF Next, User,
     Delivery, CancelDialog, OpenDialog, ToastCloses, view, screen, work, vars

\* The scan the modal waits for is never dropped on its way, although requests
\* overwrite each other in the worker's slot and answers are given up.
THEOREM NewestIsOwed == Spec => []AnswerIsOwed
<1>1. Init => InOrder /\ Owed
  BY DEF Init, InOrder, Owed, Ordered, Idle, NoScan
<1>2. Types /\ Owed => AnswerIsOwed
  BY HoldsInQueue, Zenon DEF Types, QueueTypes, Owed, AnswerIsOwed
<1> QED BY <1>1, <1>2, TypesAlways, NewestKept, PTL DEF Spec

-----------------------------------------------------------------------------
(***************************************************************************)
(* The link (WifiLink), which shares no state with the scan: its types for *)
(* every number of retries, looks, events, commands and outages.           *)
(***************************************************************************)
\* The statuses and the events.

LEMMA StatusTypes ==
  /\ Reset \in Statuses /\ Connecting \in Statuses
  /\ Connected \in Statuses
  /\ \A b \in BOOLEAN : /\ Disconnected(b) \in Statuses
                        /\ Disconnected(b).connecting = b
  /\ \A st \in Statuses : GotIp(st) \in Statuses
  /\ ~Reset.connecting /\ ~Connected.connecting
BY Zenon
   DEF Statuses, Reset, Connecting, Connected,
       Disconnected, GotIp

LEMMA PingTypes ==
  ASSUME NEW st \in Statuses, NEW b \in BOOLEAN
  PROVE  [st EXCEPT !.network = st.hasIp /\ b] \in Statuses
BY Zenon DEF Statuses

LinkEvents  == {"start", "connected", "disconnected", "gotIp"}
LinkEventsOK(q) == q \in Seq(LinkEvents) /\ Len(q) <= MaxEvents

LEMMA LinkPostTypes ==
  ASSUME LinkEventsOK(events), NEW e \in LinkEvents, PostEvent(e)
  PROVE  LinkEventsOK(events')
BY AppendProperties, LenProperties, LinkAssumptions DEF LinkEventsOK, PostEvent

LEMMA RadioTypes ==
  ASSUME LinkEventsOK(events),
         station \in {"idle", "connecting", "associated", "addressed"},
         Stop \/ Start
  PROVE  /\ LinkEventsOK(events') /\ radio' \in {"started", "stopped"}
         /\ station' \in {"idle", "connecting", "associated", "addressed"}
BY LinkPostTypes DEF Stop, Start, LinkEvents

\* A retry that is being handled is one of those allowed, whoever resets their
\* number meanwhile.
RetryInv ==
  handler.event = "disconnected" /\ handler.step \in {"write", "publish"} =>
    (handler.status.connecting => retries < RetryMax)

LinkInv == LinkTypeOK /\ RetryInv

Handlers == [event : {"none", "start", "connected", "disconnected", "gotIp"},
             step : {"idle", "write", "publish", "count"},
             status : Statuses, count : 0 .. RetryMax]
Pings    == [step : {"none", "running", "write", "publish"}, status : Statuses]

\* The steps of a command, as the code carries them out.
CommandOK(cmd) ==
  cmd = NoCommand \/
    \E kind \in {"connect", "delete", "shutdown"} :
      \E i \in DOMAIN Steps(kind) :
        cmd = [kind |-> kind, step |-> Steps(kind)[i]]

LEMMA StepsTypes ==
  ASSUME NEW kind \in {"connect", "delete", "shutdown"}
  PROVE  /\ DOMAIN Steps(kind) = 1 .. Len(Steps(kind))
         /\ Len(Steps(kind)) \in Nat \ {0}
         /\ Head(Steps(kind)) = Steps(kind)[1]
<1>1. CASE kind = "connect"
  <2>1. Steps(kind) = <<"stop", "configure", "write", "publish", "start">>
    BY <1>1 DEF Steps
  <2> QED
    BY <2>1
<1>2. CASE kind = "delete"
  <2>1. Steps(kind) = <<"forget", "write", "publish", "restore">>
    BY <1>2 DEF Steps
  <2> QED
    BY <2>1
<1>3. CASE kind = "shutdown"
  <2>1. Steps(kind) = <<"forget", "write", "publish", "stop">>
    BY <1>3 DEF Steps
  <2> QED
    BY <2>1
<1> QED
  BY <1>1, <1>2, <1>3

LEMMA DoneTypes ==
  ASSUME CommandOK(command), command # NoCommand, Done
  PROVE  CommandOK(command')
<1>0. PICK kind \in {"connect", "delete", "shutdown"} :
        \E n \in DOMAIN Steps(kind) :
          command = [kind |-> kind, step |-> Steps(kind)[n]]
  BY DEF CommandOK
<1>1. PICK n \in DOMAIN Steps(kind) :
        command = [kind |-> kind, step |-> Steps(kind)[n]]
  BY <1>0
<1> DEFINE i == CHOOSE j \in DOMAIN Steps(kind) :
                  Steps(kind)[j] = command.step
<1>2. i \in DOMAIN Steps(kind)
  BY <1>1
<1>3. command' = IF i = Len(Steps(kind)) THEN NoCommand
                   ELSE [command EXCEPT !.step = Steps(kind)[i + 1]]
  BY <1>1 DEF Done
<1> HIDE DEF i
<1>4. i # Len(Steps(kind)) => i + 1 \in DOMAIN Steps(kind)
  BY <1>2, StepsTypes
<1>5. \A x : [command EXCEPT !.step = x] = [kind |-> kind, step |-> x]
  BY <1>1
<1> QED
  BY <1>3, <1>4, <1>5 DEF CommandOK

-----------------------------------------------------------------------------
(* The types.                                                              *)

LEMMA LinkInitTypes == LinkInit => LinkInv
<1> SUFFICES ASSUME LinkInit PROVE LinkInv
  OBVIOUS
<1>1. handler \in Handlers /\ ping \in Pings /\ status \in Statuses
  BY StatusTypes, LinkAssumptions
     DEF LinkInit, NoEvent, NoPing, Handlers, Pings
<1>2. /\ told \in BOOLEAN /\ configured \in BOOLEAN /\ reachable \in BOOLEAN
      /\ request \in Requests /\ overtaken \in BOOLEAN
  BY Zenon DEF LinkInit, Requests
<1>3. /\ looks \in 0 .. ReconnectAfter + 1 /\ checks \in 0 .. NetworkChecks
      /\ retries \in 0 .. RetryMax
      /\ commands \in 0 .. MaxCommands /\ outages \in 0 .. MaxOutages
      /\ refusals \in 0 .. MaxRefusals
  BY LinkAssumptions DEF LinkInit
<1>4. LinkEventsOK(events)
  BY LinkAssumptions DEF LinkInit, LinkEventsOK, LinkEvents
<1>5. CommandOK(command)
  BY DEF LinkInit, CommandOK
<1>6. /\ task \in {"idle", "stop", "start"} /\ radio \in {"started", "stopped"}
      /\ station \in {"idle", "connecting", "associated", "addressed"}
      /\ stored \in {"none", "right", "wrong"} /\ RetryInv
  BY DEF LinkInit, NoEvent, RetryInv
<1> QED
  BY <1>1, <1>2, <1>3, <1>4, <1>5, <1>6
     DEF LinkInv, LinkTypeOK, Handlers, Pings, LinkEventsOK, LinkEvents,
         CommandOK

LEMMA AnswerTypes ==
  ASSUME request \in Requests, refusals \in 0 .. MaxRefusals,
         NEW result \in {"failure", "success"},
         Answer(result) \/ UNCHANGED <<request, refusals>>
  PROVE  request' \in Requests /\ refusals' \in 0 .. MaxRefusals
BY LinkAssumptions DEF Answer, Requests

LEMMA EventLoopTypes ==
  ASSUME LinkInv, EventLoop
  PROVE  LinkInv'
<1>0. /\ LinkTypeOK /\ RetryInv /\ handler \in Handlers
      /\ LinkEventsOK(events)
      /\ retries \in 0 .. RetryMax
  BY DEF LinkInv, LinkTypeOK, Handlers, LinkEventsOK, LinkEvents
<1>1. CASE TakeEvent
  <2> DEFINE e == Head(events)
  <2>1. e \in LinkEvents /\ LinkEventsOK(events') /\ events # <<>>
    BY <1>0, <1>1, HeadTailProperties, LenProperties, LinkAssumptions
       DEF TakeEvent, LinkEventsOK
  <2>2. (retries < RetryMax) \in BOOLEAN
    OBVIOUS
  <2>3. StatusAfter(e) \in Statuses
    BY <1>0, <2>1, <2>2, StatusTypes
       DEF StatusAfter, LinkEvents, LinkTypeOK
  <2>4. handler' = [event |-> e, step |-> "write", status |-> StatusAfter(e),
                    count |-> 0]
    BY <1>1 DEF TakeEvent
  <2>5. handler' \in Handlers
    BY <1>0, <2>1, <2>3, <2>4, LinkAssumptions DEF Handlers, LinkEvents
  <2>6. retries' \in 0 .. RetryMax
    BY <1>0, <1>1, LinkAssumptions DEF TakeEvent
  <2>7. RetryInv'
    <3> SUFFICES ASSUME e = "disconnected", StatusAfter(e).connecting
                 PROVE  retries' < RetryMax
      BY <2>4 DEF RetryInv
    <3>1. StatusAfter(e).connecting = (retries < RetryMax)
      BY <2>2, StatusTypes DEF StatusAfter
    <3> QED
      BY <1>1, <3>1 DEF TakeEvent
  <2> QED
    BY <1>0, <1>1, <2>1, <2>5, <2>6, <2>7
       DEF LinkInv, LinkTypeOK, TakeEvent, Handlers, LinkEventsOK,
           LinkEvents, counts
<1>2. CASE WriteEvent
  <2>1. handler' \in Handlers /\ RetryInv'
    BY <1>0, <1>2 DEF WriteEvent, Handlers, RetryInv
  <2>2. status' \in Statuses
    BY <1>0, <1>2 DEF WriteEvent, Write, Handlers
  <2>3. overtaken' \in BOOLEAN
    BY <1>2, Zenon DEF WriteEvent, Write
  <2> QED
    BY <1>0, <1>2, <2>1, <2>2, <2>3
       DEF LinkInv, LinkTypeOK, WriteEvent, Handlers, LinkEventsOK,
           LinkEvents, counts, driver
<1>3. CASE PublishEvent
  <2> DEFINE again == handler.event = "disconnected" /\ handler.status.connecting
  <2>1. /\ station' = station \/ Connect
        /\ \/ handler' = NoEvent
           \/ again /\ handler' = [handler EXCEPT !.step = "count",
                                                  !.count = retries + 1]
    BY <1>3 DEF PublishEvent
  <2>2. told' \in BOOLEAN /\ overtaken' \in BOOLEAN
    BY <1>0, <1>3, Zenon
       DEF PublishEvent, Publish, Handlers, Statuses
  <2>7. request' \in Requests /\ refusals' \in 0 .. MaxRefusals
    BY <1>0, <1>3, AnswerTypes DEF PublishEvent, LinkTypeOK
  <2>3. station' \in {"idle", "connecting", "associated", "addressed"}
    BY <1>0, <2>1 DEF Connect, LinkTypeOK
  <2>4. again => retries + 1 \in 0 .. RetryMax
    BY <1>0, <1>3, LinkAssumptions DEF PublishEvent, RetryInv
  <2>5. handler' \in Handlers /\ RetryInv'
    <3>1. CASE handler' = NoEvent
      BY <1>0, <3>1, StatusTypes, LinkAssumptions
         DEF NoEvent, Handlers, RetryInv
    <3>2. CASE /\ again
               /\ handler' = [handler EXCEPT !.step = "count", !.count = retries + 1]
      BY <1>0, <3>2, <2>4 DEF Handlers, RetryInv
    <3> QED
      BY <2>1, <3>1, <3>2
  <2>6. UNCHANGED <<status, configured, looks, checks, retries, command, task,
                    ping, radio, stored, events, reachable, commands, outages>>
    BY <1>3 DEF PublishEvent
  <2> QED
    BY <1>0, <2>2, <2>3, <2>5, <2>6, <2>7
       DEF LinkInv, LinkTypeOK, Handlers, LinkEventsOK, LinkEvents
<1>4. CASE CountRetry
  <2>1. handler' \in Handlers /\ RetryInv' /\ retries' \in 0 .. RetryMax
    BY <1>0, <1>4, StatusTypes, LinkAssumptions
       DEF CountRetry, Handlers, NoEvent, RetryInv
  <2> QED
    BY <1>0, <1>4, <2>1
       DEF LinkInv, LinkTypeOK, CountRetry, Handlers, LinkEventsOK,
           LinkEvents, counts, driver
<1> QED
  BY <1>1, <1>2, <1>3, <1>4 DEF EventLoop

LEMMA LinkCommandTypes ==
  ASSUME LinkInv,
         \/ Dispatch
         \/ \E kind \in {"connect", "delete", "shutdown"} : BeginCommand(kind)
  PROVE  LinkInv'
<1>0. /\ LinkTypeOK /\ RetryInv
      /\ CommandOK(command) /\ LinkEventsOK(events)
  BY DEF LinkInv, LinkTypeOK, CommandOK, LinkEventsOK, LinkEvents
<1>1. ASSUME NEW kind \in {"connect", "delete", "shutdown"}, BeginCommand(kind)
      PROVE  LinkInv'
  <2>1. CommandOK(command')
    BY <1>1, StepsTypes DEF BeginCommand, CommandOK
  <2>2. /\ retries' \in 0 .. RetryMax /\ retries' <= retries
        /\ commands' \in 0 .. MaxCommands
    BY <1>0, <1>1, LinkAssumptions DEF BeginCommand, LinkTypeOK
  <2>3. request' \in Requests /\ refusals' \in 0 .. MaxRefusals
    BY <1>1, LinkAssumptions DEF BeginCommand, Requests
  <2>4. RetryInv'
    BY <1>0, <1>1, <2>2, LinkAssumptions
       DEF RetryInv, BeginCommand, LinkTypeOK
  <2> QED
    BY <1>0, <1>1, <2>1, <2>2, <2>3, <2>4
       DEF LinkInv, LinkTypeOK, BeginCommand, CommandOK, driver
<1>2. CASE CommandRadio
  <2>1. CommandOK(command')
    BY <1>0, <1>2, DoneTypes DEF CommandRadio, NoCommand
  <2>2. /\ LinkEventsOK(events') /\ radio' \in {"started", "stopped"}
        /\ station' \in {"idle", "connecting", "associated", "addressed"}
    BY <1>0, <1>2, RadioTypes DEF CommandRadio, LinkTypeOK
  <2> QED
    BY <1>0, <1>2, <2>1, <2>2
       DEF LinkInv, LinkTypeOK, CommandRadio, CommandOK, LinkEventsOK,
           LinkEvents, model, counts, RetryInv
<1>3. ASSUME NEW network \in {"right", "wrong"}, CommandConfig(network)
      PROVE  LinkInv'
  <2>1. CommandOK(command')
    BY <1>0, <1>3, DoneTypes DEF CommandConfig, NoCommand
  <2>2. stored' \in {"none", "right", "wrong"}
    BY <1>0, <1>3 DEF CommandConfig, LinkTypeOK
  <2>3. configured' \in BOOLEAN
    BY <1>0, <1>3, Zenon DEF CommandConfig, LinkTypeOK
  <2> QED
    BY <1>0, <1>3, <2>1, <2>2, <2>3
       DEF LinkInv, LinkTypeOK, CommandConfig, CommandOK, counts,
           RetryInv
<1>4. CASE CommandStatus
  <2>1. CommandOK(command')
    BY <1>0, <1>4, DoneTypes DEF CommandStatus, NoCommand
  <2>2. status' \in Statuses
    BY <1>0, <1>4, StatusTypes DEF CommandStatus, Write, LinkTypeOK
  <2>3. told' \in BOOLEAN /\ overtaken' \in BOOLEAN
    BY <1>0, <1>4, Zenon
       DEF CommandStatus, Write, Publish, LinkTypeOK, Reset
  <2> QED
    BY <1>0, <1>4, <2>1, <2>2, <2>3
       DEF LinkInv, LinkTypeOK, CommandStatus, CommandOK, counts,
           RetryInv, driver
<1> QED
  BY <1>1, <1>2, <1>3, <1>4 DEF Dispatch

LEMMA WifiTaskTypes ==
  ASSUME LinkInv, WifiTask
  PROVE  LinkInv'
<1>0. /\ LinkTypeOK /\ RetryInv /\ LinkEventsOK(events)
  BY DEF LinkInv, LinkTypeOK, LinkEventsOK, LinkEvents
<1>1. CASE LookAtGoodLink
  <2>1. ping' \in Pings
    BY <1>0, <1>1, StatusTypes
       DEF LookAtGoodLink, Pings, NoPing, LinkTypeOK
  <2>0. checks \in 0 .. NetworkChecks /\ NetworkChecks \in Nat
    BY <1>0, LinkAssumptions DEF LinkTypeOK
  <2>2. checks' \in 0 .. NetworkChecks
    BY <1>1, <2>0 DEF LookAtGoodLink
  <2> QED
    BY <1>0, <1>1, <2>1, <2>2
       DEF LinkInv, LinkTypeOK, LookAtGoodLink, Pings, counts,
           RetryInv, driver
<1>2. CASE LookAtLostLink
  <2>0. /\ looks \in Nat /\ outages \in 0 .. MaxOutages /\ retries \in 0 .. RetryMax
        /\ task \in {"idle", "stop", "start"}
        /\ ReconnectAfter \in Nat /\ MaxOutages \in Nat /\ RetryMax \in Nat
    BY <1>0, LinkAssumptions DEF LinkTypeOK
  <2>1. /\ looks' \in 0 .. ReconnectAfter + 1 /\ outages' \in 0 .. MaxOutages
        /\ retries' \in 0 .. RetryMax /\ retries' <= retries
        /\ task' \in {"idle", "stop", "start"}
    <3>1. CASE looks > ReconnectAfter
      BY <1>2, <2>0, <3>1 DEF LookAtLostLink
    <3>2. CASE ~(looks > ReconnectAfter)
      BY <1>2, <2>0, <3>2 DEF LookAtLostLink
    <3> QED
      BY <3>1, <3>2
  <2>2. RetryInv'
    BY <1>0, <1>2, <2>1, LinkAssumptions
       DEF RetryInv, LookAtLostLink, LinkTypeOK
  <2> QED
    BY <1>0, <1>2, <2>1, <2>2
       DEF LinkInv, LinkTypeOK, LookAtLostLink, driver
<1>3. CASE RestartRadio
  <2>1. /\ LinkEventsOK(events') /\ radio' \in {"started", "stopped"}
        /\ station' \in {"idle", "connecting", "associated", "addressed"}
        /\ task' \in {"idle", "stop", "start"}
    BY <1>0, <1>3, RadioTypes DEF RestartRadio, LinkTypeOK
  <2> QED
    BY <1>0, <1>3, <2>1
       DEF LinkInv, LinkTypeOK, RestartRadio, LinkEventsOK, LinkEvents,
           model, counts, RetryInv
<1> QED
  BY <1>1, <1>2, <1>3 DEF WifiTask

LEMMA PingStepTypes ==
  ASSUME LinkInv, Ping
  PROVE  LinkInv'
<1>0. LinkTypeOK /\ RetryInv /\ ping \in Pings
  BY DEF LinkInv, LinkTypeOK, Pings
<1>1. ASSUME NEW received \in BOOLEAN, PingEnds(received)
      PROVE  LinkInv'
  <2>1. ping' \in Pings
    BY <1>0, <1>1, PingTypes DEF PingEnds, Pings, LinkTypeOK
  <2> QED
    BY <1>0, <1>1, <2>1
       DEF LinkInv, LinkTypeOK, PingEnds, Pings, model, counts,
           RetryInv, driver
<1>2. CASE PingWrites
  <2>1. ping' \in Pings /\ status' \in Statuses
    BY <1>0, <1>2 DEF PingWrites, Write, Pings
  <2>2. overtaken' \in BOOLEAN
    BY <1>2, Zenon DEF PingWrites, Write
  <2> QED
    BY <1>0, <1>2, <2>1, <2>2
       DEF LinkInv, LinkTypeOK, PingWrites, Pings, counts, RetryInv,
           driver
<1>3. CASE PingPublishes
  <2>1. ping' \in Pings
    BY <1>0, <1>3, StatusTypes DEF PingPublishes, Pings, NoPing
  <2>2. told' \in BOOLEAN /\ overtaken' \in BOOLEAN
    BY <1>0, <1>3, Zenon
       DEF PingPublishes, Publish, Pings, Statuses
  <2> QED
    BY <1>0, <1>3, <2>1, <2>2
       DEF LinkInv, LinkTypeOK, PingPublishes, Pings, counts,
           RetryInv, driver
<1> QED
  BY <1>1, <1>2, <1>3 DEF Ping

LEMMA SurroundingTypes ==
  ASSUME LinkInv, LinkChanges \/ AccessPoint
  PROVE  LinkInv'
<1>0. LinkTypeOK /\ RetryInv /\ LinkEventsOK(events)
  BY DEF LinkInv, LinkTypeOK, LinkEventsOK, LinkEvents
<1>1. CASE LinkChanges
  <2>1. /\ LinkEventsOK(events')
        /\ station' \in {"idle", "connecting", "associated", "addressed"}
    BY <1>0, <1>1, LinkPostTypes DEF LinkChanges, LinkEvents
  <2> QED
    BY <1>0, <1>1, <2>1
       DEF LinkInv, LinkTypeOK, LinkChanges, LinkEventsOK, LinkEvents,
           model, counts, RetryInv
<1>2. CASE AccessPoint
  <2>1. outages' \in 0 .. MaxOutages
    BY <1>0, <1>2, LinkAssumptions DEF AccessPoint, LinkTypeOK
  <2>2. reachable' \in BOOLEAN
    BY <1>2, Zenon DEF AccessPoint
  <2> QED
    BY <1>0, <1>2, <2>1, <2>2
       DEF LinkInv, LinkTypeOK, AccessPoint, model, RetryInv,
           driver
<1> QED
  BY <1>1, <1>2

\* The variables keep their types.  In particular the status is always one that
\* some handler made as a whole, and no retry goes beyond those allowed, however
\* the tasks interleave and whoever resets the number of retries meanwhile.
THEOREM LinkTypeCorrect == LinkSpec => []LinkTypeOK
<1>1. LinkInv /\ [LinkNext]_linkVars => LinkInv'
  <2>1. ASSUME LinkInv, UNCHANGED linkVars
        PROVE  LinkInv'
    BY <2>1 DEF LinkInv, LinkTypeOK, RetryInv, linkVars
  <2> QED
    BY <2>1, EventLoopTypes, LinkCommandTypes, WifiTaskTypes, PingStepTypes,
       SurroundingTypes
       DEF LinkNext
<1>2. LinkInv => LinkTypeOK
  BY DEF LinkInv, LinkTypeOK
<1> QED
  BY <1>1, <1>2, LinkInitTypes, PTL DEF LinkSpec
=============================================================================
