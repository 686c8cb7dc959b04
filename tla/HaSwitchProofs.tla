--------------------------- MODULE HaSwitchProofs ---------------------------
(***************************************************************************)
(* Theorems about HaSwitch, for every set of values, queue length, number  *)
(* of generations and bound on the changes.  WatchInv says that a command  *)
(* without an answer is waited for; ConvergeInv, in the second half, that  *)
(* what is still on its way to the screen makes up for what the screen     *)
(* does not show yet.                                                      *)
(***************************************************************************)
EXTENDS HaSwitch, TLAPS

\* What the state machine of a control may hold.
Good(s) ==
  /\ s \in Sync
  /\ s.visible_value \in Values
  /\ s.accepted_value \in Values

\* A result is another function of the state than a rejection, but both keep
\* the state well formed.
LEMMA NextIsGeneration ==
  ASSUME NEW s, Good(s)
  PROVE  NextGeneration(s) \in Generation
BY GenerationsAssumption DEF NextGeneration, Good, Sync, Generation

LEMMA UserChangedGood ==
  ASSUME NEW s, Good(s), NEW v \in Values, NEW d \in BOOLEAN
  PROVE  Good(UserChanged(s, v, d).sync)
BY NextIsGeneration, Assumptions DEF UserChanged, Outcome, Good, Sync

LEMMA DebounceElapsedGood ==
  ASSUME NEW s, Good(s)
  PROVE  Good(DebounceElapsed(s).sync)
BY DEF DebounceElapsed, Outcome, Good, Sync

LEMMA ResultTimeoutGood ==
  ASSUME NEW s, Good(s), NEW g \in Generation
  PROVE  Good(ResultTimeout(s, g).sync)
BY DEF ResultTimeout, Outcome, Good, Sync

LEMMA ModelChangedGood ==
  ASSUME NEW s, Good(s), NEW v \in Values
  PROVE  Good(ModelChanged(s, v).sync)
BY NextIsGeneration, Assumptions DEF ModelChanged, Outcome, Good, Sync

LEMMA PublishResultGood ==
  ASSUME NEW s, Good(s), NEW g \in Generation, NEW v \in Values,
         NEW ok \in BOOLEAN
  PROVE  Good(PublishResult(s, g, v, ok).sync)
BY Assumptions DEF PublishResult, Outcome, Good, Sync

-----------------------------------------------------------------------------
Queued == Answered({"command", "result"}) \cup {Token}
Handed == Answered({"command", "answer", "result"}) \cup Sets \cup {Nothing}

LEMMA GoodIsTyped == TypeScreen => Good(sync)
BY DEF TypeScreen, Good

LEMMA ApplyTyped ==
  ASSUME NEW o, Good(o.sync), NEW v \in Values, Apply(o, v)
  PROVE  Good(sync') /\ widget' \in Values
BY DEF Apply, Good

LEMMA EnqueueTyped ==
  ASSUME queue \in Seq(Queued), NEW e \in Queued, Enqueue(e)
  PROVE  queue' \in Seq(Queued) /\ Len(queue') <= QueueSize
BY Assumptions DEF Enqueue

LEMMA DequeueTyped ==
  ASSUME queue \in Seq(Queued), Len(queue) <= QueueSize, queue # <<>>,
         queue' = Tail(queue)
  PROVE  /\ Head(queue) \in Queued
         /\ queue' \in Seq(Queued)
         /\ Len(queue') <= QueueSize
BY Assumptions

\* What the widget's callbacks leave behind once the value goes to the core.
LEMMA PublishActionTyped ==
  ASSUME TypeOK, NEW s, Good(s), NEW v \in Values, PublishAction(s, v)
  PROVE  /\ Good(sync') /\ widget' \in Values
         /\ result_timer' \in BOOLEAN /\ result_generation' \in Generation
         /\ queue' \in Seq(Queued) /\ Len(queue') <= QueueSize
<1> DEFINE g == s.visible_generation
           c == Command(g, s.visible_value)
<1>1. g \in Generation
  BY DEF Good, Sync
<1>2. c \in Queued
  BY <1>1 DEF Command, Queued, Answered, Good
<1>3. queue \in Seq(Queued) /\ Len(queue) <= QueueSize
  BY DEF TypeOK, TypeBus, Queued
<1>4. result_timer \in BOOLEAN /\ result_generation \in Generation
  BY DEF TypeOK, TypeScreen
<1>5. CASE /\ Enqueue(c)
           /\ Apply(Outcome(s, "none"), v)
           /\ result_timer' = TRUE
           /\ result_generation' = g
  <2>1. Good(Outcome(s, "none").sync)
    BY DEF Outcome, Good
  <2>2. Good(sync') /\ widget' \in Values
    BY <1>5, <2>1, ApplyTyped
  <2>3. queue' \in Seq(Queued) /\ Len(queue') <= QueueSize
    BY <1>2, <1>3, <1>5, EnqueueTyped
  <2> QED
    BY <1>1, <1>5, <2>2, <2>3
<1>6. CASE /\ Enqueue(c)
           /\ Apply(ResultTimeout(s, g), v)
           /\ result_timer' = FALSE
           /\ result_generation' = g
  <2>1. Good(ResultTimeout(s, g).sync)
    BY <1>1, ResultTimeoutGood
  <2>2. Good(sync') /\ widget' \in Values
    BY <1>6, <2>1, ApplyTyped
  <2>3. queue' \in Seq(Queued) /\ Len(queue') <= QueueSize
    BY <1>2, <1>3, <1>6, EnqueueTyped
  <2> QED
    BY <1>1, <1>6, <2>2, <2>3
<1>7. CASE /\ Apply(LocalRejected(s, g), v)
           /\ UNCHANGED <<queue, result_timer, result_generation>>
  <2>1. Good(LocalRejected(s, g).sync)
    <3>1. s.accepted_value \in Values
      BY DEF Good
    <3> QED
      BY <1>1, <3>1, PublishResultGood DEF LocalRejected
  <2>2. Good(sync') /\ widget' \in Values
    BY <1>7, <2>1, ApplyTyped
  <2> QED
    BY <1>3, <1>4, <1>7, <2>2
<1> QED
  BY <1>5, <1>6, <1>7 DEF PublishAction

LEMMA SetTyped ==
  ASSUME TypeBus, NEW v \in Values, NEW n \in Nat, PublishSet(v, n)
  PROVE  /\ slot' \in Sets \cup {Nothing}
         /\ queue' \in Seq(Queued) /\ Len(queue') <= QueueSize
<1>1. queue \in Seq(Queued) /\ Len(queue) <= QueueSize
  BY DEF TypeBus, Queued
<1>2. Set(v, n) \in Sets
  BY DEF Set, Sets
<1>3. Token \in Queued
  BY DEF Queued
<1>4. CASE slot = Nothing /\ Enqueue(Token) /\ slot' = Set(v, n)
  BY <1>1, <1>2, <1>3, <1>4, EnqueueTyped
<1>5. CASE slot # Nothing /\ slot' = Set(v, n) /\ UNCHANGED queue
  BY <1>1, <1>2, <1>5
<1>6. CASE UNCHANGED <<queue, slot>>
  BY <1>1, <1>6 DEF TypeBus
<1> QED
  BY <1>4, <1>5, <1>6 DEF PublishSet

LEMMA InitTyped == Init => TypeOK
<1> SUFFICES ASSUME Init PROVE TypeOK
  OBVIOUS
<1>1. 0 \in Generation
  BY GenerationsAssumption DEF Generation
<1>2. TypeScreen
  BY <1>1, Assumptions DEF Init, TypeScreen, Fresh, Sync
<1>3. TypeBus
  <2>1. /\ queue = <<>> /\ slot = Nothing /\ deferred = FALSE
        /\ hand = [t \in Tasks |-> Nothing]
    BY DEF Init
  <2>2. hand \in [Tasks -> Handed]
    BY <2>1 DEF Handed
  <2>3. queue \in Seq(Queued) /\ Len(queue) <= QueueSize
    BY <2>1, Assumptions
  <2> QED
    BY <2>1, <2>2, <2>3 DEF TypeBus, Queued, Handed
<1>4. TypeCore
  BY Assumptions DEF Init, TypeCore
<1> QED
  BY <1>2, <1>3, <1>4 DEF TypeOK

\* Steps that leave the screen, the bus or the rest alone, in the terms the
\* steps of the specification use.
LEMMA ScreenTyped ==
  ASSUME debounced' = debounced, debounced \in BOOLEAN,
         Good(sync'), widget' \in Values, debounce_timer' \in BOOLEAN,
         result_timer' \in BOOLEAN, result_generation' \in Generation
  PROVE  TypeScreen'
BY DEF TypeScreen, Good

LEMMA BusTyped ==
  ASSUME queue' \in Seq(Queued), Len(queue') <= QueueSize,
         slot' \in Sets \cup {Nothing}, deferred' \in BOOLEAN,
         hand' \in [Tasks -> Handed]
  PROVE  TypeBus'
BY DEF TypeBus, Queued, Handed

LEMMA BusIs ==
  ASSUME TypeBus
  PROVE  /\ queue \in Seq(Queued) /\ Len(queue) <= QueueSize
         /\ slot \in Sets \cup {Nothing} /\ deferred \in BOOLEAN
         /\ hand \in [Tasks -> Handed]
BY DEF TypeBus, Queued, Handed

LEMMA TakeTyped ==
  ASSUME hand \in [Tasks -> Handed], NEW t \in Tasks, NEW e \in Handed, Take(t, e)
  PROVE  hand' \in [Tasks -> Handed]
BY DEF Take

\* A handler knows by the kind of an event what the event carries.
LEMMA KindsOfHands ==
  ASSUME NEW e \in Handed
  PROVE  /\ e.kind \in {"command", "answer", "result"} =>
              e \in Answered({"command", "answer", "result"})
         /\ e.kind = "set" => e \in Sets
BY DEF Handed, Answered, Sets, Nothing

LEMMA KindsOfQueued ==
  ASSUME NEW e \in Queued, e.kind # "token"
  PROVE  e \in Handed /\ e \in Answered({"command", "result"})
BY DEF Handed, Queued, Answered, Token

LEMMA StepTyped == TypeOK /\ [Next]_vars => TypeOK'
<1> SUFFICES ASSUME TypeOK, [Next]_vars PROVE TypeOK'
  OBVIOUS
<1>s. /\ TypeScreen /\ TypeBus /\ TypeCore
      /\ Good(sync) /\ widget \in Values
      /\ queue \in Seq(Queued) /\ Len(queue) <= QueueSize
      /\ hand \in [Tasks -> Handed]
      /\ Loop \in Tasks /\ Retry \in Tasks
  BY GoodIsTyped, BusIs DEF TypeOK, TypeScreen, Tasks
<1>n. Nothing \in Handed
  BY DEF Handed
<1>c. TypeCore => /\ core.value \in Values /\ core.version \in Nat
                  /\ core.version + 1 \in Nat
  BY DEF TypeCore
<1>1. ASSUME NEW v \in Values, UserTaps(v) PROVE TypeOK'
  <2>1. Good(UserChanged(sync, v, FALSE).sync)
    BY <1>s, UserChangedGood
  <2>2. PublishAction(UserChanged(sync, v, FALSE).sync, v)
    BY <1>1 DEF UserTaps
  <2>3. /\ Good(sync') /\ widget' \in Values
        /\ result_timer' \in BOOLEAN /\ result_generation' \in Generation
        /\ queue' \in Seq(Queued) /\ Len(queue') <= QueueSize
    BY <2>1, <2>2, PublishActionTyped
  <2>4. TypeScreen'
    BY <1>1, <1>s, <2>3, ScreenTyped DEF UserTaps, TypeScreen
  <2>5. TypeBus'
    BY <1>1, <1>s, <2>3, BusTyped, BusIs DEF UserTaps
  <2>6. TypeCore'
    BY <1>1, <1>s, Assumptions DEF UserTaps, TypeCore
  <2> QED
    BY <2>4, <2>5, <2>6 DEF TypeOK
<1>2. ASSUME NEW v \in Values, UserDrags(v) PROVE TypeOK'
  <2>1. Good(UserChanged(sync, v, TRUE).sync)
    BY <1>s, UserChangedGood
  <2>2. Good(sync') /\ widget' \in Values
    BY <1>2, <2>1, ApplyTyped DEF UserDrags
  <2>3. TypeScreen'
    BY <1>2, <1>s, <2>2, ScreenTyped DEF UserDrags, TypeScreen
  <2>4. TypeBus'
    BY <1>2, <1>s, BusTyped, BusIs DEF UserDrags, bus
  <2>5. TypeCore'
    BY <1>2, <1>s, Assumptions DEF UserDrags, TypeCore
  <2> QED
    BY <2>3, <2>4, <2>5 DEF TypeOK
<1>3. ASSUME NEW v \in Values, UserDragsWithoutTimer(v) PROVE TypeOK'
  <2>1. Good(DebounceElapsed(UserChanged(sync, v, TRUE).sync).sync)
    BY <1>s, UserChangedGood, DebounceElapsedGood
  <2>2. PublishAction(DebounceElapsed(UserChanged(sync, v, TRUE).sync).sync, v)
    BY <1>3 DEF UserDragsWithoutTimer
  <2>3. /\ Good(sync') /\ widget' \in Values
        /\ result_timer' \in BOOLEAN /\ result_generation' \in Generation
        /\ queue' \in Seq(Queued) /\ Len(queue') <= QueueSize
    BY <2>1, <2>2, PublishActionTyped
  <2>4. TypeScreen'
    BY <1>3, <1>s, <2>3, ScreenTyped DEF UserDragsWithoutTimer, TypeScreen
  <2>5. TypeBus'
    BY <1>3, <1>s, <2>3, BusTyped, BusIs DEF UserDragsWithoutTimer
  <2>6. TypeCore'
    BY <1>3, <1>s, Assumptions DEF UserDragsWithoutTimer, TypeCore
  <2> QED
    BY <2>4, <2>5, <2>6 DEF TypeOK
<1>4. ASSUME DebounceElapses PROVE TypeOK'
  <2>1. Good(DebounceElapsed(sync).sync)
    BY <1>s, DebounceElapsedGood
  <2>2. /\ Good(sync') /\ widget' \in Values
        /\ result_timer' \in BOOLEAN /\ result_generation' \in Generation
        /\ queue' \in Seq(Queued) /\ Len(queue') <= QueueSize
    <3>1. CASE PublishAction(DebounceElapsed(sync).sync, widget)
      BY <1>s, <2>1, <3>1, PublishActionTyped
    <3>2. CASE UNCHANGED <<queue, widget, sync, result_timer, result_generation>>
      BY <1>s, <3>2 DEF TypeScreen, Good
    <3> QED
      BY <1>4, <3>1, <3>2 DEF DebounceElapses
  <2>3. TypeScreen'
    BY <1>4, <1>s, <2>2, ScreenTyped DEF DebounceElapses, TypeScreen
  <2>4. TypeBus'
    BY <1>4, <1>s, <2>2, BusTyped, BusIs DEF DebounceElapses
  <2>5. TypeCore'
    BY <1>4, <1>s DEF DebounceElapses, TypeCore
  <2> QED
    BY <2>3, <2>4, <2>5 DEF TypeOK
<1>5. ASSUME ResultTimesOut PROVE TypeOK'
  <2>1. Good(ResultTimeout(sync, result_generation).sync)
    BY <1>s, ResultTimeoutGood DEF TypeScreen
  <2>2. Good(sync') /\ widget' \in Values
    BY <1>5, <1>s, <2>1, ApplyTyped DEF ResultTimesOut
  <2>3. TypeScreen'
    BY <1>5, <1>s, <2>2, ScreenTyped DEF ResultTimesOut, TypeScreen
  <2>4. TypeBus'
    BY <1>5, <1>s, BusTyped, BusIs DEF ResultTimesOut, bus
  <2>5. TypeCore'
    BY <1>5, <1>s DEF ResultTimesOut, TypeCore
  <2> QED
    BY <2>3, <2>4, <2>5 DEF TypeOK
<1>6. ASSUME Receive PROVE TypeOK'
  <2>1. /\ Head(queue) \in Queued
        /\ queue' \in Seq(Queued) /\ Len(queue') <= QueueSize
    BY <1>6, <1>s, DequeueTyped DEF Receive
  <2>2. hand' \in [Tasks -> Handed]
    BY <1>6, <1>s, <2>1, KindsOfQueued, TakeTyped DEF Receive
  <2>3. TypeScreen'
    BY <1>6, <1>s DEF Receive, TypeScreen, screen
  <2>4. TypeBus'
    BY <1>6, <1>s, <2>1, <2>2, BusTyped, BusIs DEF Receive
  <2>5. TypeCore'
    BY <1>6, <1>s DEF Receive, TypeCore
  <2> QED
    BY <2>3, <2>4, <2>5 DEF TypeOK
<1>7. ASSUME ReceiveSet PROVE TypeOK'
  <2>1. queue' \in Seq(Queued) /\ Len(queue') <= QueueSize
    BY <1>7, <1>s, DequeueTyped DEF ReceiveSet
  <2>2. slot \in Handed
    BY <1>s, BusIs DEF Handed
  <2>3. hand' \in [Tasks -> Handed]
    BY <1>7, <1>s, <2>2, TakeTyped DEF ReceiveSet
  <2>4. TypeScreen'
    BY <1>7, <1>s DEF ReceiveSet, TypeScreen, screen
  <2>5. TypeBus'
    BY <1>7, <1>s, <2>1, <2>3, BusTyped, BusIs DEF ReceiveSet
  <2>6. TypeCore'
    BY <1>7, <1>s DEF ReceiveSet, TypeCore
  <2> QED
    BY <2>4, <2>5, <2>6 DEF TypeOK
<1>8. ASSUME Defer PROVE TypeOK'
  <2>1. queue' \in Seq(Queued) /\ Len(queue') <= QueueSize
    BY <1>8, <1>s, DequeueTyped DEF Defer
  <2>2. TypeScreen'
    BY <1>8, <1>s DEF Defer, TypeScreen, screen
  <2>3. TypeBus'
    BY <1>8, <1>s, <2>1, BusTyped, BusIs DEF Defer
  <2>4. TypeCore'
    BY <1>8, <1>s DEF Defer, TypeCore
  <2> QED
    BY <2>2, <2>3, <2>4 DEF TypeOK
<1>9. ASSUME ReceiveDeferred PROVE TypeOK'
  <2>1. slot \in Handed
    BY <1>s, BusIs DEF Handed
  <2>2. hand' \in [Tasks -> Handed]
    BY <1>9, <1>s, <2>1, TakeTyped DEF ReceiveDeferred
  <2>3. TypeScreen'
    BY <1>9, <1>s DEF ReceiveDeferred, TypeScreen, screen
  <2>4. TypeBus'
    BY <1>9, <1>s, <2>2, BusTyped, BusIs DEF ReceiveDeferred
  <2>5. TypeCore'
    BY <1>9, <1>s DEF ReceiveDeferred, TypeCore
  <2> QED
    BY <2>3, <2>4, <2>5 DEF TypeOK
<1>10. ASSUME Submit PROVE TypeOK'
  <2>1. hand[Loop] \in Answered({"command", "answer", "result"})
    BY <1>10, <1>s, KindsOfHands DEF Submit
  <2>2. hand[Loop].value \in Values
    BY <2>1 DEF Answered
  <2>3. [hand[Loop] EXCEPT !.kind = "answer"] \in Handed
    BY <2>1 DEF Answered, Handed
  <2>4. hand' \in [Tasks -> Handed]
    BY <1>10, <1>s, <2>3, TakeTyped DEF Submit
  <2>5. /\ slot' \in Sets \cup {Nothing}
        /\ queue' \in Seq(Queued) /\ Len(queue') <= QueueSize
    BY <1>10, <1>s, <1>c, <2>2, SetTyped DEF Submit, Commit
  <2>6. TypeScreen'
    BY <1>10, <1>s DEF Submit, TypeScreen, screen
  <2>7. TypeBus'
    BY <1>10, <1>s, <2>4, <2>5, BusTyped, BusIs DEF Submit
  <2>8. TypeCore'
    BY <1>10, <1>s, <1>c, <2>2 DEF Submit, Commit, TypeCore
  <2> QED
    BY <2>6, <2>7, <2>8 DEF TypeOK
<1>11. ASSUME PostResult PROVE TypeOK'
  <2>1. hand[Loop] \in Answered({"command", "answer", "result"})
    BY <1>11, <1>s, KindsOfHands DEF PostResult
  <2>2. Result(hand[Loop].generation, hand[Loop].value) \in Queued
    BY <2>1 DEF Answered, Result, Queued
  <2>3. queue' \in Seq(Queued) /\ Len(queue') <= QueueSize
    BY <1>11, <1>s, <2>2, EnqueueTyped DEF PostResult
  <2>4. hand' \in [Tasks -> Handed]
    BY <1>11, <1>s, <1>n, TakeTyped DEF PostResult
  <2>5. TypeScreen'
    BY <1>11, <1>s DEF PostResult, TypeScreen, screen
  <2>6. TypeBus'
    BY <1>11, <1>s, <2>3, <2>4, BusTyped, BusIs DEF PostResult
  <2>7. TypeCore'
    BY <1>11, <1>s DEF PostResult, TypeCore
  <2> QED
    BY <2>5, <2>6, <2>7 DEF TypeOK
<1>12. ASSUME NEW t \in Tasks, HandleModelUpdate(t) PROVE TypeOK'
  <2>1. hand[t] \in Sets
    BY <1>12, <1>s, KindsOfHands DEF HandleModelUpdate
  <2>2. hand[t].value \in Values /\ hand[t].version \in Nat
    BY <2>1 DEF Sets
  <2>3. Good(ModelChanged(sync, hand[t].value).sync)
    BY <1>s, <2>2, ModelChangedGood
  <2>4. Good(sync') /\ widget' \in Values
    BY <1>12, <1>s, <2>3, ApplyTyped DEF HandleModelUpdate
  <2>5. hand' \in [Tasks -> Handed]
    BY <1>12, <1>s, <1>n, TakeTyped DEF HandleModelUpdate
  <2>6. TypeScreen'
    BY <1>12, <1>s, <2>4, ScreenTyped DEF HandleModelUpdate, TypeScreen
  <2>7. TypeBus'
    BY <1>12, <1>s, <2>5, BusTyped, BusIs DEF HandleModelUpdate, bus
  <2>8. TypeCore'
    BY <1>12, <1>s, <2>2 DEF HandleModelUpdate, TypeCore
  <2> QED
    BY <2>6, <2>7, <2>8 DEF TypeOK
<1>13. ASSUME HandlePublishResult PROVE TypeOK'
  <2>1. hand[Loop] \in Answered({"command", "answer", "result"})
    BY <1>13, <1>s, KindsOfHands DEF HandlePublishResult
  <2>2. hand[Loop].value \in Values /\ hand[Loop].generation \in Generation
    BY <2>1 DEF Answered
  <2>3. Good(PublishResult(sync, hand[Loop].generation, hand[Loop].value, TRUE).sync)
    BY <1>s, <2>2, PublishResultGood
  <2>4. Good(sync') /\ widget' \in Values
    BY <1>13, <1>s, <2>3, ApplyTyped DEF HandlePublishResult
  <2>5. hand' \in [Tasks -> Handed]
    BY <1>13, <1>s, <1>n, TakeTyped DEF HandlePublishResult
  <2>6. TypeScreen'
    BY <1>13, <1>s, <2>4, ScreenTyped DEF HandlePublishResult, TypeScreen
  <2>7. TypeBus'
    BY <1>13, <1>s, <2>5, BusTyped, BusIs DEF HandlePublishResult, bus
  <2>8. TypeCore'
    BY <1>13, <1>s DEF HandlePublishResult, TypeCore
  <2> QED
    BY <2>6, <2>7, <2>8 DEF TypeOK
<1>14. ASSUME NEW v \in Values, RemoteSet(v) PROVE TypeOK'
  <2>1. /\ slot' \in Sets \cup {Nothing}
        /\ queue' \in Seq(Queued) /\ Len(queue') <= QueueSize
    BY <1>14, <1>s, <1>c, SetTyped DEF RemoteSet, Commit
  <2>2. TypeScreen'
    BY <1>14, <1>s DEF RemoteSet, TypeScreen, screen
  <2>3. TypeBus'
    BY <1>14, <1>s, <2>1, BusTyped, BusIs DEF RemoteSet
  <2>4. TypeCore'
    BY <1>14, <1>s, <1>c, Assumptions DEF RemoteSet, Commit, TypeCore
  <2> QED
    BY <2>2, <2>3, <2>4 DEF TypeOK
<1>15. ASSUME Replay PROVE TypeOK'
  <2>1. /\ slot' \in Sets \cup {Nothing}
        /\ queue' \in Seq(Queued) /\ Len(queue') <= QueueSize
    BY <1>15, <1>s, <1>c, SetTyped DEF Replay
  <2>2. TypeScreen'
    BY <1>15, <1>s DEF Replay, TypeScreen, screen
  <2>3. TypeBus'
    BY <1>15, <1>s, <2>1, BusTyped, BusIs DEF Replay
  <2>4. TypeCore'
    BY <1>15, <1>s, Assumptions DEF Replay, TypeCore
  <2> QED
    BY <2>2, <2>3, <2>4 DEF TypeOK
<1>16. CASE UNCHANGED vars
  BY <1>16 DEF vars, TypeOK, TypeScreen, TypeBus, TypeCore
<1> QED
  BY <1>1, <1>2, <1>3, <1>4, <1>5, <1>6, <1>7, <1>8, <1>9, <1>10, <1>11, <1>12,
     <1>13, <1>14, <1>15, <1>16, <1>s DEF Next, Deliver, Redeliver

\* The event queue of ha_switch_screen.c never overflows and every handler
\* finds an event of its own kind, whatever two delivery tasks, timers and
\* remote clients do.
THEOREM TypeCorrect == Spec => []TypeOK
<1>1. Init => TypeOK
  BY InitTyped
<1>2. TypeOK /\ [Next]_vars => TypeOK'
  BY StepTyped
<1> QED
  BY <1>1, <1>2, PTL DEF Spec

-----------------------------------------------------------------------------
(***************************************************************************)
(* NothingUnwatched is not inductive.  That the answer of the visible      *)
(* generation confirms it, and so may stop the timer, needs that the       *)
(* accepted generation is never newer than the visible one, and that no    *)
(* answer on its way is newer than the last generation given out.  Both    *)
(* hold until the generations wrap, where PublishResult compares a new     *)
(* generation as the older one.                                            *)
(***************************************************************************)
Unwrapped == sync.next_generation < Generations - 1

Ordered(s) ==
  /\ s.accepted_generation <= s.visible_generation
  /\ s.visible_generation <= s.next_generation

Known(e, n) == e.kind \in {"command", "answer", "result"} => e.generation <= n

QueueKnown(n) == \A i \in 1 .. Len(queue) : Known(queue[i], n)
HandsKnown(n) == \A t \in Tasks : Known(hand[t], n)

\* The parts of NothingUnwatched in terms of a state and the two timers.
Watched(s, debounce, timed, g) ==
  /\ s.debounce_pending => debounce
  /\ /\ s.visible_generation # s.accepted_generation
     /\ ~s.result_timed_out
     /\ ~s.debounce_pending
     => timed /\ g = s.visible_generation

WatchInv ==
  /\ Ordered(sync)
  /\ QueueKnown(sync.next_generation)
  /\ HandsKnown(sync.next_generation)
  /\ NothingUnwatched

LEMMA WatchedIsNothingUnwatched ==
  NothingUnwatched <=>
    Watched(sync, debounce_timer, result_timer, result_generation)
BY DEF NothingUnwatched, Unconfirmed, Watched

LEMMA NextIsNewer ==
  ASSUME NEW s, Good(s), s.next_generation < Generations - 1
  PROVE  NextGeneration(s) = s.next_generation + 1
<1>1. s.next_generation \in Nat /\ s.next_generation + 1 < Generations
  BY GenerationsAssumption DEF Good, Sync, Generation
<1>2. (s.next_generation + 1) % Generations = s.next_generation + 1
  BY <1>1, GenerationsAssumption
<1> QED
  BY <1>1, <1>2 DEF NextGeneration

LEMMA UserChangedOrdered ==
  ASSUME NEW s, Good(s), Ordered(s), s.next_generation < Generations - 1,
         NEW v \in Values, NEW d \in BOOLEAN
  PROVE  LET r == UserChanged(s, v, d).sync IN
           /\ Ordered(r)
           /\ r.next_generation = s.next_generation + 1
           /\ r.debounce_pending = d
<1>1. NextGeneration(s) = s.next_generation + 1
  BY NextIsNewer
<1>2. s.next_generation \in Nat /\ s.accepted_generation \in Nat
      /\ s.visible_generation \in Nat
  BY GenerationsAssumption DEF Good, Sync, Generation
<1>3. LET r == UserChanged(s, v, d).sync IN
        /\ r.accepted_generation = s.accepted_generation
        /\ r.visible_generation = NextGeneration(s)
        /\ r.next_generation = NextGeneration(s)
        /\ r.debounce_pending = d
  BY DEF UserChanged, Outcome, Good, Sync
<1> QED
  BY <1>1, <1>2, <1>3 DEF Ordered

LEMMA ModelChangedOrdered ==
  ASSUME NEW s, Good(s), Ordered(s), s.next_generation < Generations - 1,
         NEW v \in Values, NEW d, NEW t, NEW g
  PROVE  LET r == ModelChanged(s, v).sync IN
           /\ Ordered(r)
           /\ r.next_generation = s.next_generation + 1
           /\ Watched(r, d, t, g)
<1>1. NextGeneration(s) = s.next_generation + 1
  BY NextIsNewer
<1>2. s.next_generation \in Nat
  BY GenerationsAssumption DEF Good, Sync, Generation
<1>3. LET r == ModelChanged(s, v).sync IN
        /\ r.accepted_generation = NextGeneration(s)
        /\ r.visible_generation = NextGeneration(s)
        /\ r.next_generation = NextGeneration(s)
        /\ r.debounce_pending = FALSE
  BY DEF ModelChanged, Outcome, Good, Sync
<1> QED
  BY <1>1, <1>2, <1>3 DEF Ordered, Watched

LEMMA DebounceElapsedOrdered ==
  ASSUME NEW s, Good(s), Ordered(s)
  PROVE  LET r == DebounceElapsed(s).sync IN
           /\ Ordered(r)
           /\ r.next_generation = s.next_generation
           /\ ~r.debounce_pending
BY DEF DebounceElapsed, Outcome, Good, Sync, Ordered

\* The timer of an awaited generation may stop: it has been given up.
LEMMA ResultTimeoutWatched ==
  ASSUME NEW s, Good(s), Ordered(s), NEW g \in Generation,
         NEW d \in BOOLEAN, Watched(s, d, TRUE, g)
  PROVE  LET r == ResultTimeout(s, g).sync IN
           /\ Ordered(r)
           /\ r.next_generation = s.next_generation
           /\ Watched(r, d, FALSE, g)
BY DEF ResultTimeout, Outcome, Good, Sync, Ordered, Watched

\* A rejected generation is rolled back to what the core has confirmed.
LEMMA LocalRejectedWatched ==
  ASSUME NEW s, Good(s), Ordered(s), ~s.debounce_pending,
         NEW d, NEW t, NEW g
  PROVE  LET r == LocalRejected(s, s.visible_generation).sync IN
           /\ Ordered(r)
           /\ r.next_generation = s.next_generation
           /\ Watched(r, d, t, g)
BY DEF LocalRejected, PublishResult, Late, Outcome, Good, Sync, Generation,
       Ordered, Watched

\* A generation that waits for its answer.
Waiting(s) ==
  /\ s.visible_generation # s.accepted_generation
  /\ ~s.result_timed_out
  /\ ~s.debounce_pending

\* What still waits after the answer to g waited before, and for another one.
StillWaits(s, g, r) ==
  /\ Ordered(r)
  /\ r.next_generation = s.next_generation
  /\ r.debounce_pending = s.debounce_pending
  /\ Waiting(r) => /\ Waiting(s)
                   /\ r.visible_generation = s.visible_generation
                   /\ g # s.visible_generation

LEMMA PublishResultWaits ==
  ASSUME NEW s, Good(s), Ordered(s), NEW g \in Generation,
         g <= s.next_generation, NEW v \in Values
  PROVE  StillWaits(s, g, PublishResult(s, g, v, TRUE).sync)
<1> DEFINE r == PublishResult(s, g, v, TRUE).sync
           known == IF g > s.accepted_generation
                      THEN [s EXCEPT !.accepted_generation = g, !.accepted_value = v]
                      ELSE s
           settled == [known EXCEPT !.result_timed_out = FALSE]
<1>1. /\ s.accepted_generation \in Nat /\ s.visible_generation \in Nat
      /\ s.next_generation \in Nat /\ g \in Nat
  BY GenerationsAssumption DEF Good, Sync, Generation
<1>2. CASE g = 0
  <2>1. r = s
    BY <1>2 DEF PublishResult, Outcome
  <2>2. g = s.visible_generation => s.visible_generation = s.accepted_generation
    BY <1>1, <1>2 DEF Ordered
  <2>3. StillWaits(s, g, s)
    BY <2>2 DEF Waiting, StillWaits
  <2> QED
    BY <2>1, <2>3
<1>3. CASE g # 0 /\ g < s.visible_generation
  <2>1. r = known
    BY <1>1, <1>3 DEF PublishResult, Outcome
  <2>2. /\ known.visible_generation = s.visible_generation
        /\ known.next_generation = s.next_generation
        /\ known.debounce_pending = s.debounce_pending
        /\ known.result_timed_out = s.result_timed_out
        /\ known.accepted_generation \in {g, s.accepted_generation}
    BY <1>1 DEF Good, Sync
  <2>3. s.visible_generation # s.accepted_generation
        \/ known.accepted_generation = s.accepted_generation
    BY <1>1, <1>3 DEF Ordered, Good, Sync
  <2> HIDE DEF known
  <2>4. Ordered(known)
    BY <1>1, <1>3, <2>2 DEF Ordered
  <2>5. StillWaits(s, g, known)
    BY <1>1, <1>3, <2>2, <2>3, <2>4 DEF Waiting, StillWaits
  <2> QED
    BY <2>1, <2>5
<1>4. CASE g # 0 /\ g = s.visible_generation /\ ~Late(s, g)
  <2>1. r = settled
    BY <1>1, <1>4 DEF PublishResult, Outcome
  <2>2. /\ settled.visible_generation = g
        /\ settled.accepted_generation = g
        /\ settled.next_generation = s.next_generation
        /\ settled.debounce_pending = s.debounce_pending
    BY <1>1, <1>4 DEF Ordered, Good, Sync
  <2> HIDE DEF settled
  <2>3. StillWaits(s, g, settled)
    BY <1>1, <1>4, <2>2 DEF Ordered, Waiting, StillWaits
  <2> QED
    BY <2>1, <2>3
<1>5. CASE g # 0 /\ (g > s.visible_generation
                     \/ (g = s.visible_generation /\ Late(s, g)))
  <2> DEFINE back == [settled EXCEPT !.visible_value = settled.accepted_value,
                                     !.visible_generation = settled.accepted_generation]
  <2>1. r = back
    BY <1>1, <1>5 DEF PublishResult, Outcome
  <2>2. /\ settled.accepted_generation \in {g, s.accepted_generation}
        /\ settled.next_generation = s.next_generation
        /\ settled.debounce_pending = s.debounce_pending
    BY <1>1 DEF Good, Sync
  <2>3. /\ back.visible_generation = back.accepted_generation
        /\ back.accepted_generation = settled.accepted_generation
        /\ back.next_generation = s.next_generation
        /\ back.debounce_pending = s.debounce_pending
    BY <2>2 DEF Good, Sync
  <2> HIDE DEF back, settled
  <2>4. StillWaits(s, g, back)
    BY <1>1, <2>2, <2>3 DEF Ordered, Waiting, StillWaits
  <2> QED
    BY <2>1, <2>4
<1>6. \/ g = 0
      \/ g # 0 /\ g < s.visible_generation
      \/ g # 0 /\ g = s.visible_generation /\ ~Late(s, g)
      \/ g # 0 /\ (g > s.visible_generation
                   \/ (g = s.visible_generation /\ Late(s, g)))
  BY <1>1
<1> HIDE DEF r
<1> QED
  BY <1>2, <1>3, <1>4, <1>5, <1>6

LEMMA KnownStays ==
  ASSUME NEW e \in Queued \cup Handed, NEW n \in Nat, NEW m \in Nat, n <= m, Known(e, n)
  PROVE  Known(e, m)
<1>1. CASE e.kind \in {"command", "answer", "result"}
  <2>1. e \in Answered({"command", "answer", "result"})
    BY <1>1 DEF Queued, Handed, Answered, Sets, Token, Nothing
  <2>2. e.generation \in Nat
    BY <2>1, GenerationsAssumption DEF Answered, Generation
  <2> QED
    BY <1>1, <2>2 DEF Known
<1> QED
  BY <1>1 DEF Known

LEMMA EnqueueKnown ==
  ASSUME queue \in Seq(Queued), NEW n \in Nat, QueueKnown(n), NEW e \in Queued,
         Known(e, n), Enqueue(e)
  PROVE  QueueKnown(n)'
<1>1. queue' = Append(queue, e)
  BY DEF Enqueue
<1>2. Len(queue') = Len(queue) + 1 /\ queue'[Len(queue) + 1] = e
  BY <1>1
<1>3. \A i \in 1 .. Len(queue) : queue'[i] = queue[i]
  BY <1>1
<1> QED
  BY <1>2, <1>3 DEF QueueKnown

LEMMA DequeueKnown ==
  ASSUME queue \in Seq(Queued), NEW n \in Nat, QueueKnown(n), queue # <<>>,
         queue' = Tail(queue)
  PROVE  QueueKnown(n)' /\ Known(Head(queue), n)
<1>1. Len(queue') = Len(queue) - 1 /\ Len(queue) > 0 /\ Head(queue) = queue[1]
  BY DEF QueueKnown
<1>2. \A i \in 1 .. Len(queue') : queue'[i] = queue[i + 1]
  BY <1>1
<1> QED
  BY <1>1, <1>2 DEF QueueKnown

LEMMA QueueStaysKnown ==
  ASSUME queue \in Seq(Queued), NEW n \in Nat, NEW m \in Nat, n <= m, QueueKnown(n)
  PROVE  QueueKnown(m)
<1>1. \A i \in 1 .. Len(queue) : queue[i] \in Queued
  OBVIOUS
<1> QED
  BY <1>1, KnownStays DEF QueueKnown

LEMMA HandsStayKnown ==
  ASSUME hand \in [Tasks -> Handed], NEW n \in Nat, NEW m \in Nat, n <= m, HandsKnown(n)
  PROVE  HandsKnown(m)
BY KnownStays DEF HandsKnown

LEMMA TakeKnown ==
  ASSUME hand \in [Tasks -> Handed], NEW n \in Nat, HandsKnown(n),
         NEW t \in Tasks, NEW e, Known(e, n), Take(t, e)
  PROVE  HandsKnown(n)'
BY DEF HandsKnown, Take

\* A SET carries no generation.
LEMMA PublishSetKnown ==
  ASSUME queue \in Seq(Queued), NEW n \in Nat, QueueKnown(n), NEW v, NEW k,
         PublishSet(v, k)
  PROVE  QueueKnown(n)'
<1>1. Token \in Queued /\ Known(Token, n)
  BY DEF Queued, Token, Known
<1> QED
  BY <1>1, EnqueueKnown DEF PublishSet, QueueKnown

\* The command waits with its timer on, or is given up, or rolled back.
LEMMA PublishActionWatched ==
  ASSUME TypeOK, NEW s, Good(s), Ordered(s), ~s.debounce_pending,
         QueueKnown(s.next_generation), NEW v, PublishAction(s, v), NEW d
  PROVE  /\ Ordered(sync') /\ QueueKnown(s.next_generation)'
         /\ sync'.next_generation = s.next_generation
         /\ Watched(sync', d, result_timer', result_generation')
<1> DEFINE g == s.visible_generation
           c == Command(g, s.visible_value)
<1>1. /\ g \in Generation /\ g \in Nat /\ s.next_generation \in Nat
      /\ g <= s.next_generation
  BY GenerationsAssumption DEF Good, Sync, Generation, Ordered
<1>2. c \in Queued /\ Known(c, s.next_generation)
  BY <1>1 DEF Command, Queued, Answered, Good, Known
<1>3. queue \in Seq(Queued)
  BY DEF TypeOK, TypeBus, Queued
<1>4. CASE Enqueue(c) /\ Apply(Outcome(s, "none"), v) /\ result_timer' = TRUE
           /\ result_generation' = g
  <2>1. sync' = s
    BY <1>4 DEF Apply, Outcome
  <2>2. QueueKnown(s.next_generation)'
    BY <1>1, <1>2, <1>3, <1>4, EnqueueKnown
  <2> QED
    BY <1>4, <2>1, <2>2 DEF Watched
<1>5. CASE Enqueue(c) /\ Apply(ResultTimeout(s, g), v) /\ result_timer' = FALSE
           /\ result_generation' = g
  <2>1. sync' = [s EXCEPT !.result_timed_out = TRUE,
                          !.timed_out_generation = g,
                          !.visible_value = s.accepted_value]
    BY <1>5 DEF Apply, ResultTimeout, Outcome
  <2>2. /\ sync'.result_timed_out /\ ~sync'.debounce_pending
        /\ sync'.accepted_generation = s.accepted_generation
        /\ sync'.visible_generation = g
        /\ sync'.next_generation = s.next_generation
    BY <2>1 DEF Good, Sync
  <2>3. QueueKnown(s.next_generation)'
    BY <1>1, <1>2, <1>3, <1>5, EnqueueKnown
  <2> QED
    BY <2>2, <2>3 DEF Watched, Ordered
<1>6. CASE Apply(LocalRejected(s, g), v)
           /\ UNCHANGED <<queue, result_timer, result_generation>>
  <2>1. sync' = LocalRejected(s, g).sync
    BY <1>6 DEF Apply
  <2>2. QueueKnown(s.next_generation)'
    BY <1>6 DEF QueueKnown
  <2> QED
    BY <2>1, <2>2, LocalRejectedWatched
<1> QED
  BY <1>4, <1>5, <1>6 DEF PublishAction

LEMMA InitWatched == Init => WatchInv
<1> SUFFICES ASSUME Init PROVE WatchInv
  OBVIOUS
<1>1. sync = Fresh(Default) /\ queue = <<>> /\ hand = [t \in Tasks |-> Nothing]
  BY DEF Init
<1>2. Ordered(sync) /\ NothingUnwatched
  BY <1>1 DEF Fresh, Ordered, NothingUnwatched, Unconfirmed
<1>3. QueueKnown(sync.next_generation)
  BY <1>1 DEF QueueKnown
<1>4. HandsKnown(sync.next_generation)
  BY <1>1 DEF HandsKnown, Known, Nothing
<1> QED
  BY <1>2, <1>3, <1>4 DEF WatchInv

LEMMA StepWatched ==
  TypeOK /\ WatchInv /\ Unwrapped /\ [Next]_vars => WatchInv'
<1> SUFFICES ASSUME TypeOK, WatchInv, Unwrapped, [Next]_vars,
                    NEW n, n = sync.next_generation
             PROVE  WatchInv'
  OBVIOUS
<1>s. /\ Good(sync) /\ Ordered(sync) /\ n \in Nat
      /\ sync.next_generation < Generations - 1
      /\ Watched(sync, debounce_timer, result_timer, result_generation)
      /\ debounce_timer \in BOOLEAN /\ result_timer \in BOOLEAN
      /\ result_generation \in Generation
  BY GoodIsTyped, WatchedIsNothingUnwatched, GenerationsAssumption
     DEF TypeOK, TypeScreen, WatchInv, Unwrapped, Good, Sync, Generation
<1>b. /\ queue \in Seq(Queued) /\ hand \in [Tasks -> Handed]
      /\ QueueKnown(n) /\ HandsKnown(n)
      /\ Loop \in Tasks /\ Retry \in Tasks
      /\ Known(Nothing, n) /\ n + 1 \in Nat /\ n <= n + 1
  BY <1>s, BusIs DEF TypeOK, WatchInv, Tasks, Known, Nothing
<1>q. QueueKnown(n + 1) /\ HandsKnown(n + 1)
  BY <1>b, <1>s, QueueStaysKnown, HandsStayKnown
\* What is left to show of a step, once what it does to sync is known.
<1>i. ASSUME NEW m, Ordered(sync'), sync'.next_generation = m,
             QueueKnown(m)', HandsKnown(m)',
             Watched(sync', debounce_timer', result_timer', result_generation')
      PROVE  WatchInv'
  <2>1. NothingUnwatched'
    BY <1>i DEF NothingUnwatched, Unconfirmed, Watched
  <2>2. QueueKnown(sync.next_generation)' /\ HandsKnown(sync.next_generation)'
    BY <1>i DEF QueueKnown, HandsKnown
  <2> QED
    BY <1>i, <2>1, <2>2 DEF WatchInv, Ordered
\* Steps that leave the screen alone.
<1>k. ASSUME UNCHANGED screen, QueueKnown(n)', HandsKnown(n)'
      PROVE  WatchInv'
  BY <1>k, <1>i, <1>s DEF screen
<1>1. ASSUME NEW v \in Values, UserTaps(v) PROVE WatchInv'
  <2> DEFINE r == UserChanged(sync, v, FALSE).sync
  <2>1. Good(r) /\ Ordered(r) /\ r.next_generation = n + 1 /\ ~r.debounce_pending
    BY <1>s, UserChangedGood, UserChangedOrdered
  <2>2. PublishAction(r, v)
    BY <1>1 DEF UserTaps
  <2>h. hand' = hand
    BY <1>1 DEF UserTaps
  <2> HIDE DEF r
  <2>3. /\ Ordered(sync') /\ QueueKnown(n + 1)' /\ sync'.next_generation = n + 1
        /\ Watched(sync', debounce_timer', result_timer', result_generation')
    BY <1>q, <2>1, <2>2, PublishActionWatched
  <2>4. HandsKnown(n + 1)'
    BY <1>q, <2>h DEF HandsKnown
  <2> QED
    BY <1>i, <2>3, <2>4
<1>2. ASSUME NEW v \in Values, UserDrags(v) PROVE WatchInv'
  <2> DEFINE r == UserChanged(sync, v, TRUE).sync
  <2>1. Ordered(r) /\ r.next_generation = n + 1 /\ r.debounce_pending
    BY <1>s, UserChangedOrdered
  <2>2. /\ sync' = r /\ debounce_timer' = TRUE
        /\ queue' = queue /\ hand' = hand
    BY <1>2 DEF UserDrags, Apply, bus
  <2> HIDE DEF r
  <2>3. Watched(sync', debounce_timer', result_timer', result_generation')
    BY <2>1, <2>2 DEF Watched
  <2>4. QueueKnown(n + 1)' /\ HandsKnown(n + 1)'
    BY <1>q, <2>2 DEF QueueKnown, HandsKnown
  <2> QED
    BY <1>i, <2>1, <2>2, <2>3, <2>4
<1>3. ASSUME NEW v \in Values, UserDragsWithoutTimer(v) PROVE WatchInv'
  <2> DEFINE u == UserChanged(sync, v, TRUE).sync
             r == DebounceElapsed(u).sync
  <2>1. Good(u) /\ Ordered(u) /\ u.next_generation = n + 1
    BY <1>s, UserChangedGood, UserChangedOrdered
  <2>2. PublishAction(r, v)
    BY <1>3 DEF UserDragsWithoutTimer
  <2>h. hand' = hand
    BY <1>3 DEF UserDragsWithoutTimer
  <2>3. Good(r) /\ Ordered(r) /\ r.next_generation = n + 1 /\ ~r.debounce_pending
    <3> HIDE DEF u
    <3> QED
      BY <2>1, DebounceElapsedGood, DebounceElapsedOrdered
  <2> HIDE DEF u, r
  <2>4. /\ Ordered(sync') /\ QueueKnown(n + 1)' /\ sync'.next_generation = n + 1
        /\ Watched(sync', debounce_timer', result_timer', result_generation')
    BY <1>q, <2>2, <2>3, PublishActionWatched
  <2>5. HandsKnown(n + 1)'
    BY <1>q, <2>h DEF HandsKnown
  <2> QED
    BY <1>i, <2>4, <2>5
<1>4. ASSUME DebounceElapses PROVE WatchInv'
  <2> DEFINE r == DebounceElapsed(sync).sync
  <2>1. Good(r) /\ Ordered(r) /\ r.next_generation = n /\ ~r.debounce_pending
    BY <1>s, DebounceElapsedGood, DebounceElapsedOrdered
  <2>2. HandsKnown(n)'
    BY <1>4, <1>b DEF DebounceElapses, HandsKnown
  <2>3. CASE DebounceElapsed(sync).action = "publish"
    <3>1. PublishAction(r, widget)
      BY <1>4, <2>3 DEF DebounceElapses
    <3> HIDE DEF r
    <3>2. /\ Ordered(sync') /\ QueueKnown(n)' /\ sync'.next_generation = n
          /\ Watched(sync', debounce_timer', result_timer', result_generation')
      BY <1>b, <2>1, <3>1, PublishActionWatched
    <3> QED
      BY <1>i, <2>2, <3>2
  <2>4. CASE DebounceElapsed(sync).action # "publish"
    <3>1. UNCHANGED <<queue, sync, result_timer, result_generation>>
      BY <1>4, <2>4 DEF DebounceElapses
    <3>2. ~sync.debounce_pending
      BY <2>4 DEF DebounceElapsed, Outcome
    <3>3. Watched(sync', debounce_timer', result_timer', result_generation')
      BY <1>s, <3>1, <3>2 DEF Watched
    <3>4. QueueKnown(n)'
      BY <1>b, <3>1 DEF QueueKnown
    <3> QED
      BY <1>i, <1>s, <2>2, <3>1, <3>3, <3>4
  <2> QED
    BY <2>3, <2>4
<1>5. ASSUME ResultTimesOut PROVE WatchInv'
  <2>1. /\ result_timer /\ result_timer' = FALSE
        /\ debounce_timer' = debounce_timer
        /\ result_generation' = result_generation
        /\ queue' = queue /\ hand' = hand
        /\ sync' = ResultTimeout(sync, result_generation).sync
    BY <1>5 DEF ResultTimesOut, Apply, bus
  <2>2. result_timer = TRUE
    BY <1>s, <2>1
  <2>3. /\ Ordered(sync') /\ sync'.next_generation = n
        /\ Watched(sync', debounce_timer', result_timer', result_generation')
    BY <1>s, <2>1, <2>2, ResultTimeoutWatched
  <2>4. QueueKnown(n)' /\ HandsKnown(n)'
    BY <1>b, <2>1 DEF QueueKnown, HandsKnown
  <2> QED
    BY <1>i, <2>3, <2>4
<1>6. ASSUME Receive PROVE WatchInv'
  <2>1. queue # <<>> /\ queue' = Tail(queue) /\ UNCHANGED screen
        /\ Take(Loop, Head(queue))
    BY <1>6 DEF Receive
  <2>2. QueueKnown(n)' /\ Known(Head(queue), n)
    BY <1>b, <1>s, <2>1, DequeueKnown
  <2>3. HandsKnown(n)'
    BY <1>b, <1>s, <2>1, <2>2, TakeKnown
  <2> QED
    BY <1>k, <2>1, <2>2, <2>3
<1>7. ASSUME ReceiveSet PROVE WatchInv'
  <2>1. queue # <<>> /\ queue' = Tail(queue) /\ UNCHANGED screen /\ Take(Loop, slot)
    BY <1>7 DEF ReceiveSet
  <2>2. QueueKnown(n)'
    BY <1>b, <1>s, <2>1, DequeueKnown
  <2>3. Known(slot, n)
    BY DEF TypeOK, TypeBus, Sets, Nothing, Known
  <2>4. HandsKnown(n)'
    BY <1>b, <1>s, <2>1, <2>3, TakeKnown
  <2> QED
    BY <1>k, <2>1, <2>2, <2>4
<1>8. ASSUME Defer PROVE WatchInv'
  <2>1. queue # <<>> /\ queue' = Tail(queue) /\ UNCHANGED screen /\ hand' = hand
    BY <1>8 DEF Defer
  <2>2. QueueKnown(n)'
    BY <1>b, <1>s, <2>1, DequeueKnown
  <2>3. HandsKnown(n)'
    BY <1>b, <2>1 DEF HandsKnown
  <2> QED
    BY <1>k, <2>1, <2>2, <2>3
<1>9. ASSUME ReceiveDeferred PROVE WatchInv'
  <2>1. queue' = queue /\ UNCHANGED screen /\ Take(Retry, slot)
    BY <1>9 DEF ReceiveDeferred
  <2>2. Known(slot, n)
    BY DEF TypeOK, TypeBus, Sets, Nothing, Known
  <2>3. QueueKnown(n)'
    BY <1>b, <2>1 DEF QueueKnown
  <2>4. HandsKnown(n)'
    BY <1>b, <1>s, <2>1, <2>2, TakeKnown
  <2> QED
    BY <1>k, <2>1, <2>3, <2>4
<1>10. ASSUME Submit PROVE WatchInv'
  <2>1. /\ UNCHANGED screen /\ Take(Loop, [hand[Loop] EXCEPT !.kind = "answer"])
        /\ PublishSet(hand[Loop].value, core.version + 1)
        /\ hand[Loop].kind = "command"
    BY <1>10 DEF Submit, Commit
  <2>2. QueueKnown(n)'
    BY <1>b, <1>s, <2>1, PublishSetKnown
  <2>3. hand[Loop] \in Answered({"command", "answer", "result"})
    BY <1>b, <2>1, KindsOfHands
  <2>4. Known([hand[Loop] EXCEPT !.kind = "answer"], n)
    BY <1>b, <2>1, <2>3 DEF HandsKnown, Known, Answered
  <2>5. HandsKnown(n)'
    BY <1>b, <1>s, <2>1, <2>4, TakeKnown
  <2> QED
    BY <1>k, <2>1, <2>2, <2>5
<1>11. ASSUME PostResult PROVE WatchInv'
  <2> DEFINE a == Result(hand[Loop].generation, hand[Loop].value)
  <2>1. /\ UNCHANGED screen /\ Take(Loop, Nothing) /\ hand[Loop].kind = "answer"
        /\ (Enqueue(a) \/ UNCHANGED queue)
    BY <1>11 DEF PostResult
  <2>2. hand[Loop] \in Answered({"command", "answer", "result"})
    BY <1>b, <2>1, KindsOfHands
  <2>3. a \in Queued /\ Known(a, n)
    BY <1>b, <2>1, <2>2 DEF HandsKnown, Known, Answered, Result, Queued
  <2> HIDE DEF a
  <2>4. QueueKnown(n)'
    <3>1. CASE Enqueue(a)
      BY <1>b, <1>s, <2>3, <3>1, EnqueueKnown
    <3>2. CASE UNCHANGED queue
      BY <1>b, <3>2 DEF QueueKnown
    <3> QED
      BY <2>1, <3>1, <3>2
  <2>5. HandsKnown(n)'
    BY <1>b, <1>s, <2>1, TakeKnown
  <2> QED
    BY <1>k, <2>1, <2>4, <2>5
<1>12. ASSUME NEW t \in Tasks, HandleModelUpdate(t) PROVE WatchInv'
  <2> DEFINE r == ModelChanged(sync, hand[t].value).sync
  <2>1. /\ hand[t].kind = "set" /\ sync' = r /\ queue' = queue /\ Take(t, Nothing)
    BY <1>12 DEF HandleModelUpdate, Apply, bus
  <2>2. hand[t] \in Sets
    BY <1>b, <2>1, KindsOfHands
  <2>3. hand[t].value \in Values
    BY <2>2 DEF Sets
  <2>4. /\ Ordered(r) /\ r.next_generation = n + 1
        /\ Watched(r, debounce_timer', result_timer', result_generation')
    BY <1>s, <2>3, ModelChangedOrdered
  <2> HIDE DEF r
  <2>5. QueueKnown(n + 1)'
    BY <1>q, <2>1 DEF QueueKnown
  <2>6. Known(Nothing, n + 1)
    BY DEF Known, Nothing
  <2>7. HandsKnown(n + 1)'
    BY <1>b, <1>q, <2>1, <2>6, TakeKnown
  <2> QED
    BY <1>i, <2>1, <2>4, <2>5, <2>7
<1>13. ASSUME HandlePublishResult PROVE WatchInv'
  <2> DEFINE g == hand[Loop].generation
             r == PublishResult(sync, g, hand[Loop].value, TRUE).sync
  <2>1. /\ hand[Loop].kind = "result" /\ sync' = r
        /\ result_timer' = (result_timer /\ result_generation # g)
        /\ debounce_timer' = debounce_timer
        /\ result_generation' = result_generation
        /\ queue' = queue /\ Take(Loop, Nothing)
    BY <1>13 DEF HandlePublishResult, Apply, bus
  <2>2. hand[Loop] \in Answered({"command", "answer", "result"})
    BY <1>b, <2>1, KindsOfHands
  <2>3. g \in Generation /\ hand[Loop].value \in Values /\ g <= n
    BY <1>b, <2>1, <2>2 DEF Answered, HandsKnown, Known
  <2>4. /\ Ordered(r) /\ r.next_generation = n
        /\ r.debounce_pending = sync.debounce_pending
        /\ Waiting(r) => /\ Waiting(sync)
                         /\ r.visible_generation = sync.visible_generation
                         /\ g # sync.visible_generation
    <3>1. g <= sync.next_generation /\ Good(sync) /\ Ordered(sync)
      BY <1>s, <2>3
    <3> DEFINE v == hand[Loop].value
    <3>2. v \in Values /\ g \in Generation
      BY <2>3
    <3> HIDE DEF g, v
    <3>3. StillWaits(sync, g, PublishResult(sync, g, v, TRUE).sync)
      BY <3>1, <3>2, PublishResultWaits
    <3>4. r = PublishResult(sync, g, v, TRUE).sync
      BY DEF v
    <3> HIDE DEF r
    <3> QED
      BY <3>3, <3>4 DEF StillWaits
  <2> HIDE DEF r, g
  <2>5. QueueKnown(n)' /\ HandsKnown(n)'
    BY <1>b, <1>s, <2>1, TakeKnown DEF QueueKnown
  <2>6. Watched(sync', debounce_timer', result_timer', result_generation')
    BY <1>s, <2>1, <2>4 DEF Watched, Waiting
  <2> QED
    BY <1>i, <2>1, <2>4, <2>5, <2>6
<1>14. ASSUME NEW v \in Values, RemoteSet(v) PROVE WatchInv'
  <2>1. UNCHANGED screen /\ hand' = hand /\ PublishSet(v, core.version + 1)
    BY <1>14 DEF RemoteSet, Commit
  <2>2. QueueKnown(n)' /\ HandsKnown(n)'
    BY <1>b, <1>s, <2>1, PublishSetKnown DEF HandsKnown
  <2> QED
    BY <1>k, <2>1, <2>2
<1>15. ASSUME Replay PROVE WatchInv'
  <2>1. UNCHANGED screen /\ hand' = hand /\ PublishSet(core.value, core.version)
    BY <1>15 DEF Replay
  <2>2. QueueKnown(n)' /\ HandsKnown(n)'
    BY <1>b, <1>s, <2>1, PublishSetKnown DEF HandsKnown
  <2> QED
    BY <1>k, <2>1, <2>2
<1>16. CASE UNCHANGED vars
  <2>1. UNCHANGED screen /\ queue' = queue /\ hand' = hand
    BY <1>16 DEF vars, screen
  <2> QED
    BY <1>b, <1>k, <2>1 DEF QueueKnown, HandsKnown
<1> QED
  BY <1>1, <1>2, <1>3, <1>4, <1>5, <1>6, <1>7, <1>8, <1>9, <1>10, <1>11, <1>12,
     <1>13, <1>14, <1>15, <1>16, <1>b DEF Next, Deliver, Redeliver

\* As long as the 32-bit generations have not wrapped, no value the core has
\* not confirmed is on the widget without the timer that ends its wait:
\* whatever SETs, late answers, rejected posts and missing timers there were.
THEOREM UnconfirmedIsWatched == Spec /\ []Unwrapped => []NothingUnwatched
<1>1. Init => TypeOK /\ WatchInv
  BY InitTyped, InitWatched
<1>2. TypeOK /\ WatchInv /\ Unwrapped /\ [Next]_vars => (TypeOK /\ WatchInv)'
  BY StepTyped, StepWatched
<1>3. WatchInv => NothingUnwatched
  BY DEF WatchInv
<1> QED
  BY <1>1, <1>2, <1>3, PTL DEF Spec

-----------------------------------------------------------------------------
(***************************************************************************)
(* The widget converges.  What a widget at rest shows is decided by the    *)
(* events on their way: which commit the last SET showed, and which of the *)
(* answers to the screen's commands is the last one to come.               *)
(***************************************************************************)

\* A command, or the core's answer to it, in the queue or at the delivery task.
Answers == Answered({"command", "answer", "result"})

Carries(e) == e.kind \in {"command", "answer", "result"}
Done(e)    == e.kind # "command"
Waits      == {queue[i] : i \in 1 .. Len(queue)}
Flying     == {e \in Waits \cup {hand[Loop]} : Carries(e)}

\* A value that timed out did so under the visible generation.
Given(s) == s.result_timed_out => s.timed_out_generation = s.visible_generation

Same(s) ==
  s.visible_generation = s.accepted_generation => s.visible_value = s.accepted_value

\* The state of the screen when the SET of the last commit, whose value is v,
\* was the last one shown; F are the events on their way.
Showing(s, F, v) ==
  /\ s.accepted_value = v
  /\ Same(s)
  /\ s.result_timed_out => s.visible_value = s.accepted_value
  /\ \A e \in F : Done(e) => e.generation <= s.accepted_generation

\* The last answer to come has the value of the core.
Newest(s, F, v) ==
  \/ s.accepted_value = v /\ \A e \in F : ~Done(e)
  \/ \E a \in F : /\ Done(a) /\ a.value = v
                  /\ \A e \in F : Done(e) => e.generation <= a.generation

\* A value that waits for its debounce is newer than all that is on its way.
Pends(s, F) ==
  s.debounce_pending =>
    /\ s.accepted_generation < s.visible_generation
    /\ \A e \in F : e.generation < s.visible_generation

\* The state of the screen when it alone writes and no SET has come.
Answering(s, F, v) ==
  /\ \A e \in F : s.accepted_generation < e.generation
  /\ Pends(s, F)
  /\ Same(s)
  /\ \A e \in F : e.generation = s.visible_generation /\ ~s.result_timed_out
                  => e.value = s.visible_value
  /\ s.visible_generation # s.accepted_generation /\ ~s.debounce_pending
       => \E e \in F : e.generation = s.visible_generation
  /\ Newest(s, F, v)

LEMMA GoodFields ==
  ASSUME NEW s, Good(s)
  PROVE  /\ s.next_generation \in Nat /\ s.visible_generation \in Nat
         /\ s.accepted_generation \in Nat /\ s.visible_generation \in Generation
         /\ s.debounce_pending \in BOOLEAN /\ s.result_timed_out \in BOOLEAN
BY GenerationsAssumption DEF Good, Sync, Generation

LEMMA AnswerFields ==
  ASSUME NEW e \in Answers
  PROVE  e.generation \in Generation /\ e.generation \in Nat /\ e.value \in Values
BY GenerationsAssumption DEF Answers, Answered, Generation

-----------------------------------------------------------------------------
\* What the operations of the state machine do to these states.

LEMMA UserChangedIs ==
  ASSUME NEW s, Good(s), s.next_generation < Generations - 1,
         NEW v, NEW d \in BOOLEAN
  PROVE  LET r == UserChanged(s, v, d).sync
         IN  /\ r.visible_generation = s.next_generation + 1
             /\ r.visible_value = v /\ r.debounce_pending = d
             /\ ~r.result_timed_out
             /\ r.accepted_generation = s.accepted_generation
             /\ r.accepted_value = s.accepted_value
<1>1. NextGeneration(s) = s.next_generation + 1
  BY NextIsNewer
<1> QED
  BY <1>1 DEF UserChanged, Outcome, Good, Sync

\* A new local value has a generation of its own.
LEMMA UserChangedViews ==
  ASSUME NEW s, Good(s), Ordered(s), s.next_generation < Generations - 1,
         NEW v, NEW d \in BOOLEAN, NEW w, NEW F \in SUBSET Answers,
         \A e \in F : e.generation <= s.next_generation
  PROVE  LET r == UserChanged(s, v, d).sync
         IN  /\ Given(r) /\ r.visible_value = v
             /\ \A e \in F : e.generation < r.visible_generation
             /\ r.accepted_generation < r.visible_generation
             /\ Showing(s, F, w) => Showing(r, F, w)
             /\ Answering(s, F, w) =>
                  /\ \A e \in F : r.accepted_generation < e.generation
                  /\ Newest(r, F, w)
<1> DEFINE r == UserChanged(s, v, d).sync
<1>1. /\ r.visible_generation = s.next_generation + 1
      /\ r.visible_value = v /\ r.debounce_pending = d
      /\ ~r.result_timed_out
      /\ r.accepted_generation = s.accepted_generation
      /\ r.accepted_value = s.accepted_value
  BY UserChangedIs
<1>2. /\ s.next_generation \in Nat /\ s.accepted_generation \in Nat
      /\ s.accepted_generation <= s.next_generation
  BY GoodFields DEF Ordered
<1>3. \A e \in F : e.generation \in Nat
  BY AnswerFields
<1> HIDE DEF r
<1>4. /\ \A e \in F : e.generation < r.visible_generation
      /\ r.accepted_generation < r.visible_generation
  BY <1>1, <1>2, <1>3
<1>5. Showing(s, F, w) => Showing(r, F, w)
  BY <1>1, <1>2, <1>4 DEF Showing, Same
<1>6. Answering(s, F, w) =>
        /\ \A e \in F : r.accepted_generation < e.generation
        /\ Newest(r, F, w)
  BY <1>1 DEF Answering, Newest
<1> QED
  BY <1>1, <1>4, <1>5, <1>6 DEF Given, r

\* A pending value waits for nothing else.
LEMMA ChangePending ==
  ASSUME NEW s, NEW w, NEW F \in SUBSET Answers, Good(s), s.debounce_pending,
         \A e \in F : e.generation < s.visible_generation,
         \A e \in F : s.accepted_generation < e.generation,
         s.accepted_generation < s.visible_generation,
         Newest(s, F, w)
  PROVE  Answering(s, F, w)
<1>1. \A e \in F : e.generation \in Nat
  BY AnswerFields
<1> QED
  BY <1>1, GoodFields DEF Answering, Pends, Same

LEMMA DebounceElapsedIs ==
  ASSUME NEW s, Good(s)
  PROVE  LET r == DebounceElapsed(s).sync
         IN  /\ r.visible_generation = s.visible_generation
             /\ r.visible_value = s.visible_value
             /\ r.accepted_generation = s.accepted_generation
             /\ r.accepted_value = s.accepted_value
             /\ r.result_timed_out = s.result_timed_out
             /\ r.timed_out_generation = s.timed_out_generation
             /\ r.debounce_pending = FALSE
BY DEF DebounceElapsed, Outcome, Good, Sync

LEMMA ResultTimeoutIs ==
  ASSUME NEW s, Good(s), NEW g, g = s.visible_generation
  PROVE  LET r == ResultTimeout(s, g).sync
         IN  /\ ResultTimeout(s, g).action = "apply"
             /\ r.visible_generation = s.visible_generation
             /\ r.visible_value = s.accepted_value
             /\ r.accepted_generation = s.accepted_generation
             /\ r.accepted_value = s.accepted_value
             /\ r.result_timed_out /\ r.timed_out_generation = g
             /\ r.debounce_pending = s.debounce_pending
BY DEF ResultTimeout, Outcome, Good, Sync

LEMMA ResultTimeoutViews ==
  ASSUME NEW s, Good(s), Given(s), NEW g, NEW w, NEW F \in SUBSET Answers
  PROVE  LET r == ResultTimeout(s, g).sync
         IN  /\ Given(r)
             /\ Showing(s, F, w) => Showing(r, F, w)
             /\ Answering(s, F, w) => Answering(r, F, w)
<1>1. CASE g # s.visible_generation
  BY <1>1 DEF ResultTimeout, Outcome
<1>2. CASE g = s.visible_generation
  <2> DEFINE r == ResultTimeout(s, g).sync
  <2>1. /\ r.visible_generation = s.visible_generation
        /\ r.visible_value = s.accepted_value
        /\ r.accepted_generation = s.accepted_generation
        /\ r.accepted_value = s.accepted_value
        /\ r.result_timed_out /\ r.timed_out_generation = g
        /\ r.debounce_pending = s.debounce_pending
    BY <1>2, ResultTimeoutIs
  <2> HIDE DEF r
  <2>2. Given(r) /\ (Showing(s, F, w) => Showing(r, F, w))
    BY <1>2, <2>1 DEF Given, Showing, Same
  <2>3. Answering(s, F, w) => Answering(r, F, w)
    BY <2>1 DEF Answering, Pends, Newest, Same
  <2> QED
    BY <2>2, <2>3 DEF r
<1> QED
  BY <1>1, <1>2

LEMMA LocalRejectedIs ==
  ASSUME NEW s, Good(s)
  PROVE  LET r == LocalRejected(s, s.visible_generation).sync
         IN  \/ s.visible_generation = 0 /\ r = s
             \/ /\ LocalRejected(s, s.visible_generation).action = "apply"
                /\ r.visible_generation = s.accepted_generation
                /\ r.visible_value = s.accepted_value
                /\ r.accepted_generation = s.accepted_generation
                /\ r.accepted_value = s.accepted_value
                /\ ~r.result_timed_out
                /\ ~r.debounce_pending
BY DEF LocalRejected, PublishResult, Late, Outcome, Good, Sync, Generation

\* A rejected value is rolled back to what the core has accepted.
LEMMA LocalRejectedViews ==
  ASSUME NEW s, Good(s), Given(s), ~s.debounce_pending, NEW w,
         NEW F \in SUBSET Answers
  PROVE  LET r == LocalRejected(s, s.visible_generation).sync
         IN  /\ Given(r)
             /\ Showing(s, F, w) => Showing(r, F, w)
             /\ /\ s.accepted_generation < s.visible_generation
                /\ \A e \in F : s.accepted_generation < e.generation
                /\ Newest(s, F, w)
                => Answering(r, F, w)
<1> DEFINE r == LocalRejected(s, s.visible_generation).sync
<1>1. CASE s.visible_generation = 0 /\ r = s
  BY <1>1, GoodFields
<1>2. CASE /\ r.visible_generation = s.accepted_generation
           /\ r.visible_value = s.accepted_value
           /\ r.accepted_generation = s.accepted_generation
           /\ r.accepted_value = s.accepted_value
           /\ ~r.result_timed_out
           /\ ~r.debounce_pending
  <2> HIDE DEF r
  <2>1. Given(r) /\ (Showing(s, F, w) => Showing(r, F, w))
    BY <1>2 DEF Given, Showing, Same
  <2>2. ASSUME s.accepted_generation < s.visible_generation,
               \A e \in F : s.accepted_generation < e.generation,
               Newest(s, F, w)
        PROVE  Answering(r, F, w)
    <3>1. \A e \in F : e.generation \in Nat /\ e.generation # r.visible_generation
      BY <1>2, <2>2, AnswerFields, GoodFields
    <3> QED
      BY <1>2, <2>2, <3>1 DEF Answering, Pends, Newest, Same
  <2> QED
    BY <2>1, <2>2 DEF r
<1> QED
  BY <1>1, <1>2, LocalRejectedIs

LEMMA ModelChangedIs ==
  ASSUME NEW s, Good(s), s.next_generation < Generations - 1, NEW v \in Values
  PROVE  LET r == ModelChanged(s, v).sync
         IN  /\ ModelChanged(s, v).action = "apply"
             /\ r.visible_generation = s.next_generation + 1
             /\ r.accepted_generation = s.next_generation + 1
             /\ r.visible_value = v /\ r.accepted_value = v
             /\ ~r.result_timed_out /\ ~r.debounce_pending
<1>1. NextGeneration(s) = s.next_generation + 1
  BY NextIsNewer
<1> QED
  BY <1>1 DEF ModelChanged, Outcome, Good, Sync

\* The command of a fresh value is on its way.
LEMMA CommandViews ==
  ASSUME NEW s, Good(s), ~s.debounce_pending, NEW w, NEW F \in SUBSET Answers,
         NEW c \in Answers, c.kind = "command",
         c.generation = s.visible_generation, c.value = s.visible_value
  PROVE  /\ Showing(s, F, w) => Showing(s, F \cup {c}, w)
         /\ /\ s.accepted_generation < s.visible_generation
            /\ \A e \in F : e.generation < s.visible_generation
            /\ \A e \in F : s.accepted_generation < e.generation
            /\ Newest(s, F, w)
            => Answering(s, F \cup {c}, w)
<1>1. Showing(s, F, w) => Showing(s, F \cup {c}, w)
  BY DEF Showing, Done
<1>2. ASSUME s.accepted_generation < s.visible_generation,
             \A e \in F : e.generation < s.visible_generation,
             \A e \in F : s.accepted_generation < e.generation,
             Newest(s, F, w)
      PROVE  Answering(s, F \cup {c}, w)
  <2>1. \A e \in F : e.generation \in Nat
    BY AnswerFields
  <2>2. \A e \in F : e.generation # s.visible_generation
    BY <1>2, <2>1, GoodFields
  <2>3. Newest(s, F \cup {c}, w)
    BY <1>2 DEF Newest, Done
  <2>4. s.visible_generation # s.accepted_generation
    BY <1>2, GoodFields
  <2> QED
    BY <1>2, <2>2, <2>3, <2>4 DEF Answering, Pends, Same
<1> QED
  BY <1>1, <1>2

\* What the answer g, v makes of s, and the action the screen takes, by cases.
Published(s, g, v, r, action) ==
  /\ r.accepted_generation = IF g > s.accepted_generation THEN g ELSE s.accepted_generation
  /\ r.accepted_value = IF g > s.accepted_generation THEN v ELSE s.accepted_value
  /\ r.debounce_pending = s.debounce_pending
  /\ r.timed_out_generation = s.timed_out_generation
  /\ \/ /\ g < s.visible_generation /\ action = "none"
        /\ r.visible_generation = s.visible_generation
        /\ r.visible_value = s.visible_value
        /\ r.result_timed_out = s.result_timed_out
     \/ /\ g = s.visible_generation /\ ~Late(s, g) /\ action = "none"
        /\ r.visible_generation = s.visible_generation
        /\ r.visible_value = s.visible_value
        /\ ~r.result_timed_out
     \/ /\ \/ g = s.visible_generation /\ Late(s, g)
           \/ g > s.visible_generation
        /\ action = "apply"
        /\ r.visible_generation = r.accepted_generation
        /\ r.visible_value = r.accepted_value
        /\ ~r.result_timed_out

LEMMA PublishResultIs ==
  ASSUME NEW s, Good(s), NEW g \in Generation, g # 0, NEW v \in Values
  PROVE  Published(s, g, v, PublishResult(s, g, v, TRUE).sync,
                   PublishResult(s, g, v, TRUE).action)
<1> DEFINE known == IF g > s.accepted_generation
                      THEN [s EXCEPT !.accepted_generation = g, !.accepted_value = v]
                      ELSE s
           settled == [known EXCEPT !.result_timed_out = FALSE]
           back == [settled EXCEPT !.visible_value = settled.accepted_value,
                                   !.visible_generation = settled.accepted_generation]
           o == PublishResult(s, g, v, TRUE)
<1>1. s.visible_generation \in Nat /\ g \in Nat /\ s.accepted_generation \in Nat
  BY GoodFields, GenerationsAssumption DEF Generation
<1>2. /\ known \in [DOMAIN s -> UNION {{known[x]} : x \in DOMAIN s}]
      /\ known.accepted_generation =
           IF g > s.accepted_generation THEN g ELSE s.accepted_generation
      /\ known.accepted_value =
           IF g > s.accepted_generation THEN v ELSE s.accepted_value
      /\ known.debounce_pending = s.debounce_pending
      /\ known.timed_out_generation = s.timed_out_generation
      /\ known.visible_generation = s.visible_generation
      /\ known.visible_value = s.visible_value
      /\ known.result_timed_out = s.result_timed_out
      /\ known \in Sync
  BY Assumptions DEF Good, Sync
<1>3. /\ settled.accepted_generation = known.accepted_generation
      /\ settled.accepted_value = known.accepted_value
      /\ settled.debounce_pending = s.debounce_pending
      /\ settled.timed_out_generation = s.timed_out_generation
      /\ settled.visible_generation = s.visible_generation
      /\ settled.visible_value = s.visible_value
      /\ settled.result_timed_out = FALSE
      /\ settled \in Sync
  <2> HIDE DEF known
  <2> QED
    BY <1>2 DEF Sync
<1>4. /\ back.accepted_generation = known.accepted_generation
      /\ back.accepted_value = known.accepted_value
      /\ back.debounce_pending = s.debounce_pending
      /\ back.timed_out_generation = s.timed_out_generation
      /\ back.visible_generation = known.accepted_generation
      /\ back.visible_value = known.accepted_value
      /\ back.result_timed_out = FALSE
  <2> HIDE DEF settled, known
  <2> QED
    BY <1>3 DEF Sync
<1>5. \/ g < s.visible_generation /\ o = Outcome(known, "none")
      \/ g = s.visible_generation /\ ~Late(s, g) /\ o = Outcome(settled, "none")
      \/ /\ (g = s.visible_generation /\ Late(s, g)) \/ g > s.visible_generation
         /\ o = Outcome(back, "apply")
  BY <1>1 DEF PublishResult
<1> HIDE DEF known, settled, back, o
<1>6. /\ Outcome(known, "none").sync = known /\ Outcome(known, "none").action = "none"
      /\ Outcome(settled, "none").sync = settled /\ Outcome(settled, "none").action = "none"
      /\ Outcome(back, "apply").sync = back /\ Outcome(back, "apply").action = "apply"
  BY DEF Outcome
<1>7. CASE g < s.visible_generation /\ o = Outcome(known, "none")
  BY <1>2, <1>6, <1>7 DEF o, Published
<1>8. CASE g = s.visible_generation /\ ~Late(s, g) /\ o = Outcome(settled, "none")
  BY <1>2, <1>3, <1>6, <1>8 DEF o, Published
<1>9. CASE /\ (g = s.visible_generation /\ Late(s, g)) \/ g > s.visible_generation
           /\ o = Outcome(back, "apply")
  BY <1>2, <1>4, <1>6, <1>9 DEF o, Published
<1> QED
  BY <1>5, <1>7, <1>8, <1>9

\* An answer that is not newer than the last SET changes nothing.
LEMMA PublishResultShows ==
  ASSUME NEW s, Good(s), Ordered(s), Given(s), NEW g \in Generation,
         NEW v \in Values, NEW w, NEW F \in SUBSET Answers,
         g <= s.accepted_generation, Showing(s, F, w)
  PROVE  Showing(PublishResult(s, g, v, TRUE).sync, F, w)
<1> DEFINE r == PublishResult(s, g, v, TRUE).sync
<1>1. s.visible_generation \in Nat /\ g \in Nat /\ s.accepted_generation \in Nat
  BY GoodFields, GenerationsAssumption DEF Generation
<1>2. CASE g = 0
  BY <1>2 DEF PublishResult, Outcome
<1>3. CASE g # 0
  <2> DEFINE action == PublishResult(s, g, v, TRUE).action
  <2>0. Published(s, g, v, r, action)
    BY <1>3, PublishResultIs
  <2> HIDE DEF r, action
  <2>1. r.accepted_generation = s.accepted_generation
        /\ r.accepted_value = s.accepted_value
    BY <1>1, <2>0 DEF Published
  <2>2. \/ /\ r.visible_generation = s.visible_generation
           /\ r.visible_value = s.visible_value
           /\ r.result_timed_out = s.result_timed_out \/ ~r.result_timed_out
        \/ /\ r.visible_generation = r.accepted_generation
           /\ r.visible_value = r.accepted_value
    BY <2>0 DEF Published
  <2>3. Showing(r, F, w)
    BY <2>1, <2>2 DEF Showing, Same
  <2> QED
    BY <2>3 DEF r
<1> QED
  BY <1>2, <1>3

LEMMA PublishResultGiven ==
  ASSUME NEW s, Good(s), Given(s), NEW g \in Generation, NEW v \in Values
  PROVE  Given(PublishResult(s, g, v, TRUE).sync)
<1>1. CASE g = 0
  BY <1>1 DEF PublishResult, Outcome
<1>2. CASE g # 0
  BY <1>2, PublishResultIs DEF Published, Given
<1> QED
  BY <1>1, <1>2

\* The first answer on its way is taken; those behind it are still to come.
LEMMA PublishResultAnswers ==
  ASSUME NEW s, Good(s), Ordered(s), Given(s), NEW w,
         NEW F \in SUBSET Answers, NEW a \in Answers, Done(a),
         \A e \in F : a.generation < e.generation,
         Answering(s, F \cup {a}, w)
  PROVE  Answering(PublishResult(s, a.generation, a.value, TRUE).sync, F, w)
<1> DEFINE g == a.generation
           r == PublishResult(s, g, a.value, TRUE).sync
<1>1. /\ g \in Generation /\ g \in Nat /\ a.value \in Values
      /\ s.visible_generation \in Nat /\ s.accepted_generation \in Nat
      /\ s.accepted_generation < g /\ g # 0
      /\ \A e \in F : e.generation \in Nat
  BY GoodFields, AnswerFields DEF Answering
<1> DEFINE action == PublishResult(s, g, a.value, TRUE).action
<1>0. Published(s, g, a.value, r, action)
  BY <1>1, PublishResultIs
<1> SUFFICES Answering(r, F, w)
  OBVIOUS
<1> HIDE DEF r, action
<1>2. /\ r.accepted_generation = g /\ r.accepted_value = a.value
      /\ r.debounce_pending = s.debounce_pending
  BY <1>0, <1>1 DEF Published
<1>3. \/ /\ g < s.visible_generation
         /\ r.visible_generation = s.visible_generation
         /\ r.visible_value = s.visible_value
         /\ r.result_timed_out = s.result_timed_out
      \/ /\ g = s.visible_generation /\ ~Late(s, g)
         /\ r.visible_generation = s.visible_generation
         /\ r.visible_value = s.visible_value
         /\ ~r.result_timed_out
      \/ /\ \/ g = s.visible_generation /\ Late(s, g)
            \/ g > s.visible_generation
         /\ r.visible_generation = r.accepted_generation
         /\ r.visible_value = r.accepted_value
         /\ ~r.result_timed_out
  BY <1>0 DEF Published
<1>4. Newest(r, F, w)
  <2>1. CASE \A e \in F : ~Done(e)
    BY <1>2, <2>1 DEF Answering, Newest
  <2>2. CASE \E e \in F : Done(e)
    <3>1. PICK b \in F \cup {a} :
            /\ Done(b) /\ b.value = w
            /\ \A e \in F \cup {a} : Done(e) => e.generation <= b.generation
      BY <2>2 DEF Answering, Newest
    <3>2. b # a
      BY <1>1, <2>2, <3>1
    <3> QED
      BY <3>1, <3>2 DEF Newest
  <2> QED
    BY <2>1, <2>2
<1>5. s.debounce_pending => /\ g < s.visible_generation
                            /\ \A e \in F : e.generation < s.visible_generation
  BY DEF Answering, Pends
<1>6. \A e \in F : r.accepted_generation < e.generation
  BY <1>2
\* What is left to show.
<1>7. ASSUME Pends(r, F),
              Same(r),
              \A e \in F : e.generation = r.visible_generation /\ ~r.result_timed_out
                             => e.value = r.visible_value,
              r.visible_generation # r.accepted_generation /\ ~r.debounce_pending
                => \E e \in F : e.generation = r.visible_generation
       PROVE  Answering(r, F, w)
  BY <1>4, <1>6, <1>7 DEF Answering
<1>8. CASE /\ g < s.visible_generation
           /\ r.visible_generation = s.visible_generation
           /\ r.visible_value = s.visible_value
           /\ r.result_timed_out = s.result_timed_out
  <2>1. r.visible_generation # r.accepted_generation
    BY <1>1, <1>2, <1>8
  <2>2. s.visible_generation # s.accepted_generation
    BY <1>1, <1>8
  <2>3. ~s.debounce_pending => \E e \in F : e.generation = s.visible_generation
    BY <1>1, <1>8, <2>2 DEF Answering
  <2>4. \A e \in F : e.generation = s.visible_generation /\ ~s.result_timed_out
                       => e.value = s.visible_value
    BY DEF Answering
  <2>5. Same(r)
    BY <2>1 DEF Same
  <2>6. Pends(r, F)
    BY <1>2, <1>5, <1>8 DEF Pends
  <2> QED
    BY <1>2, <1>8, <1>7, <2>3, <2>4, <2>5, <2>6
<1>9. CASE /\ g = s.visible_generation /\ ~Late(s, g)
           /\ r.visible_generation = s.visible_generation
           /\ r.visible_value = s.visible_value
           /\ ~r.result_timed_out
  <2>1. ~s.result_timed_out
    BY <1>9 DEF Given, Late
  <2>2. a.value = s.visible_value
    BY <1>9, <2>1 DEF Answering
  <2>3. ~s.debounce_pending
    BY <1>1, <1>5, <1>9
  <2>4. \A e \in F : e.generation # r.visible_generation
    BY <1>1, <1>9
  <2>5. Same(r) /\ r.visible_generation = r.accepted_generation
    BY <1>2, <1>9, <2>2 DEF Same
  <2> QED
    BY <1>2, <1>7, <2>3, <2>4, <2>5 DEF Pends
<1>10. CASE /\ \/ g = s.visible_generation /\ Late(s, g)
              \/ g > s.visible_generation
           /\ r.visible_generation = r.accepted_generation
           /\ r.visible_value = r.accepted_value
           /\ ~r.result_timed_out
  <2>1. ~s.debounce_pending
    BY <1>1, <1>5, <1>10
  <2>2. \A e \in F : e.generation # r.visible_generation
    BY <1>1, <1>2, <1>10
  <2>3. Same(r)
    BY <1>10 DEF Same
  <2> QED
    BY <1>2, <1>10, <1>7, <2>1, <2>2, <2>3 DEF Pends
<1> QED
  BY <1>3, <1>8, <1>9, <1>10

-----------------------------------------------------------------------------
\* The line of the events on their way, the delivery task's before the queue's:
\* an answer to a command that is still ahead of a result goes behind it.
InOrder(a, b) ==
  IF a.kind \in {"command", "answer"} /\ b.kind = "result"
    THEN b.generation < a.generation ELSE a.generation < b.generation

Lined ==
  /\ \A i, j \in 1 .. Len(queue) :
       i < j /\ Carries(queue[i]) /\ Carries(queue[j])
         => InOrder(queue[i], queue[j])
  /\ \A i \in 1 .. Len(queue) :
       Carries(hand[Loop]) /\ Carries(queue[i]) => InOrder(hand[Loop], queue[i])

LEMMA FlyingAnswers ==
  ASSUME TypeOK
  PROVE  /\ Flying \subseteq Answers
         /\ Loop \in Tasks /\ Retry \in Tasks /\ Loop # Retry
<1>1. \A e \in Waits \cup {hand[Loop]} : e \in Queued \cup Handed
  BY BusIs DEF TypeOK, Waits, Tasks
<1>2. \A e \in Queued \cup Handed : Carries(e) => e \in Answers
  BY DEF Queued, Handed, Answered, Answers, Sets, Token, Nothing, Carries
<1> QED
  BY <1>1, <1>2 DEF Flying, Tasks, Loop, Retry

LEMMA WaitsEnqueue ==
  ASSUME queue \in Seq(Queued), NEW e, Enqueue(e)
  PROVE  Waits' = Waits \cup {e}
<1>1. queue' = Append(queue, e)
  BY DEF Enqueue
<1>2. /\ Len(queue) \in Nat /\ Len(queue') = Len(queue) + 1
      /\ queue'[Len(queue) + 1] = e
      /\ \A i \in 1 .. Len(queue) : queue'[i] = queue[i]
  BY <1>1
<1>3. 1 .. Len(queue') = (1 .. Len(queue)) \cup {Len(queue) + 1}
  BY <1>2
<1> QED
  BY <1>2, <1>3 DEF Waits

LEMMA TailIs ==
  ASSUME queue \in Seq(Queued), queue # <<>>, queue' = Tail(queue)
  PROVE  /\ Len(queue) \in Nat /\ Len(queue') = Len(queue) - 1
         /\ Len(queue) > 0 /\ Head(queue) = queue[1]
         /\ \A i \in 1 .. Len(queue') : /\ i + 1 \in 1 .. Len(queue)
                                        /\ queue'[i] = queue[i + 1]
<1>1. Len(queue') = Len(queue) - 1 /\ Len(queue) > 0 /\ Len(queue) \in Nat
      /\ Head(queue) = queue[1]
  OBVIOUS
<1>2. \A i \in 1 .. Len(queue') : queue'[i] = queue[i + 1]
  BY <1>1
<1>3. \A i \in 1 .. Len(queue') : i + 1 \in 1 .. Len(queue)
  BY <1>1
<1> QED
  BY <1>1, <1>2, <1>3

LEMMA WaitsDequeue ==
  ASSUME queue \in Seq(Queued), queue # <<>>, queue' = Tail(queue)
  PROVE  Waits = Waits' \cup {Head(queue)}
<1>1. /\ Len(queue) \in Nat /\ Len(queue') = Len(queue) - 1
      /\ Len(queue) > 0 /\ Head(queue) = queue[1]
      /\ \A i \in 1 .. Len(queue') : /\ i + 1 \in 1 .. Len(queue)
                                     /\ queue'[i] = queue[i + 1]
  BY TailIs
<1>2. ASSUME NEW e \in Waits, e # Head(queue)
      PROVE  e \in Waits'
  <2>1. PICK i \in 1 .. Len(queue) : queue[i] = e
    BY <1>2 DEF Waits
  <2>2. i - 1 \in 1 .. Len(queue') /\ (i - 1) + 1 = i
    BY <1>1, <1>2, <2>1
  <2>3. queue'[i - 1] = e
    BY <1>1, <2>1, <2>2
  <2> QED
    BY <2>2, <2>3 DEF Waits
<1>3. Waits' \subseteq Waits
  BY <1>1 DEF Waits
<1>4. Head(queue) \in Waits
  BY <1>1 DEF Waits
<1> QED
  BY <1>2, <1>3, <1>4

\* The place of the delivery task's event is still ahead of what it was.
HandStays ==
  Carries(hand'[Loop]) =>
    /\ Carries(hand[Loop])
    /\ \A b : InOrder(hand[Loop], b) => InOrder(hand'[Loop], b)

LEMMA LinedStays ==
  ASSUME Lined, HandStays, queue' = queue
  PROVE  Lined'
<1>1. ASSUME NEW i \in 1 .. Len(queue), Carries(hand'[Loop]), Carries(queue[i])
      PROVE  InOrder(hand'[Loop], queue[i])
  BY <1>1 DEF HandStays, Lined
<1>2. \A i, j \in 1 .. Len(queue) :
       i < j /\ Carries(queue[i]) /\ Carries(queue[j])
         => InOrder(queue[i], queue[j])
  BY DEF Lined
<1> QED
  BY <1>1, <1>2 DEF Lined

\* An event joins behind all that has to come before it.
LEMMA LinedEnqueue ==
  ASSUME queue \in Seq(Queued), Lined, HandStays, NEW e, Enqueue(e),
         Carries(e) =>
           /\ \A x \in Waits : Carries(x) => InOrder(x, e)
           /\ Carries(hand'[Loop]) => InOrder(hand'[Loop], e)
  PROVE  Lined'
<1>1. queue' = Append(queue, e)
  BY DEF Enqueue
<1>2. /\ Len(queue) \in Nat /\ Len(queue') = Len(queue) + 1
      /\ queue'[Len(queue) + 1] = e
      /\ \A i \in 1 .. Len(queue) : queue'[i] = queue[i] /\ queue[i] \in Waits
  BY <1>1 DEF Waits
<1>3. ASSUME NEW i \in 1 .. Len(queue'), NEW j \in 1 .. Len(queue'), i < j,
             Carries(queue'[i]), Carries(queue'[j])
      PROVE  InOrder(queue'[i], queue'[j])
  <2>1. i \in 1 .. Len(queue)
    BY <1>2, <1>3
  <2>2. CASE j \in 1 .. Len(queue)
    BY <1>2, <1>3, <2>1, <2>2 DEF Lined
  <2>3. CASE j = Len(queue) + 1
    BY <1>2, <1>3, <2>1, <2>3
  <2> QED
    BY <1>2, <2>2, <2>3
<1>4. ASSUME NEW i \in 1 .. Len(queue'), Carries(hand'[Loop]), Carries(queue'[i])
      PROVE  InOrder(hand'[Loop], queue'[i])
  <2>1. CASE i \in 1 .. Len(queue)
    BY <1>2, <1>4, <2>1 DEF Lined, HandStays
  <2>2. CASE i = Len(queue) + 1
    BY <1>2, <1>4, <2>2
  <2> QED
    BY <1>2, <2>1, <2>2
<1> QED
  BY <1>3, <1>4 DEF Lined

LEMMA LinedDequeue ==
  ASSUME queue \in Seq(Queued), Lined, queue # <<>>, queue' = Tail(queue),
         Carries(hand'[Loop]) => hand'[Loop] = Head(queue)
  PROVE  Lined'
<1>1. /\ Len(queue) \in Nat /\ Len(queue') = Len(queue) - 1
      /\ Len(queue) > 0 /\ Head(queue) = queue[1]
      /\ \A i \in 1 .. Len(queue') : /\ i + 1 \in 1 .. Len(queue)
                                     /\ queue'[i] = queue[i + 1]
  BY TailIs
<1>2. ASSUME NEW i \in 1 .. Len(queue'), NEW j \in 1 .. Len(queue'), i < j,
             Carries(queue'[i]), Carries(queue'[j])
      PROVE  InOrder(queue'[i], queue'[j])
  <2>1. /\ i + 1 \in 1 .. Len(queue) /\ j + 1 \in 1 .. Len(queue)
        /\ i + 1 < j + 1
    BY <1>1, <1>2
  <2> QED
    BY <1>1, <1>2, <2>1 DEF Lined
<1>3. ASSUME NEW i \in 1 .. Len(queue'), Carries(hand'[Loop]), Carries(queue'[i])
      PROVE  InOrder(hand'[Loop], queue'[i])
  <2>1. 1 \in 1 .. Len(queue) /\ i + 1 \in 1 .. Len(queue) /\ 1 < i + 1
    BY <1>1
  <2> QED
    BY <1>1, <1>3, <2>1 DEF Lined
<1> QED
  BY <1>2, <1>3 DEF Lined

\* The event the delivery task works on is the first of its kind.
LEMMA HandIsFirst ==
  ASSUME Lined, Carries(hand[Loop]), NEW e \in Waits, Carries(e)
  PROVE  InOrder(hand[Loop], e)
BY DEF Lined, Waits

-----------------------------------------------------------------------------
\* A SET is a commit's, and only the newest one has the value of the core.
Stamped(e) ==
  e.kind = "set" => /\ e.version <= core.version
                    /\ e.version = core.version => e.value = core.value

BusInv ==
  /\ Stamped(slot) /\ \A t \in Tasks : Stamped(hand[t])
  /\ ~Carries(hand[Retry])
  /\ shown <= core.version

\* The widget shows the visible value.
ScreenInv == widget = sync.visible_value /\ Given(sync)

\* Only the screen writes, its answers come, and no SET has been shown.
Alone == shown = -1 /\ remotes = 0 /\ ~lost

ConvergeInv ==
  /\ BusInv /\ ScreenInv
  /\ shown = core.version => Showing(sync, Flying, core.value)
  /\ Alone => Lined /\ Answering(sync, Flying, core.value)

\* At rest nothing is on its way, and nothing waits for a timer.
LEMMA ConvergeAtRest ==
  ASSUME TypeOK, WatchInv, ConvergeInv
  PROVE  WidgetConverges
<1> SUFFICES ASSUME Quiet, shown = core.version \/ Alone
             PROVE  widget = core.value
  BY DEF WidgetConverges, SetsConverge, ResultsConverge, Alone
<1>1. Flying = {}
  <2>1. Waits = {}
    BY DEF Quiet, Waits
  <2>2. ~Carries(hand[Loop])
    BY DEF Quiet, Carries, Nothing, Tasks
  <2> QED
    BY <2>1, <2>2 DEF Flying
<1>2. /\ ~sync.debounce_pending
      /\ sync.visible_generation = sync.accepted_generation \/ sync.result_timed_out
  BY DEF WatchInv, NothingUnwatched, Unconfirmed, Quiet
<1>3. CASE shown = core.version
  <2>1. sync.visible_value = sync.accepted_value /\ sync.accepted_value = core.value
    BY <1>2, <1>3 DEF ConvergeInv, Showing, Same
  <2> QED
    BY <2>1 DEF ConvergeInv, ScreenInv
<1>4. CASE Alone
  <2>1. /\ sync.visible_generation = sync.accepted_generation
        /\ Same(sync) /\ sync.accepted_value = core.value
    BY <1>1, <1>2, <1>4 DEF ConvergeInv, Answering, Newest
  <2> QED
    BY <2>1 DEF ConvergeInv, ScreenInv, Same
<1> QED
  BY <1>3, <1>4

LEMMA ApplyShows ==
  ASSUME NEW o, NEW v, Apply(o, v), o.action = "apply" \/ o.sync.visible_value = v
  PROVE  sync' = o.sync /\ widget' = sync'.visible_value
BY DEF Apply

\* A fresh value that the screen posts, fails to watch or fails to post.
LEMMA PublishActionViews ==
  ASSUME TypeOK, NEW s, Good(s), Given(s), ~s.debounce_pending,
         PublishAction(s, s.visible_value), hand' = hand, NEW w
  PROVE  /\ ScreenInv'
         /\ Showing(s, Flying, w) => Showing(sync', Flying', w)
         /\ /\ Lined
            /\ s.accepted_generation < s.visible_generation
            /\ \A e \in Flying : e.generation < s.visible_generation
            /\ \A e \in Flying : s.accepted_generation < e.generation
            /\ Newest(s, Flying, w)
            => Lined' /\ Answering(sync', Flying', w)
<1> DEFINE g == s.visible_generation
           c == Command(g, s.visible_value)
<1>1. /\ queue \in Seq(Queued) /\ Flying \subseteq Answers
      /\ c \in Answers /\ c.kind = "command" /\ Carries(c)
      /\ c.generation = g /\ c.value = s.visible_value
  BY FlyingAnswers, BusIs, GoodFields
     DEF TypeOK, Command, Answers, Answered, Good, Carries
<1> HIDE DEF c
<1>2. ASSUME Enqueue(c)
      PROVE  /\ Flying' = Flying \cup {c}
             /\ Lined /\ (\A e \in Flying : e.generation < g) => Lined'
  <2>1. Waits' = Waits \cup {c}
    BY <1>1, <1>2, WaitsEnqueue
  <2>2. Flying' = Flying \cup {c}
    BY <1>1, <2>1 DEF Flying
  <2>3. ASSUME Lined, \A e \in Flying : e.generation < g
        PROVE  Lined'
    <3>1. \A x \in Waits \cup {hand[Loop]} : Carries(x) => InOrder(x, c)
      BY <1>1, <2>3 DEF Flying, InOrder
    <3>2. HandStays
      BY DEF HandStays
    <3> QED
      BY <1>1, <1>2, <2>3, <3>1, <3>2, LinedEnqueue
  <2> QED
    BY <2>2, <2>3
<1>3. CASE Enqueue(c) /\ Apply(Outcome(s, "none"), s.visible_value)
  <2>1. sync' = s /\ widget' = sync'.visible_value
    BY <1>3, ApplyShows DEF Outcome
  <2> QED
    BY <1>1, <1>2, <1>3, <2>1, CommandViews DEF ScreenInv, Given
<1>4. CASE Enqueue(c) /\ Apply(ResultTimeout(s, g), s.visible_value)
  <2>1. /\ sync' = ResultTimeout(s, g).sync
        /\ widget' = sync'.visible_value
    BY <1>4, ApplyShows, ResultTimeoutIs
  <2>2. Flying \cup {c} \subseteq Answers
    BY <1>1
  <2>3. /\ Given(sync')
        /\ Showing(s, Flying \cup {c}, w) => Showing(sync', Flying \cup {c}, w)
        /\ Answering(s, Flying \cup {c}, w) => Answering(sync', Flying \cup {c}, w)
    BY <2>1, <2>2, ResultTimeoutViews
  <2> QED
    BY <1>1, <1>2, <1>4, <2>1, <2>3, CommandViews DEF ScreenInv, Given
<1>5. CASE Apply(LocalRejected(s, g), s.visible_value) /\ queue' = queue
  <2>1. /\ sync' = LocalRejected(s, g).sync
        /\ widget' = sync'.visible_value
    BY <1>5, ApplyShows, LocalRejectedIs
  <2>2. Flying' = Flying
    BY <1>5 DEF Flying, Waits
  <2>3. Lined => Lined'
    BY <1>5, LinedStays DEF HandStays
  <2>4. /\ Given(sync')
        /\ Showing(s, Flying, w) => Showing(sync', Flying, w)
        /\ /\ s.accepted_generation < s.visible_generation
           /\ \A e \in Flying : s.accepted_generation < e.generation
           /\ Newest(s, Flying, w)
           => Answering(sync', Flying, w)
    BY <1>1, <2>1, LocalRejectedViews
  <2> QED
    BY <2>1, <2>2, <2>3, <2>4 DEF ScreenInv, Given
<1> QED
  BY <1>3, <1>4, <1>5 DEF PublishAction, c

LEMMA BusStep == TypeOK /\ BusInv /\ [Next]_vars => BusInv'
<1> SUFFICES ASSUME TypeOK, BusInv, [Next]_vars
             PROVE  BusInv'
  OBVIOUS
<1>0. /\ queue \in Seq(Queued) /\ hand \in [Tasks -> Handed]
      /\ slot \in Sets \cup {Nothing} /\ Stamped(slot) /\ ~Carries(slot)
      /\ Loop \in Tasks /\ Retry \in Tasks /\ Loop # Retry /\ Tasks = {Loop, Retry}
      /\ core.version \in Nat /\ shown \in Nat \cup {-1}
      /\ Stamped(Nothing) /\ ~Carries(Nothing)
  BY BusIs, FlyingAnswers DEF TypeOK, TypeCore, BusInv, Sets, Nothing, Carries,
     Stamped, Tasks
\* Steps that leave the core alone.
<1>1. ASSUME UNCHANGED <<core, shown>>, Stamped(slot'),
             \A t \in Tasks : hand'[t] = hand[t] \/ (/\ Stamped(hand'[t])
                                                     /\ t = Retry => ~Carries(hand'[t]))
      PROVE  BusInv'
  BY <1>0, <1>1 DEF BusInv, Stamped
<1>2. ASSUME UNCHANGED <<core, shown, slot, hand>>
      PROVE  BusInv'
  BY <1>0, <1>1, <1>2
\* A commit, and the SET that is published for it or for the state it left.
<1>3. ASSUME NEW v, NEW n, PublishSet(v, n), n \in Nat, shown' = shown,
             \/ n = core.version /\ v = core.value /\ core' = core
             \/ n = core.version + 1 /\ core' = [value |-> v, version |-> n],
             \A t \in Tasks : \/ hand'[t] = hand[t]
                              \/ t = Loop /\ hand'[t].kind = "answer"
      PROVE  BusInv'
  <2>1. /\ core'.version = n /\ core'.value = v /\ core.version <= n
        /\ core.version = n => core.value = v
    BY <1>0, <1>3 DEF TypeOK, TypeCore
  <2>2. \A e \in Handed : Stamped(e) => Stamped(e)'
    <3> SUFFICES ASSUME NEW e \in Handed, Stamped(e), e.kind = "set"
                 PROVE  /\ e.version <= core'.version
                        /\ e.version = core'.version => e.value = core'.value
      BY DEF Stamped
    <3>1. e.version \in Nat
      BY KindsOfHands DEF Sets
    <3>2. e.version <= core.version /\ (e.version = core.version => e.value = core.value)
      BY DEF Stamped
    <3> QED
      BY <1>0, <1>3, <2>1, <3>1, <3>2
  <2>3. slot' = slot \/ slot' = Set(v, n)
    BY <1>3 DEF PublishSet
  <2>4. Stamped(slot)'
    BY <1>0, <2>1, <2>2, <2>3, <1>3 DEF Handed, Stamped, Set
  <2>5. \A t \in Tasks : Stamped(hand[t])'
    <3> SUFFICES ASSUME NEW t \in Tasks
                 PROVE  Stamped(hand[t])'
      OBVIOUS
    <3>1. CASE hand'[t] = hand[t]
      BY <1>0, <2>2, <3>1 DEF BusInv, Stamped
    <3>2. CASE hand'[t].kind = "answer"
      BY <3>2 DEF Stamped
    <3> QED
      BY <1>3, <3>1, <3>2
  <2>6. ~Carries(hand'[Retry])
    BY <1>0, <1>3 DEF BusInv
  <2>7. shown' <= core'.version
    BY <1>0, <1>3, <2>1 DEF BusInv
  <2> QED
    BY <2>4, <2>5, <2>6, <2>7 DEF BusInv, Carries
<1>4. ASSUME \/ \E v \in Values : UserTaps(v) \/ UserDrags(v) \/ UserDragsWithoutTimer(v)
             \/ DebounceElapses \/ ResultTimesOut \/ UNCHANGED vars
      PROVE  BusInv'
  BY <1>2, <1>4 DEF UserTaps, UserDrags, UserDragsWithoutTimer, DebounceElapses,
     ResultTimesOut, bus, vars
<1>5. ASSUME Receive PROVE BusInv'
  <2>1. Stamped(Head(queue))
    <3>1. Head(queue) \in Queued /\ Head(queue).kind # "token"
      BY <1>0, <1>5 DEF Receive
    <3> QED
      BY <3>1, KindsOfQueued DEF Answered, Stamped
  <2> QED
    BY <1>0, <1>1, <1>5, <2>1 DEF Receive, Take
<1>6. ASSUME ReceiveSet PROVE BusInv'
  BY <1>0, <1>1, <1>6 DEF ReceiveSet, Take
<1>7. ASSUME Defer PROVE BusInv'
  BY <1>2, <1>7 DEF Defer
<1>8. ASSUME ReceiveDeferred PROVE BusInv'
  BY <1>0, <1>1, <1>8 DEF ReceiveDeferred, Take
<1>9. ASSUME Submit PROVE BusInv'
  <2>1. hand'[Loop] = [hand[Loop] EXCEPT !.kind = "answer"] /\ hand'[Retry] = hand[Retry]
    BY <1>0, <1>9 DEF Submit, Take
  <2>2. hand[Loop] \in Answered({"command", "answer", "result"})
    BY <1>0, <1>9, KindsOfHands DEF Submit
  <2>3. hand'[Loop].kind = "answer"
    BY <2>1, <2>2 DEF Answered
  <2>4. /\ PublishSet(hand[Loop].value, core.version + 1) /\ shown' = shown
        /\ core' = [value |-> hand[Loop].value, version |-> core.version + 1]
    BY <1>9 DEF Submit, Commit
  <2>5. \A t \in Tasks : \/ hand'[t] = hand[t]
                         \/ t = Loop /\ hand'[t].kind = "answer"
    BY <1>0, <2>1, <2>3
  <2>6. core.version + 1 \in Nat
    BY <1>0
  <2> QED
    BY <1>3, <2>4, <2>5, <2>6
<1>10. ASSUME PostResult \/ HandlePublishResult PROVE BusInv'
  BY <1>0, <1>1, <1>10 DEF PostResult, HandlePublishResult, Take, bus
<1>11. ASSUME NEW t \in Tasks, HandleModelUpdate(t) PROVE BusInv'
  <2>1. shown' <= core.version /\ UNCHANGED <<core, slot>>
    BY <1>11 DEF HandleModelUpdate, BusInv, Stamped, bus
  <2>2. \A u \in Tasks : hand'[u] \in {hand[u], Nothing}
    BY <1>0, <1>11 DEF HandleModelUpdate, Take
  <2> QED
    BY <1>0, <2>1, <2>2 DEF BusInv, Stamped
<1>12. ASSUME NEW v \in Values, RemoteSet(v) PROVE BusInv'
  BY <1>0, <1>3, <1>12 DEF RemoteSet, Commit
<1>13. ASSUME Replay PROVE BusInv'
  BY <1>0, <1>3, <1>13 DEF Replay
<1> QED
  BY <1>4, <1>5, <1>6, <1>7, <1>8, <1>9, <1>10, <1>11, <1>12, <1>13, <1>0
     DEF Next, Deliver, Redeliver

\* The events on their way are no newer than the last generation.
LEMMA FlyingKnown ==
  ASSUME TypeOK, WatchInv
  PROVE  \A e \in Flying : e.generation <= sync.next_generation
BY DEF WatchInv, QueueKnown, HandsKnown, Known, Flying, Waits, Carries, Tasks

LEMMA UserStep ==
  ASSUME TypeOK, WatchInv, Unwrapped, ConvergeInv,
         \/ \E v \in Values : UserTaps(v) \/ UserDrags(v) \/ UserDragsWithoutTimer(v)
         \/ DebounceElapses \/ ResultTimesOut
  PROVE  ConvergeInv'
<1> DEFINE w == core.value
<1>0. /\ Good(sync) /\ Ordered(sync) /\ Given(sync)
      /\ sync.next_generation < Generations - 1
      /\ Flying \subseteq Answers
      /\ \A e \in Flying : e.generation <= sync.next_generation
      /\ widget = sync.visible_value
  BY GoodIsTyped, FlyingAnswers, FlyingKnown
     DEF TypeOK, WatchInv, Unwrapped, ConvergeInv, ScreenInv
<1>1. UNCHANGED <<core, shown, remotes, lost, hand>>
  BY DEF UserTaps, UserDrags, UserDragsWithoutTimer, DebounceElapses,
     ResultTimesOut, bus
<1>2. BusInv'
  BY BusStep DEF ConvergeInv, Next
\* What is left to show.
<1>3. ASSUME ScreenInv',
             Showing(sync, Flying, w) => Showing(sync', Flying', w),
             Lined /\ Answering(sync, Flying, w)
               => Lined' /\ Answering(sync', Flying', w)
      PROVE  ConvergeInv'
  BY <1>1, <1>2, <1>3 DEF ConvergeInv, Alone
\* A fresh state s that is published.
<1>4. ASSUME NEW s, Good(s), Given(s), ~s.debounce_pending,
             PublishAction(s, s.visible_value),
             Showing(sync, Flying, w) => Showing(s, Flying, w),
             Answering(sync, Flying, w) =>
               /\ s.accepted_generation < s.visible_generation
               /\ \A e \in Flying : e.generation < s.visible_generation
               /\ \A e \in Flying : s.accepted_generation < e.generation
               /\ Newest(s, Flying, w)
      PROVE  ConvergeInv'
  <2> HIDE DEF w
  <2>1. /\ ScreenInv'
        /\ Showing(s, Flying, w) => Showing(sync', Flying', w)
        /\ /\ Lined
           /\ s.accepted_generation < s.visible_generation
           /\ \A e \in Flying : e.generation < s.visible_generation
           /\ \A e \in Flying : s.accepted_generation < e.generation
           /\ Newest(s, Flying, w)
           => Lined' /\ Answering(sync', Flying', w)
    BY <1>1, <1>4, PublishActionViews
  <2> QED
    BY <1>3, <1>4, <2>1
<1>5. ASSUME NEW v \in Values, UserTaps(v)
      PROVE  ConvergeInv'
  <2> DEFINE s == UserChanged(sync, v, FALSE).sync
  <2>1. /\ Good(s) /\ ~s.debounce_pending /\ PublishAction(s, v)
    BY <1>0, <1>5, UserChangedGood, UserChangedIs DEF UserTaps
  <2>2. /\ Given(s) /\ s.visible_value = v
        /\ \A e \in Flying : e.generation < s.visible_generation
        /\ s.accepted_generation < s.visible_generation
        /\ Showing(sync, Flying, w) => Showing(s, Flying, w)
        /\ Answering(sync, Flying, w) =>
             /\ \A e \in Flying : s.accepted_generation < e.generation
             /\ Newest(s, Flying, w)
    BY <1>0, UserChangedViews
  <2> HIDE DEF s
  <2> QED
    BY <1>4, <2>1, <2>2
<1>6. ASSUME NEW v \in Values, UserDrags(v)
      PROVE  ConvergeInv'
  <2> DEFINE s == UserChanged(sync, v, TRUE).sync
  <2>1. /\ Good(s) /\ s.debounce_pending /\ Apply(UserChanged(sync, v, TRUE), v)
        /\ queue' = queue
    BY <1>0, <1>6, UserChangedGood, UserChangedIs DEF UserDrags, bus
  <2>2. /\ Given(s) /\ s.visible_value = v
        /\ \A e \in Flying : e.generation < s.visible_generation
        /\ s.accepted_generation < s.visible_generation
        /\ Showing(sync, Flying, w) => Showing(s, Flying, w)
        /\ Answering(sync, Flying, w) =>
             /\ \A e \in Flying : s.accepted_generation < e.generation
             /\ Newest(s, Flying, w)
    BY <1>0, UserChangedViews
  <2>3. sync' = s /\ widget' = sync'.visible_value
    BY <2>1, <2>2, ApplyShows
  <2> HIDE DEF s
  <2>4. Flying' = Flying /\ (Lined => Lined')
    BY <1>1, <2>1, LinedStays DEF Flying, Waits, HandStays
  <2>5. Answering(sync, Flying, w) => Answering(s, Flying, w)
    BY <1>0, <2>1, <2>2, ChangePending
  <2> QED
    BY <1>3, <2>2, <2>3, <2>4, <2>5 DEF ScreenInv, Given
<1>7. ASSUME NEW v \in Values, UserDragsWithoutTimer(v)
      PROVE  ConvergeInv'
  <2> DEFINE u == UserChanged(sync, v, TRUE).sync
             s == DebounceElapsed(u).sync
  <2>1. PublishAction(s, v)
    BY <1>7 DEF UserDragsWithoutTimer
  <2>2. /\ Given(u) /\ u.visible_value = v /\ Good(u)
        /\ \A e \in Flying : e.generation < u.visible_generation
        /\ u.accepted_generation < u.visible_generation
        /\ Showing(sync, Flying, w) => Showing(u, Flying, w)
        /\ Answering(sync, Flying, w) =>
             /\ \A e \in Flying : u.accepted_generation < e.generation
             /\ Newest(u, Flying, w)
    BY <1>0, UserChangedViews, UserChangedGood
  <2> HIDE DEF u
  <2>3. /\ s.visible_generation = u.visible_generation
        /\ s.visible_value = u.visible_value
        /\ s.accepted_generation = u.accepted_generation
        /\ s.accepted_value = u.accepted_value
        /\ s.result_timed_out = u.result_timed_out
        /\ s.timed_out_generation = u.timed_out_generation
        /\ s.debounce_pending = FALSE /\ Good(s)
    BY <2>2, DebounceElapsedIs, DebounceElapsedGood
  <2> HIDE DEF s
  <2> QED
    BY <1>4, <2>1, <2>2, <2>3 DEF Given, Showing, Same, Newest
<1>8. ASSUME DebounceElapses
      PROVE  ConvergeInv'
  <2> DEFINE s == DebounceElapsed(sync).sync
  <2>1. CASE DebounceElapsed(sync).action = "publish"
    <3>1. PublishAction(s, widget) /\ sync.debounce_pending
      BY <1>8, <2>1 DEF DebounceElapses, DebounceElapsed, Outcome
    <3>2. /\ s.visible_generation = sync.visible_generation
          /\ s.visible_value = sync.visible_value
          /\ s.accepted_generation = sync.accepted_generation
          /\ s.accepted_value = sync.accepted_value
          /\ s.result_timed_out = sync.result_timed_out
          /\ s.timed_out_generation = sync.timed_out_generation
          /\ s.debounce_pending = FALSE /\ Good(s)
      BY <1>0, DebounceElapsedIs, DebounceElapsedGood
    <3> HIDE DEF s
    <3>3. Given(s) /\ (Showing(sync, Flying, w) => Showing(s, Flying, w))
      BY <1>0, <3>2 DEF Given, Showing, Same
    <3>4. Answering(sync, Flying, w) =>
            /\ s.accepted_generation < s.visible_generation
            /\ \A e \in Flying : e.generation < s.visible_generation
            /\ \A e \in Flying : s.accepted_generation < e.generation
            /\ Newest(s, Flying, w)
      BY <3>1, <3>2 DEF Answering, Pends, Newest
    <3> QED
      BY <1>0, <1>4, <3>1, <3>2, <3>3, <3>4
  <2>2. CASE DebounceElapsed(sync).action # "publish"
    <3>1. UNCHANGED <<queue, widget, sync>>
      BY <1>8, <2>2 DEF DebounceElapses
    <3>2. Flying' = Flying /\ (Lined => Lined')
      BY <1>1, <3>1, LinedStays DEF Flying, Waits, HandStays
    <3> QED
      BY <1>0, <1>3, <3>1, <3>2 DEF ScreenInv, Given
  <2> QED
    BY <2>1, <2>2
<1>9. ASSUME ResultTimesOut
      PROVE  ConvergeInv'
  <2> DEFINE o == ResultTimeout(sync, result_generation)
             s == o.sync
  <2>1. Apply(o, widget) /\ queue' = queue
    BY <1>9 DEF ResultTimesOut, bus
  <2>2. o.action = "apply" \/ s = sync
    BY DEF ResultTimeout, Outcome
  <2>3. /\ Given(s)
        /\ Showing(sync, Flying, w) => Showing(s, Flying, w)
        /\ Answering(sync, Flying, w) => Answering(s, Flying, w)
    BY <1>0, ResultTimeoutViews
  <2> HIDE DEF o
  <2>4. sync' = s /\ widget' = sync'.visible_value
    BY <1>0, <2>1, <2>2, ApplyShows
  <2>5. Flying' = Flying /\ (Lined => Lined')
    BY <1>1, <2>1, LinedStays DEF Flying, Waits, HandStays
  <2> QED
    BY <1>3, <2>3, <2>4, <2>5 DEF ScreenInv, Given
<1> QED
  BY <1>5, <1>6, <1>7, <1>8, <1>9

\* G are the events F, one of them maybe a step further.
Renamed(F, G) ==
  /\ \A e \in F : \E x \in G : /\ x.generation = e.generation /\ x.value = e.value
                               /\ Done(x) = Done(e)
  /\ \A x \in G : \E e \in F : /\ x.generation = e.generation /\ x.value = e.value
                               /\ Done(x) = Done(e)

LEMMA RenamedViews ==
  ASSUME NEW s, NEW w, NEW F, NEW G, Renamed(F, G)
  PROVE  /\ Showing(s, F, w) => Showing(s, G, w)
         /\ Answering(s, F, w) => Answering(s, G, w)
<1>1. Showing(s, F, w) => Showing(s, G, w)
  BY DEF Renamed, Showing
<1>2. ASSUME Newest(s, F, w)
      PROVE  Newest(s, G, w)
  <2>1. CASE s.accepted_value = w /\ \A e \in F : ~Done(e)
    BY <2>1 DEF Renamed, Newest
  <2>2. ASSUME NEW a \in F, Done(a), a.value = w,
               \A e \in F : Done(e) => e.generation <= a.generation
        PROVE  Newest(s, G, w)
    <3>1. PICK b \in G : /\ b.generation = a.generation /\ b.value = a.value
                         /\ Done(b) = Done(a)
      BY DEF Renamed
    <3>2. \A x \in G : Done(x) => x.generation <= b.generation
      BY <2>2, <3>1 DEF Renamed
    <3> QED
      BY <2>2, <3>1, <3>2 DEF Newest
  <2> QED
    BY <1>2, <2>1, <2>2 DEF Newest
<1>3. ASSUME Answering(s, F, w)
      PROVE  Answering(s, G, w)
  <2>1. \A x \in G : s.accepted_generation < x.generation
    BY <1>3 DEF Renamed, Answering
  <2>2. Pends(s, G)
    BY <1>3 DEF Renamed, Answering, Pends
  <2>3. \A x \in G : x.generation = s.visible_generation /\ ~s.result_timed_out
                     => x.value = s.visible_value
    BY <1>3 DEF Renamed, Answering
  <2>4. s.visible_generation # s.accepted_generation /\ ~s.debounce_pending
          => \E x \in G : x.generation = s.visible_generation
    BY <1>3 DEF Renamed, Answering
  <2> QED
    BY <1>2, <1>3, <2>1, <2>2, <2>3, <2>4 DEF Answering
<1> QED
  BY <1>1, <1>3

LEMMA PublishSetFlies ==
  ASSUME queue \in Seq(Queued), NEW v, NEW n, PublishSet(v, n), hand' = hand
  PROVE  Flying' = Flying
<1>1. ~Carries(Token)
  BY DEF Carries, Token
<1>2. CASE Enqueue(Token)
  <2>1. Waits' = Waits \cup {Token}
    BY <1>2, WaitsEnqueue
  <2> QED
    BY <1>1, <2>1 DEF Flying
<1>3. CASE queue' = queue
  BY <1>3 DEF Flying, Waits
<1> QED
  BY <1>2, <1>3 DEF PublishSet

LEMMA DeliveryStep ==
  ASSUME TypeOK, WatchInv, Unwrapped, ConvergeInv,
         \/ Receive \/ ReceiveSet \/ Defer \/ ReceiveDeferred
         \/ Replay \/ (\E v \in Values : RemoteSet(v)) \/ UNCHANGED vars
  PROVE  ConvergeInv'
<1> DEFINE w == core.value
<1>0. /\ queue \in Seq(Queued) /\ hand \in [Tasks -> Handed]
      /\ slot \in Sets \cup {Nothing} /\ ~Carries(slot)
      /\ Loop \in Tasks /\ Retry \in Tasks /\ Loop # Retry
      /\ core.version \in Nat /\ shown \in Nat \cup {-1} /\ shown <= core.version
      /\ remotes \in Nat /\ ~Carries(Nothing)
  BY BusIs, FlyingAnswers DEF TypeOK, TypeCore, ConvergeInv, BusInv, Sets, Nothing,
     Carries
<1>1. BusInv'
  BY BusStep DEF ConvergeInv, Next, Deliver, Redeliver
<1>2. UNCHANGED <<widget, sync, shown, lost>> /\ ScreenInv'
  BY DEF ConvergeInv, ScreenInv, Given, Receive, ReceiveSet, Defer, ReceiveDeferred,
     Replay, RemoteSet, vars, screen
\* Steps that leave the core alone and the line as it is.
<1>3. ASSUME core' = core, Flying' = Flying, remotes' = remotes => (Lined => Lined'),
             remotes' \in {remotes, remotes + 1}
      PROVE  ConvergeInv'
  <2>1. Alone' => Alone /\ remotes' = remotes
    BY <1>0, <1>2, <1>3 DEF Alone
  <2> QED
    BY <1>1, <1>2, <1>3, <2>1 DEF ConvergeInv
<1>4. CASE UNCHANGED vars
  <2>1. Flying' = Flying /\ (Lined => Lined') /\ UNCHANGED <<core, remotes>>
    BY <1>4, LinedStays DEF vars, Flying, Waits, HandStays
  <2> QED
    BY <1>3, <2>1
<1>5. CASE Receive
  <2>1. /\ hand[Loop] = Nothing /\ queue # <<>> /\ queue' = Tail(queue)
        /\ hand'[Loop] = Head(queue) /\ UNCHANGED <<core, remotes>>
    BY <1>0, <1>5 DEF Receive, Take
  <2>2. Waits = Waits' \cup {Head(queue)}
    BY <1>0, <2>1, WaitsDequeue
  <2>3. Flying' = Flying
    BY <1>0, <2>1, <2>2 DEF Flying
  <2>4. Lined => Lined'
    BY <1>0, <2>1, LinedDequeue
  <2> QED
    BY <1>3, <2>1, <2>3, <2>4
<1>6. CASE ReceiveSet \/ Defer
  <2>1. /\ hand[Loop] = Nothing /\ queue # <<>> /\ queue' = Tail(queue)
        /\ ~Carries(hand'[Loop]) /\ ~Carries(Head(queue)) /\ UNCHANGED <<core, remotes>>
    BY <1>0, <1>6 DEF ReceiveSet, Defer, Take, Carries
  <2>2. Waits = Waits' \cup {Head(queue)}
    BY <1>0, <2>1, WaitsDequeue
  <2>3. Flying' = Flying
    BY <1>0, <2>1, <2>2 DEF Flying
  <2>4. Lined => Lined'
    BY <1>0, <2>1, LinedDequeue
  <2> QED
    BY <1>3, <2>1, <2>3, <2>4
<1>7. CASE ReceiveDeferred
  <2>1. hand'[Loop] = hand[Loop] /\ queue' = queue /\ UNCHANGED <<core, remotes>>
    BY <1>0, <1>7 DEF ReceiveDeferred, Take
  <2>2. Flying' = Flying /\ (Lined => Lined')
    BY <2>1, LinedStays DEF Flying, Waits, HandStays
  <2> QED
    BY <1>3, <2>1, <2>2
<1>8. CASE Replay
  <2>1. /\ hand' = hand /\ core' = core /\ remotes' = remotes + 1
        /\ PublishSet(core.value, core.version)
    BY <1>8 DEF Replay
  <2>2. Flying' = Flying
    BY <1>0, <2>1, PublishSetFlies
  <2> QED
    BY <1>0, <1>3, <2>1, <2>2
<1>9. ASSUME NEW v \in Values, RemoteSet(v)
      PROVE  ConvergeInv'
  <2>1. core'.version = core.version + 1 /\ remotes' = remotes + 1
    BY <1>9 DEF RemoteSet, Commit
  <2>2. ~Alone' /\ shown' # core'.version
    BY <1>0, <1>2, <2>1 DEF Alone
  <2> QED
    BY <1>1, <1>2, <2>2 DEF ConvergeInv
<1> QED
  BY <1>4, <1>5, <1>6, <1>7, <1>8, <1>9

LEMMA CoreStep ==
  ASSUME TypeOK, WatchInv, Unwrapped, ConvergeInv, Submit \/ PostResult
  PROVE  ConvergeInv'
<1> DEFINE h == hand[Loop]
           CW == {e \in Waits : Carries(e)}
<1>0. /\ queue \in Seq(Queued) /\ hand \in [Tasks -> Handed]
      /\ Loop \in Tasks /\ Flying \subseteq Answers /\ h \in Answers
      /\ h.kind \in {"command", "answer"} /\ Carries(h)
      /\ core.version \in Nat /\ shown <= core.version /\ ~Carries(Nothing)
      /\ Flying = CW \cup {h}
  <2>1. h.kind \in {"command", "answer"}
    BY DEF Submit, PostResult
  <2>2. h \in Handed
    BY BusIs, FlyingAnswers DEF TypeOK
  <2> QED
    BY <2>1, <2>2, BusIs, FlyingAnswers, KindsOfHands
       DEF TypeOK, TypeCore, ConvergeInv, BusInv, Nothing, Carries, Answers, Flying
<1>1. BusInv'
  BY BusStep DEF ConvergeInv, Next, Deliver
<1>2. UNCHANGED <<widget, sync, shown, remotes>> /\ ScreenInv'
  BY DEF ConvergeInv, ScreenInv, Given, Submit, PostResult, screen
<1>3. CASE Submit
  <2> DEFINE a == [h EXCEPT !.kind = "answer"]
  <2>1. /\ h.kind = "command" /\ hand'[Loop] = a
        /\ core' = [value |-> h.value, version |-> core.version + 1]
        /\ PublishSet(h.value, core.version + 1) /\ UNCHANGED lost
    BY <1>0, <1>3 DEF Submit, Commit, Take
  <2>2. /\ a.kind = "answer" /\ a.generation = h.generation /\ a.value = h.value
        /\ Carries(a) /\ Done(a)
    BY <1>0 DEF Answers, Answered, Carries, Done
  <2>3. shown' # core'.version
    BY <1>0, <1>2, <2>1
  <2> HIDE DEF a
  <2>4. HandStays
    BY <1>0, <2>1, <2>2 DEF HandStays, InOrder
  <2>5. CW' = CW /\ (Lined => Lined')
    <3>1. CASE Enqueue(Token)
      <4>1. Waits' = Waits \cup {Token} /\ ~Carries(Token)
        BY <1>0, <3>1, WaitsEnqueue DEF Carries, Token
      <4> QED
        BY <1>0, <2>4, <3>1, <4>1, LinedEnqueue DEF Carries
    <3>2. CASE queue' = queue
      BY <2>4, <3>2, LinedStays DEF Waits, Carries
    <3> QED
      BY <2>1, <3>1, <3>2 DEF PublishSet
  <2>6. Flying' = CW \cup {a}
    BY <2>1, <2>2, <2>5 DEF Flying, Carries
  <2>7. ASSUME Lined, Answering(sync, Flying, core.value)
        PROVE  Answering(sync, CW \cup {a}, h.value)
    <3>1. ASSUME NEW e \in CW, Done(e)
          PROVE  e.generation < h.generation
      <4>1. e \in Queued /\ e.kind \in {"answer", "result"}
        BY <1>0, <3>1 DEF Waits, Done, Carries
      <4>2. e.kind = "result"
        BY <4>1 DEF Queued, Answered, Token
      <4> QED
        BY <1>0, <2>1, <2>7, <3>1, <4>2, HandIsFirst DEF InOrder, Carries
    <3>2. \A e \in CW : e.generation \in Nat
      BY <1>0, AnswerFields
    <3>3. a.generation \in Nat
      BY <1>0, <2>2, AnswerFields
    <3>4. Newest(sync, CW \cup {a}, h.value)
      BY <2>2, <3>1, <3>2, <3>3 DEF Newest
    <3>5. /\ \A e \in CW \cup {h} : sync.accepted_generation < e.generation
          /\ Pends(sync, CW \cup {h}) /\ Same(sync)
          /\ \A e \in CW \cup {h} :
               e.generation = sync.visible_generation /\ ~sync.result_timed_out
                 => e.value = sync.visible_value
          /\ sync.visible_generation # sync.accepted_generation
             /\ ~sync.debounce_pending
             => \E e \in CW \cup {h} : e.generation = sync.visible_generation
      BY <1>0, <2>7 DEF Answering
    <3> HIDE DEF h, CW
    <3>6. Pends(sync, CW \cup {a})
      BY <2>2, <3>5 DEF Pends
    <3>7. \A e \in CW \cup {a} : sync.accepted_generation < e.generation
      BY <2>2, <3>5
    <3>8. \A e \in CW \cup {a} :
            e.generation = sync.visible_generation /\ ~sync.result_timed_out
              => e.value = sync.visible_value
      BY <2>2, <3>5
    <3>9. sync.visible_generation # sync.accepted_generation
          /\ ~sync.debounce_pending
          => \E e \in CW \cup {a} : e.generation = sync.visible_generation
      BY <2>2, <3>5
    <3> QED
      BY <3>4, <3>5, <3>6, <3>7, <3>8, <3>9 DEF Answering
  <2>8. Alone' = Alone /\ core'.value = h.value
    BY <1>2, <2>1 DEF Alone
  <2> HIDE DEF CW
  <2> QED
    BY <1>1, <1>2, <2>3, <2>5, <2>6, <2>7, <2>8 DEF ConvergeInv
<1>4. CASE PostResult
  <2> DEFINE r == Result(h.generation, h.value)
  <2>1. /\ h.kind = "answer" /\ ~Carries(hand'[Loop]) /\ core' = core
        /\ \/ Enqueue(r) /\ UNCHANGED lost
           \/ queue' = queue /\ lost' = TRUE
    BY <1>0, <1>4 DEF PostResult, Take
  <2>2. /\ r.kind = "result" /\ r.generation = h.generation /\ r.value = h.value
        /\ Carries(r) /\ (Done(r) = Done(h))
    BY <1>0, <2>1 DEF Result, Carries, Done
  <2> HIDE DEF r
  <2>3. CASE queue' = queue /\ lost' = TRUE
    <3>1. Flying' \subseteq Flying /\ ~Alone'
      BY <2>1, <2>3 DEF Flying, Waits, Alone
    <3>2. Showing(sync, Flying, core.value) => Showing(sync, Flying', core.value)
      BY <3>1 DEF Showing
    <3> QED
      BY <1>1, <1>2, <2>1, <3>1, <3>2 DEF ConvergeInv
  <2>4. CASE Enqueue(r) /\ UNCHANGED lost
    <3>1. Waits' = Waits \cup {r}
      BY <1>0, <2>4, WaitsEnqueue
    <3>2. Flying' = CW \cup {r}
      BY <2>1, <2>2, <3>1 DEF Flying, Carries
    <3>3. Renamed(CW \cup {h}, CW \cup {r})
      BY <2>2 DEF Renamed
    <3>4. Lined => Lined'
      <4> SUFFICES ASSUME Lined PROVE Lined'
        OBVIOUS
      <4>1. HandStays
        BY <2>1 DEF HandStays
      <4>2. ASSUME NEW x \in Waits, Carries(x)
            PROVE  InOrder(x, r)
        <5>1. InOrder(h, x)
          BY <1>0, <4>2, HandIsFirst
        <5>2. x \in Queued
          BY <1>0 DEF Waits
        <5>3. x.kind \in {"command", "result"}
          BY <4>2, <5>2 DEF Queued, Answered, Token, Carries
        <5> QED
          BY <1>0, <2>1, <2>2, <5>1, <5>3 DEF InOrder
      <4> QED
        BY <1>0, <2>1, <2>4, <4>1, <4>2, LinedEnqueue
    <3>5. /\ Showing(sync, Flying, core.value) => Showing(sync, Flying', core.value)
          /\ Answering(sync, Flying, core.value)
               => Answering(sync, Flying', core.value)
      BY <1>0, <3>2, <3>3, RenamedViews
    <3>6. Alone' = Alone
      BY <1>2, <2>4 DEF Alone
    <3> QED
      BY <1>1, <1>2, <2>1, <3>4, <3>5, <3>6 DEF ConvergeInv
  <2> QED
    BY <2>1, <2>3, <2>4
<1> QED
  BY <1>3, <1>4

LEMMA HandlerStep ==
  ASSUME TypeOK, WatchInv, Unwrapped, ConvergeInv,
         HandlePublishResult \/ \E t \in Tasks : HandleModelUpdate(t)
  PROVE  ConvergeInv'
<1> DEFINE w == core.value
           CW == {e \in Waits : Carries(e)}
<1>0. /\ hand \in [Tasks -> Handed] /\ Flying \subseteq Answers
      /\ Loop \in Tasks /\ Good(sync) /\ Ordered(sync) /\ Given(sync)
      /\ sync.next_generation < Generations - 1
      /\ \A e \in Flying : e.generation <= sync.next_generation
      /\ widget = sync.visible_value
      /\ UNCHANGED <<core, queue, lost, remotes>> /\ ~Carries(Nothing)
  BY BusIs, GoodIsTyped, FlyingAnswers, FlyingKnown
     DEF TypeOK, WatchInv, Unwrapped, ConvergeInv, ScreenInv, HandlePublishResult,
         HandleModelUpdate, bus, Carries, Nothing
<1>1. BusInv'
  BY BusStep, FlyingAnswers DEF ConvergeInv, Next, Deliver, Redeliver, Tasks
<1>2. ASSUME NEW t \in Tasks, HandleModelUpdate(t)
      PROVE  ConvergeInv'
  <2> DEFINE v == hand[t].value
             o == ModelChanged(sync, v)
             s == o.sync
  <2>1. /\ hand[t] \in Sets /\ v \in Values /\ shown' = hand[t].version
        /\ Apply(o, widget) /\ hand' = [hand EXCEPT ![t] = Nothing]
    BY <1>0, <1>2, KindsOfHands DEF HandleModelUpdate, Take, Sets
  <2>2. /\ o.action = "apply"
        /\ s.visible_generation = sync.next_generation + 1
        /\ s.accepted_generation = sync.next_generation + 1
        /\ s.visible_value = v /\ s.accepted_value = v
        /\ ~s.result_timed_out
    BY <1>0, <2>1, ModelChangedIs
  <2> HIDE DEF o
  <2>3. sync' = s /\ widget' = sync'.visible_value
    BY <2>1, <2>2, ApplyShows
  <2>4. ~Alone'
    BY <2>1 DEF Alone, Sets
  <2>5. Flying' \subseteq Flying
    BY <1>0, <2>1 DEF Flying, Waits
  <2>6. ASSUME shown' = core'.version
        PROVE  Showing(sync', Flying', core'.value)
    <3>1. v = core.value
      BY <1>0, <1>2, <2>1, <2>6 DEF ConvergeInv, BusInv, Stamped, HandleModelUpdate
    <3>2. \A e \in Flying' : e.generation <= s.accepted_generation
      <4>1. \A e \in Flying : e.generation \in Nat
        BY <1>0, AnswerFields
      <4> QED
        BY <1>0, <2>2, <2>5, <4>1, GoodFields
    <3> QED
      BY <1>0, <2>2, <2>3, <3>1, <3>2 DEF Showing, Same
  <2> QED
    BY <1>1, <2>2, <2>3, <2>4, <2>6 DEF ConvergeInv, ScreenInv, Given
<1>3. CASE HandlePublishResult
  <2> DEFINE a == hand[Loop]
             g == a.generation
             v == a.value
             o == PublishResult(sync, g, v, TRUE)
             s == o.sync
  <2>1. /\ a.kind = "result" /\ Apply(o, widget) /\ hand'[Loop] = Nothing
        /\ shown' = shown
    BY <1>0, <1>3 DEF HandlePublishResult, Take
  <2>2. /\ a \in Answers /\ Carries(a) /\ Done(a)
        /\ g \in Generation /\ v \in Values
    <3>1. a \in Answers /\ Carries(a) /\ Done(a)
      BY <1>0, <2>1, KindsOfHands DEF Answers, Carries, Done
    <3> QED
      BY <3>1, AnswerFields
  <2>3. Flying = CW \cup {a} /\ Flying' = CW /\ CW \subseteq Answers
    BY <1>0, <2>1, <2>2 DEF Flying, Waits
  <2>4. o.action = "apply" \/ s.visible_value = widget
    <3>1. CASE g = 0
      BY <1>0, <3>1 DEF PublishResult, Outcome
    <3>2. CASE g # 0
      BY <1>0, <2>2, <3>2, PublishResultIs DEF Published
    <3> QED
      BY <3>1, <3>2
  <2>5. Given(s)
    BY <1>0, <2>2, PublishResultGiven
  <2>6. ASSUME Showing(sync, Flying, w)
        PROVE  Showing(s, CW, w)
    <3>1. Showing(sync, CW, w) /\ g <= sync.accepted_generation
      BY <2>2, <2>3, <2>6 DEF Showing
    <3> HIDE DEF CW
    <3> QED
      BY <1>0, <2>2, <2>3, <3>1, PublishResultShows
  <2>7. ASSUME Lined, Answering(sync, Flying, w)
        PROVE  Lined' /\ Answering(s, CW, w)
    <3>1. Lined'
      BY <1>0, <2>1, <2>7, LinedStays DEF HandStays
    <3>2. \A e \in CW : g < e.generation
      BY <2>1, <2>2, <2>7, HandIsFirst DEF InOrder
    <3> HIDE DEF CW
    <3> QED
      BY <1>0, <2>2, <2>3, <2>7, <3>1, <3>2, PublishResultAnswers
  <2> HIDE DEF o, CW
  <2>8. sync' = s /\ widget' = sync'.visible_value
    BY <2>1, <2>4, ApplyShows
  <2>9. Alone' = Alone
    BY <1>0, <2>1 DEF Alone
  <2> QED
    BY <1>0, <1>1, <2>1, <2>3, <2>5, <2>6, <2>7, <2>8, <2>9
       DEF ConvergeInv, ScreenInv, Given
<1> QED
  BY <1>2, <1>3

LEMMA InitConverges == Init => ConvergeInv
<1> SUFFICES ASSUME Init PROVE ConvergeInv
  OBVIOUS
<1>1. /\ queue = <<>> /\ slot = Nothing /\ hand = [t \in Tasks |-> Nothing]
      /\ core = [value |-> Default, version |-> 0] /\ shown = -1
      /\ sync = Fresh(Default) /\ widget = Default
  BY DEF Init
<1>2. BusInv /\ ScreenInv
  BY <1>1 DEF BusInv, ScreenInv, Stamped, Carries, Nothing, Given, Fresh, Tasks
<1>3. Waits = {} /\ ~Carries(hand[Loop])
  BY <1>1 DEF Waits, Carries, Nothing, Tasks
<1>4. Flying = {} /\ Lined
  BY <1>1, <1>3 DEF Flying, Lined
<1>5. Answering(sync, {}, core.value)
  BY <1>1 DEF Fresh, Answering, Pends, Same, Newest
<1> QED
  BY <1>1, <1>2, <1>4, <1>5 DEF ConvergeInv

\* At rest the widget shows the value of the core, once the SET of the last
\* commit was the last one shown, and also when no SET has come at all but the
\* answers did: for every length of the queue, every set of values and however
\* often the user, timeouts and rejected posts came in between, as long as the
\* 32-bit generations have not wrapped.
THEOREM WidgetFollowsCore == Spec /\ []Unwrapped => []WidgetConverges
<1>1. Init => TypeOK /\ WatchInv /\ ConvergeInv
  BY InitTyped, InitWatched, InitConverges
<1>2. TypeOK /\ WatchInv /\ ConvergeInv /\ Unwrapped /\ [Next]_vars
        => (TypeOK /\ WatchInv /\ ConvergeInv)'
  <2> SUFFICES ASSUME TypeOK, WatchInv, ConvergeInv, Unwrapped, [Next]_vars
               PROVE  TypeOK' /\ WatchInv' /\ ConvergeInv'
    OBVIOUS
  <2>1. TypeOK' /\ WatchInv'
    BY StepTyped, StepWatched
  <2>2. Loop \in Tasks /\ Retry \in Tasks
    BY DEF Tasks
  <2>3. ConvergeInv'
    BY <2>2, UserStep, DeliveryStep, CoreStep, HandlerStep
       DEF Next, Deliver, Redeliver
  <2> QED
    BY <2>1, <2>3
<1> QED
  BY <1>1, <1>2, ConvergeAtRest, PTL DEF Spec
=============================================================================
