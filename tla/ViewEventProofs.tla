-------------------------- MODULE ViewEventProofs --------------------------
(***************************************************************************)
(* Safety of the view-event delivery module for every number of producers, *)
(* keys, slots and queue places.  The inductive invariants say, beside the *)
(* types, who may be inside a critical section (LockInv) and where the     *)
(* token of every used slot is (OneTokenPerUsedSlot); that no place holds  *)
(* a slot's token twice bounds the retry queue (RoomForOneMore).  HeldInv  *)
(* says which value of its key every slot holds.                           *)
(***************************************************************************)
EXTENDS ViewEvent, SequenceTheorems, FiniteSetTheorems, TLAPS

\* Type correctness of publishers, command posts, both delivery tasks and the
\* queues between them: no event is queued beyond a queue's length, and nobody
\* works on a slot or an event that does not exist.
THEOREM TypeCorrect == Spec => []TypeOK
<1>1. Init => TypeOK
  <2> SUFFICES ASSUME Init PROVE TypeOK
    OBVIOUS
  <2>1. TypeBus
    BY Assumptions DEF Init, TypeBus
  <2>2. TypeQueues
    BY Assumptions DEF Init, TypeQueues
  <2>3. TypeCall
    BY Assumptions DEF Init, TypeCall, CallPc, Slots
  <2>4. TypeTask
    BY Assumptions DEF Init, TypeTask, TaskPc, Token, State, Slots
  <2>5. TypeGhost
    BY DEF Init, TypeGhost
  <2> QED BY <2>1, <2>2, <2>3, <2>4, <2>5 DEF TypeOK
<1>2. TypeOK /\ [Next]_vars => TypeOK'
  <2> SUFFICES ASSUME TypeOK, [Next]_vars PROVE TypeOK'
    OBVIOUS
  <2> USE DEF TypeOK
  <2>1. ASSUME NEW th \in Threads, NEW k \in Keys,
         PublishLock(th, k)
        PROVE TypeOK'
    <3>1. TypeBus'
      BY <2>1, Assumptions DEF PublishLock, TypeBus, Threads, Entry, TypeCall,
         TypeGhost
    <3>2. TypeCall'
      BY <2>1, Assumptions DEF PublishLock, TypeCall, GoCall, CallPc, Slots
    <3>3. TypeGhost'
      BY <2>1 DEF PublishLock, TypeGhost, ghost, calls, Entry, TypeTask,
         TypeCall
    <3>4. TypeQueues' /\ TypeTask'
      BY <2>1 DEF PublishLock, TypeQueues, TypeTask, bus, task
    <3> QED BY <3>1, <3>2, <3>3, <3>4
  <2>2. ASSUME NEW th \in Threads,
         PublishBusy(th)
        PROVE TypeOK'
    <3>1. TypeGhost'
      BY <2>2 DEF PublishBusy, TypeGhost, ghost, calls, Entry, TypeTask,
         TypeCall
    <3>2. TypeBus' /\ TypeQueues' /\ TypeCall' /\ TypeTask'
      BY <2>2 DEF PublishBusy, TypeBus, TypeQueues, TypeCall, TypeTask, bus,
         call, task
    <3> QED BY <3>1, <3>2
  <2>3. ASSUME NEW th \in Threads,
         PostBegin(th)
        PROVE TypeOK'
    <3>1. TypeCall'
      BY <2>3, Assumptions DEF PostBegin, TypeCall, GoCall, CallPc, Slots
    <3>2. TypeGhost'
      BY <2>3 DEF PostBegin, TypeGhost, ghost, calls, Entry, TypeTask, TypeCall
    <3>3. TypeBus' /\ TypeQueues' /\ TypeTask'
      BY <2>3 DEF PostBegin, TypeBus, TypeQueues, TypeTask, bus, task
    <3> QED BY <3>1, <3>2, <3>3
  <2>4. ASSUME NEW th \in Threads,
         PublishCoalesce(th)
        PROVE TypeOK'
    <3>1. TypeBus'
      BY <2>4, Assumptions DEF PublishCoalesce, TypeBus, Threads, Entry,
         TypeCall, TypeGhost, Holds, Used, NextEntry
    <3>2. TypeCall'
      BY <2>4, Assumptions DEF PublishCoalesce, TypeCall, GoCall, CallPc,
         Slots, Holds, Used, NextEntry
    <3>3. TypeGhost'
      BY <2>4 DEF PublishCoalesce, TypeGhost, ghost, calls, Entry, TypeTask,
         TypeCall, Holds, Used, NextEntry
    <3>4. TypeQueues' /\ TypeTask'
      BY <2>4 DEF PublishCoalesce, TypeQueues, TypeTask, bus, task
    <3> QED BY <3>1, <3>2, <3>3, <3>4
  <2>5. ASSUME NEW th \in Threads,
         PublishClaim(th)
        PROVE TypeOK'
    <3>1. TypeBus'
      BY <2>5, Assumptions DEF PublishClaim, TypeBus, Threads, Entry, TypeCall,
         TypeGhost, Used, NextEntry
    <3>2. TypeCall'
      BY <2>5, Assumptions DEF PublishClaim, TypeCall, GoCall, CallPc, Slots,
         Used, NextEntry
    <3>3. TypeQueues' /\ TypeTask' /\ TypeGhost'
      BY <2>5 DEF PublishClaim, TypeQueues, TypeTask, TypeGhost, bus, task,
         ghost, calls
    <3> QED BY <3>1, <3>2, <3>3
  <2>6. ASSUME NEW th \in Threads,
         PublishNoSlot(th)
        PROVE TypeOK'
    <3>1. TypeCall'
      BY <2>6, Assumptions DEF PublishNoSlot, TypeCall, GoCall, CallPc, Slots
    <3>2. TypeBus' /\ TypeQueues' /\ TypeTask' /\ TypeGhost'
      BY <2>6 DEF PublishNoSlot, TypeBus, TypeQueues, TypeTask, TypeGhost, bus,
         task, ghost, calls
    <3> QED BY <3>1, <3>2
  <2>7. ASSUME NEW th \in Threads,
         PublishPost(th)
        PROVE TypeOK'
    <3>1. TypeQueues'
      BY <2>7, Assumptions DEF PublishPost, TypeQueues, Token, TypeCall,
         TypeTask, TypeGhost, Enqueue, State
    <3>2. TypeCall'
      BY <2>7, Assumptions DEF PublishPost, TypeCall, GoCall, CallPc, Slots,
         Enqueue, State
    <3>3. TypeGhost'
      BY <2>7 DEF PublishPost, TypeGhost, ghost, calls, Entry, TypeTask,
         TypeCall, Enqueue, State
    <3>4. TypeBus' /\ TypeTask'
      BY <2>7 DEF PublishPost, TypeBus, TypeTask, bus, task
    <3> QED BY <3>1, <3>2, <3>3, <3>4
  <2>8. ASSUME NEW th \in Threads,
         PublishPostFails(th)
        PROVE TypeOK'
    <3>1. TypeBus'
      BY <2>8, Assumptions DEF PublishPostFails, TypeBus, Threads, Entry,
         TypeCall, TypeGhost
    <3>2. TypeCall'
      BY <2>8, Assumptions DEF PublishPostFails, TypeCall, GoCall, CallPc, Slots
    <3>3. TypeQueues' /\ TypeTask' /\ TypeGhost'
      BY <2>8 DEF PublishPostFails, TypeQueues, TypeTask, TypeGhost, bus, task,
         ghost, calls
    <3> QED BY <3>1, <3>2, <3>3
  <2>9. ASSUME NEW th \in Threads,
         PublishUnlock(th)
        PROVE TypeOK'
    <3>1. TypeBus'
      BY <2>9, Assumptions DEF PublishUnlock, TypeBus, Threads, Entry,
         TypeCall, TypeGhost
    <3>2. TypeCall'
      BY <2>9, Assumptions DEF PublishUnlock, TypeCall, GoCall, CallPc, Slots
    <3>3. TypeQueues' /\ TypeTask' /\ TypeGhost'
      BY <2>9 DEF PublishUnlock, TypeQueues, TypeTask, TypeGhost, bus, task,
         ghost, calls
    <3> QED BY <3>1, <3>2, <3>3
  <2>10. ASSUME NEW th \in Threads,
         PostAccepted(th)
        PROVE TypeOK'
    <3>1. TypeQueues'
      BY <2>10, Assumptions DEF PostAccepted, TypeQueues, Token, TypeCall,
         TypeTask, TypeGhost, Enqueue, Command
    <3>2. TypeCall'
      BY <2>10, Assumptions DEF PostAccepted, TypeCall, GoCall, CallPc, Slots,
         Enqueue, Command
    <3>3. TypeGhost'
      BY <2>10 DEF PostAccepted, TypeGhost, ghost, calls, Entry, TypeTask,
         TypeCall, Enqueue, Command
    <3>4. TypeBus' /\ TypeTask'
      BY <2>10 DEF PostAccepted, TypeBus, TypeTask, bus, task
    <3> QED BY <3>1, <3>2, <3>3, <3>4
  <2>11. ASSUME NEW th \in Threads,
         PostFails(th)
        PROVE TypeOK'
    <3>1. TypeCall'
      BY <2>11, Assumptions DEF PostFails, TypeCall, GoCall, CallPc, Slots
    <3>2. TypeBus' /\ TypeQueues' /\ TypeTask' /\ TypeGhost'
      BY <2>11 DEF PostFails, TypeBus, TypeQueues, TypeTask, TypeGhost, bus,
         task, ghost, calls
    <3> QED BY <3>1, <3>2
  <2>12. CASE LoopReceive
    <3>1. TypeQueues'
      BY <2>12, Assumptions DEF LoopReceive, TypeQueues, Token, TypeCall,
         TypeTask, TypeGhost
    <3>2. TypeTask'
      BY <2>12, Assumptions DEF LoopReceive, TypeTask, Go, TaskPc, Token,
         Slots, Tasks, TypeQueues, TypeBus
    <3>3. TypeBus' /\ TypeCall' /\ TypeGhost'
      BY <2>12 DEF LoopReceive, TypeBus, TypeCall, TypeGhost, bus, call, ghost,
         calls
    <3> QED BY <3>1, <3>2, <3>3
  <2>13. CASE RetryReceive
    <3>1. TypeQueues'
      BY <2>13, Assumptions DEF RetryReceive, TypeQueues, Token, TypeCall,
         TypeTask, TypeGhost, State
    <3>2. TypeTask'
      BY <2>13, Assumptions DEF RetryReceive, TypeTask, Go, TaskPc, Token,
         Slots, Tasks, TypeQueues, TypeBus, State
    <3>3. TypeBus' /\ TypeCall' /\ TypeGhost'
      BY <2>13 DEF RetryReceive, TypeBus, TypeCall, TypeGhost, bus, call,
         ghost, calls
    <3> QED BY <3>1, <3>2, <3>3
  <2>14. ASSUME NEW t \in Tasks,
         DispatchLock(t)
        PROVE TypeOK'
    <3>1. TypeBus'
      BY <2>14, Assumptions DEF DispatchLock, TypeBus, Threads, Entry,
         TypeCall, TypeGhost
    <3>2. TypeTask'
      BY <2>14, Assumptions DEF DispatchLock, TypeTask, Go, TaskPc, Token,
         Slots, Tasks, TypeQueues, TypeBus
    <3>3. TypeQueues' /\ TypeCall' /\ TypeGhost'
      BY <2>14 DEF DispatchLock, TypeQueues, TypeCall, TypeGhost, bus, call,
         ghost, calls
    <3> QED BY <3>1, <3>2, <3>3
  <2>15. ASSUME NEW t \in Tasks,
         DispatchDefer(t)
        PROVE TypeOK'
    <3>1. TypeBus'
      BY <2>15, Assumptions DEF DispatchDefer, TypeBus, Threads, Entry,
         TypeCall, TypeGhost, Done, State
    <3>2. TypeQueues'
      <4>1. hand[t].ref \in Slots
        BY <2>15 DEF DispatchDefer, TypeTask, Token
      <4>2. CASE Len(retryQ) < NumSlots
        BY <2>15, <4>1, <4>2, Assumptions DEF DispatchDefer, TypeQueues
      <4>3. CASE ~(Len(retryQ) < NumSlots)
        BY <2>15, <4>3 DEF DispatchDefer, TypeQueues
      <4> QED BY <4>2, <4>3
    <3>3. TypeTask'
      BY <2>15, Assumptions DEF DispatchDefer, TypeTask, Go, TaskPc, Token,
         Slots, Tasks, TypeQueues, TypeBus, Done, State
    <3>4. TypeCall' /\ TypeGhost'
      BY <2>15 DEF DispatchDefer, TypeCall, TypeGhost, call, ghost, calls
    <3> QED BY <3>1, <3>2, <3>3, <3>4
  <2>16. ASSUME NEW t \in Tasks,
         DispatchCopy(t)
        PROVE TypeOK'
    <3>1. TypeTask'
      BY <2>16, Assumptions DEF DispatchCopy, TypeTask, Go, TaskPc, Token,
         Slots, Tasks, TypeQueues, TypeBus
    <3>2. TypeBus' /\ TypeQueues' /\ TypeCall' /\ TypeGhost'
      BY <2>16 DEF DispatchCopy, TypeBus, TypeQueues, TypeCall, TypeGhost, bus,
         call, ghost, calls
    <3> QED BY <3>1, <3>2
  <2>17. ASSUME NEW t \in Tasks,
         DispatchClear(t)
        PROVE TypeOK'
    <3>1. TypeBus'
      BY <2>17, Assumptions DEF DispatchClear, TypeBus, Threads, Entry,
         TypeCall, TypeGhost, Done, State
    <3>2. TypeTask'
      BY <2>17, Assumptions DEF DispatchClear, TypeTask, Go, TaskPc, Token,
         Slots, Tasks, TypeQueues, TypeBus, Done, State
    <3>3. TypeGhost'
      BY <2>17 DEF DispatchClear, TypeGhost, ghost, calls, Entry, TypeTask,
         TypeCall, Done, State
    <3>4. TypeQueues' /\ TypeCall'
      BY <2>17 DEF DispatchClear, TypeQueues, TypeCall, bus, call
    <3> QED BY <3>1, <3>2, <3>3, <3>4
  <2>18. ASSUME NEW t \in Tasks,
         HandlerReturn(t)
        PROVE TypeOK'
    <3>1. TypeTask'
      BY <2>18, Assumptions DEF HandlerReturn, TypeTask, Go, TaskPc, Token,
         Slots, Tasks, TypeQueues, TypeBus, Done, State
    <3>2. TypeGhost'
      <4>1. CASE hand[t].kind = "command"
        BY <2>18, <4>1 DEF HandlerReturn, TypeGhost, calls
      <4>2. CASE hand[t].kind # "command"
        <5>1. copy[t] \in Entry
          BY <2>18, <4>2 DEF HandlerReturn, TypeTask, Token
        <5> QED BY <2>18, <4>2, <5>1 DEF HandlerReturn, TypeGhost, calls, Entry
      <4> QED BY <4>1, <4>2
    <3>3. TypeBus' /\ TypeQueues' /\ TypeCall'
      BY <2>18 DEF HandlerReturn, TypeBus, TypeQueues, TypeCall, bus, call
    <3> QED BY <3>1, <3>2, <3>3
  <2>19. CASE UNCHANGED vars
    BY <2>19 DEF vars, TypeBus, TypeQueues, TypeCall, TypeTask, TypeGhost
  <2> QED
    BY <2>1, <2>2, <2>3, <2>4, <2>5, <2>6, <2>7, <2>8, <2>9, <2>10, <2>11,
       <2>12, <2>13, <2>14, <2>15, <2>16, <2>17, <2>18, <2>19
    DEF Next, CallStep, DispatchStep
<1> QED
  BY <1>1, <1>2, PTL DEF Spec

-----------------------------------------------------------------------------
(* Queues: what appending and removing the head does to what occurs. *)

LEMMA AppendOccurs ==
  ASSUME NEW S, NEW q \in Seq(S), NEW e \in S, NEW x
  PROVE  /\ Occurs(x, Append(q, e)) <=> Occurs(x, q) \/ x = e
         /\ AtMostOnce(x, q) /\ ~(x = e /\ Occurs(x, q))
              => AtMostOnce(x, Append(q, e))
<1>1. /\ DOMAIN Append(q, e) = 1 .. Len(q) + 1
      /\ DOMAIN q = 1 .. Len(q)
      /\ Len(q) \in Nat
      /\ \A i \in 1 .. Len(q) : Append(q, e)[i] = q[i]
      /\ Append(q, e)[Len(q) + 1] = e
  OBVIOUS
<1> QED BY <1>1 DEF Occurs, AtMostOnce

LEMMA TailOccurs ==
  ASSUME NEW S, NEW q \in Seq(S), q # <<>>, NEW x
  PROVE  /\ Occurs(x, q) <=> Occurs(x, Tail(q)) \/ x = Head(q)
         /\ AtMostOnce(x, q) =>
              /\ AtMostOnce(x, Tail(q))
              /\ x = Head(q) => ~Occurs(x, Tail(q))
<1>1. /\ DOMAIN Tail(q) = 1 .. Len(q) - 1
      /\ DOMAIN q = 1 .. Len(q)
      /\ Len(q) \in Nat \ {0}
      /\ \A i \in 1 .. Len(q) - 1 : Tail(q)[i] = q[i + 1]
      /\ Head(q) = q[1]
  OBVIOUS
<1>2. ASSUME NEW i \in DOMAIN q, q[i] = x, x # Head(q)
      PROVE  Occurs(x, Tail(q))
  <2>1. (i - 1) \in DOMAIN Tail(q) /\ Tail(q)[i - 1] = q[i]
    BY <1>1, <1>2
  <2> QED BY <1>2, <2>1 DEF Occurs
<1>3. Occurs(x, Tail(q)) \/ x = Head(q) => Occurs(x, q)
  BY <1>1 DEF Occurs
<1>4. ASSUME AtMostOnce(x, q)
      PROVE  AtMostOnce(x, Tail(q)) /\ (x = Head(q) => ~Occurs(x, Tail(q)))
  BY <1>1, <1>4 DEF Occurs, AtMostOnce
<1> QED BY <1>2, <1>3, <1>4 DEF Occurs

\* Distinct slots that miss one of them do not fill the retry queue.
LEMMA RoomForOneMore ==
  ASSUME NEW q \in Seq(Slots), \A x \in Slots : AtMostOnce(x, q),
         NEW s \in Slots, ~Occurs(s, q)
  PROVE  Len(q) < NumSlots
<1> DEFINE T == Slots \ {s}
<1>1. /\ Len(q) \in Nat
      /\ q \in [1 .. Len(q) -> Slots]
      /\ DOMAIN q = 1 .. Len(q)
  OBVIOUS
<1>2. q \in Injection(1 .. Len(q), T)
  BY <1>1 DEF Injection, IsInjective, Occurs, AtMostOnce
<1>3. IsFiniteSet(Slots) /\ Cardinality(Slots) = NumSlots
  BY Assumptions, FS_Interval DEF Slots
<1>4. IsFiniteSet(T) /\ Cardinality(T) = NumSlots - 1
  BY <1>3, FS_RemoveElement
<1>5. Cardinality(1 .. Len(q)) <= Cardinality(T)
  BY <1>2, <1>4, FS_Injection
<1>6. Cardinality(1 .. Len(q)) = Len(q)
  BY <1>1, FS_Interval
<1> QED BY <1>1, <1>4, <1>5, <1>6, Assumptions

-----------------------------------------------------------------------------
(***************************************************************************)
(* Mutual exclusion: whoever is in publish_state's or dispatch_state's     *)
(* critical section holds the lock, and a task calls the module only from  *)
(* inside a handler.                                                       *)
(***************************************************************************)
InCriticalSection(th) ==
  \/ callPc[th] \in {"scan", "post", "unlock"}
  \/ th \in Tasks /\ pc[th] \in {"copy", "clear"}

LockInv ==
  /\ \A th \in Threads : InCriticalSection(th) => lock = th
  /\ \A t \in Tasks : callPc[t] # "idle" => pc[t] = "handle"

LEMMA NoThreadIsNoThread == NoThread \notin Threads
  BY Assumptions DEF Threads, Tasks, Loop, Retry, NoThread

\* The delivery lock excludes: at most one thread is in a critical section.
THEOREM LockCorrect == Spec => []LockInv
<1>1. Init => LockInv
  BY DEF Init, LockInv, InCriticalSection, Threads
<1>2. TypeOK /\ LockInv /\ [Next]_vars => LockInv'
  <2> SUFFICES ASSUME TypeOK, LockInv, [Next]_vars PROVE LockInv'
    OBVIOUS
  <2> USE DEF TypeOK, TypeCall, TypeTask, LockInv, InCriticalSection, Threads
  <2>1. ASSUME NEW th \in Threads, NEW k \in Keys, PublishLock(th, k)
        PROVE  LockInv'
    BY <2>1, NoThreadIsNoThread DEF PublishLock, MayCall, GoCall, task
  <2>2. ASSUME NEW th \in Threads, PublishBusy(th) PROVE LockInv'
    BY <2>2 DEF PublishBusy, bus, call, task
  <2>3. ASSUME NEW th \in Threads, PostBegin(th) PROVE LockInv'
    BY <2>3 DEF PostBegin, MayCall, GoCall, bus, task
  <2>4. ASSUME NEW th \in Threads, PublishCoalesce(th) PROVE LockInv'
    BY <2>4 DEF PublishCoalesce, GoCall, task
  <2>5. ASSUME NEW th \in Threads, PublishClaim(th) PROVE LockInv'
    BY <2>5 DEF PublishClaim, GoCall, task
  <2>6. ASSUME NEW th \in Threads, PublishNoSlot(th) PROVE LockInv'
    BY <2>6 DEF PublishNoSlot, GoCall, bus, task
  <2>7. ASSUME NEW th \in Threads, PublishPost(th) PROVE LockInv'
    BY <2>7 DEF PublishPost, GoCall, task
  <2>8. ASSUME NEW th \in Threads, PublishPostFails(th) PROVE LockInv'
    BY <2>8 DEF PublishPostFails, GoCall, task
  <2>9. ASSUME NEW th \in Threads, PublishUnlock(th) PROVE LockInv'
    BY <2>9 DEF PublishUnlock, GoCall, task
  <2>10. ASSUME NEW th \in Threads, PostAccepted(th) PROVE LockInv'
    BY <2>10 DEF PostAccepted, GoCall, task
  <2>11. ASSUME NEW th \in Threads, PostFails(th) PROVE LockInv'
    BY <2>11 DEF PostFails, GoCall, bus, task
  <2>12. CASE LoopReceive
    BY <2>12 DEF LoopReceive, Go, call, Tasks
  <2>13. CASE RetryReceive
    BY <2>13 DEF RetryReceive, Go, call, Tasks
  <2>14. ASSUME NEW t \in Tasks, DispatchLock(t) PROVE LockInv'
    BY <2>14, NoThreadIsNoThread DEF DispatchLock, Go, call
  <2>15. ASSUME NEW t \in Tasks, DispatchDefer(t) PROVE LockInv'
    BY <2>15 DEF DispatchDefer, Done, Go, call
  <2>16. ASSUME NEW t \in Tasks, DispatchCopy(t) PROVE LockInv'
    BY <2>16 DEF DispatchCopy, Go, bus, call
  <2>17. ASSUME NEW t \in Tasks, DispatchClear(t) PROVE LockInv'
    BY <2>17 DEF DispatchClear, Done, Go, call
  <2>18. ASSUME NEW t \in Tasks, HandlerReturn(t) PROVE LockInv'
    BY <2>18 DEF HandlerReturn, Done, Go, bus, call
  <2>19. CASE UNCHANGED vars
    BY <2>19 DEF vars
  <2> QED
    BY <2>1, <2>2, <2>3, <2>4, <2>5, <2>6, <2>7, <2>8, <2>9, <2>10, <2>11,
       <2>12, <2>13, <2>14, <2>15, <2>16, <2>17, <2>18, <2>19
    DEF Next, CallStep, DispatchStep
<1> QED
  BY <1>1, <1>2, TypeCorrect, PTL DEF Spec

-----------------------------------------------------------------------------
(***************************************************************************)
(* The token invariant.  A step leaves the token of a slot where it is,    *)
(* moves it to one place, or removes it together with the slot's value.    *)
(***************************************************************************)
TokenStays(s) ==
  /\ Used(s)' <=> Used(s)
  /\ \A p \in Places : TokenIn(p, s)' <=> TokenIn(p, s)

TokenGoesTo(b, s) ==
  /\ Used(s)'
  /\ \A p \in Places : TokenIn(p, s)' <=> p = b

TokenGoes(s) ==
  /\ ~Used(s)'
  /\ \A p \in Places : ~TokenIn(p, s)'

Posting(s) == \E th \in Threads : callPc[th] = "post" /\ callSlot[th] = s
Dispatching(t, s) == pc[t] \in {"lock", "copy", "clear"} /\ hand[t] = State(s)

LEMMA TokenStaysPut ==
  ASSUME NEW s \in Slots,
         Used(s)' <=> Used(s),
         Occurs(State(s), eventQ)' <=> Occurs(State(s), eventQ),
         Occurs(s, retryQ)' <=> Occurs(s, retryQ),
         Posting(s)' <=> Posting(s),
         \A t \in Tasks : Dispatching(t, s)' <=> Dispatching(t, s)
  PROVE  TokenStays(s)
<1> SUFFICES ASSUME NEW p \in Places PROVE TokenIn(p, s)' <=> TokenIn(p, s)
  BY DEF TokenStays
<1>1. CASE p = "event queue"
  BY <1>1 DEF TokenIn, Tasks, Loop, Retry
<1>2. CASE p = "retry queue"
  BY <1>2 DEF TokenIn, Tasks, Loop, Retry
<1>3. CASE p = "publisher"
  BY <1>3 DEF TokenIn, Posting, Tasks, Loop, Retry
<1>4. CASE p \in Tasks
  BY <1>4 DEF TokenIn, Dispatching, Tasks, Loop, Retry
<1> QED BY <1>1, <1>2, <1>3, <1>4 DEF Places

LEMMA TokenStep ==
  ASSUME OneTokenPerUsedSlot,
         \A s \in Slots : AtMostOnce(State(s), eventQ)' /\ AtMostOnce(s, retryQ)',
         \A s \in Slots : \/ TokenStays(s)
                          \/ \E b \in Places : TokenGoesTo(b, s)
                          \/ TokenGoes(s)
  PROVE  OneTokenPerUsedSlot'
<1> SUFFICES ASSUME NEW s \in Slots
             PROVE  /\ (Used(s) <=> \E p \in Places : TokenIn(p, s))'
                    /\ (\A p, r \in Places : TokenIn(p, s) /\ TokenIn(r, s) => p = r)'
  BY DEF OneTokenPerUsedSlot
<1>1. CASE TokenStays(s)
  BY <1>1 DEF OneTokenPerUsedSlot, TokenStays
<1>2. ASSUME NEW b \in Places, TokenGoesTo(b, s)
      PROVE  /\ (Used(s) <=> \E p \in Places : TokenIn(p, s))'
             /\ (\A p, r \in Places : TokenIn(p, s) /\ TokenIn(r, s) => p = r)'
  BY <1>2 DEF TokenGoesTo
<1>3. CASE TokenGoes(s)
  BY <1>3 DEF TokenGoes
<1> QED BY <1>1, <1>2, <1>3

\* Steps that touch neither a queue nor what says where a token is.
LEMMA NoTokenMoves ==
  ASSUME OneTokenPerUsedSlot, UNCHANGED <<eventQ, retryQ>>,
         \A s \in Slots : Used(s)' <=> Used(s),
         \A th \in Threads, s \in Slots :
           (callPc[th] = "post" /\ callSlot[th] = s)'
             <=> callPc[th] = "post" /\ callSlot[th] = s,
         \A t \in Tasks, s \in Slots :
           (pc[t] \in {"lock", "copy", "clear"} /\ hand[t] = State(s))'
             <=> pc[t] \in {"lock", "copy", "clear"} /\ hand[t] = State(s)
  PROVE  OneTokenPerUsedSlot'
<1>1. \A s \in Slots : AtMostOnce(State(s), eventQ)' /\ AtMostOnce(s, retryQ)'
  BY DEF OneTokenPerUsedSlot, AtMostOnce
<1>2. ASSUME NEW s \in Slots PROVE TokenStays(s)
  <2>1. \A p \in Places : TokenIn(p, s)' <=> TokenIn(p, s)
    BY DEF TokenIn, Occurs
  <2> QED BY <2>1 DEF TokenStays
<1> QED BY <1>1, <1>2, TokenStep

\* A waiting token never leaves its slot: OneTokenPerUsedSlot holds always, and
\* with it the retry queue has room for every deferred token, whatever the
\* number of producers, keys, slots and queue places.
THEOREM TokensCorrect == Spec => []TokensAreKept
<1>1. Init => TokensAreKept
  BY DEF Init, TokensAreKept, OneTokenPerUsedSlot, RetryNeverOverflows, Used,
     TokenIn,
         Occurs, AtMostOnce
<1>2. TypeOK /\ LockInv /\ TokensAreKept /\ [Next]_vars => TokensAreKept'
  <2> SUFFICES ASSUME TypeOK, LockInv, TokensAreKept, [Next]_vars PROVE TokensAreKept'
    OBVIOUS
  <2> USE DEF TypeOK, TokensAreKept, RetryNeverOverflows
  <2>1. ASSUME NEW th \in Threads, NEW k \in Keys, PublishLock(th, k)
        PROVE  TokensAreKept'
    BY <2>1, NoTokenMoves DEF PublishLock, MayCall, GoCall, TypeCall, task, Used
  <2>2. ASSUME NEW th \in Threads, PublishBusy(th) PROVE TokensAreKept'
    BY <2>2, NoTokenMoves DEF PublishBusy, bus, call, task, Used
  <2>3. ASSUME NEW th \in Threads, PostBegin(th) PROVE TokensAreKept'
    BY <2>3, NoTokenMoves DEF PostBegin, MayCall, GoCall, TypeCall, bus, task,
       Used
  <2>4. ASSUME NEW th \in Threads, PublishCoalesce(th) PROVE TokensAreKept'
    <3>1. \A s \in Slots : Used(s)' <=> Used(s)
      BY <2>4, Assumptions DEF PublishCoalesce, Holds, Used, NextEntry, TypeBus,
         TypeCall, TypeGhost, Entry
    <3> QED
      BY <2>4, <3>1, NoTokenMoves DEF PublishCoalesce, GoCall, TypeCall, task
  <2>5. ASSUME NEW th \in Threads, PublishClaim(th) PROVE TokensAreKept'
    <3>1. PICK x \in Slots : /\ ~Used(x)
                             /\ slots' = [slots EXCEPT ![x] = NextEntry(th)]
                             /\ callSlot' = [callSlot EXCEPT ![th] = x]
      BY <2>5 DEF PublishClaim
    <3>2. NextEntry(th) # NoEntry
      BY <2>5, Assumptions DEF PublishClaim, NextEntry, Entry, TypeCall,
         TypeGhost
    <3>3. \A s \in Slots : Used(s)' <=> Used(s) \/ s = x
      BY <3>1, <3>2 DEF Used, TypeBus
    <3>4. \A s \in Slots : ~(callPc[th] = "post" /\ callSlot[th] = s)
      BY <2>5 DEF PublishClaim
    <3>5. ASSUME NEW s \in Slots, s # x PROVE TokenStays(s)
      <4>1. \A p \in Places : TokenIn(p, s)' <=> TokenIn(p, s)
        BY <2>5, <3>1, <3>4, <3>5
        DEF PublishClaim, GoCall, TokenIn, TypeCall, task
      <4> QED BY <3>3, <3>5, <4>1 DEF TokenStays
    <3>6. TokenGoesTo("publisher", x)
      <4>1. \A p \in Places : ~TokenIn(p, x)
        BY <3>1 DEF OneTokenPerUsedSlot
      <4>2. TokenIn("publisher", x)'
        BY <2>5, <3>1 DEF PublishClaim, GoCall, TokenIn, TypeCall
      <4>3. \A p \in Places : p # "publisher" => (TokenIn(p, x)' <=> TokenIn(p, x))
        BY <2>5 DEF PublishClaim, TokenIn, task
      <4> QED BY <3>3, <4>1, <4>2, <4>3 DEF TokenGoesTo
    <3>7. \A s \in Slots : AtMostOnce(State(s), eventQ)' /\ AtMostOnce(s, retryQ)'
      BY <2>5 DEF PublishClaim, OneTokenPerUsedSlot, AtMostOnce
    <3>8. "publisher" \in Places
      BY DEF Places
    <3> QED BY <2>5, <3>5, <3>6, <3>7, <3>8, TokenStep DEF PublishClaim
  <2>6. ASSUME NEW th \in Threads, PublishNoSlot(th) PROVE TokensAreKept'
    BY <2>6, NoTokenMoves DEF PublishNoSlot, GoCall, TypeCall, bus, task, Used
  <2>7. ASSUME NEW th \in Threads, PublishPost(th) PROVE TokensAreKept'
    <3>1. PICK x \in Slots : x = callSlot[th] /\ State(x) \in Token
      BY DEF TypeCall, State, Token
    <3>2. TokenIn("publisher", x)
      BY <2>7, <3>1 DEF PublishPost, TokenIn
    <3>3. Used(x) /\ \A p \in Places : TokenIn(p, x) => p = "publisher"
      BY <3>1, <3>2 DEF OneTokenPerUsedSlot, Places
    <3>4. ~Occurs(State(x), eventQ)
      <4>1. ~TokenIn("event queue", x)
        BY <3>3 DEF Places
      <4> QED BY <4>1 DEF TokenIn
    <3>5. eventQ \in Seq(Token) /\ eventQ' = Append(eventQ, State(x))
      BY <2>7, <3>1 DEF PublishPost, Enqueue, TypeQueues
    <3>6. \A s \in Slots :
            /\ Occurs(State(s), eventQ)' <=> Occurs(State(s), eventQ) \/ s = x
            /\ AtMostOnce(State(s), eventQ)'
      <4> TAKE s \in Slots
      <4>1. State(s) = State(x) <=> s = x
        BY DEF State
      <4>2. AtMostOnce(State(s), eventQ)
        BY DEF OneTokenPerUsedSlot
      <4>3. Occurs(State(s), Append(eventQ, State(x))) <=> Occurs(State(s), eventQ) \/ State(s) = State(x)
        BY <3>1, <3>5, AppendOccurs
      <4>4. AtMostOnce(State(s), Append(eventQ, State(x)))
        BY <3>1, <3>4, <3>5, <4>1, <4>2, AppendOccurs
      <4> QED BY <3>5, <4>1, <4>3, <4>4 DEF Occurs, AtMostOnce
    <3>7. \A th2 \in Threads : callPc[th2] = "post" => th2 = th
      BY <2>7 DEF LockInv, InCriticalSection, PublishPost
    <3>8. UNCHANGED <<slots, retryQ, callSlot, pc, hand>>
      BY <2>7 DEF PublishPost, task
    <3>9. \A th2 \in Threads : callPc'[th2] # "post"
      BY <2>7, <3>7 DEF PublishPost, GoCall, TypeCall
    <3>10. ASSUME NEW s \in Slots, s # x PROVE TokenStays(s)
      <4>1. ~Posting(s) /\ ~Posting(s)'
        BY <3>1, <3>7, <3>9, <3>10 DEF Posting
      <4>2. UNCHANGED <<slots, retryQ, pc, hand>>
        BY <3>8
      <4> QED BY <3>6, <3>10, <4>1, <4>2, TokenStaysPut DEF Used, Occurs, Dispatching
    <3>11. TokenGoesTo("event queue", x)
      <4>1. TokenIn("event queue", x)'
        BY <3>1, <3>6 DEF TokenIn
      <4>2. \A p \in Places : p # "event queue" => ~TokenIn(p, x)'
        <5> TAKE p \in Places
        <5>1. CASE p = "publisher"
          BY <5>1, <3>9 DEF TokenIn, Tasks, Loop, Retry
        <5>2. CASE p # "publisher" /\ p # "event queue"
          BY <5>2, <3>3, <3>8 DEF TokenIn, Occurs
        <5> QED BY <5>1, <5>2
      <4> QED BY <3>3, <3>8, <4>1, <4>2 DEF TokenGoesTo, Used
    <3>12. \A s \in Slots : AtMostOnce(s, retryQ)'
      BY <3>8 DEF OneTokenPerUsedSlot, AtMostOnce
    <3>13. "event queue" \in Places
      BY DEF Places
    <3> QED BY <2>7, <3>6, <3>10, <3>11, <3>12, <3>13, TokenStep DEF PublishPost
  <2>8. ASSUME NEW th \in Threads, PublishPostFails(th) PROVE TokensAreKept'
    <3>1. PICK x \in Slots : x = callSlot[th]
      BY DEF TypeCall
    <3>2. TokenIn("publisher", x)
      BY <2>8, <3>1 DEF PublishPostFails, TokenIn
    <3>3. \A p \in Places : TokenIn(p, x) => p = "publisher"
      BY <3>1, <3>2 DEF OneTokenPerUsedSlot, Places
    <3>4. UNCHANGED <<eventQ, retryQ, callSlot, pc, hand>>
      BY <2>8 DEF PublishPostFails, task
    <3>5. \A th2 \in Threads : callPc'[th2] # "post"
      BY <2>8 DEF LockInv, InCriticalSection, PublishPostFails, GoCall, TypeCall
    <3>6. /\ ~Used(x)'
          /\ \A s \in Slots : s # x => (Used(s)' <=> Used(s))
      BY <2>8, <3>1 DEF PublishPostFails, Used, TypeBus
    <3>7. ASSUME NEW s \in Slots, s # x PROVE TokenStays(s)
      <4>1. \A th2 \in Threads : ~(callPc[th2] = "post" /\ callSlot[th2] = s)
        BY <2>8, <3>1, <3>7 DEF LockInv, InCriticalSection, PublishPostFails
      <4>2. ~Posting(s) /\ ~Posting(s)'
        BY <3>5, <4>1 DEF Posting
      <4> QED BY <3>4, <3>6, <3>7, <4>2, TokenStaysPut DEF Occurs, Dispatching
    <3>8. TokenGoes(x)
      <4>1. \A p \in Places : ~TokenIn(p, x)'
        <5> TAKE p \in Places
        <5>1. CASE p = "publisher"
          BY <5>1, <3>5 DEF TokenIn, Tasks, Loop, Retry
        <5>2. CASE p # "publisher"
          BY <5>2, <3>3, <3>4 DEF TokenIn, Occurs
        <5> QED BY <5>1, <5>2
      <4> QED BY <3>6, <4>1 DEF TokenGoes
    <3>9. \A s \in Slots : AtMostOnce(State(s), eventQ)' /\ AtMostOnce(s, retryQ)'
      BY <3>4 DEF OneTokenPerUsedSlot, AtMostOnce
    <3> QED BY <2>8, <3>7, <3>8, <3>9, TokenStep DEF PublishPostFails
  <2>9. ASSUME NEW th \in Threads, PublishUnlock(th) PROVE TokensAreKept'
    BY <2>9, NoTokenMoves DEF PublishUnlock, GoCall, TypeCall, task, Used
  <2>10. ASSUME NEW th \in Threads, PostAccepted(th) PROVE TokensAreKept'
    <3>1. PICK c \in Token : /\ c.kind = "command"
                             /\ eventQ' = Append(eventQ, c)
      BY <2>10 DEF PostAccepted, Enqueue, Command, Token, TypeGhost
    <3>2. eventQ \in Seq(Token)
      BY DEF TypeQueues
    <3>3. \A s \in Slots : /\ Occurs(State(s), eventQ)' <=> Occurs(State(s), eventQ)
                           /\ AtMostOnce(State(s), eventQ)'
      <4> TAKE s \in Slots
      <4>1. State(s) # c
        BY <3>1 DEF State
      <4>2. AtMostOnce(State(s), eventQ)
        BY DEF OneTokenPerUsedSlot
      <4>3. /\ Occurs(State(s), Append(eventQ, c)) <=> Occurs(State(s), eventQ)
            /\ AtMostOnce(State(s), Append(eventQ, c))
        BY <3>2, <4>1, <4>2, AppendOccurs
      <4> QED BY <3>1, <4>3 DEF Occurs, AtMostOnce
    <3>4. UNCHANGED <<slots, retryQ, callSlot, pc, hand>>
      BY <2>10 DEF PostAccepted, task
    <3>5. \A th2 \in Threads : callPc'[th2] = "post" <=> callPc[th2] = "post"
      BY <2>10 DEF PostAccepted, GoCall, TypeCall
    <3>6. ASSUME NEW s \in Slots PROVE TokenStays(s)
      <4>1. \A p \in Places : TokenIn(p, s)' <=> TokenIn(p, s)
        BY <3>3, <3>4, <3>5 DEF TokenIn, Occurs
      <4> QED BY <3>4, <4>1 DEF TokenStays, Used
    <3>7. \A s \in Slots : AtMostOnce(s, retryQ)'
      BY <3>4 DEF OneTokenPerUsedSlot, AtMostOnce
    <3> QED BY <2>10, <3>3, <3>6, <3>7, TokenStep DEF PostAccepted
  <2>11. ASSUME NEW th \in Threads, PostFails(th) PROVE TokensAreKept'
    BY <2>11, NoTokenMoves DEF PostFails, GoCall, TypeCall, bus, task, Used
  <2>12. CASE LoopReceive
    <3>1. PICK e \in Token : e = Head(eventQ)
      BY <2>12 DEF LoopReceive, TypeQueues
    <3>2. eventQ \in Seq(Token) /\ eventQ # <<>> /\ eventQ' = Tail(eventQ)
      BY <2>12 DEF LoopReceive, TypeQueues
    <3>3. \A s \in Slots :
            /\ Occurs(State(s), eventQ)' <=> Occurs(State(s), eventQ) /\ State(s) # e
            /\ AtMostOnce(State(s), eventQ)'
      <4> TAKE s \in Slots
      <4>1. AtMostOnce(State(s), eventQ)
        BY DEF OneTokenPerUsedSlot
      <4>2. /\ Occurs(State(s), Tail(eventQ)) <=> Occurs(State(s), eventQ) /\ State(s) # e
            /\ AtMostOnce(State(s), Tail(eventQ))
        BY <3>1, <3>2, <4>1, TailOccurs
      <4> QED BY <3>2, <4>2 DEF Occurs, AtMostOnce
    <3>4. /\ UNCHANGED <<slots, retryQ, callPc, callSlot>>
          /\ pc[Loop] = "receive"
          /\ hand' = [hand EXCEPT ![Loop] = e]
          /\ pc' = [pc EXCEPT ![Loop] = IF e.kind = "state" THEN "lock" ELSE "handle"]
      BY <2>12, <3>1 DEF LoopReceive, Go, call
    <3>5. ASSUME NEW s \in Slots, State(s) # e PROVE TokenStays(s)
      <4>1. \A p \in Places : TokenIn(p, s)' <=> TokenIn(p, s)
        BY <3>3, <3>4, <3>5 DEF TokenIn, Occurs, TypeTask, Tasks, Loop, Retry
      <4> QED BY <3>4, <4>1 DEF TokenStays, Used
    <3>6. ASSUME NEW s \in Slots, State(s) = e PROVE TokenGoesTo(Loop, s)
      <4>1. Occurs(State(s), eventQ)
        BY <3>1, <3>2, <3>6, TailOccurs
      <4>2. TokenIn("event queue", s)
        BY <4>1 DEF TokenIn
      <4>3. Used(s) /\ \A p \in Places : TokenIn(p, s) => p = "event queue"
        BY <4>2 DEF OneTokenPerUsedSlot, Places
      <4>4. TokenIn(Loop, s)'
        BY <3>4, <3>6 DEF TokenIn, State, TypeTask, Tasks, Loop, Retry
      <4>5. \A p \in Places : p # Loop => ~TokenIn(p, s)'
        <5> TAKE p \in Places
        <5>1. CASE p = "event queue"
          BY <5>1, <3>3, <3>6 DEF TokenIn, Tasks, Loop, Retry, Occurs
        <5>2. CASE p # "event queue"
          BY <5>2, <3>4, <4>3 DEF TokenIn, Tasks, Loop, Retry, TypeTask, Occurs
        <5> QED BY <5>1, <5>2
      <4> QED BY <3>4, <4>3, <4>4, <4>5 DEF TokenGoesTo, Used
    <3>7. \A s \in Slots : AtMostOnce(s, retryQ)'
      BY <3>4 DEF OneTokenPerUsedSlot, AtMostOnce
    <3>8. Loop \in Places
      BY DEF Places, Tasks
    <3> QED BY <2>12, <3>3, <3>5, <3>6, <3>7, <3>8, TokenStep DEF LoopReceive
  <2>13. CASE RetryReceive
    <3>1. PICK x \in Slots : x = Head(retryQ)
      BY <2>13 DEF RetryReceive, TypeQueues
    <3>2. retryQ \in Seq(Slots) /\ retryQ # <<>> /\ retryQ' = Tail(retryQ)
      BY <2>13 DEF RetryReceive, TypeQueues
    <3>3. \A s \in Slots : /\ Occurs(s, retryQ)' <=> Occurs(s, retryQ) /\ s # x
                           /\ AtMostOnce(s, retryQ)'
      <4> TAKE s \in Slots
      <4>1. AtMostOnce(s, retryQ)
        BY DEF OneTokenPerUsedSlot
      <4>2. /\ Occurs(s, Tail(retryQ)) <=> Occurs(s, retryQ) /\ s # x
            /\ AtMostOnce(s, Tail(retryQ))
        BY <3>1, <3>2, <4>1, TailOccurs
      <4> QED BY <3>2, <4>2 DEF Occurs, AtMostOnce
    <3>4. /\ UNCHANGED <<slots, eventQ, callPc, callSlot>>
          /\ pc[Retry] = "receive"
          /\ hand' = [hand EXCEPT ![Retry] = State(x)]
          /\ pc' = [pc EXCEPT ![Retry] = "lock"]
      BY <2>13, <3>1 DEF RetryReceive, Go, call
    <3>5. ASSUME NEW s \in Slots, s # x PROVE TokenStays(s)
      <4>1. \A p \in Places : TokenIn(p, s)' <=> TokenIn(p, s)
        BY <3>3, <3>4, <3>5 DEF TokenIn, Occurs, TypeTask, Tasks, Loop, Retry,
           State
      <4> QED BY <3>4, <4>1 DEF TokenStays, Used
    <3>6. TokenGoesTo(Retry, x)
      <4>1. Occurs(x, retryQ)
        BY <3>1, <3>2, TailOccurs
      <4>2. TokenIn("retry queue", x)
        BY <4>1 DEF TokenIn
      <4>3. Used(x) /\ \A p \in Places : TokenIn(p, x) => p = "retry queue"
        BY <4>2 DEF OneTokenPerUsedSlot, Places
      <4>4. TokenIn(Retry, x)'
        BY <3>4 DEF TokenIn, TypeTask, Tasks, Loop, Retry
      <4>5. \A p \in Places : p # Retry => ~TokenIn(p, x)'
        <5> TAKE p \in Places
        <5>1. CASE p = "retry queue"
          BY <5>1, <3>3 DEF TokenIn, Tasks, Loop, Retry, Occurs
        <5>2. CASE p # "retry queue"
          BY <5>2, <3>4, <4>3 DEF TokenIn, Tasks, Loop, Retry, TypeTask, Occurs
        <5> QED BY <5>1, <5>2
      <4> QED BY <3>4, <4>3, <4>4, <4>5 DEF TokenGoesTo, Used
    <3>7. \A s \in Slots : AtMostOnce(State(s), eventQ)'
      BY <3>4 DEF OneTokenPerUsedSlot, AtMostOnce
    <3>8. Retry \in Places
      BY DEF Places, Tasks
    <3> QED BY <2>13, <3>3, <3>5, <3>6, <3>7, <3>8, TokenStep DEF RetryReceive
  <2>14. ASSUME NEW t \in Tasks, DispatchLock(t) PROVE TokensAreKept'
    BY <2>14, NoTokenMoves DEF DispatchLock, Go, TypeTask, call, Used
  <2>15. ASSUME NEW t \in Tasks, DispatchDefer(t) PROVE TokensAreKept'
    <3>1. PICK x \in Slots : hand[t] = State(x) /\ hand[t].ref = x
      BY <2>15 DEF DispatchDefer, TypeTask, Token, State
    <3>2. TokenIn(t, x)
      BY <2>15, <3>1 DEF DispatchDefer, TokenIn
    <3>3. t \in Places
      BY DEF Places
    <3>4. Used(x) /\ \A p \in Places : TokenIn(p, x) => p = t
      BY <3>2, <3>3 DEF OneTokenPerUsedSlot
    <3>5. ~Occurs(x, retryQ)
      <4>1. "retry queue" \in Places /\ "retry queue" # t
        BY DEF Places, Tasks, Loop, Retry
      <4> QED BY <3>4, <4>1 DEF TokenIn
    <3>6. retryQ \in Seq(Slots) /\ \A s \in Slots : AtMostOnce(s, retryQ)
      BY DEF TypeQueues, OneTokenPerUsedSlot
    <3>7. Len(retryQ) < NumSlots
      BY <3>5, <3>6, RoomForOneMore
    <3>8. /\ UNCHANGED <<slots, eventQ, callPc, callSlot, aborted>>
          /\ retryQ' = Append(retryQ, x)
          /\ pc' = [pc EXCEPT ![t] = "receive"]
          /\ hand' = [hand EXCEPT ![t] = State(0)]
      BY <2>15, <3>1, <3>7 DEF DispatchDefer, Done, Go, call
    <3>9. \A s \in Slots : /\ Occurs(s, retryQ)' <=> Occurs(s, retryQ) \/ s = x
                           /\ AtMostOnce(s, retryQ)'
      <4> TAKE s \in Slots
      <4>1. /\ Occurs(s, Append(retryQ, x)) <=> Occurs(s, retryQ) \/ s = x
            /\ AtMostOnce(s, Append(retryQ, x))
        BY <3>5, <3>6, AppendOccurs
      <4> QED BY <3>8, <4>1 DEF Occurs, AtMostOnce
    <3>10. ASSUME NEW s \in Slots, s # x PROVE TokenStays(s)
      <4>1. hand[t] # State(s)
        BY <3>1, <3>10 DEF State
      <4>2. \A u \in Tasks : Dispatching(u, s)' <=> Dispatching(u, s)
        BY <3>8, <4>1 DEF Dispatching, TypeTask
      <4>3. UNCHANGED <<slots, eventQ, callPc, callSlot>>
        BY <3>8
      <4> QED
        BY <3>9, <3>10, <4>2, <4>3, TokenStaysPut DEF Used, Occurs, Posting
    <3>11. TokenGoesTo("retry queue", x)
      <4>1. TokenIn("retry queue", x)'
        BY <3>9 DEF TokenIn
      <4>2. \A p \in Places : p # "retry queue" => ~TokenIn(p, x)'
        BY <3>4, <3>8 DEF TokenIn, TypeTask, Tasks, Loop, Retry, Occurs
      <4> QED BY <3>4, <3>8, <4>1, <4>2 DEF TokenGoesTo, Used
    <3>12. \A s \in Slots : AtMostOnce(State(s), eventQ)'
      BY <3>8 DEF OneTokenPerUsedSlot, AtMostOnce
    <3>13. "retry queue" \in Places
      BY DEF Places
    <3> QED BY <3>8, <3>9, <3>10, <3>11, <3>12, <3>13, TokenStep
  <2>16. ASSUME NEW t \in Tasks, DispatchCopy(t) PROVE TokensAreKept'
    BY <2>16, NoTokenMoves DEF DispatchCopy, Go, TypeTask, bus, call, Used
  <2>17. ASSUME NEW t \in Tasks, DispatchClear(t) PROVE TokensAreKept'
    <3>1. PICK x \in Slots : hand[t] = State(x) /\ hand[t].ref = x
      BY <2>17 DEF DispatchClear, TypeTask, Token, State
    <3>2. TokenIn(t, x)
      BY <2>17, <3>1 DEF DispatchClear, TokenIn
    <3>3. \A p \in Places : TokenIn(p, x) => p = t
      BY <3>2 DEF OneTokenPerUsedSlot, Places
    <3>4. /\ UNCHANGED <<eventQ, retryQ, callPc, callSlot, aborted>>
          /\ slots' = [slots EXCEPT ![x] = NoEntry]
      BY <2>17, <3>1 DEF DispatchClear, call
    <3>5. /\ pc' \in [Tasks -> TaskPc]
          /\ pc'[t] \notin {"lock", "copy", "clear"}
          /\ \A u \in Tasks : u # t => pc'[u] = pc[u] /\ hand'[u] = hand[u]
      BY <2>17 DEF DispatchClear, Done, Go, TypeTask, TaskPc
    <3>6. /\ ~Used(x)'
          /\ \A s \in Slots : s # x => (Used(s)' <=> Used(s))
      BY <3>4 DEF Used, TypeBus
    <3>7. ASSUME NEW s \in Slots, s # x PROVE TokenStays(s)
      <4>1. hand[t] # State(s)
        BY <3>1, <3>7 DEF State
      <4>2. \A u \in Tasks : Dispatching(u, s)' <=> Dispatching(u, s)
        BY <3>5, <4>1 DEF Dispatching
      <4> QED
        BY <3>4, <3>6, <3>7, <4>2, TokenStaysPut DEF Occurs, Posting
    <3>8. TokenGoes(x)
      <4>1. \A p \in Places : ~TokenIn(p, x)'
        BY <3>3, <3>4, <3>5 DEF TokenIn, Tasks, Loop, Retry
      <4> QED BY <3>6, <4>1 DEF TokenGoes
    <3>9. \A s \in Slots : AtMostOnce(State(s), eventQ)' /\ AtMostOnce(s, retryQ)'
      BY <3>4 DEF OneTokenPerUsedSlot, AtMostOnce
    <3> QED BY <3>4, <3>7, <3>8, <3>9, TokenStep
  <2>18. ASSUME NEW t \in Tasks, HandlerReturn(t) PROVE TokensAreKept'
    BY <2>18, NoTokenMoves DEF HandlerReturn, Done, Go, TypeTask, bus, call,
       Used
  <2>19. CASE UNCHANGED vars
    BY <2>19, NoTokenMoves DEF vars, Used
  <2> QED
    BY <2>1, <2>2, <2>3, <2>4, <2>5, <2>6, <2>7, <2>8, <2>9, <2>10, <2>11,
       <2>12, <2>13, <2>14, <2>15, <2>16, <2>17, <2>18, <2>19
    DEF Next, CallStep, DispatchStep
<1> QED
  BY <1>1, <1>2, TypeCorrect, LockCorrect, PTL DEF Spec, TokensAreKept

-----------------------------------------------------------------------------
(***************************************************************************)
(* Accepted values.  The slot of a key holds the newest accepted value, or *)
(* one that its publisher, inside the critical section, has still to post. *)
(***************************************************************************)
TakenWereAccepted == \A k \in Keys : taken[k] <= accepted[k]

SlotsAreNewest ==
  \A s \in Slots :
    Used(s) => slots[s].version = accepted[slots[s].key] \/ Posting(s)

\* A value about to be posted is the next one, and no older one waits.
PostedIsNext ==
  \A th \in Threads : callPc[th] = "post" =>
    /\ slots[callSlot[th]] = [key     |-> callKey[th],
                             version |-> accepted[callKey[th]] + 1]
    /\ accepted[callKey[th]] <= taken[callKey[th]]

CopyIsSlot ==
  \A t \in Tasks : pc[t] = "clear" => copy[t] = slots[hand[t].ref]

HeldInv ==
  /\ AcceptedIsHeld /\ TakenWereAccepted /\ SlotsAreNewest /\ PostedIsNext
  /\ CopyIsSlot

LEMMA UsedIsEntry ==
  ASSUME TypeBus, NEW s \in Slots
  PROVE  Used(s) <=> slots[s] \in Entry
  BY Assumptions DEF TypeBus, Used

\* Steps that change neither a slot nor what was accepted or taken.
LEMMA NothingHeldMoves ==
  ASSUME HeldInv, UNCHANGED <<slots, accepted, taken>>,
         \A th \in Threads : callPc'[th] = "post" <=> callPc[th] = "post",
         \A th \in Threads : callPc[th] = "post" =>
           callSlot'[th] = callSlot[th] /\ callKey'[th] = callKey[th],
         \A t \in Tasks : pc'[t] = "clear" =>
           pc[t] = "clear" /\ copy'[t] = copy[t] /\ hand'[t] = hand[t]
  PROVE  HeldInv'
<1>1. AcceptedIsHeld' /\ TakenWereAccepted'
  BY DEF HeldInv, AcceptedIsHeld, TakenWereAccepted, Holds, Used
<1>2. SlotsAreNewest'
  <2>1. \A s \in Slots : Posting(s) => Posting(s)'
    BY DEF Posting
  <2> QED BY <2>1 DEF HeldInv, SlotsAreNewest, Used
<1>3. PostedIsNext'
  BY DEF HeldInv, PostedIsNext
<1>4. CopyIsSlot'
  BY DEF HeldInv, CopyIsSlot
<1> QED BY <1>1, <1>2, <1>3, <1>4 DEF HeldInv

LEMMA CoalesceHolds ==
  ASSUME TypeOK, LockInv, HeldInv, NEW th \in Threads, PublishCoalesce(th)
  PROVE  HeldInv'
<1> DEFINE k == callKey[th]
<1> USE DEF TypeOK, HeldInv
<1>0. PICK x \in Slots : Holds(x, k) /\ slots' = [slots EXCEPT ![x] = NextEntry(th)]
  BY DEF PublishCoalesce
<1>1. /\ k \in Keys /\ accepted[k] \in Nat /\ taken[k] \in Nat
      /\ accepted' = [accepted EXCEPT ![k] = accepted[k] + 1]
      /\ UNCHANGED <<taken, pc, hand, copy>>
      /\ accepted \in [Keys -> Nat] /\ slots \in [Slots -> Entry \cup {NoEntry}]
      /\ taken \in [Keys -> Nat]
  BY DEF PublishCoalesce, TypeCall, TypeGhost, TypeBus, task
<1>2. /\ slots'[x] = [key |-> k, version |-> accepted[k] + 1]
      /\ \A s \in Slots : s # x => slots'[s] = slots[s]
      /\ accepted'[k] = accepted[k] + 1
      /\ \A j \in Keys : j # k => accepted'[j] = accepted[j]
  BY <1>0, <1>1 DEF NextEntry
<1>3. [key |-> k, version |-> accepted[k] + 1] \in Entry
  BY <1>1 DEF Entry
<1>4. Used(x)' /\ \A s \in Slots : s # x => (Used(s)' <=> Used(s))
  BY <1>2, <1>3, Assumptions DEF Used
<1>5. \A s \in Slots : s # x => ~Holds(s, k)
  BY <1>0, <1>1 DEF AcceptedIsHeld
<1>6. taken[k] <= accepted[k]
  BY <1>1 DEF TakenWereAccepted
<1>7. \A th2 \in Threads : callPc[th2] # "post" /\ callPc'[th2] # "post"
  BY DEF PublishCoalesce, LockInv, InCriticalSection, GoCall, TypeCall
<1>8. \A t \in Tasks : pc'[t] # "clear"
  <2>1. ASSUME NEW t \in Tasks, pc[t] = "clear" PROVE FALSE
    <3>1. t \in Threads
      BY DEF Threads
    <3>2. lock = t /\ lock = th
      BY <2>1, <3>1 DEF PublishCoalesce, LockInv, InCriticalSection
    <3>3. callPc[t] # "idle"
      BY <3>2 DEF PublishCoalesce
    <3> QED BY <2>1, <3>3 DEF LockInv
  <2> QED BY <1>1, <2>1
<1>9. AcceptedIsHeld'
  <2> SUFFICES ASSUME NEW j \in Keys
               PROVE  /\ accepted'[j] > taken'[j] =>
                           \E s \in Slots : slots'[s] =
                               [key |-> j, version |-> accepted'[j]]
                      /\ \A s, r \in Slots : Holds(s, j)' /\ Holds(r, j)' => s = r
                      /\ \A s \in Slots : Holds(s, j)' =>
                           slots'[s].version > taken'[j]
    BY DEF AcceptedIsHeld
  <2>1. CASE j = k
    <3>1. \A s \in Slots : Holds(s, j)' => s = x
      BY <1>2, <1>4, <1>5, <2>1 DEF Holds
    <3>2. slots'[x].version > taken'[j]
      BY <1>1, <1>2, <1>6, <2>1
    <3> QED BY <1>2, <2>1, <3>1, <3>2
  <2>2. CASE j # k
    <3>1. ~Holds(x, j) /\ ~Holds(x, j)'
      BY <1>0, <1>2, <2>2 DEF Holds
    <3>2. \A s \in Slots : s # x => (Holds(s, j)' <=> Holds(s, j))
      BY <1>2, <1>4 DEF Holds
    <3>3. \A s, r \in Slots : Holds(s, j)' /\ Holds(r, j)' => s = r
      BY <3>1, <3>2 DEF AcceptedIsHeld
    <3>4. \A s \in Slots : Holds(s, j)' => slots'[s].version > taken'[j]
      BY <1>1, <1>2, <3>1, <3>2 DEF AcceptedIsHeld
    <3>5. ASSUME accepted'[j] > taken'[j]
          PROVE  \E s \in Slots : slots'[s] = [key |-> j, version |-> accepted'[j]]
      <4>1. PICK s \in Slots : slots[s] = [key |-> j, version |-> accepted[j]]
        BY <1>1, <1>2, <2>2, <3>5 DEF AcceptedIsHeld
      <4>2. s # x
        BY <1>0, <2>2, <4>1 DEF Holds
      <4> QED BY <1>2, <2>2, <4>1, <4>2
    <3> QED BY <3>3, <3>4, <3>5
  <2> QED BY <2>1, <2>2
<1>10. TakenWereAccepted'
  BY <1>1, <1>2 DEF TakenWereAccepted
<1>11. SlotsAreNewest'
  <2> SUFFICES ASSUME NEW s \in Slots, Used(s)'
               PROVE  slots'[s].version = accepted'[slots'[s].key]
    BY DEF SlotsAreNewest
  <2>1. CASE s = x
    BY <1>2, <2>1
  <2>2. CASE s # x
    <3>1. Used(s) /\ slots'[s] = slots[s] /\ ~Posting(s)
      BY <1>2, <1>4, <1>7, <2>2 DEF Posting
    <3>2. slots[s].key \in Keys /\ slots[s].key # k
      BY <1>5, <2>2, <3>1, UsedIsEntry DEF Holds, Entry
    <3> QED BY <1>2, <3>1, <3>2 DEF SlotsAreNewest
  <2> QED BY <2>1, <2>2
<1> QED BY <1>7, <1>8, <1>9, <1>10, <1>11 DEF PostedIsNext, CopyIsSlot

LEMMA ClaimHolds ==
  ASSUME TypeOK, LockInv, HeldInv, NEW th \in Threads, PublishClaim(th)
  PROVE  HeldInv'
<1> DEFINE k == callKey[th]
<1> USE DEF TypeOK, HeldInv
<1>0. PICK x \in Slots : /\ ~Used(x)
                         /\ slots' = [slots EXCEPT ![x] = NextEntry(th)]
                         /\ callSlot' = [callSlot EXCEPT ![th] = x]
  BY DEF PublishClaim
<1>1. /\ k \in Keys /\ accepted[k] \in Nat /\ taken[k] \in Nat
      /\ UNCHANGED <<taken, accepted, callKey, pc, hand, copy>>
      /\ slots \in [Slots -> Entry \cup {NoEntry}]
      /\ taken \in [Keys -> Nat] /\ accepted \in [Keys -> Nat]
  BY DEF PublishClaim, TypeCall, TypeGhost, TypeBus, task, ghost
<1>2. /\ slots'[x] = [key |-> k, version |-> accepted[k] + 1]
      /\ \A s \in Slots : s # x => slots'[s] = slots[s]
  BY <1>0, <1>1 DEF NextEntry
<1>3. [key |-> k, version |-> accepted[k] + 1] \in Entry
  BY <1>1 DEF Entry
<1>4. Used(x)' /\ \A s \in Slots : s # x => (Used(s)' <=> Used(s))
  BY <1>2, <1>3, Assumptions DEF Used
<1>5. \A s \in Slots : ~Holds(s, k)
  BY DEF PublishClaim
<1>6. accepted[k] <= taken[k] /\ taken[k] <= accepted[k]
  <2>1. ~(accepted[k] > taken[k])
    <3>1. ASSUME NEW s \in Slots, slots[s] = [key |-> k, version |-> accepted[k]]
          PROVE  FALSE
      <4>1. [key |-> k, version |-> accepted[k]] \in Entry
        BY <1>1 DEF Entry
      <4> QED BY <1>5, <3>1, <4>1, UsedIsEntry DEF Holds
    <3> QED BY <1>1, <3>1 DEF AcceptedIsHeld
  <2> QED BY <1>1, <2>1 DEF TakenWereAccepted
<1>7. /\ callPc'[th] = "post" /\ callSlot'[th] = x
      /\ \A u \in Threads : u # th => callPc'[u] # "post" /\ callPc[u] # "post"
      /\ callPc[th] # "post"
  BY <1>0 DEF PublishClaim, LockInv, InCriticalSection, GoCall, TypeCall
<1>8. \A t \in Tasks : pc'[t] # "clear"
  <2>1. ASSUME NEW t \in Tasks, pc[t] = "clear" PROVE FALSE
    <3>1. t \in Threads
      BY DEF Threads
    <3>2. lock = t /\ lock = th
      BY <2>1, <3>1 DEF PublishClaim, LockInv, InCriticalSection
    <3>3. callPc[t] # "idle"
      BY <3>2 DEF PublishClaim
    <3> QED BY <2>1, <3>3 DEF LockInv
  <2> QED BY <1>1, <2>1
<1>9. AcceptedIsHeld'
  <2> SUFFICES ASSUME NEW j \in Keys
               PROVE  /\ accepted'[j] > taken'[j] =>
                           \E s \in Slots : slots'[s] =
                               [key |-> j, version |-> accepted'[j]]
                      /\ \A s, r \in Slots : Holds(s, j)' /\ Holds(r, j)' => s = r
                      /\ \A s \in Slots : Holds(s, j)' =>
                           slots'[s].version > taken'[j]
    BY DEF AcceptedIsHeld
  <2>1. CASE j = k
    <3>1. \A s \in Slots : Holds(s, j)' => s = x
      BY <1>2, <1>4, <1>5, <2>1 DEF Holds
    <3>2. slots'[x].version > taken'[j] /\ ~(accepted'[j] > taken'[j])
      BY <1>1, <1>2, <1>6, <2>1
    <3> QED BY <3>1, <3>2
  <2>2. CASE j # k
    <3>1. ~Holds(x, j) /\ ~Holds(x, j)'
      BY <1>0, <1>2, <2>2 DEF Holds
    <3>2. \A s \in Slots : s # x => (Holds(s, j)' <=> Holds(s, j))
      BY <1>2, <1>4 DEF Holds
    <3>3. \A s, r \in Slots : Holds(s, j)' /\ Holds(r, j)' => s = r
      BY <3>1, <3>2 DEF AcceptedIsHeld
    <3>4. \A s \in Slots : Holds(s, j)' => slots'[s].version > taken'[j]
      BY <1>1, <1>2, <3>1, <3>2 DEF AcceptedIsHeld
    <3>5. ASSUME accepted'[j] > taken'[j]
          PROVE  \E s \in Slots : slots'[s] = [key |-> j, version |-> accepted'[j]]
      <4>1. PICK s \in Slots : slots[s] = [key |-> j, version |-> accepted[j]]
        BY <1>1, <3>5 DEF AcceptedIsHeld
      <4>2. [key |-> j, version |-> accepted[j]] \in Entry
        BY <1>1 DEF Entry
      <4>3. s # x
        BY <1>0, <4>1, <4>2, UsedIsEntry
      <4> QED BY <1>1, <1>2, <4>1, <4>3
    <3> QED BY <3>3, <3>4, <3>5
  <2> QED BY <2>1, <2>2
<1>10. TakenWereAccepted'
  BY <1>1 DEF TakenWereAccepted
<1>11. SlotsAreNewest'
  <2> SUFFICES ASSUME NEW s \in Slots, Used(s)'
               PROVE  \/ slots'[s].version = accepted'[slots'[s].key]
                      \/ Posting(s)'
    BY DEF SlotsAreNewest
  <2>1. CASE s = x
    BY <1>7, <2>1 DEF Posting
  <2>2. CASE s # x
    <3>1. Used(s) /\ slots'[s] = slots[s] /\ ~Posting(s)
      BY <1>2, <1>4, <1>7, <2>2 DEF Posting
    <3> QED BY <1>1, <3>1 DEF SlotsAreNewest
  <2> QED BY <2>1, <2>2
<1>12. PostedIsNext'
  BY <1>1, <1>2, <1>6, <1>7 DEF PostedIsNext
<1> QED BY <1>8, <1>9, <1>10, <1>11, <1>12 DEF CopyIsSlot

LEMMA PostHolds ==
  ASSUME TypeOK, LockInv, HeldInv, NEW th \in Threads, PublishPost(th)
  PROVE  HeldInv'
<1> DEFINE k == callKey[th]
           x == callSlot[th]
<1> USE DEF TypeOK, HeldInv
<1>1. /\ k \in Keys /\ x \in Slots /\ accepted[k] \in Nat /\ taken[k] \in Nat
      /\ accepted' = [accepted EXCEPT ![k] = accepted[k] + 1]
      /\ UNCHANGED <<slots, taken, pc, hand, copy>>
      /\ accepted \in [Keys -> Nat] /\ taken \in [Keys -> Nat]
  BY DEF PublishPost, TypeCall, TypeGhost, task
<1>2. /\ accepted'[k] = accepted[k] + 1
      /\ \A j \in Keys : j # k => accepted'[j] = accepted[j]
  BY <1>1
<1>3. slots[x] = [key |-> k, version |-> accepted[k] + 1]
  BY DEF PublishPost, PostedIsNext
<1>4. Holds(x, k)
  <2>1. [key |-> k, version |-> accepted[k] + 1] \in Entry
    BY <1>1 DEF Entry
  <2> QED BY <1>1, <1>3, <2>1, UsedIsEntry DEF Holds
<1>5. taken[k] <= accepted[k]
  BY <1>1 DEF TakenWereAccepted
<1>6. \A u \in Threads : callPc[u] = "post" => u = th
  BY DEF PublishPost, LockInv, InCriticalSection
<1>7. \A u \in Threads : callPc'[u] # "post"
  BY <1>6 DEF PublishPost, GoCall, TypeCall
<1>8. CopyIsSlot'
  BY <1>1 DEF CopyIsSlot
<1>9. AcceptedIsHeld'
  <2>1. \A s \in Slots, j \in Keys : Holds(s, j)' <=> Holds(s, j)
    BY <1>1 DEF Holds, Used
  <2>2. ASSUME NEW j \in Keys, accepted'[j] > taken'[j]
        PROVE  \E s \in Slots : slots'[s] = [key |-> j, version |-> accepted'[j]]
    <3>1. CASE j = k
      BY <1>1, <1>2, <1>3, <3>1
    <3>2. CASE j # k
      BY <1>1, <1>2, <2>2, <3>2 DEF AcceptedIsHeld
    <3> QED BY <3>1, <3>2
  <2> QED BY <1>1, <2>1, <2>2 DEF AcceptedIsHeld
<1>10. TakenWereAccepted'
  BY <1>1, <1>2 DEF TakenWereAccepted
<1>11. SlotsAreNewest'
  <2> SUFFICES ASSUME NEW s \in Slots, Used(s)'
               PROVE  slots'[s].version = accepted'[slots'[s].key]
    BY DEF SlotsAreNewest
  <2>1. CASE s = x
    BY <1>1, <1>2, <1>3, <2>1
  <2>2. CASE s # x
    <3>1. Used(s) /\ ~Posting(s)
      BY <1>1, <1>6, <2>2 DEF Posting, Used
    <3>2. slots[s].key \in Keys /\ slots[s].key # k
      BY <1>1, <1>4, <2>2, <3>1, UsedIsEntry DEF Holds, Entry, AcceptedIsHeld
    <3> QED BY <1>1, <1>2, <3>1, <3>2 DEF SlotsAreNewest
  <2> QED BY <2>1, <2>2
<1> QED BY <1>7, <1>8, <1>9, <1>10, <1>11 DEF PostedIsNext

\* What a cleared slot held is not missed by its key, nor by any other.
LEMMA ClearedSlot ==
  ASSUME TypeBus, AcceptedIsHeld, NEW x \in Slots, NEW k \in Keys, Holds(x, k),
         slots' = [slots EXCEPT ![x] = NoEntry]
  PROVE  /\ \A s \in Slots : Used(s)' <=> Used(s) /\ s # x
         /\ \A s \in Slots : s # x => slots'[s] = slots[s]
         /\ \A s \in Slots : ~Holds(s, k)'
         /\ \A j \in Keys : \A s \in Slots :
              j # k => (Holds(s, j)' <=> Holds(s, j))
<1>1. /\ slots'[x] = NoEntry
      /\ \A s \in Slots : s # x => slots'[s] = slots[s]
  BY DEF TypeBus
<1>2. \A s \in Slots : s # x => ~Holds(s, k)
  BY DEF AcceptedIsHeld
<1> QED BY <1>1, <1>2 DEF Holds, Used

LEMMA PostFailsHolds ==
  ASSUME TypeOK, LockInv, HeldInv, NEW th \in Threads, PublishPostFails(th)
  PROVE  HeldInv'
<1> USE DEF TypeOK, HeldInv
<1>0. PICK k \in Keys, x \in Slots : k = callKey[th] /\ x = callSlot[th]
  BY DEF PublishPostFails, TypeCall
<1>1. /\ accepted[k] \in Nat /\ taken[k] \in Nat
      /\ slots' = [slots EXCEPT ![x] = NoEntry]
      /\ UNCHANGED <<taken, accepted, pc, hand, copy>>
      /\ accepted \in [Keys -> Nat] /\ taken \in [Keys -> Nat]
  BY <1>0 DEF PublishPostFails, TypeCall, TypeGhost, task, ghost
<1>2. /\ slots[x] = [key |-> k, version |-> accepted[k] + 1]
      /\ accepted[k] <= taken[k]
  BY <1>0 DEF PublishPostFails, PostedIsNext
<1>3. Holds(x, k)
  <2>1. [key |-> k, version |-> accepted[k] + 1] \in Entry
    BY <1>1 DEF Entry
  <2> QED BY <1>1, <1>2, <2>1, UsedIsEntry DEF Holds
<1>4. /\ \A s \in Slots : Used(s)' <=> Used(s) /\ s # x
      /\ \A s \in Slots : s # x => slots'[s] = slots[s]
      /\ \A s \in Slots : ~Holds(s, k)'
      /\ \A j \in Keys : \A s \in Slots : j # k => (Holds(s, j)' <=> Holds(s, j))
  BY <1>1, <1>3, ClearedSlot
<1>5. \A u \in Threads : callPc[u] = "post" => u = th
  BY DEF PublishPostFails, LockInv, InCriticalSection
<1>6. \A u \in Threads : callPc'[u] # "post"
  BY <1>5 DEF PublishPostFails, GoCall, TypeCall
<1>7. \A t \in Tasks : pc'[t] # "clear"
  <2>1. ASSUME NEW t \in Tasks, pc[t] = "clear" PROVE FALSE
    <3>1. t \in Threads
      BY DEF Threads
    <3>2. lock = t /\ lock = th
      BY <2>1, <3>1 DEF PublishPostFails, LockInv, InCriticalSection
    <3>3. callPc[t] # "idle"
      BY <3>2 DEF PublishPostFails
    <3> QED BY <2>1, <3>3 DEF LockInv
  <2> QED BY <1>1, <2>1
<1>8. AcceptedIsHeld'
  <2> SUFFICES ASSUME NEW j \in Keys
               PROVE  /\ accepted'[j] > taken'[j] =>
                           \E s \in Slots : slots'[s] =
                               [key |-> j, version |-> accepted'[j]]
                      /\ \A s, r \in Slots : Holds(s, j)' /\ Holds(r, j)' => s = r
                      /\ \A s \in Slots : Holds(s, j)' =>
                           slots'[s].version > taken'[j]
    BY DEF AcceptedIsHeld
  <2>1. CASE j = k
    BY <1>1, <1>2, <1>4, <2>1
  <2>2. CASE j # k
    <3>1. ~Holds(x, j)
      BY <1>3, <2>2 DEF Holds
    <3>2. \A s, r \in Slots : Holds(s, j)' /\ Holds(r, j)' => s = r
      BY <1>4, <2>2 DEF AcceptedIsHeld
    <3>3. \A s \in Slots : Holds(s, j)' => slots'[s].version > taken'[j]
      BY <1>1, <1>4, <2>2, <3>1 DEF AcceptedIsHeld
    <3>4. ASSUME accepted'[j] > taken'[j]
          PROVE  \E s \in Slots : slots'[s] = [key |-> j, version |-> accepted'[j]]
      <4>1. PICK s \in Slots : slots[s] = [key |-> j, version |-> accepted[j]]
        BY <1>1, <3>4 DEF AcceptedIsHeld
      <4>2. s # x
        BY <1>3, <2>2, <4>1 DEF Holds
      <4> QED BY <1>1, <1>4, <4>1, <4>2
    <3> QED BY <3>2, <3>3, <3>4
  <2> QED BY <2>1, <2>2
<1>9. TakenWereAccepted'
  BY <1>1 DEF TakenWereAccepted
<1>10. SlotsAreNewest'
  <2> SUFFICES ASSUME NEW s \in Slots, Used(s)'
               PROVE  slots'[s].version = accepted'[slots'[s].key]
    BY DEF SlotsAreNewest
  <2>1. Used(s) /\ s # x /\ slots'[s] = slots[s]
    BY <1>4
  <2>2. ~Posting(s)
    BY <1>0, <1>5, <2>1 DEF Posting
  <2> QED BY <1>1, <2>1, <2>2 DEF SlotsAreNewest
<1> QED BY <1>6, <1>7, <1>8, <1>9, <1>10 DEF PostedIsNext, CopyIsSlot

LEMMA ClearHolds ==
  ASSUME TypeOK, LockInv, HeldInv, NEW t \in Tasks, DispatchClear(t)
  PROVE  HeldInv'
<1> USE DEF TypeOK, HeldInv
<1>0. PICK x \in Slots : x = hand[t].ref
  BY DEF DispatchClear, TypeTask, Token
<1>1. /\ copy[t] = slots[x]
      /\ slots' = [slots EXCEPT ![x] = NoEntry]
      /\ UNCHANGED <<accepted, callPc, callKey, callSlot>>
      /\ accepted \in [Keys -> Nat] /\ taken \in [Keys -> Nat]
      /\ slots \in [Slots -> Entry \cup {NoEntry}]
  BY <1>0 DEF DispatchClear, CopyIsSlot, TypeTask, TypeBus, TypeGhost, Token, call
<1>2. \A u \in Threads : callPc[u] # "post" /\ callPc'[u] # "post"
  <2>1. ASSUME NEW u \in Threads, callPc[u] = "post" PROVE FALSE
    <3>1. t \in Threads
      BY DEF Threads
    <3>2. lock = t /\ lock = u
      BY <2>1, <3>1 DEF DispatchClear, LockInv, InCriticalSection
    <3> QED BY <2>1, <3>2 DEF DispatchClear, LockInv
  <2> QED BY <1>1, <2>1
<1>3. \A u \in Tasks : pc'[u] # "clear"
  <2>1. \A u \in Tasks : pc[u] = "clear" => u = t
    BY DEF DispatchClear, LockInv, InCriticalSection, Threads
  <2> QED BY <2>1 DEF DispatchClear, Done, Go, TypeTask
<1>4. CASE copy[t] = NoEntry
  <2>1. slots' = slots /\ taken' = taken
    BY <1>1, <1>4 DEF DispatchClear
  <2>2. AcceptedIsHeld' /\ TakenWereAccepted'
    BY <1>1, <2>1 DEF AcceptedIsHeld, TakenWereAccepted, Holds, Used
  <2>3. SlotsAreNewest'
    BY <1>1, <1>2, <2>1 DEF SlotsAreNewest, Used, Posting
  <2> QED BY <1>2, <1>3, <2>2, <2>3 DEF PostedIsNext, CopyIsSlot
<1>5. CASE copy[t] # NoEntry
  <2>0. PICK k \in Keys, v \in Nat : k = copy[t].key /\ v = copy[t].version
    BY <1>1, <1>5 DEF Entry
  <2>1. /\ slots[x] \in Entry /\ slots[x].version = v /\ Holds(x, k)
        /\ taken' = [taken EXCEPT ![k] = v]
    BY <1>1, <1>5, <2>0 DEF DispatchClear, Entry, Holds, Used
  <2>2. v = accepted[k]
    BY <1>1, <1>2, <2>1 DEF SlotsAreNewest, Posting, Holds
  <2>3. /\ taken'[k] = accepted[k]
        /\ \A j \in Keys : j # k => taken'[j] = taken[j]
    BY <1>1, <2>1, <2>2
  <2>4. /\ \A s \in Slots : Used(s)' <=> Used(s) /\ s # x
        /\ \A s \in Slots : s # x => slots'[s] = slots[s]
        /\ \A s \in Slots : ~Holds(s, k)'
        /\ \A j \in Keys : \A s \in Slots :
             j # k => (Holds(s, j)' <=> Holds(s, j))
    BY <1>1, <2>1, ClearedSlot
  <2>5. AcceptedIsHeld'
    <3> SUFFICES ASSUME NEW j \in Keys
                 PROVE  /\ accepted'[j] > taken'[j] =>
                             \E s \in Slots : slots'[s] =
                                 [key |-> j, version |-> accepted'[j]]
                        /\ \A s, r \in Slots : Holds(s, j)' /\ Holds(r, j)' => s = r
                        /\ \A s \in Slots : Holds(s, j)' =>
                             slots'[s].version > taken'[j]
      BY DEF AcceptedIsHeld
    <3>1. CASE j = k
      <4>1. accepted[k] \in Nat
        BY <1>1, <2>1
      <4> QED BY <1>1, <2>3, <2>4, <3>1, <4>1
    <3>2. CASE j # k
      <4>1. ~Holds(x, j)
        BY <2>1, <3>2 DEF Holds
      <4>2. \A s, r \in Slots : Holds(s, j)' /\ Holds(r, j)' => s = r
        BY <2>4, <3>2 DEF AcceptedIsHeld
      <4>3. \A s \in Slots : Holds(s, j)' => slots'[s].version > taken'[j]
        BY <2>3, <2>4, <3>2, <4>1 DEF AcceptedIsHeld
      <4>4. ASSUME accepted'[j] > taken'[j]
            PROVE  \E s \in Slots :
                     slots'[s] = [key |-> j, version |-> accepted'[j]]
        <5>1. PICK s \in Slots : slots[s] = [key |-> j, version |-> accepted[j]]
          BY <1>1, <2>3, <3>2, <4>4 DEF AcceptedIsHeld
        <5>2. s # x
          BY <2>1, <3>2, <5>1 DEF Holds
        <5> QED BY <1>1, <2>4, <5>1, <5>2
      <4> QED BY <4>2, <4>3, <4>4
    <3> QED BY <3>1, <3>2
  <2>6. TakenWereAccepted'
    <3>1. ASSUME NEW j \in Keys PROVE taken'[j] <= accepted'[j]
      <4>1. accepted[j] \in Nat /\ taken[j] <= accepted[j]
        BY <1>1 DEF TakenWereAccepted
      <4> QED BY <1>1, <2>3, <4>1
    <3> QED BY <3>1 DEF TakenWereAccepted
  <2>7. SlotsAreNewest'
    BY <1>1, <1>2, <2>4 DEF SlotsAreNewest, Posting
  <2> QED BY <1>2, <1>3, <2>5, <2>6, <2>7 DEF PostedIsNext, CopyIsSlot
<1> QED BY <1>4, <1>5

LEMMA CopyHolds ==
  ASSUME TypeOK, LockInv, HeldInv, NEW t \in Tasks, DispatchCopy(t)
  PROVE  HeldInv'
<1> USE DEF TypeOK, HeldInv
<1>1. /\ UNCHANGED <<slots, accepted, taken, callPc, callKey, callSlot, hand>>
      /\ copy' = [copy EXCEPT ![t] = slots[hand[t].ref]]
      /\ pc' = [pc EXCEPT ![t] = "clear"]
      /\ copy \in [Tasks -> Entry \cup {NoEntry}]
  BY DEF DispatchCopy, Go, bus, call, ghost, TypeTask
<1>2. AcceptedIsHeld' /\ TakenWereAccepted'
  BY <1>1 DEF AcceptedIsHeld, TakenWereAccepted, Holds, Used
<1>3. SlotsAreNewest' /\ PostedIsNext'
  BY <1>1 DEF SlotsAreNewest, PostedIsNext, Used, Posting
<1>4. CopyIsSlot'
  BY <1>1 DEF CopyIsSlot, TypeTask
<1> QED BY <1>2, <1>3, <1>4

\* The slots hold the newest accepted values and nothing else, but for the value
\* a publisher has still to post.
THEOREM HeldCorrect == Spec => []HeldInv
<1>1. Init => HeldInv
  <2> SUFFICES ASSUME Init PROVE HeldInv
    OBVIOUS
  <2>1. \A s \in Slots : ~Used(s)
    BY DEF Init, Used
  <2> QED BY <2>1 DEF Init, HeldInv, AcceptedIsHeld, TakenWereAccepted,
             SlotsAreNewest, PostedIsNext, CopyIsSlot, Holds
<1>2. TypeOK /\ LockInv /\ HeldInv /\ [Next]_vars => HeldInv'
  <2> SUFFICES ASSUME TypeOK, LockInv, HeldInv, [Next]_vars PROVE HeldInv'
    OBVIOUS
  <2> USE DEF TypeOK
  <2>1. ASSUME NEW th \in Threads, NEW k \in Keys, PublishLock(th, k)
        PROVE  HeldInv'
    BY <2>1, NothingHeldMoves DEF PublishLock, MayCall, GoCall, TypeCall, task,
       ghost
  <2>2. ASSUME NEW th \in Threads, PublishBusy(th) PROVE HeldInv'
    BY <2>2, NothingHeldMoves DEF PublishBusy, bus, call, task, ghost
  <2>3. ASSUME NEW th \in Threads, PostBegin(th) PROVE HeldInv'
    BY <2>3, NothingHeldMoves DEF PostBegin, MayCall, GoCall, TypeCall, bus,
       task, ghost
  <2>4. ASSUME NEW th \in Threads,
               PublishNoSlot(th) \/ PublishUnlock(th) \/ PostFails(th)
        PROVE  HeldInv'
    BY <2>4, NothingHeldMoves DEF PublishNoSlot, PublishUnlock, PostFails,
       GoCall, TypeCall, bus, call, task, ghost
  <2>5. ASSUME NEW th \in Threads, PostAccepted(th) PROVE HeldInv'
    BY <2>5, NothingHeldMoves DEF PostAccepted, GoCall, TypeCall, task
  <2>6. ASSUME NEW th \in Threads,
               \/ PublishCoalesce(th) \/ PublishClaim(th)
               \/ PublishPost(th) \/ PublishPostFails(th)
        PROVE  HeldInv'
    BY <2>6, CoalesceHolds, ClaimHolds, PostHolds, PostFailsHolds
  <2>7. CASE LoopReceive
    BY <2>7, NothingHeldMoves DEF LoopReceive, Go, call, ghost, TypeTask, Tasks,
       Loop, Retry
  <2>8. CASE RetryReceive
    BY <2>8, NothingHeldMoves DEF RetryReceive, Go, call, ghost, TypeTask, Tasks,
       Loop, Retry
  <2>9. ASSUME NEW t \in Tasks, DispatchLock(t) PROVE HeldInv'
    BY <2>9, NothingHeldMoves DEF DispatchLock, Go, call, ghost, TypeTask
  <2>10. ASSUME NEW t \in Tasks, DispatchDefer(t) PROVE HeldInv'
    BY <2>10, NothingHeldMoves DEF DispatchDefer, Done, Go, call, ghost, TypeTask
  <2>11. ASSUME NEW t \in Tasks, HandlerReturn(t) PROVE HeldInv'
    BY <2>11, NothingHeldMoves DEF HandlerReturn, Done, Go, bus, call, TypeTask
  <2>12. ASSUME NEW t \in Tasks, DispatchCopy(t) \/ DispatchClear(t)
         PROVE  HeldInv'
    BY <2>12, CopyHolds, ClearHolds
  <2>13. CASE UNCHANGED vars
    BY <2>13, NothingHeldMoves DEF vars
  <2> QED
    BY <2>1, <2>2, <2>3, <2>4, <2>5, <2>6, <2>7, <2>8, <2>9, <2>10, <2>11,
       <2>12, <2>13 DEF Next, CallStep, DispatchStep
<1> QED
  BY <1>1, <1>2, TypeCorrect, LockCorrect, PTL DEF Spec

\* An accepted state is lost by no interleaving of publishers, deferral and
\* both delivery tasks: until a task takes it, or a newer one of its key, it is
\* in the one slot of its key, and it is taken once and in order.
THEOREM AcceptedCorrect == Spec => []AcceptedIsHeld
<1>1. HeldInv => AcceptedIsHeld
  BY DEF HeldInv
<1> QED BY <1>1, HeldCorrect, PTL

-----------------------------------------------------------------------------
(***************************************************************************)
(* Commands.  The event queue holds the commands that were accepted and    *)
(* not yet started, each once and in order; the retry task never has one.  *)
(***************************************************************************)
IsCommand(i) == eventQ[i].kind = "command"

CommandInv ==
  /\ hand[Retry].kind = "state"
  /\ Running => hand[Loop].ref = handled + 1
  /\ Begun <= posted
  /\ \A i \in DOMAIN eventQ :
       IsCommand(i) => Begun < eventQ[i].ref /\ eventQ[i].ref <= posted
  /\ \A i, j \in DOMAIN eventQ :
       i < j /\ IsCommand(i) /\ IsCommand(j) => eventQ[i].ref < eventQ[j].ref
  /\ \A n \in Begun + 1 .. posted :
       \E i \in DOMAIN eventQ : IsCommand(i) /\ eventQ[i].ref = n

\* Steps that neither accept, start nor finish a command.
LEMMA NoCommandMoves ==
  ASSUME CommandInv, UNCHANGED <<eventQ, posted, handled>>,
         Running' <=> Running, Running => hand'[Loop] = hand[Loop],
         hand'[Retry].kind = "state"
  PROVE  CommandInv'
<1>1. Begun' = Begun
  BY DEF Begun
<1> QED BY <1>1 DEF CommandInv, IsCommand

LEMMA PublishPostKeepsCommands ==
  ASSUME TypeOK, CommandInv, NEW th \in Threads, PublishPost(th)
  PROVE  CommandInv'
<1> DEFINE e == State(callSlot[th])
<1>1. /\ eventQ \in Seq(Token) /\ e \in Token /\ eventQ' = Append(eventQ, e)
      /\ UNCHANGED <<hand, pc, posted, handled>>
  BY DEF PublishPost, Enqueue, TypeOK, TypeQueues, TypeCall, Token, State, task
<1>2. /\ DOMAIN eventQ = 1 .. Len(eventQ) /\ Len(eventQ) \in Nat
      /\ DOMAIN eventQ' = 1 .. Len(eventQ) + 1
      /\ \A i \in 1 .. Len(eventQ) : eventQ'[i] = eventQ[i]
      /\ eventQ'[Len(eventQ) + 1].kind = "state"
  BY <1>1 DEF State
<1>3. Begun' = Begun /\ Running' = Running
  BY <1>1 DEF Begun, Running
<1>4. \A i \in DOMAIN eventQ' : IsCommand(i)' => i \in DOMAIN eventQ /\ IsCommand(i)
  BY <1>2 DEF IsCommand
<1>5. \A i \in DOMAIN eventQ : i \in DOMAIN eventQ' /\ (IsCommand(i)' <=> IsCommand(i))
  BY <1>2 DEF IsCommand
<1> QED BY <1>1, <1>2, <1>3, <1>4, <1>5 DEF CommandInv

LEMMA PostKeepsCommands ==
  ASSUME TypeOK, CommandInv, NEW th \in Threads, PostAccepted(th)
  PROVE  CommandInv'
<1> DEFINE e == Command(posted + 1)
           last == Len(eventQ) + 1
<1>1. /\ eventQ \in Seq(Token) /\ e \in Token /\ eventQ' = Append(eventQ, e)
      /\ UNCHANGED <<hand, pc, handled>>
      /\ posted \in Nat /\ handled \in Nat /\ posted' = posted + 1
  BY DEF PostAccepted, Enqueue, TypeOK, TypeQueues, TypeGhost, Token, Command, task
<1>2. /\ DOMAIN eventQ = 1 .. Len(eventQ) /\ Len(eventQ) \in Nat
      /\ DOMAIN eventQ' = 1 .. last
      /\ \A i \in 1 .. Len(eventQ) : eventQ'[i] = eventQ[i]
      /\ eventQ'[last] = e
  BY <1>1
<1>3. Begun' = Begun /\ Running' = Running /\ Begun \in Nat
  BY <1>1 DEF Begun, Running
<1>4. \A i \in DOMAIN eventQ : IsCommand(i)' <=> IsCommand(i)
  BY <1>2 DEF IsCommand
<1>5. eventQ'[last].kind = "command" /\ eventQ'[last].ref = posted + 1
  BY <1>2 DEF Command
<1>6. \A i \in DOMAIN eventQ : eventQ[i].ref \in Nat
  BY <1>1, <1>2, Assumptions DEF Token, Slots
<1>7. \A i \in DOMAIN eventQ' :
        IsCommand(i)' => Begun' < eventQ'[i].ref /\ eventQ'[i].ref <= posted'
  BY <1>1, <1>2, <1>3, <1>4, <1>5, <1>6 DEF CommandInv
<1>8. \A i, j \in DOMAIN eventQ' :
        i < j /\ IsCommand(i)' /\ IsCommand(j)' => eventQ'[i].ref < eventQ'[j].ref
  BY <1>1, <1>2, <1>4, <1>5, <1>6 DEF CommandInv
<1>9. ASSUME NEW n \in Begun + 1 .. posted + 1
      PROVE  \E i \in DOMAIN eventQ' : IsCommand(i)' /\ eventQ'[i].ref = n
  <2>1. CASE n = posted + 1
    BY <1>2, <1>5, <2>1 DEF IsCommand
  <2>2. CASE n # posted + 1
    <3>1. n \in Begun + 1 .. posted
      BY <1>1, <1>3, <2>2
    <3>2. PICK i \in DOMAIN eventQ : IsCommand(i) /\ eventQ[i].ref = n
      BY <3>1 DEF CommandInv
    <3> QED BY <1>2, <1>4, <3>2
  <2> QED BY <2>1, <2>2
<1> QED BY <1>1, <1>3, <1>7, <1>8, <1>9 DEF CommandInv

\* The command at the head of the queue is the next one.
LEMMA HeadIsNext ==
  ASSUME TypeOK, CommandInv, eventQ # <<>>, IsCommand(1), ~Running
  PROVE  eventQ[1].ref = handled + 1 /\ handled + 1 <= posted
<1>1. /\ DOMAIN eventQ = 1 .. Len(eventQ) /\ Len(eventQ) \in Nat \ {0}
      /\ \A i \in DOMAIN eventQ : eventQ[i] \in Token
  BY DEF TypeOK, TypeQueues
<1>2. \A i \in DOMAIN eventQ : eventQ[i].ref \in Nat
  BY <1>1, Assumptions DEF Token, Slots
<1>3. /\ Begun = handled /\ handled \in Nat /\ posted \in Nat
      /\ handled < eventQ[1].ref /\ eventQ[1].ref <= posted
  BY <1>1 DEF CommandInv, Begun, TypeOK, TypeGhost
<1>4. PICK i \in DOMAIN eventQ : IsCommand(i) /\ eventQ[i].ref = handled + 1
  <2>1. handled + 1 \in Begun + 1 .. posted
    BY <1>1, <1>2, <1>3
  <2> QED BY <2>1 DEF CommandInv
<1>5. i = 1
  <2>1. CASE 1 < i
    BY <1>1, <1>2, <1>3, <1>4, <2>1 DEF CommandInv
  <2> QED BY <1>1, <2>1
<1> QED BY <1>1, <1>2, <1>3, <1>4, <1>5

LEMMA ReceiveKeepsCommands ==
  ASSUME TypeOK, CommandInv, LoopReceive
  PROVE  CommandInv'
<1> DEFINE e == eventQ[1]
<1>1. /\ DOMAIN eventQ = 1 .. Len(eventQ) /\ Len(eventQ) \in Nat \ {0}
      /\ DOMAIN eventQ' = 1 .. Len(eventQ) - 1
      /\ \A i \in 1 .. Len(eventQ) - 1 : eventQ'[i] = eventQ[i + 1]
      /\ Head(eventQ) = e
      /\ \A i \in DOMAIN eventQ : eventQ[i] \in Token
  BY DEF LoopReceive, TypeOK, TypeQueues
<1>2. \A i \in DOMAIN eventQ : eventQ[i].ref \in Nat /\ eventQ[i].kind \in {"state", "command"}
  BY <1>1, Assumptions DEF Token, Slots
<1>3. /\ ~Running /\ Begun = handled /\ handled \in Nat /\ posted \in Nat
      /\ UNCHANGED <<posted, handled>>
      /\ hand'[Loop] = e /\ hand'[Retry] = hand[Retry]
      /\ Running' <=> e.kind = "command"
  BY <1>1, <1>2 DEF LoopReceive, Go, Running, Begun, TypeOK, TypeTask, TypeGhost, ghost,
     Tasks, Loop, Retry
<1>4. \A i \in DOMAIN eventQ' :
        /\ i + 1 \in DOMAIN eventQ /\ eventQ'[i] = eventQ[i + 1]
        /\ IsCommand(i)' <=> IsCommand(i + 1)
  BY <1>1 DEF IsCommand
<1>5. \A i, j \in DOMAIN eventQ' :
        i < j /\ IsCommand(i)' /\ IsCommand(j)' => eventQ'[i].ref < eventQ'[j].ref
  <2>1. \A i, j \in DOMAIN eventQ' : i < j => i + 1 < j + 1
    BY <1>1
  <2> QED BY <1>4, <2>1 DEF CommandInv
<1>6. CASE e.kind = "command"
  <2>1. e.ref = handled + 1 /\ handled + 1 <= posted
    BY <1>3, <1>6, HeadIsNext DEF LoopReceive, IsCommand
  <2>2. Begun' = handled + 1
    BY <1>3, <1>6 DEF Begun
  <2>3. \A i \in DOMAIN eventQ' : IsCommand(i)' =>
          handled + 1 < eventQ'[i].ref /\ eventQ'[i].ref <= posted
    <3>1. \A i \in DOMAIN eventQ' : 1 < i + 1 /\ 1 \in DOMAIN eventQ
      BY <1>1
    <3> QED BY <1>4, <1>6, <2>1, <3>1 DEF CommandInv, IsCommand
  <2>4. ASSUME NEW n \in handled + 2 .. posted
        PROVE  \E i \in DOMAIN eventQ' : IsCommand(i)' /\ eventQ'[i].ref = n
    <3>1. PICK i \in DOMAIN eventQ : IsCommand(i) /\ eventQ[i].ref = n
      <4>1. n \in Begun + 1 .. posted
        BY <1>3
      <4> QED BY <4>1 DEF CommandInv
    <3>2. i # 1
      BY <1>3, <2>1, <3>1
    <3>3. i - 1 \in DOMAIN eventQ' /\ (i - 1) + 1 = i
      BY <1>1, <3>2
    <3> QED BY <1>4, <3>1, <3>3
  <2> QED BY <1>3, <1>5, <2>1, <2>2, <2>3, <2>4 DEF CommandInv
<1>7. CASE e.kind # "command"
  <2>1. Begun' = handled /\ ~Running'
    BY <1>3, <1>7 DEF Begun
  <2>2. \A i \in DOMAIN eventQ' : IsCommand(i)' =>
          handled < eventQ'[i].ref /\ eventQ'[i].ref <= posted
    BY <1>3, <1>4 DEF CommandInv
  <2>3. ASSUME NEW n \in handled + 1 .. posted
        PROVE  \E i \in DOMAIN eventQ' : IsCommand(i)' /\ eventQ'[i].ref = n
    <3>1. PICK i \in DOMAIN eventQ : IsCommand(i) /\ eventQ[i].ref = n
      BY <1>3 DEF CommandInv
    <3>2. i # 1
      BY <1>7, <3>1 DEF IsCommand
    <3>3. i - 1 \in DOMAIN eventQ' /\ (i - 1) + 1 = i
      BY <1>1, <3>2
    <3> QED BY <1>4, <3>1, <3>3
  <2> QED BY <1>3, <1>5, <2>1, <2>2, <2>3 DEF CommandInv
<1> QED BY <1>6, <1>7

LEMMA ReturnKeepsCommands ==
  ASSUME TypeOK, CommandInv, NEW t \in Tasks, HandlerReturn(t)
  PROVE  CommandInv'
<1>1. /\ UNCHANGED <<eventQ, posted>> /\ handled \in Nat
      /\ pc' = [pc EXCEPT ![t] = "receive"] /\ hand' = [hand EXCEPT ![t] = State(0)]
      /\ pc \in [Tasks -> TaskPc] /\ hand \in [Tasks -> Token]
      /\ Loop \in Tasks /\ Retry \in Tasks /\ Loop # Retry
  BY DEF HandlerReturn, Done, Go, bus, TypeOK, TypeTask, TypeGhost, Tasks, Loop, Retry
<1>2. hand'[Retry].kind = "state"
  BY <1>1 DEF CommandInv, State
<1>3. CASE t = Retry
  BY <1>1, <1>2, <1>3, NoCommandMoves DEF HandlerReturn, CommandInv, Running
<1>4. CASE t = Loop
  <2>1. Begun' = Begun /\ ~Running'
    BY <1>1, <1>4 DEF HandlerReturn, Begun, Running
  <2> QED BY <1>1, <1>2, <2>1 DEF CommandInv, IsCommand
<1> QED BY <1>3, <1>4 DEF Tasks

THEOREM CommandsCorrect == Spec => []CommandInv
<1>1. Init => CommandInv
  <2> SUFFICES ASSUME Init PROVE CommandInv
    OBVIOUS
  <2>1. ~Running /\ Begun = 0 /\ posted = 0 /\ DOMAIN eventQ = {}
    BY DEF Init, Running, Begun, Loop, Tasks
  <2>2. hand[Retry].kind = "state"
    BY DEF Init, State, Tasks
  <2> QED BY <2>1, <2>2 DEF CommandInv
<1>2. TypeOK /\ CommandInv /\ [Next]_vars => CommandInv'
  <2> SUFFICES ASSUME TypeOK, CommandInv, [Next]_vars PROVE CommandInv'
    OBVIOUS
  <2>1. /\ hand \in [Tasks -> Token] /\ pc \in [Tasks -> TaskPc]
        /\ hand[Retry].kind = "state"
        /\ Loop \in Tasks /\ Retry \in Tasks /\ Loop # Retry
    BY DEF TypeOK, TypeTask, CommandInv, Tasks, Loop, Retry
  <2>2. ASSUME NEW th \in Threads,
               \/ \E k \in Keys : PublishLock(th, k)
               \/ PublishBusy(th) \/ PostBegin(th)
               \/ PublishCoalesce(th) \/ PublishClaim(th) \/ PublishNoSlot(th)
               \/ PublishPostFails(th) \/ PublishUnlock(th) \/ PostFails(th)
        PROVE  UNCHANGED <<eventQ, pc, hand, posted, handled>>
    BY <2>2 DEF PublishLock, PublishBusy, PostBegin, PublishCoalesce, PublishClaim,
       PublishNoSlot, PublishPostFails, PublishUnlock, PostFails, bus, task, ghost
  <2>3. ASSUME UNCHANGED <<eventQ, pc, hand, posted, handled>> PROVE CommandInv'
    BY <2>1, <2>3, NoCommandMoves DEF Running
  <2>4. ASSUME NEW th \in Threads, PublishPost(th) \/ PostAccepted(th)
        PROVE  CommandInv'
    BY <2>4, PublishPostKeepsCommands, PostKeepsCommands
  <2>5. CASE RetryReceive
    BY <2>1, <2>5, NoCommandMoves DEF RetryReceive, Go, ghost, Running, State
  <2>6. ASSUME NEW t \in Tasks, DispatchLock(t) \/ DispatchCopy(t)
        PROVE  CommandInv'
    BY <2>1, <2>6, NoCommandMoves DEF DispatchLock, DispatchCopy, Go, bus, ghost, Running
  <2>7. ASSUME NEW t \in Tasks, DispatchDefer(t) \/ DispatchClear(t)
        PROVE  CommandInv'
    <3>1. hand[t].kind = "state" /\ pc[t] # "handle"
      BY <2>7 DEF DispatchDefer, DispatchClear, TypeOK, TypeTask
    <3> QED BY <2>1, <2>7, <3>1, NoCommandMoves
            DEF DispatchDefer, DispatchClear, Done, Go, ghost, Running, State
  <2>8. CASE UNCHANGED vars
    BY <2>3, <2>8 DEF vars
  <2> QED
    BY <2>2, <2>3, <2>4, <2>5, <2>6, <2>7, <2>8, ReceiveKeepsCommands,
       ReturnKeepsCommands DEF Next, CallStep, DispatchStep
<1> QED BY <1>1, <1>2, TypeCorrect, PTL DEF Spec

-----------------------------------------------------------------------------
(***************************************************************************)
(* The module implements DeliveryContract.  Clearing a slot takes the      *)
(* newest accepted value of its key, which was never taken (ClearTakes),   *)
(* and what a task's handlers are given was taken (DeliveredInv).          *)
(***************************************************************************)
LEMMA ClearTakes ==
  ASSUME TypeOK, LockInv, HeldInv, NEW t \in Tasks, DispatchClear(t),
         copy[t] # NoEntry
  PROVE  \E k \in Keys :
           /\ copy[t] = [key |-> k, version |-> accepted[k]]
           /\ taken[k] < accepted[k]
           /\ taken' = [taken EXCEPT ![k] = accepted[k]]
<1> USE DEF TypeOK, HeldInv
<1>1. PICK x \in Slots : x = hand[t].ref
  BY DEF DispatchClear, TypeTask, Token
<1>2. copy[t] = slots[x] /\ copy[t] \in Entry
  BY <1>1 DEF DispatchClear, CopyIsSlot, TypeTask
<1>3. PICK k \in Keys : k = copy[t].key
  BY <1>2 DEF Entry
<1>4. Used(x) /\ Holds(x, k)
  BY <1>2, <1>3 DEF Used, Holds
<1>5. ~Posting(x)
  <2>1. ASSUME NEW u \in Threads, callPc[u] = "post" PROVE FALSE
    <3>1. t \in Threads
      BY DEF Threads
    <3>2. lock = t /\ lock = u
      BY <2>1, <3>1 DEF DispatchClear, LockInv, InCriticalSection
    <3> QED BY <2>1, <3>2 DEF DispatchClear, LockInv
  <2> QED BY <2>1 DEF Posting
<1>6. copy[t].version = accepted[k]
  BY <1>2, <1>3, <1>4, <1>5 DEF SlotsAreNewest
<1>7. taken[k] < accepted[k]
  BY <1>2, <1>4, <1>6 DEF AcceptedIsHeld, TypeGhost
<1>8. copy[t] = [key |-> k, version |-> accepted[k]]
  BY <1>2, <1>3, <1>6 DEF Entry
<1> QED BY <1>3, <1>6, <1>7, <1>8 DEF DispatchClear

DeliveredInv ==
  \A t \in Tasks :
    pc[t] = "handle" /\ hand[t].kind = "state" =>
      copy[t].version \in 1 .. taken[copy[t].key]

\* What the subscribers are given was accepted and taken before.
THEOREM DeliveredCorrect == Spec => []DeliveredInv
<1>1. Init => DeliveredInv
  BY DEF Init, DeliveredInv
<1>2. TypeOK /\ LockInv /\ HeldInv /\ DeliveredInv /\ [Next]_vars => DeliveredInv'
  <2> SUFFICES ASSUME TypeOK, LockInv, HeldInv, DeliveredInv, [Next]_vars
               PROVE  DeliveredInv'
    OBVIOUS
  <2>1. /\ hand \in [Tasks -> Token] /\ pc \in [Tasks -> TaskPc]
        /\ copy \in [Tasks -> Entry \cup {NoEntry}] /\ taken \in [Keys -> Nat]
        /\ accepted \in [Keys -> Nat]
        /\ Loop \in Tasks /\ Retry \in Tasks
    BY DEF TypeOK, TypeTask, TypeGhost, Tasks
  <2>2. ASSUME UNCHANGED <<pc, hand, copy, taken>> PROVE DeliveredInv'
    BY <2>2 DEF DeliveredInv
  <2>3. ASSUME NEW th \in Threads,
               \/ \E k \in Keys : PublishLock(th, k)
               \/ PublishBusy(th) \/ PostBegin(th) \/ CallStep(th)
        PROVE  UNCHANGED <<pc, hand, copy, taken>>
    BY <2>3 DEF PublishLock, PublishBusy, PostBegin, CallStep, PublishCoalesce,
       PublishClaim, PublishNoSlot, PublishPost, PublishPostFails, PublishUnlock,
       PostAccepted, PostFails, task, ghost
  <2>4. CASE LoopReceive
    <3>1. Head(eventQ).kind # "state" => Head(eventQ).kind = "command"
      BY <2>4 DEF LoopReceive, TypeOK, TypeQueues, Token
    <3> QED BY <2>1, <2>4, <3>1 DEF LoopReceive, Go, DeliveredInv, ghost
  <2>5. CASE RetryReceive
    BY <2>1, <2>5 DEF RetryReceive, Go, DeliveredInv, ghost
  <2>6. ASSUME NEW t \in Tasks,
               \/ DispatchLock(t) \/ DispatchDefer(t) \/ DispatchCopy(t)
        PROVE  DeliveredInv'
    BY <2>1, <2>6 DEF DispatchLock, DispatchDefer, DispatchCopy, Go, Done,
       DeliveredInv, bus, call, ghost
  <2>7. ASSUME NEW t \in Tasks, HandlerReturn(t) PROVE DeliveredInv'
    BY <2>1, <2>7 DEF HandlerReturn, Go, Done, DeliveredInv
  <2>8. ASSUME NEW t \in Tasks, DispatchClear(t) PROVE DeliveredInv'
    <3>1. CASE copy[t] = NoEntry
      BY <2>1, <2>8, <3>1 DEF DispatchClear, Go, Done, DeliveredInv
    <3>2. CASE copy[t] # NoEntry
      <4>1. PICK k \in Keys :
              /\ copy[t] = [key |-> k, version |-> accepted[k]]
              /\ taken[k] < accepted[k]
              /\ taken' = [taken EXCEPT ![k] = accepted[k]]
        BY <2>8, <3>2, ClearTakes
      <4>2. /\ pc' = [pc EXCEPT ![t] = "handle"] /\ UNCHANGED <<hand, copy>>
            /\ hand[t].kind = "state"
        BY <2>8, <3>2 DEF DispatchClear, Go, TypeOK, TypeTask
      <4>3. copy[t].version \in 1 .. taken'[k] /\ copy[t].key = k
        BY <2>1, <4>1
      <4>4. ASSUME NEW u \in Tasks, u # t, pc[u] = "handle", hand[u].kind = "state"
            PROVE  copy[u].version \in 1 .. taken'[copy[u].key]
        <5>1. copy[u] \in Entry /\ copy[u].version \in 1 .. taken[copy[u].key]
          BY <4>4 DEF DeliveredInv, TypeOK, TypeTask
        <5>2. PICK j \in Keys : j = copy[u].key
          BY <5>1 DEF Entry
        <5>3. taken'[j] >= taken[j] /\ taken'[j] \in Nat /\ taken[j] \in Nat
          BY <2>1, <4>1
        <5> QED BY <5>1, <5>2, <5>3
      <4> QED BY <2>1, <4>2, <4>3, <4>4 DEF DeliveredInv
    <3> QED BY <3>1, <3>2
  <2>9. CASE UNCHANGED vars
    BY <2>2, <2>9 DEF vars
  <2> QED
    BY <2>2, <2>3, <2>4, <2>5, <2>6, <2>7, <2>8, <2>9 DEF Next, DispatchStep
<1> QED
  BY <1>1, <1>2, TypeCorrect, LockCorrect, HeldCorrect, PTL DEF Spec

LEMMA DeliveringStays ==
  ASSUME \A t \in Tasks : Delivering(t)' = Delivering(t)
  PROVE  UNCHANGED [t \in Tasks |-> Delivering(t)]
  OBVIOUS

LEMMA DeliveringMoves ==
  ASSUME NEW t \in Tasks, NEW x, Delivering(t)' = x,
         \A u \in Tasks : u # t => Delivering(u)' = Delivering(u)
  PROVE  [u \in Tasks |-> Delivering(u)]' =
           [[u \in Tasks |-> Delivering(u)] EXCEPT ![t] = x]
  OBVIOUS

\* Steps that neither accept nor start nor finish anything.
LEMMA ContractStutters ==
  ASSUME UNCHANGED <<accepted, taken, shown, posted, handled>>,
         Running' <=> Running,
         \A t \in Tasks : Delivering(t)' = Delivering(t)
  PROVE  UNCHANGED Contract!vars
<1>1. Begun' = Begun
  BY DEF Begun
<1> QED BY <1>1, DeliveringStays DEF Contract!vars

LEMMA AcceptIsStep ==
  ASSUME TypeOK, NEW th \in Threads, PublishCoalesce(th) \/ PublishPost(th)
  PROVE  Contract!Next
<1>1. callKey[th] \in Keys
  BY DEF PublishCoalesce, PublishPost, TypeOK, TypeCall
<1>2. /\ accepted' = [accepted EXCEPT ![callKey[th]] = @ + 1]
      /\ UNCHANGED <<taken, shown, posted, handled, pc, hand, copy>>
  BY DEF PublishCoalesce, PublishPost, task
<1>3. /\ UNCHANGED Begun
      /\ UNCHANGED [t \in Tasks |-> Delivering(t)]
  BY <1>2 DEF Begun, Running, Delivering
<1>4. Contract!Accept(callKey[th])
  BY <1>2, <1>3 DEF Contract!Accept
<1> QED BY <1>1, <1>4 DEF Contract!Next

LEMMA PostIsStep ==
  ASSUME NEW th \in Threads, PostAccepted(th)
  PROVE  Contract!Next
<1>1. /\ posted' = posted + 1
      /\ UNCHANGED <<accepted, taken, shown, handled, pc, hand, copy>>
  BY DEF PostAccepted, task
<1>2. /\ UNCHANGED Begun
      /\ UNCHANGED [t \in Tasks |-> Delivering(t)]
  BY <1>1 DEF Begun, Running, Delivering
<1> QED BY <1>1, <1>2 DEF Contract!Next, Contract!Post

LEMMA ReceiveIsStep ==
  ASSUME TypeOK, CommandInv, LoopReceive
  PROVE  [Contract!Next]_Contract!vars
<1> DEFINE e == Head(eventQ)
<1>1. /\ pc \in [Tasks -> TaskPc] /\ hand \in [Tasks -> Token]
      /\ handled \in Nat /\ Loop \in Tasks /\ pc[Loop] = "receive"
      /\ e \in Token /\ e = eventQ[1] /\ eventQ # <<>>
      /\ hand' = [hand EXCEPT ![Loop] = e]
      /\ UNCHANGED <<accepted, taken, shown, posted, handled, copy>>
  BY DEF LoopReceive, TypeOK, TypeTask, TypeGhost, TypeQueues, Tasks, ghost
<1>2. \A t \in Tasks : t # Loop => Delivering(t)' = Delivering(t)
  BY <1>1 DEF LoopReceive, Go, Delivering
<1>3. ~Running /\ Begun = handled /\ Delivering(Loop) = {}
  BY <1>1 DEF Running, Begun, Delivering
<1>4. CASE e.kind = "command"
  <2>1. e.ref = handled + 1 /\ handled + 1 <= posted
    BY <1>1, <1>3, <1>4, HeadIsNext DEF IsCommand
  <2>2. /\ Begun' = handled + 1
        /\ Delivering(Loop)' = {[command |-> handled + 1]}
    BY <1>1, <1>4, <2>1 DEF LoopReceive, Go, Begun, Running, Delivering
  <2>3. [t \in Tasks |-> Delivering(t)]' =
          [[t \in Tasks |-> Delivering(t)] EXCEPT ![Loop] = {[command |-> handled + 1]}]
    BY <1>1, <1>2, <2>2, DeliveringMoves
  <2>4. handled < posted
    BY <1>1, <2>1 DEF TypeOK, TypeGhost
  <2>5. Contract!Begin(Loop)
    BY <1>1, <1>3, <2>2, <2>3, <2>4 DEF Contract!Begin, Contract!Busy, Contract!Order
  <2> QED BY <1>1, <2>5 DEF Contract!Next
<1>5. CASE e.kind # "command"
  <2>1. ~Running' /\ Delivering(Loop)' = {}
    <3>1. e.kind = "state"
      BY <1>1, <1>5 DEF Token
    <3> QED BY <1>1, <3>1 DEF LoopReceive, Go, Running, Delivering
  <2> QED BY <1>1, <1>2, <1>3, <2>1, ContractStutters
<1> QED BY <1>4, <1>5

LEMMA ClearIsStep ==
  ASSUME TypeOK, LockInv, HeldInv, NEW t \in Tasks, DispatchClear(t)
  PROVE  [Contract!Next]_Contract!vars
<1>1. /\ pc \in [Tasks -> TaskPc] /\ hand \in [Tasks -> Token]
      /\ pc[t] = "clear" /\ hand[t].kind = "state"
      /\ UNCHANGED <<accepted, shown, posted, handled>>
  BY DEF DispatchClear, TypeOK, TypeTask
<1>2. /\ \A u \in Tasks : u # t => Delivering(u)' = Delivering(u)
      /\ Delivering(t) = {}
      /\ Running' <=> Running
  <2>1. /\ \A u \in Tasks : u # t =>
             pc'[u] = pc[u] /\ hand'[u] = hand[u] /\ copy'[u] = copy[u]
        /\ pc'[t] = "handle" => hand'[t] = hand[t]
    BY <1>1 DEF DispatchClear, Done, Go, TypeOK, TypeTask
  <2> QED BY <1>1, <2>1 DEF Delivering, Running, Tasks
<1>3. CASE copy[t] = NoEntry
  <2>1. UNCHANGED taken /\ Delivering(t)' = {}
    BY <1>1, <1>3 DEF DispatchClear, Done, Go, Delivering
  <2> QED BY <1>1, <1>2, <2>1, ContractStutters
<1>4. CASE copy[t] # NoEntry
  <2>1. PICK k \in Keys :
          /\ copy[t] = [key |-> k, version |-> accepted[k]]
          /\ taken[k] < accepted[k]
          /\ taken' = [taken EXCEPT ![k] = accepted[k]]
    BY <1>4, ClearTakes
  <2>2. Delivering(t)' = {copy[t]} /\ UNCHANGED Begun
    BY <1>1, <1>2, <1>4 DEF DispatchClear, Go, Delivering, Begun
  <2>3. [u \in Tasks |-> Delivering(u)]' =
          [[u \in Tasks |-> Delivering(u)] EXCEPT ![t] = {copy[t]}]
    BY <1>2, <2>2, DeliveringMoves
  <2>4. Contract!Take(t, k)
    BY <1>1, <1>2, <2>1, <2>2, <2>3 DEF Contract!Take, Contract!Busy, Contract!Value
  <2> QED BY <2>4 DEF Contract!Next
<1> QED BY <1>3, <1>4

LEMMA ReturnIsStep ==
  ASSUME TypeOK, CommandInv, DeliveredInv, NEW t \in Tasks, HandlerReturn(t)
  PROVE  Contract!Next
<1>1. /\ pc \in [Tasks -> TaskPc] /\ hand \in [Tasks -> Token]
      /\ copy \in [Tasks -> Entry \cup {NoEntry}] /\ handled \in Nat
      /\ pc[t] = "handle" /\ pc' = [pc EXCEPT ![t] = "receive"]
      /\ hand' = [hand EXCEPT ![t] = State(0)]
      /\ copy' = [copy EXCEPT ![t] = NoEntry]
      /\ UNCHANGED <<accepted, taken, posted>>
  BY DEF HandlerReturn, Done, Go, TypeOK, TypeTask, TypeGhost
<1>2. /\ \A u \in Tasks : u # t => Delivering(u)' = Delivering(u)
      /\ Delivering(t)' = {}
  BY <1>1 DEF Delivering
<1>3. [u \in Tasks |-> Delivering(u)]' = [[u \in Tasks |-> Delivering(u)] EXCEPT ![t] = {}]
  BY <1>2, DeliveringMoves
<1>4. CASE hand[t].kind = "command"
  <2>1. t = Loop
    BY <1>4 DEF CommandInv, Tasks
  <2>2. /\ Running /\ ~Running' /\ handled' = handled + 1 /\ UNCHANGED shown
        /\ hand[Loop].ref = handled + 1
    BY <1>1, <1>4, <2>1 DEF HandlerReturn, CommandInv, Running
  <2>3. Begun = handled + 1 /\ Begun' = handled + 1
    BY <2>2 DEF Begun
  <2>4. Delivering(t) = {[command |-> handled + 1]}
    BY <1>1, <1>4, <2>1, <2>2 DEF Delivering
  <2>5. Contract!Handle(t)
    BY <1>1, <1>3, <2>2, <2>3, <2>4 DEF Contract!Handle, Contract!Free, Contract!Order
  <2> QED BY <2>5 DEF Contract!Next
<1>5. CASE hand[t].kind # "command"
  <2>1. hand[t].kind = "state" /\ copy[t] \in Entry
    BY <1>1, <1>5 DEF TypeOK, TypeTask, Token
  <2>2. PICK k \in Keys, v \in Nat : copy[t] = [key |-> k, version |-> v]
    BY <2>1 DEF Entry
  <2>3. /\ v \in 1 .. taken[k] /\ UNCHANGED handled
        /\ shown' = [shown EXCEPT ![k] = v]
    BY <1>1, <2>1, <2>2 DEF HandlerReturn, DeliveredInv
  <2>4. UNCHANGED Begun
    <3>1. Running' <=> Running
      BY <1>1, <2>1 DEF Running, Tasks
    <3> QED BY <2>3, <3>1 DEF Begun
  <2>5. Delivering(t) = {[key |-> k, version |-> v]}
    BY <1>1, <2>1, <2>2 DEF Delivering
  <2>6. Contract!Show(t, k)
    BY <1>1, <1>3, <2>3, <2>4, <2>5 DEF Contract!Show, Contract!Free, Contract!Value
  <2> QED BY <2>6 DEF Contract!Next
<1> QED BY <1>4, <1>5

\* IsContract: whatever the interleaving of publishers, deferral and both
\* delivery tasks, each step keeps the promises of view_event.h.
THEOREM ImplementsContract == Spec => IsContract
<1>1. Init => Contract!Init
  <2> SUFFICES ASSUME Init PROVE Contract!Init
    OBVIOUS
  <2>1. ~Running /\ Begun = 0 /\ \A t \in Tasks : Delivering(t) = {}
    BY DEF Init, Running, Begun, Delivering, Tasks
  <2>2. [t \in Tasks |-> Delivering(t)] = [t \in Tasks |-> {}]
    BY <2>1
  <2> QED BY <2>1, <2>2 DEF Init, Contract!Init
<1>2. TypeOK /\ LockInv /\ HeldInv /\ CommandInv /\ DeliveredInv /\ [Next]_vars
        => [Contract!Next]_Contract!vars
  <2> SUFFICES ASSUME TypeOK, LockInv, HeldInv, CommandInv, DeliveredInv, [Next]_vars
               PROVE  [Contract!Next]_Contract!vars
    OBVIOUS
  <2>1. ASSUME NEW th \in Threads,
               \/ \E k \in Keys : PublishLock(th, k)
               \/ PublishBusy(th) \/ PostBegin(th) \/ PublishClaim(th)
               \/ PublishNoSlot(th) \/ PublishPostFails(th) \/ PublishUnlock(th)
               \/ PostFails(th)
        PROVE  UNCHANGED <<accepted, taken, shown, posted, handled, pc, hand, copy>>
    BY <2>1 DEF PublishLock, PublishBusy, PostBegin, PublishClaim, PublishNoSlot,
       PublishPostFails, PublishUnlock, PostFails, task, ghost
  <2>2. ASSUME UNCHANGED <<accepted, taken, shown, posted, handled, pc, hand, copy>>
        PROVE  UNCHANGED Contract!vars
    BY <2>2, ContractStutters DEF Running, Delivering
  <2>3. ASSUME NEW th \in Threads,
               PublishCoalesce(th) \/ PublishPost(th) \/ PostAccepted(th)
        PROVE  Contract!Next
    BY <2>3, AcceptIsStep, PostIsStep
  <2>4. CASE LoopReceive
    BY <2>4, ReceiveIsStep
  <2>5. ASSUME NEW t \in Tasks,
               \/ t = Retry /\ RetryReceive
               \/ DispatchLock(t) \/ DispatchDefer(t) \/ DispatchCopy(t)
        PROVE  UNCHANGED Contract!vars
    <3>1. /\ UNCHANGED <<accepted, taken, shown, posted, handled>>
          /\ pc[t] # "handle" /\ pc'[t] # "handle"
          /\ \A u \in Tasks : u # t =>
               pc'[u] = pc[u] /\ hand'[u] = hand[u] /\ copy'[u] = copy[u]
      BY <2>5 DEF RetryReceive, DispatchLock, DispatchDefer, DispatchCopy, Done, Go,
         TypeOK, TypeTask, ghost
    <3>2. Running' <=> Running
      BY <3>1 DEF Running, Tasks
    <3>3. \A u \in Tasks : Delivering(u)' = Delivering(u)
      BY <3>1 DEF Delivering
    <3> QED BY <3>1, <3>2, <3>3, ContractStutters
  <2>6. ASSUME NEW t \in Tasks, DispatchClear(t) \/ HandlerReturn(t)
        PROVE  [Contract!Next]_Contract!vars
    BY <2>6, ClearIsStep, ReturnIsStep
  <2>7. CASE UNCHANGED vars
    BY <2>2, <2>7 DEF vars
  <2>8. Retry \in Tasks
    BY DEF Tasks
  <2> QED
    BY <2>1, <2>2, <2>3, <2>4, <2>5, <2>6, <2>7, <2>8 DEF Next, CallStep, DispatchStep
<1> QED
  BY <1>1, <1>2, TypeCorrect, LockCorrect, HeldCorrect, CommandsCorrect,
     DeliveredCorrect, PTL DEF Spec, IsContract, Contract!Spec

-----------------------------------------------------------------------------
(***************************************************************************)
(* A handler may publish and post, so a task is kept from its queue for as *)
(* long as a call may last: a bounded number of steps, whatever the other  *)
(* threads do.                                                             *)
(***************************************************************************)
\* The steps that a call has still to take, at most: at p, with a attempts of a
\* command made.
CallWorkAt(p, a) ==
  CASE p = "scan"    -> 3
    [] p = "post"    -> 2
    [] p = "unlock"  -> 1
    [] p = "attempt" -> CommandAttempts - a
    [] OTHER         -> 0

CallWork(th) == CallWorkAt(callPc[th], attempt[th])

\* A call that is under way has a positive number of steps left, each of its
\* steps makes it smaller, and nobody else's step changes it.
CallsAreBounded ==
  /\ [](\A th \in Threads :
          CallWork(th) \in Nat /\ (callPc[th] # "idle" => CallWork(th) > 0))
  /\ [][\A th \in Threads :
          /\ CallStep(th) => CallWork(th)' < CallWork(th)
          /\ callPc[th] # "idle" =>
               CallStep(th) \/ CallWork(th)' = CallWork(th)]_vars

\* A command that is still being posted has an attempt left.
AttemptsLeft ==
  \A th \in Threads : callPc[th] = "attempt" => attempt[th] < CommandAttempts

LEMMA AttemptsCorrect == Spec => []AttemptsLeft
<1>1. Init => AttemptsLeft
  BY DEF Init, AttemptsLeft
<1>2. TypeOK /\ AttemptsLeft /\ [Next]_vars => AttemptsLeft'
  <2> SUFFICES ASSUME TypeOK, AttemptsLeft, [Next]_vars,
                      NEW th \in Threads, callPc'[th] = "attempt"
               PROVE  attempt'[th] < CommandAttempts
    BY DEF AttemptsLeft
  <2>0. /\ callPc \in [Threads -> CallPc] /\ attempt \in [Threads -> Nat]
        /\ CommandAttempts \in Nat \ {0}
        /\ callPc[th] = "attempt" => attempt[th] < CommandAttempts
    BY Assumptions DEF TypeOK, TypeCall, AttemptsLeft
  <2>1. ASSUME NEW u \in Threads,
               PublishBusy(u) \/ \E k \in Keys : PublishLock(u, k)
        PROVE  attempt'[th] < CommandAttempts
    BY <2>0, <2>1 DEF PublishBusy, PublishLock, GoCall, call
  <2>2. ASSUME NEW u \in Threads, PostBegin(u)
        PROVE  attempt'[th] < CommandAttempts
    BY <2>0, <2>2 DEF PostBegin, GoCall
  <2>3. ASSUME NEW u \in Threads, CallStep(u)
        PROVE  attempt'[th] < CommandAttempts
    <3>1. CASE PostFails(u)
      BY <2>0, <3>1 DEF PostFails, GoCall
    <3>2. CASE ~PostFails(u)
      BY <2>0, <2>3, <3>2 DEF CallStep, PublishCoalesce, PublishClaim,
         PublishNoSlot, PublishPost, PublishPostFails, PublishUnlock,
         PostAccepted, GoCall
    <3> QED BY <3>1, <3>2
  <2>4. ASSUME LoopReceive \/ RetryReceive \/ \E t \in Tasks : DispatchStep(t)
        PROVE  attempt'[th] < CommandAttempts
    BY <2>0, <2>4 DEF LoopReceive, RetryReceive, DispatchStep, DispatchLock,
       DispatchDefer, DispatchCopy, DispatchClear, HandlerReturn, call
  <2>5. CASE UNCHANGED vars
    BY <2>0, <2>5 DEF vars
  <2> QED BY <2>1, <2>2, <2>3, <2>4, <2>5 DEF Next
<1> QED BY <1>1, <1>2, TypeCorrect, PTL DEF Spec

LEMMA CallWorkTypes ==
  ASSUME TypeOK, AttemptsLeft, NEW th \in Threads
  PROVE  CallWork(th) \in Nat /\ (callPc[th] # "idle" => CallWork(th) > 0)
<1>1. /\ callPc[th] \in CallPc /\ attempt[th] \in Nat /\ CommandAttempts \in Nat
      /\ callPc[th] = "attempt" => attempt[th] < CommandAttempts
  BY Assumptions DEF TypeOK, TypeCall, AttemptsLeft
<1> QED BY <1>1 DEF CallWork, CallWorkAt, CallPc

\* view_event_publish_state takes at most three steps after it took the lock, and
\* view_event_post_command at most CommandAttempts.
THEOREM StepsAreCounted == Spec => CallsAreBounded
<1>1. TypeOK /\ AttemptsLeft => \A th \in Threads :
        CallWork(th) \in Nat /\ (callPc[th] # "idle" => CallWork(th) > 0)
  BY CallWorkTypes
<1>2. ASSUME TypeOK, AttemptsLeft, NEW th \in Threads, CallStep(th)
      PROVE  CallWork(th)' < CallWork(th)
  <2>0. /\ callPc \in [Threads -> CallPc] /\ attempt \in [Threads -> Nat]
        /\ CommandAttempts \in Nat /\ attempt[th] \in Nat
        /\ callPc[th] = "attempt" => attempt[th] < CommandAttempts
    BY <1>2, Assumptions DEF TypeOK, TypeCall, AttemptsLeft
  <2>1. CASE PublishCoalesce(th)
    BY <2>0, <2>1 DEF PublishCoalesce, GoCall, CallWork, CallWorkAt
  <2>2. CASE PublishClaim(th)
    BY <2>0, <2>2 DEF PublishClaim, GoCall, CallWork, CallWorkAt
  <2>3. CASE PublishNoSlot(th)
    BY <2>0, <2>3 DEF PublishNoSlot, GoCall, CallWork, CallWorkAt
  <2>4. CASE PublishPost(th)
    BY <2>0, <2>4 DEF PublishPost, GoCall, CallWork, CallWorkAt
  <2>5. CASE PublishPostFails(th)
    BY <2>0, <2>5 DEF PublishPostFails, GoCall, CallWork, CallWorkAt
  <2>6. CASE PublishUnlock(th)
    BY <2>0, <2>6 DEF PublishUnlock, GoCall, CallWork, CallWorkAt
  <2>7. CASE PostAccepted(th)
    BY <2>0, <2>7 DEF PostAccepted, GoCall, CallWork, CallWorkAt
  <2>8. CASE PostFails(th)
    <3>1. CASE attempt[th] + 1 < CommandAttempts
      <4>1. /\ attempt'[th] = attempt[th] + 1
            /\ callPc'[th] = "attempt" /\ callPc[th] = "attempt"
        BY <2>0, <2>8, <3>1 DEF PostFails
      <4> QED BY <2>0, <4>1 DEF CallWork, CallWorkAt
    <3>2. CASE ~(attempt[th] + 1 < CommandAttempts)
      <4>1. callPc'[th] = "idle" /\ callPc[th] = "attempt"
        BY <2>0, <2>8, <3>2 DEF PostFails, GoCall
      <4> QED BY <2>0, <4>1 DEF CallWork, CallWorkAt
    <3> QED BY <3>1, <3>2
  <2> QED
    BY <1>2, <2>1, <2>2, <2>3, <2>4, <2>5, <2>6, <2>7, <2>8 DEF CallStep
<1>3. ASSUME TypeOK, [Next]_vars, NEW th \in Threads, callPc[th] # "idle"
      PROVE  CallStep(th) \/ CallWork(th)' = CallWork(th)
  <2>0. callPc \in [Threads -> CallPc] /\ attempt \in [Threads -> Nat]
    BY <1>3 DEF TypeOK, TypeCall
  <2> DEFINE Same == callPc'[th] = callPc[th] /\ attempt'[th] = attempt[th]
  <2>1. ASSUME NEW u \in Threads,
               PublishBusy(u) \/ PostBegin(u) \/ \E k \in Keys : PublishLock(u, k)
        PROVE  Same
    BY <1>3, <2>0, <2>1 DEF PublishBusy, PostBegin, PublishLock, MayCall, GoCall, call
  <2>2. ASSUME NEW u \in Threads, u # th, CallStep(u)
        PROVE  Same
    BY <2>0, <2>2 DEF CallStep, PublishCoalesce, PublishClaim, PublishNoSlot,
       PublishPost, PublishPostFails, PublishUnlock, PostAccepted, PostFails, GoCall
  <2>3. ASSUME LoopReceive \/ RetryReceive \/ \E t \in Tasks : DispatchStep(t)
        PROVE  Same
    BY <2>3 DEF LoopReceive, RetryReceive, DispatchStep, DispatchLock,
       DispatchDefer, DispatchCopy, DispatchClear, HandlerReturn, call
  <2>4. ASSUME UNCHANGED vars
        PROVE  Same
    BY <2>4 DEF vars
  <2>5. CallStep(th) \/ Same
    BY <1>3, <2>1, <2>2, <2>3, <2>4 DEF Next
  <2> QED BY <2>5 DEF CallWork, CallWorkAt
<1>4. TypeOK /\ AttemptsLeft /\ [Next]_vars =>
        [\A th \in Threads :
          /\ CallStep(th) => CallWork(th)' < CallWork(th)
          /\ callPc[th] # "idle" =>
               CallStep(th) \/ CallWork(th)' = CallWork(th)]_vars
  BY <1>2, <1>3
<1> QED BY <1>1, <1>4, TypeCorrect, AttemptsCorrect, PTL DEF Spec, CallsAreBounded
=============================================================================
