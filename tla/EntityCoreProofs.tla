------------------------- MODULE EntityCoreProofs -------------------------
(***************************************************************************)
(* Safety of the entity core for every number of clients, observers and    *)
(* entities, and its refinement of EntityRegister.  The argument has three *)
(* invariants above the types: the mutexes exclude (LockInv), what is      *)
(* being told is still authoritative (TellInv), and between its two writes *)
(* a state differs from what it was only in its value (WriteInv).          *)
(***************************************************************************)
EXTENDS EntityCore, SequenceTheorems, TLAPS

LEMMA NewVersion ==
  ASSUME NEW s \in Snapshot, NEW n \in Nat
  PROVE  [s EXCEPT !.version = n] \in Snapshot
BY DEF Snapshot

LEMMA ReturnTypes ==
  ASSUME TypeCalls, NEW c \in Clients, Return(c)
  PROVE  TypeCalls'
<1>1. 0 \in Entities /\ Boot(0) \in Snapshot
  BY Assumptions DEF Entities, Boot, Snapshot
<1>2. <<>> \in Seq(Observers)
  OBVIOUS
<1>3. pc' \in [Clients -> Pc] /\ input' \in [Clients -> Int \cup {NonFinite}]
  BY DEF Return, Go, TypeCalls, Pc
<1>4. /\ target' \in [Clients -> Entities]
      /\ result' \in [Clients -> Snapshot]
      /\ snapshot' \in [Clients -> Snapshot]
      /\ pending' \in [Clients -> Seq(Observers)]
  BY <1>1, <1>2 DEF Return, TypeCalls
<1>5. ASSUME NEW d \in Clients
      PROVE  /\ pc'[d] \in {"update", "write"} => input'[d] \in Int
             /\ pc'[d] \in {"replay", "copy", "tell"} => pending'[d] # <<>>
  BY DEF Return, Go, TypeCalls
<1> QED BY <1>3, <1>4, <1>5 DEF TypeCalls

\* Every variable keeps its type, and the list of observers its capacity, for
\* any number of clients, observers, entities and writes.
THEOREM TypeCorrect == Spec => []TypeOK
<1> USE DEF TypeOK
<1>1. Init => TypeOK
  <2> SUFFICES ASSUME Init PROVE TypeOK
    OBVIOUS
  <2>1. 0 \in Entities /\ \A e \in Entities : Boot(e) \in Snapshot
    BY Assumptions DEF Entities, Boot, Snapshot
  <2>2. TypeCore
    BY <2>1, Assumptions DEF Init, TypeCore
  <2>3. TypeCalls
    BY <2>1, Assumptions DEF Init, TypeCalls, Pc
  <2>4. TypeGhosts
    BY <2>1, Assumptions DEF Init, TypeGhosts, Reply
  <2> QED BY <2>2, <2>3, <2>4
<1>2. TypeOK /\ [Next]_vars => TypeOK'
  <2> SUFFICES ASSUME TypeOK, [Next]_vars PROVE TypeOK'
    OBVIOUS
  <2>0. 0 \in Entities /\ Boot(0) \in Snapshot
    BY Assumptions DEF Entities, Boot, Snapshot
  <2>00. <<>> \in Seq(Observers)
    OBVIOUS
  <2>1. ASSUME NEW c \in Clients, NEW e \in Entities, NEW v \in Values \cup {NonFinite}, Submit(c, e, v)
        PROVE  TypeOK'
    <3>1. TypeCalls'
      BY <2>1, <2>0, <2>00, Assumptions DEF Submit, Go, TypeCore, TypeCalls,
         Pc, Entities, locals
    <3>2. TypeGhosts'
      BY <2>1, Assumptions DEF Submit, TypeCore, TypeCalls, TypeGhosts, Reply,
         ghosts
    <3>3. TypeCore'
      BY <2>1 DEF Submit, TypeCore, core, locks, locals, ghosts
    <3> QED BY <3>1, <3>2, <3>3
  <2>2. ASSUME NEW c \in Clients, NEW e \in Entities, NEW v \in Values, SetSensor(c, e, v)
        PROVE  TypeOK'
    <3>1. TypeCalls'
      BY <2>2, <2>0, <2>00, Assumptions DEF SetSensor, Go, TypeCore, TypeCalls,
         Pc, Entities, locals
    <3>2. TypeGhosts'
      BY <2>2, Assumptions DEF SetSensor, TypeCore, TypeCalls, TypeGhosts,
         Reply, ghosts
    <3>3. TypeCore'
      BY <2>2 DEF SetSensor, TypeCore, core, locks, locals, ghosts
    <3> QED BY <3>1, <3>2, <3>3
  <2>3. ASSUME NEW c \in Clients, NEW o \in Observers, Replay(c, o)
        PROVE  TypeOK'
    <3>1. <<o>> \in Seq(Observers) /\ <<o>> # <<>>
      OBVIOUS
    <3>2. TypeCalls'
      BY <2>3, <2>0, <2>00, <3>1, Assumptions DEF Replay, Go, TypeCore,
         TypeCalls, Pc, Entities, locals
    <3>3. TypeCore' /\ TypeGhosts'
      BY <2>3 DEF Replay, TypeCore, TypeGhosts, core, locks, locals, ghosts
    <3> QED BY <3>2, <3>3
  <2>4. ASSUME NEW c \in Clients, NEW e \in Entities, GetSnapshot(c, e)
        PROVE  TypeOK'
    <3>1. TypeGhosts'
      BY <2>4, Assumptions DEF GetSnapshot, TypeCore, TypeCalls, TypeGhosts,
         Reply, ghosts
    <3>2. TypeCore' /\ TypeCalls'
      BY <2>4 DEF GetSnapshot, TypeCore, TypeCalls, core, locks, locals, ghosts
    <3> QED BY <3>1, <3>2
  <2>5. ASSUME NEW c \in Clients, NEW o \in Observers, AddObserver(c, o)
        PROVE  TypeOK'
    <3>1. Append(observers, o) \in Seq(Observers) /\ Len(Append(observers, o)) = Len(observers) + 1
      BY DEF TypeCore
    <3>2. TypeCore'
      BY <2>5, <3>1, Assumptions DEF AddObserver, TypeCore, TypeCalls, core,
         locks
    <3>3. TypeCalls' /\ TypeGhosts'
      BY <2>5 DEF AddObserver, TypeCalls, TypeGhosts, core, locks, locals,
         ghosts
    <3> QED BY <3>2, <3>3
  <2>6. ASSUME NEW c \in Clients, TakeNotifyLock(c)
        PROVE  TypeOK'
    <3>1. TypeCore'
      BY <2>6, Assumptions DEF TakeNotifyLock, TypeCore, TypeCalls, core, locks
    <3>2. TypeCalls'
      BY <2>6, <2>0, <2>00, Assumptions DEF TakeNotifyLock, Go, TypeCore,
         TypeCalls, Pc, Entities, locals
    <3>3. TypeGhosts'
      BY <2>6 DEF TakeNotifyLock, TypeGhosts, core, locks, locals, ghosts
    <3> QED BY <3>1, <3>2, <3>3
  <2>7. ASSUME NEW c \in Clients, Reject(c)
        PROVE  TypeOK'
    <3>1. TypeCore'
      BY <2>7, Assumptions DEF Reject, Return, TypeCore, TypeCalls, core, locks
    <3>2. TypeCalls'
      BY <2>7, ReturnTypes DEF Reject
    <3>3. TypeGhosts'
      BY <2>7, Assumptions DEF Reject, Return, TypeCore, TypeCalls, TypeGhosts,
         Reply, ghosts
    <3> QED BY <3>1, <3>2, <3>3
  <2>8. ASSUME NEW c \in Clients, WriteValue(c)
        PROVE  TypeOK'
    <3>1. states' \in [Entities -> Snapshot]
      BY <2>8 DEF WriteValue, Accepts, TypeCore, TypeCalls, Snapshot
    <3>2. states[target[c]] \in Snapshot
      BY DEF TypeCore, TypeCalls
    <3>3. TypeCore'
      BY <2>8, <3>1, <3>2, Assumptions DEF WriteValue, TypeCore, TypeCalls,
         core, locks
    <3>4. TypeCalls'
      BY <2>8, <2>0, <2>00, <3>1, <3>2, Assumptions DEF WriteValue, Go,
         TypeCore, TypeCalls, Pc, Entities, locals
    <3>5. TypeGhosts'
      BY <2>8 DEF WriteValue, TypeGhosts, core, locks, locals, ghosts
    <3> QED BY <3>3, <3>4, <3>5
  <2>9. ASSUME NEW c \in Clients, WriteVersion(c)
        PROVE  TypeOK'
    <3>1. states[target[c]] \in Snapshot /\ version + 1 \in Nat
      BY DEF TypeCore, TypeCalls
    <3>2. [states[target[c]] EXCEPT !.version = version + 1] \in Snapshot
      BY <3>1, NewVersion
    <3>3. version' \in Nat /\ states' \in [Entities -> Snapshot]
      BY <2>9, <3>2 DEF WriteVersion, TypeCore, TypeCalls
    <3>4. states'[target[c]] \in Snapshot
      BY <3>3 DEF TypeCalls
    <3>5. TypeCore'
      BY <2>9, <3>1, <3>2, <3>3, <3>4, Assumptions DEF WriteVersion, TypeCore,
         TypeCalls, core, locks
    <3>6. TypeCalls'
      BY <2>9, <2>0, <2>00, <3>1, <3>2, <3>3, <3>4, Assumptions
         DEF WriteVersion, Go, TypeCore, TypeCalls, Pc, Entities, locals
    <3>7. TypeGhosts'
      BY <2>9, <3>1, <3>2, <3>3, <3>4, Assumptions DEF WriteVersion, TypeCore,
         TypeCalls, TypeGhosts, Reply, ghosts
    <3> QED BY <3>5, <3>6, <3>7
  <2>10. ASSUME NEW c \in Clients, Notify(c)
        PROVE  TypeOK'
    <3>1. Head(pending[c]) \in Observers /\ Tail(pending[c]) \in Seq(Observers)
      BY <2>10 DEF Notify, TypeCalls
    <3>2. TypeCalls'
      BY <2>10, <2>0, <2>00, <3>1, Assumptions DEF Notify, Go, TypeCore,
         TypeCalls, Pc, Entities, locals
    <3>3. TypeGhosts'
      BY <2>10, <3>1, Assumptions DEF Notify, TypeCore, TypeCalls, TypeGhosts,
         Reply, ghosts
    <3>4. TypeCore'
      BY <2>10 DEF Notify, TypeCore, core, locks, locals, ghosts
    <3> QED BY <3>2, <3>3, <3>4
  <2>11. ASSUME NEW c \in Clients, Notified(c)
        PROVE  TypeOK'
    <3>1. TypeCore'
      BY <2>11, Assumptions DEF Notified, Return, TypeCore, TypeCalls, core,
         locks
    <3>2. TypeCalls'
      BY <2>11, ReturnTypes DEF Notified
    <3>3. TypeGhosts'
      BY <2>11 DEF Notified, TypeGhosts, core, locks, locals, ghosts
    <3> QED BY <3>1, <3>2, <3>3
  <2>12. ASSUME NEW c \in Clients, ReplayCopy(c)
        PROVE  TypeOK'
    <3>1. TypeCalls'
      BY <2>12, <2>0, <2>00, Assumptions DEF ReplayCopy, Go, TypeCore,
         TypeCalls, Pc, Entities, locals
    <3>2. TypeCore' /\ TypeGhosts'
      BY <2>12 DEF ReplayCopy, TypeCore, TypeGhosts, core, locks, locals, ghosts
    <3> QED BY <3>1, <3>2
  <2>13. ASSUME NEW c \in Clients, ReplayTell(c)
        PROVE  TypeOK'
    <3>1. Head(pending[c]) \in Observers
      BY <2>13 DEF ReplayTell, TypeCalls
    <3>2. target[c] + 1 \in Entities
      BY <2>13, Assumptions DEF ReplayTell, TypeCalls, Entities
    <3>3. TypeCalls'
      BY <2>13, <2>0, <2>00, <3>1, <3>2, Assumptions DEF ReplayTell, Go,
         TypeCore, TypeCalls, Pc, Entities, locals
    <3>4. TypeGhosts'
      BY <2>13, <3>1, <3>2, Assumptions DEF ReplayTell, TypeCore, TypeCalls,
         TypeGhosts, Reply, ghosts
    <3>5. TypeCore'
      BY <2>13 DEF ReplayTell, TypeCore, core, locks, locals, ghosts
    <3> QED BY <3>3, <3>4, <3>5
  <2>14. ASSUME NEW c \in Clients, ReplayLast(c)
        PROVE  TypeOK'
    <3>1. Head(pending[c]) \in Observers
      BY <2>14 DEF ReplayLast, TypeCalls
    <3>2. TypeCore'
      BY <2>14, <3>1, Assumptions DEF ReplayLast, Return, TypeCore, TypeCalls,
         core, locks
    <3>3. TypeCalls'
      BY <2>14, ReturnTypes DEF ReplayLast
    <3>4. TypeGhosts'
      BY <2>14, <3>1, Assumptions DEF ReplayLast, Return, TypeCore, TypeCalls,
         TypeGhosts, Reply, ghosts
    <3> QED BY <3>2, <3>3, <3>4
  <2>15. CASE UNCHANGED vars
    BY <2>15 DEF vars, TypeCore, TypeCalls, TypeGhosts
  <2> QED
    BY <2>1, <2>2, <2>3, <2>4, <2>5, <2>6, <2>7, <2>8,
       <2>9, <2>10, <2>11, <2>12, <2>13, <2>14, <2>15
    DEF Next, CallBegin, CallStep
<1> QED BY <1>1, <1>2, PTL DEF Spec

-----------------------------------------------------------------------------
Inside == {"validate", "write", "version", "notify", "copy", "tell"}

\* Who holds the mutexes is who is in the sections they guard.
LockInv ==
  \A c \in Clients : /\ notifyLock = c <=> pc[c] \in Inside
                     /\ stateLock = c <=> pc[c] = "version"

\* Each mutex excludes: one client at a time commits, tells or replays.
THEOREM LockCorrect == Spec => []LockInv
<1>1. Init => LockInv
  BY Assumptions DEF Init, LockInv, Inside
<1>2. TypeOK /\ LockInv /\ [Next]_vars => LockInv'
  <2> SUFFICES ASSUME TypeOK, LockInv, [Next]_vars PROVE LockInv'
    OBVIOUS
  <2> USE Assumptions DEF TypeOK, TypeCore, TypeCalls, Pc, LockInv, Inside
  <2>1. ASSUME NEW c \in Clients, NEW e \in Entities, NEW v \in Values \cup {NonFinite}, Submit(c, e, v)
        PROVE  LockInv'
    BY <2>1 DEF Submit, Go, core, locks
  <2>2. ASSUME NEW c \in Clients, NEW e \in Entities, NEW v \in Values, SetSensor(c, e, v)
        PROVE  LockInv'
    BY <2>2 DEF SetSensor, Go, core, locks
  <2>3. ASSUME NEW c \in Clients, NEW o \in Observers, Replay(c, o)
        PROVE  LockInv'
    BY <2>3 DEF Replay, Go, core, locks
  <2>4. ASSUME NEW c \in Clients, NEW e \in Entities, GetSnapshot(c, e)
        PROVE  LockInv'
    BY <2>4 DEF GetSnapshot, core, locks
  <2>5. ASSUME NEW c \in Clients, NEW o \in Observers, AddObserver(c, o)
        PROVE  LockInv'
    BY <2>5 DEF AddObserver, core, locks
  <2>6. ASSUME NEW c \in Clients, TakeNotifyLock(c)
        PROVE  LockInv'
    BY <2>6 DEF TakeNotifyLock, Go, core, locks
  <2>7. ASSUME NEW c \in Clients, Reject(c)
        PROVE  LockInv'
    BY <2>7 DEF Reject, Return, Go, core, locks
  <2>8. ASSUME NEW c \in Clients, WriteValue(c)
        PROVE  LockInv'
    BY <2>8 DEF WriteValue, Go, core, locks
  <2>9. ASSUME NEW c \in Clients, WriteVersion(c)
        PROVE  LockInv'
    BY <2>9 DEF WriteVersion, Go, core, locks
  <2>10. ASSUME NEW c \in Clients, Notify(c)
        PROVE  LockInv'
    BY <2>10 DEF Notify, core, locks
  <2>11. ASSUME NEW c \in Clients, Notified(c)
        PROVE  LockInv'
    BY <2>11 DEF Notified, Return, Go, core, locks
  <2>12. ASSUME NEW c \in Clients, ReplayCopy(c)
        PROVE  LockInv'
    BY <2>12 DEF ReplayCopy, Go, core, locks
  <2>13. ASSUME NEW c \in Clients, ReplayTell(c)
        PROVE  LockInv'
    BY <2>13 DEF ReplayTell, Go, core, locks
  <2>14. ASSUME NEW c \in Clients, ReplayLast(c)
        PROVE  LockInv'
    BY <2>14 DEF ReplayLast, Return, Go, core, locks
  <2>15. CASE UNCHANGED vars
    BY <2>15 DEF vars
  <2> QED
    BY <2>1, <2>2, <2>3, <2>4, <2>5, <2>6, <2>7, <2>8,
       <2>9, <2>10, <2>11, <2>12, <2>13, <2>14, <2>15
    DEF Next, CallBegin, CallStep
<1> QED BY <1>1, <1>2, TypeCorrect, PTL DEF Spec

-----------------------------------------------------------------------------
(***************************************************************************)
(* What keeps the observers in step.  What a client is about to tell is    *)
(* still authoritative; no observer is ahead of a state; a replay has told *)
(* the entities before its index; and an observer that caught up has been  *)
(* told every state, except the one whose commit has still to reach it.    *)
(***************************************************************************)
FreshCopy ==
  \A c \in Clients : pc[c] \in {"notify", "tell"} => snapshot[c] = states[target[c]]

NeverAhead ==
  \A e \in Entities :
    /\ states[e].version <= version
    /\ \A o \in Observers : told[o][e].version <= states[e].version

ReplayInv ==
  \A c \in Clients :
    /\ pc[c] = "replay" => target[c] = 0
    /\ pc[c] \in {"copy", "tell"} =>
         \A e \in Entities :
           e < target[c] => told[Head(pending[c])][e] = states[e]

ToBeTold(c, o, e) ==
  /\ target[c] = e
  /\ \/ pc[c] = "version"
     \/ pc[c] = "notify" /\ Occurs(o, pending[c])

CaughtUpInv ==
  \A o \in caughtUp :
    /\ Added(o)
    /\ \A e \in Entities :
         told[o][e] = states[e] \/ \E c \in Clients : ToBeTold(c, o, e)

TellInv == FreshCopy /\ NeverAhead /\ ReplayInv /\ CaughtUpInv

LEMMA Exclusion ==
  ASSUME LockInv, NEW c \in Clients, NEW d \in Clients, c # d, pc[c] \in Inside
  PROVE  pc[d] \notin Inside
BY DEF LockInv

LEMMA NobodyWrites ==
  ASSUME LockInv, stateLock = NoClient, NEW c \in Clients
  PROVE  pc[c] # "version"
BY Assumptions DEF LockInv

LEMMA HeadOrTail ==
  ASSUME NEW q \in Seq(Observers), NEW o, q # <<>>
  PROVE  Occurs(o, q) <=> o = Head(q) \/ Occurs(o, Tail(q))
<1>1. /\ DOMAIN Tail(q) = 1 .. Len(q) - 1
      /\ DOMAIN q = 1 .. Len(q)
      /\ Len(q) \in Nat \ {0}
      /\ \A i \in 1 .. Len(q) - 1 : Tail(q)[i] = q[i + 1]
      /\ Head(q) = q[1]
  OBVIOUS
<1>2. ASSUME NEW i \in DOMAIN q, q[i] = o, o # Head(q)
      PROVE  Occurs(o, Tail(q))
  <2>1. (i - 1) \in DOMAIN Tail(q) /\ Tail(q)[i - 1] = q[i]
    BY <1>1, <1>2
  <2> QED BY <1>2, <2>1 DEF Occurs
<1>3. o = Head(q) \/ Occurs(o, Tail(q)) => Occurs(o, q)
  BY <1>1 DEF Occurs
<1> QED BY <1>2, <1>3 DEF Occurs

LEMMA AddedStays ==
  ASSUME NEW q \in Seq(Observers), NEW x \in Observers, NEW o, Occurs(o, q)
  PROVE  Occurs(o, Append(q, x))
BY DEF Occurs

\* A step that changes no state, tells nobody and moves no client inside the
\* sections of the mutexes.
LEMMA NothingTold ==
  ASSUME TypeOK, TellInv, UNCHANGED <<states, version, told, caughtUp>>,
         \A o \in caughtUp : Added(o)',
         \A c \in Clients :
           \/ UNCHANGED <<pc[c], target[c], snapshot[c], pending[c]>>
           \/ /\ pc[c] \notin {"version", "notify"}
              /\ pc'[c] \notin Inside
              /\ pc'[c] = "replay" => target'[c] = 0
  PROVE  TellInv'
<1> USE DEF TellInv, Inside
<1>1. FreshCopy'
  BY DEF FreshCopy
<1>2. NeverAhead'
  BY DEF NeverAhead
<1>3. ReplayInv'
  BY DEF ReplayInv
<1>4. CaughtUpInv'
  BY DEF CaughtUpInv, ToBeTold
<1> QED BY <1>1, <1>2, <1>3, <1>4

\* What a client tells is authoritative until it has told it, and observers that
\* caught up miss nothing.
THEOREM TellCorrect == Spec => []TellInv
<1>1. Init => TellInv
  BY Assumptions DEF Init, TellInv, FreshCopy, NeverAhead, ReplayInv,
     CaughtUpInv, Boot
<1>2. TypeOK /\ LockInv /\ TellInv /\ [Next]_vars => TellInv'
  <2> SUFFICES ASSUME TypeOK, LockInv, TellInv, [Next]_vars PROVE TellInv'
    OBVIOUS
  <2> USE DEF TypeOK
  <2>0. \A o \in caughtUp : Added(o)
    BY DEF TellInv, CaughtUpInv
  <2>1. ASSUME NEW c \in Clients, NEW e \in Entities,
               NEW v \in Values \cup {NonFinite}, Submit(c, e, v)
        PROVE  TellInv'
    BY <2>0, <2>1, NothingTold DEF Submit, Go, TypeCalls, Inside, core, ghosts,
       Added
  <2>2. ASSUME NEW c \in Clients, NEW e \in Entities, NEW v \in Values,
               SetSensor(c, e, v)
        PROVE  TellInv'
    BY <2>0, <2>2, NothingTold DEF SetSensor, Go, TypeCalls, Inside, core,
       ghosts, Added
  <2>3. ASSUME NEW c \in Clients, NEW o \in Observers, Replay(c, o)
        PROVE  TellInv'
    BY <2>0, <2>3, NothingTold DEF Replay, Go, TypeCalls, Inside, core, ghosts,
       Added
  <2>4. ASSUME NEW c \in Clients, NEW e \in Entities, GetSnapshot(c, e)
        PROVE  TellInv'
    BY <2>0, <2>4, NothingTold DEF GetSnapshot, core, locals, Added
  <2>5. ASSUME NEW c \in Clients, NEW o \in Observers, AddObserver(c, o)
        PROVE  TellInv'
    <3>1. \A p \in caughtUp : Added(p)'
      BY <2>0, <2>5, AddedStays DEF AddObserver, Added, TypeCore
    <3> QED
      BY <2>5, <3>1, NothingTold DEF AddObserver, locals, ghosts
  <2>6. ASSUME NEW c \in Clients, TakeNotifyLock(c)
        PROVE  TellInv'
    <3> USE DEF TellInv
    <3>1. /\ UNCHANGED <<states, version, told, caughtUp, observers, target,
                         snapshot, pending>>
          /\ pc' \in [Clients -> Pc]
          /\ pc'[c] \in {"validate", "write", "copy"}
          /\ pc'[c] = "copy" => pc[c] = "replay"
          /\ pc[c] \notin Inside
          /\ \A d \in Clients : d # c => pc'[d] = pc[d]
      BY <2>6 DEF TakeNotifyLock, Go, TypeCalls, Pc, Inside, core, locals,
         ghosts
    <3>2. FreshCopy'
      BY <3>1 DEF FreshCopy
    <3>3. NeverAhead'
      BY <3>1 DEF NeverAhead
    <3>4. ReplayInv'
      BY <3>1 DEF ReplayInv, Entities
    <3>5. CaughtUpInv'
      BY <3>1 DEF CaughtUpInv, ToBeTold, Added, Inside
    <3> QED BY <3>2, <3>3, <3>4, <3>5
  <2>7. ASSUME NEW c \in Clients, Reject(c)
        PROVE  TellInv'
    BY <2>0, <2>7, NothingTold
    DEF Reject, Return, Go, TypeCalls, Inside, Added, core
  <2>8. ASSUME NEW c \in Clients, WriteValue(c)
        PROVE  TellInv'
    <3> USE DEF TellInv
    <3>1. PICK x \in Entities : x = target[c]
      BY DEF TypeCalls
    <3>2. /\ UNCHANGED <<version, told, caughtUp, observers, target, snapshot, pending>>
          /\ pc[c] \in {"validate", "write"}
          /\ pc' = [pc EXCEPT ![c] = "version"]
          /\ states' = [states EXCEPT ![x].value = input[c]]
      BY <2>8, <3>1 DEF WriteValue, Go, ghosts
    <3>3. \A d \in Clients : d # c => pc[d] \notin Inside
      BY <3>2, Exclusion DEF Inside
    <3>4. \A d \in Clients : pc'[d] \notin {"notify", "tell", "copy"}
      BY <3>2, <3>3 DEF Inside, TypeCalls
    <3>5. \A e \in Entities : /\ states'[e].version = states[e].version
                              /\ e # x => states'[e] = states[e]
      BY <3>2 DEF TypeCore, Snapshot
    <3>6. FreshCopy'
      BY <3>4 DEF FreshCopy
    <3>7. NeverAhead'
      BY <3>2, <3>5 DEF NeverAhead
    <3>8. ReplayInv'
      BY <3>2, <3>4 DEF ReplayInv, TypeCalls
    <3>9. CaughtUpInv'
      <4> SUFFICES ASSUME NEW o \in caughtUp, NEW e \in Entities
                   PROVE  told[o][e] = states'[e] \/ \E d \in Clients : ToBeTold(d, o, e)'
        BY <2>0, <3>2 DEF CaughtUpInv, Added
      <4>1. CASE e = x
        <5>1. ToBeTold(c, o, e)'
          BY <3>1, <3>2, <4>1 DEF ToBeTold, TypeCalls
        <5> QED BY <5>1
      <4>2. CASE e # x
        <5>1. \A d \in Clients : ~ToBeTold(d, o, e)
          BY <3>2, <3>3 DEF ToBeTold, Inside
        <5> QED BY <3>5, <4>2, <5>1 DEF CaughtUpInv
      <4> QED BY <4>1, <4>2
    <3> QED BY <3>6, <3>7, <3>8, <3>9
  <2>9. ASSUME NEW c \in Clients, WriteVersion(c)
        PROVE  TellInv'
    <3> USE DEF TellInv
    <3>1. PICK x \in Entities : x = target[c]
      BY DEF TypeCalls
    <3>2. /\ UNCHANGED <<told, caughtUp, observers, target>>
          /\ pc[c] = "version"
          /\ version' = version + 1
          /\ pc' = [pc EXCEPT ![c] = "notify"]
          /\ states' = [states EXCEPT ![x].version = version + 1]
          /\ snapshot' = [snapshot EXCEPT ![c] = states'[x]]
          /\ pending' = [pending EXCEPT ![c] = observers]
      BY <2>9, <3>1 DEF WriteVersion, Go
    <3>3. \A d \in Clients : d # c => pc[d] \notin Inside
      BY <3>2, Exclusion DEF Inside
    <3>4. \A d \in Clients : d # c => pc'[d] \notin Inside
      BY <3>2, <3>3 DEF TypeCalls
    <3>5. \A e \in Entities : e # x => states'[e] = states[e]
      BY <3>2 DEF TypeCore
    <3>6. states'[x].version = version + 1 /\ version \in Nat
      BY <3>2 DEF TypeCore, Snapshot
    <3>7. FreshCopy'
      BY <3>1, <3>2, <3>4 DEF FreshCopy, Inside, TypeCalls
    <3>8. NeverAhead'
      <4> SUFFICES ASSUME NEW e \in Entities
                   PROVE  /\ states'[e].version <= version + 1
                          /\ \A o \in Observers : told[o][e].version <= states'[e].version
        BY <3>2 DEF NeverAhead
      <4>1. states[e].version \in Nat /\ \A o \in Observers : told[o][e].version \in Nat
        BY DEF TypeCore, TypeGhosts, Snapshot
      <4>2. CASE e = x
        BY <3>6, <4>1, <4>2 DEF NeverAhead
      <4>3. CASE e # x
        BY <3>5, <3>6, <4>1, <4>3 DEF NeverAhead
      <4> QED BY <4>2, <4>3
    <3>9. ReplayInv'
      BY <3>2, <3>4 DEF ReplayInv, Inside, TypeCalls
    <3>10. CaughtUpInv'
      <4> SUFFICES ASSUME NEW o \in caughtUp, NEW e \in Entities
                   PROVE  told[o][e] = states'[e] \/ \E d \in Clients : ToBeTold(d, o, e)'
        BY <2>0, <3>2 DEF CaughtUpInv, Added
      <4>1. CASE e = x
        <5>1. ToBeTold(c, o, e)'
          BY <2>0, <3>1, <3>2, <4>1 DEF ToBeTold, Added, TypeCalls
        <5> QED BY <5>1
      <4>2. CASE e # x
        <5>1. \A d \in Clients : ~ToBeTold(d, o, e)
          BY <3>1, <3>2, <3>3, <4>2 DEF ToBeTold, Inside
        <5> QED BY <3>5, <4>2, <5>1 DEF CaughtUpInv
      <4> QED BY <4>1, <4>2
    <3> QED BY <3>7, <3>8, <3>9, <3>10
  <2>10. ASSUME NEW c \in Clients, Notify(c)
         PROVE  TellInv'
    <3> USE DEF TellInv
    <3>1. PICK x \in Entities, p \in Observers : x = target[c] /\ p = Head(pending[c])
      BY <2>10 DEF Notify, TypeCalls
    <3>2. /\ UNCHANGED <<states, version, caughtUp, observers, pc, target, snapshot>>
          /\ pc[c] = "notify"
          /\ told' = [told EXCEPT ![p][x] = snapshot[c]]
          /\ pending' = [pending EXCEPT ![c] = Tail(pending[c])]
      BY <2>10, <3>1 DEF Notify, core
    <3>3. \A d \in Clients : d # c => pc[d] \notin Inside
      BY <3>2, Exclusion DEF Inside
    <3>4. snapshot[c] = states[x]
      BY <3>1, <3>2 DEF FreshCopy
    <3>5. \A o \in Observers, e \in Entities :
            told'[o][e] = IF o = p /\ e = x THEN states[x] ELSE told[o][e]
      BY <3>2, <3>4 DEF TypeGhosts
    <3>6. FreshCopy'
      BY <3>2 DEF FreshCopy
    <3>7. NeverAhead'
      BY <3>2, <3>5 DEF NeverAhead, TypeCore, Snapshot
    <3>8. ReplayInv'
      BY <3>2, <3>3 DEF ReplayInv, Inside
    <3>9. CaughtUpInv'
      <4> SUFFICES ASSUME NEW o \in caughtUp, NEW e \in Entities
                   PROVE  told'[o][e] = states[e] \/ \E d \in Clients : ToBeTold(d, o, e)'
        BY <2>0, <3>2 DEF CaughtUpInv, Added
      <4>0. o \in Observers
        BY DEF TypeGhosts
      <4>1. CASE o = p /\ e = x
        BY <3>5, <4>0, <4>1
      <4>2. CASE ~(o = p /\ e = x) /\ told[o][e] = states[e]
        BY <3>5, <4>0, <4>2
      <4>3. CASE ~(o = p /\ e = x) /\ \E d \in Clients : ToBeTold(d, o, e)
        <5>1. target[c] = e /\ Occurs(o, pending[c])
          BY <3>2, <3>3, <4>3 DEF ToBeTold, Inside
        <5>2. o # Head(pending[c])
          BY <3>1, <4>3, <5>1
        <5>3. Occurs(o, Tail(pending[c]))
          BY <2>10, <5>1, <5>2, HeadOrTail DEF Notify, TypeCalls
        <5>4. ToBeTold(c, o, e)'
          BY <3>2, <5>1, <5>3 DEF ToBeTold, TypeCalls
        <5> QED BY <5>4
      <4> QED BY <4>1, <4>2, <4>3 DEF CaughtUpInv
    <3> QED BY <3>6, <3>7, <3>8, <3>9
  <2>11. ASSUME NEW c \in Clients, Notified(c)
         PROVE  TellInv'
    <3> USE DEF TellInv
    <3>1. /\ UNCHANGED <<states, version, told, caughtUp, observers>>
          /\ pc[c] = "notify" /\ pending[c] = <<>>
          /\ pc'[c] = "idle"
          /\ \A d \in Clients : d # c =>
               UNCHANGED <<pc[d], target[d], snapshot[d], pending[d]>>
      BY <2>11 DEF Notified, Return, Go, TypeCalls, core, ghosts
    <3>2. FreshCopy'
      BY <3>1 DEF FreshCopy
    <3>3. NeverAhead'
      BY <3>1 DEF NeverAhead
    <3>4. ReplayInv'
      BY <3>1 DEF ReplayInv
    <3>5. CaughtUpInv'
      <4>1. \A o \in caughtUp, e \in Entities : ~ToBeTold(c, o, e)
        BY <3>1 DEF ToBeTold, Occurs
      <4>2. \A d \in Clients, o \in caughtUp, e \in Entities :
              ToBeTold(d, o, e) => ToBeTold(d, o, e)'
        BY <3>1, <4>1 DEF ToBeTold
      <4> QED BY <3>1, <4>2 DEF CaughtUpInv, Added
    <3> QED BY <3>2, <3>3, <3>4, <3>5
  <2>12. ASSUME NEW c \in Clients, ReplayCopy(c)
         PROVE  TellInv'
    <3> USE DEF TellInv
    <3>1. /\ UNCHANGED <<states, version, told, caughtUp, observers, target, pending>>
          /\ pc[c] = "copy"
          /\ pc' = [pc EXCEPT ![c] = "tell"]
          /\ snapshot' = [snapshot EXCEPT ![c] = states[target[c]]]
      BY <2>12 DEF ReplayCopy, Go, core, ghosts
    <3>2. FreshCopy'
      BY <3>1 DEF FreshCopy, TypeCalls
    <3>3. NeverAhead'
      BY <3>1 DEF NeverAhead
    <3>4. ReplayInv'
      BY <3>1 DEF ReplayInv, TypeCalls
    <3>5. CaughtUpInv'
      <4>1. \A d \in Clients, o \in caughtUp, e \in Entities :
              ToBeTold(d, o, e) => ToBeTold(d, o, e)'
        BY <3>1 DEF ToBeTold, TypeCalls
      <4> QED BY <3>1, <4>1 DEF CaughtUpInv, Added
    <3> QED BY <3>2, <3>3, <3>4, <3>5
  <2>13. ASSUME NEW c \in Clients, ReplayTell(c) \/ ReplayLast(c)
         PROVE  TellInv'
    <3> USE DEF TellInv
    <3>1. PICK x \in Entities, p \in Observers : x = target[c] /\ p = Head(pending[c])
      BY <2>13 DEF ReplayTell, ReplayLast, TypeCalls
    <3>2. /\ UNCHANGED <<states, version, observers>>
          /\ pc[c] = "tell"
          /\ pc'[c] \in {"copy", "idle"}
          /\ told' = [told EXCEPT ![p][x] = snapshot[c]]
          /\ \A d \in Clients : d # c =>
               UNCHANGED <<pc[d], target[d], snapshot[d], pending[d]>>
      BY <2>13, <3>1 DEF ReplayTell, ReplayLast, Return, Go, TypeCalls, core
    <3>3. \A d \in Clients : d # c => pc[d] \notin Inside
      BY <3>2, Exclusion DEF Inside
    <3>4. snapshot[c] = states[x]
      BY <3>1, <3>2 DEF FreshCopy
    <3>5. \A o \in Observers, e \in Entities :
            told'[o][e] = IF o = p /\ e = x THEN states[x] ELSE told[o][e]
      BY <3>2, <3>4 DEF TypeGhosts
    <3>6. \A e \in Entities : e <= x => told'[p][e] = states[e]
      BY <3>1, <3>2, <3>5 DEF ReplayInv, Entities
    <3>7. \A o \in caughtUp, e \in Entities : told[o][e] = states[e]
      BY <3>2, <3>3 DEF CaughtUpInv, ToBeTold, Inside
    <3>8. FreshCopy'
      BY <3>2, <3>3 DEF FreshCopy, Inside
    <3>9. NeverAhead'
      BY <3>2, <3>5 DEF NeverAhead, TypeCore, Snapshot
    <3>10. ReplayInv'
      <4>1. pc'[c] = "copy" => target'[c] = x + 1 /\ Head(pending[c])' = p
        BY <2>13, <3>1 DEF ReplayTell, ReplayLast, Return, Go, TypeCalls
      <4>2. \A e \in Entities : e < x + 1 => e <= x
        BY DEF Entities
      <4>3. \A d \in Clients : d # c => pc'[d] \notin {"copy", "tell"}
        BY <3>2, <3>3 DEF Inside
      <4> QED BY <3>2, <3>6, <4>1, <4>2, <4>3 DEF ReplayInv
    <3>11. CaughtUpInv'
      <4>1. \A o \in caughtUp, e \in Entities : told'[o][e] = states'[e]
        BY <3>2, <3>5, <3>7 DEF TypeGhosts
      <4>2. CASE caughtUp' = caughtUp
        BY <2>0, <3>2, <4>1, <4>2 DEF CaughtUpInv, Added
      <4>3. CASE ReplayLast(c)
        <5>1. x = NumEntities - 1 /\ \A e \in Entities : e <= x
          BY <3>1, <4>3, Assumptions DEF ReplayLast, Entities
        <5>2. caughtUp' \subseteq caughtUp \cup {p} /\ (p \in caughtUp' \ caughtUp => Added(p))
          BY <3>1, <4>3 DEF ReplayLast
        <5>3. \A e \in Entities : told'[p][e] = states'[e]
          BY <3>2, <3>6, <5>1
        <5> QED BY <2>0, <3>2, <4>1, <5>2, <5>3 DEF CaughtUpInv, Added
      <4> QED BY <2>13, <4>2, <4>3 DEF ReplayTell
    <3> QED BY <3>8, <3>9, <3>10, <3>11
  <2>14. CASE UNCHANGED vars
    BY <2>0, <2>14, NothingTold DEF vars, Added
  <2> QED
    BY <2>1, <2>2, <2>3, <2>4, <2>5, <2>6, <2>7, <2>8,
       <2>9, <2>10, <2>11, <2>12, <2>13, <2>14
    DEF Next, CallBegin, CallStep
<1> QED BY <1>1, <1>2, TypeCorrect, LockCorrect, PTL DEF Spec

\* ReplayedIsCurrent: an observer that was added and then got a whole replay was
\* last given what is authoritative whenever no commit is being told.
THEOREM CaughtUpStaysCurrent == Spec => []ReplayedIsCurrent
<1>1. LockInv /\ TellInv => ReplayedIsCurrent
  BY Assumptions DEF LockInv, TellInv, CaughtUpInv, ToBeTold, Inside,
     ReplayedIsCurrent
<1> QED BY <1>1, LockCorrect, TellCorrect, PTL

\* ToldInOrder: no observer is given an older snapshot after a newer one.
THEOREM NeverToldBackwards == Spec => ToldInOrder
<1>1. ASSUME TypeOK, TellInv, [Next]_vars
      PROVE  [\A o \in Observers, e \in Entities :
                told'[o][e].version >= told[o][e].version]_vars
  <2> SUFFICES ASSUME Next PROVE
               \A o \in Observers, e \in Entities :
                 told'[o][e].version >= told[o][e].version
    BY <1>1
  <2>1. \A o \in Observers, e \in Entities : told[o][e].version \in Nat
    BY <1>1 DEF TypeOK, TypeGhosts, Snapshot
  <2>2. CASE UNCHANGED told
    BY <2>1, <2>2
  <2>3. ASSUME NEW c \in Clients, Notify(c) \/ ReplayTell(c) \/ ReplayLast(c)
        PROVE  \A o \in Observers, e \in Entities :
                 told'[o][e].version >= told[o][e].version
    <3>1. PICK x \in Entities, p \in Observers : x = target[c] /\ p = Head(pending[c])
      BY <1>1, <2>3 DEF Notify, ReplayTell, ReplayLast, TypeOK, TypeCalls
    <3>2. told' = [told EXCEPT ![p][x] = states[x]]
      BY <1>1, <2>3, <3>1 DEF Notify, ReplayTell, ReplayLast, TellInv, FreshCopy
    <3>3. \A o \in Observers, e \in Entities :
            told'[o][e] = IF o = p /\ e = x THEN states[x] ELSE told[o][e]
      BY <1>1, <3>2 DEF TypeOK, TypeGhosts
    <3>4. states[x].version >= told[p][x].version
      BY <1>1 DEF TellInv, NeverAhead, TypeOK, TypeCore, TypeGhosts, Snapshot
    <3> QED BY <2>1, <3>3, <3>4
  <2> QED
    BY <2>2, <2>3
    DEF Next, CallBegin, CallStep, Submit, SetSensor, Replay, GetSnapshot,
        AddObserver, TakeNotifyLock, Reject, WriteValue, WriteVersion, Notified,
        ReplayCopy, ghosts
<1> QED BY <1>1, TypeCorrect, TellCorrect, PTL DEF Spec, ToldInOrder

-----------------------------------------------------------------------------
(***************************************************************************)
(* The core implements EntityRegister.  A client in its critical section   *)
(* remembers what it is about to write and what the state held before.     *)
(***************************************************************************)
Writable(e, v) == v \in Values /\ (e \in Sensors \/ Accepts(e, v))

WriteInv ==
  \A c \in Clients :
    /\ pc[c] \in {"submit", "validate"} => input[c] \in Values \cup {NonFinite}
    /\ pc[c] \in {"update", "write"} => target[c] \in Sensors /\ input[c] \in Values
    /\ pc[c] = "version" =>
         /\ Writable(target[c], input[c])
         /\ states[target[c]] = [value |-> input[c], version |-> result[c].version]

\* Only a valid value is ever written, and a half-written state is known to the
\* client that writes it.
THEOREM WriteCorrect == Spec => []WriteInv
<1>1. Init => WriteInv
  BY DEF Init, WriteInv
<1>2. TypeOK /\ LockInv /\ WriteInv /\ [Next]_vars => WriteInv'
  <2> SUFFICES ASSUME TypeOK, LockInv, WriteInv, [Next]_vars PROVE WriteInv'
    OBVIOUS
  <2> USE DEF TypeOK, TypeCalls, WriteInv
  <2>1. ASSUME NEW c \in Clients, NEW e \in Entities,
               NEW v \in Values \cup {NonFinite}, Submit(c, e, v)
        PROVE  WriteInv'
    BY <2>1 DEF Submit, Go, core
  <2>2. ASSUME NEW c \in Clients, NEW e \in Entities, NEW v \in Values,
               SetSensor(c, e, v)
        PROVE  WriteInv'
    BY <2>2 DEF SetSensor, Go, core
  <2>3. ASSUME NEW c \in Clients, NEW o \in Observers, Replay(c, o)
        PROVE  WriteInv'
    BY <2>3 DEF Replay, Go, core
  <2>4. ASSUME NEW c \in Clients, NEW e \in Entities, GetSnapshot(c, e)
        PROVE  WriteInv'
    BY <2>4 DEF GetSnapshot, core, locals
  <2>5. ASSUME NEW c \in Clients, NEW o \in Observers, AddObserver(c, o)
        PROVE  WriteInv'
    BY <2>5 DEF AddObserver, locals
  <2>6. ASSUME NEW c \in Clients, TakeNotifyLock(c)
        PROVE  WriteInv'
    BY <2>6 DEF TakeNotifyLock, Go, core, locals
  <2>7. ASSUME NEW c \in Clients, Reject(c)
        PROVE  WriteInv'
    BY <2>7 DEF Reject, Return, Go, core
  <2>8. ASSUME NEW c \in Clients, WriteValue(c)
        PROVE  WriteInv'
    <3>1. PICK x \in Entities : x = target[c]
      OBVIOUS
    <3>2. /\ UNCHANGED <<target, input>>
          /\ pc[c] \in {"validate", "write"}
          /\ pc' = [pc EXCEPT ![c] = "version"]
          /\ result' = [result EXCEPT ![c] = states[x]]
          /\ states' = [states EXCEPT ![x].value = input[c]]
      BY <2>8, <3>1 DEF WriteValue, Go
    <3>3. Writable(x, input[c])
      BY <2>8, <3>1, Assumptions DEF WriteValue, Writable, Accepts
    <3>4. states'[x] = [value |-> input[c], version |-> states[x].version]
      BY <3>2 DEF TypeCore, Snapshot
    <3>5. \A d \in Clients : d # c => pc[d] # "version"
      BY <3>2, Exclusion DEF Inside
    <3> QED BY <3>1, <3>2, <3>3, <3>4, <3>5
  <2>9. ASSUME NEW c \in Clients, WriteVersion(c)
        PROVE  WriteInv'
    <3>1. \A d \in Clients : d # c => pc[d] # "version"
      BY <2>9, Exclusion DEF WriteVersion, Inside
    <3> QED BY <2>9, <3>1 DEF WriteVersion, Go
  <2>10. ASSUME NEW c \in Clients, Notify(c)
         PROVE  WriteInv'
    BY <2>10 DEF Notify, core
  <2>11. ASSUME NEW c \in Clients, Notified(c)
         PROVE  WriteInv'
    BY <2>11 DEF Notified, Return, Go, core
  <2>12. ASSUME NEW c \in Clients, ReplayCopy(c)
         PROVE  WriteInv'
    BY <2>12 DEF ReplayCopy, Go, core
  <2>13. ASSUME NEW c \in Clients, ReplayTell(c)
         PROVE  WriteInv'
    BY <2>13 DEF ReplayTell, Go, core
  <2>14. ASSUME NEW c \in Clients, ReplayLast(c)
         PROVE  WriteInv'
    BY <2>14 DEF ReplayLast, Return, Go, core
  <2>15. CASE UNCHANGED vars
    BY <2>15 DEF vars
  <2> QED
    BY <2>1, <2>2, <2>3, <2>4, <2>5, <2>6, <2>7, <2>8,
       <2>9, <2>10, <2>11, <2>12, <2>13, <2>14, <2>15
    DEF Next, CallBegin, CallStep
<1> QED BY <1>1, <1>2, TypeCorrect, LockCorrect, PTL DEF Spec

LEMMA CommittedIsState ==
  ASSUME TypeOK, \A c \in Clients : pc[c] # "version"
  PROVE  Committed = states
<1>1. \A e \in Entities : Before(e) = {}
  BY DEF Before
<1> QED BY <1>1 DEF Committed, TypeOK, TypeCore

LEMMA CommittedIsBefore ==
  ASSUME TypeOK, LockInv, NEW c \in Clients, pc[c] = "version"
  PROVE  Committed = [states EXCEPT ![target[c]] = result[c]]
<1>1. \A d \in Clients : pc[d] = "version" => d = c
  BY Exclusion DEF Inside
<1>2. \A e \in Entities : Before(e) = IF e = target[c] THEN {result[c]} ELSE {}
  BY <1>1 DEF Before
<1>3. \A e \in Entities : Committed[e] = IF e = target[c] THEN result[c] ELSE states[e]
  BY <1>2 DEF Committed, Only
<1> QED BY <1>3 DEF Committed, TypeOK, TypeCore

LEMMA CommittedStays ==
  ASSUME UNCHANGED states,
         \A c \in Clients :
           /\ pc'[c] = "version" <=> pc[c] = "version"
           /\ pc[c] = "version" => UNCHANGED <<target[c], result[c]>>
  PROVE  UNCHANGED Committed
<1>1. \A e \in Entities : Before(e)' = Before(e)
  BY DEF Before
<1> QED BY <1>1 DEF Committed

\* IsRegister: every call takes effect in one step of EntityRegister, whatever
\* the interleaving of its own steps with those of other clients.
THEOREM ImplementsRegister == Spec => IsRegister
<1> USE DEF Register!Boot, Register!Nothing, Register!Reply, Boot, Reply
<1>1. Init => Register!Init
  <2> SUFFICES ASSUME Init PROVE Register!Init
    OBVIOUS
  <2>1. \A e \in Entities : Before(e) = {}
    BY DEF Init, Before
  <2>2. Committed = [e \in Entities |-> Boot(e)]
    BY <2>1 DEF Init, Committed
  <2> QED BY <2>2 DEF Init, Register!Init
<1>2. ASSUME TypeOK, LockInv, WriteInv, TellInv, [Next]_vars
      PROVE  [Register!Next]_Register!vars
  <2> USE <1>2 DEF TypeOK
  <2> SUFFICES ASSUME NEW c \in Clients,
                      CallBegin(c) \/ TakeNotifyLock(c) \/ CallStep(c)
               PROVE  Register!Next \/ UNCHANGED Register!vars
    <3>1. CASE UNCHANGED vars
      BY <3>1, CommittedStays DEF vars, Register!vars
    <3> QED BY <3>1 DEF Next
  <2>1. CASE UNCHANGED <<states, version, told, answer>> /\ pc[c] # "version"
             /\ pc'[c] # "version" /\ \A d \in Clients : d # c =>
                  UNCHANGED <<pc[d], target[d], result[d]>>
    BY <2>1, CommittedStays DEF Register!vars
  <2>2. CASE \E e \in Entities, v \in Values \cup {NonFinite} : Submit(c, e, v)
    BY <2>1, <2>2 DEF Submit, Go, TypeCalls, core, ghosts
  <2>3. CASE \E e \in Entities, v \in Values : SetSensor(c, e, v)
    BY <2>1, <2>3 DEF SetSensor, Go, TypeCalls, core, ghosts
  <2>4. CASE \E o \in Observers : Replay(c, o)
    BY <2>1, <2>4 DEF Replay, Go, TypeCalls, core, ghosts
  <2>5. ASSUME NEW e \in Entities, GetSnapshot(c, e)
        PROVE  Register!Next
    <3>1. Committed = states
      BY <2>5, NobodyWrites, CommittedIsState DEF GetSnapshot
    <3>2. UNCHANGED Committed
      BY <2>5, CommittedStays DEF GetSnapshot, core, locals
    <3>3. Register!Read(c, e)
      BY <2>5, <3>1, <3>2 DEF GetSnapshot, Register!Read, core
    <3> QED BY <3>3 DEF Register!Next
  <2>6. CASE \E o \in Observers : AddObserver(c, o)
    BY <2>6, CommittedStays DEF AddObserver, Register!vars, locals, ghosts
  <2>7. CASE TakeNotifyLock(c)
    BY <2>1, <2>7 DEF TakeNotifyLock, Go, TypeCalls, core, locals, ghosts
  <2>8. CASE Reject(c)
    <3>1. Committed = states
      BY <2>8, NobodyWrites, CommittedIsState DEF Reject
    <3>2. UNCHANGED Committed
      BY <2>8, CommittedStays DEF Reject, Return, Go, TypeCalls, core
    <3>3. Register!Reject(c, target[c])
      BY <2>8, <3>1, <3>2 DEF Reject, Register!Reject, core
    <3> QED BY <3>3 DEF Register!Next, TypeCalls
  <2>9. CASE WriteValue(c)
    <3>1. /\ UNCHANGED <<version, told, answer, target>>
          /\ pc[c] \in {"validate", "write"}
          /\ pc' = [pc EXCEPT ![c] = "version"]
          /\ result' = [result EXCEPT ![c] = states[target[c]]]
          /\ states' = [states EXCEPT ![target[c]].value = input[c]]
      BY <2>9 DEF WriteValue, Go, ghosts
    <3>2. \A d \in Clients : d # c => pc[d] # "version"
      BY <3>1, Exclusion DEF Inside
    <3>3. Committed = states
      BY <3>1, <3>2, CommittedIsState
    <3>4. \A e \in Entities : Before(e)' = IF e = target[c] THEN {states[e]} ELSE {}
      BY <3>1, <3>2 DEF Before, TypeCalls
    <3>5. \A e \in Entities : e # target[c] => states'[e] = states[e]
      BY <3>1 DEF TypeCore
    <3>6. Committed' = [e \in Entities |-> states[e]]
      BY <3>4, <3>5 DEF Committed, Only
    <3>7. UNCHANGED Committed
      BY <3>3, <3>6 DEF TypeCore
    <3> QED BY <3>1, <3>7 DEF Register!vars
  <2>10. CASE WriteVersion(c)
    <3>1. PICK x \in Entities : x = target[c]
      BY DEF TypeCalls
    <3>2. /\ UNCHANGED <<told, target>>
          /\ pc[c] = "version"
          /\ pc' = [pc EXCEPT ![c] = "notify"]
          /\ version' = version + 1
          /\ states' = [states EXCEPT ![x].version = version + 1]
          /\ answer' = [answer EXCEPT ![c] = Reply(TRUE, states'[x])]
      BY <2>10, <3>1 DEF WriteVersion, Go
    <3>3. PICK v \in Values : v = input[c] /\ Writable(x, v)
      BY <3>1, <3>2 DEF WriteInv, Writable
    <3>4. states[x] = [value |-> v, version |-> result[c].version]
      BY <3>1, <3>2, <3>3 DEF WriteInv
    <3>5. states'[x] = [value |-> v, version |-> version + 1]
      BY <3>2, <3>4 DEF TypeCore
    <3>6. Committed = [states EXCEPT ![x] = result[c]]
      BY <3>1, <3>2, CommittedIsBefore
    <3>7. \A d \in Clients : pc'[d] # "version"
      BY <3>2, Exclusion DEF Inside, TypeCalls
    <3>8. Committed' = states'
      <4>1. \A e \in Entities : Before(e)' = {}
        BY <3>7 DEF Before
      <4>2. Committed' = [e \in Entities |-> states'[e]]
        BY <4>1 DEF Committed
      <4> QED BY <3>2, <4>2 DEF TypeCore
    <3>9. Committed' = [Committed EXCEPT ![x] = [value |-> v, version |-> version + 1]]
      BY <3>2, <3>5, <3>6, <3>8 DEF TypeCore
    <3>10. Register!Commit(c, x, v)
      BY <3>2, <3>3, <3>5, <3>8, <3>9 DEF Register!Commit, Writable
    <3> QED BY <3>3, <3>10 DEF Register!Next, Writable
  <2>11. CASE Notify(c) \/ ReplayTell(c) \/ ReplayLast(c)
    <3>1. PICK x \in Entities, p \in Observers : x = target[c] /\ p = Head(pending[c])
      BY <2>11 DEF Notify, ReplayTell, ReplayLast, TypeCalls
    <3>2. /\ UNCHANGED <<states, version, answer>>
          /\ pc[c] \in {"notify", "tell"}
          /\ pc'[c] \in {"notify", "copy", "idle"}
          /\ told' = [told EXCEPT ![p][x] = states[x]]
          /\ \A d \in Clients : d # c => UNCHANGED <<pc[d], target[d], result[d]>>
      BY <2>11, <3>1
      DEF Notify, ReplayTell, ReplayLast, Return, Go, TypeCalls, TellInv, FreshCopy, core
    <3>3. \A d \in Clients : pc[d] # "version"
      BY <3>2, Exclusion DEF Inside
    <3>4. Committed = states
      BY <3>3, CommittedIsState
    <3>5. UNCHANGED Committed
      BY <3>2, <3>3, CommittedStays
    <3>6. Register!Tell(p, x)
      BY <3>2, <3>4, <3>5 DEF Register!Tell
    <3> QED BY <3>6 DEF Register!Next
  <2>12. CASE Notified(c)
    BY <2>1, <2>12 DEF Notified, Return, Go, TypeCalls, core, ghosts
  <2>13. CASE ReplayCopy(c)
    BY <2>1, <2>13 DEF ReplayCopy, Go, TypeCalls, core, ghosts
  <2> QED
    BY <2>2, <2>3, <2>4, <2>5, <2>6, <2>7, <2>8, <2>9,
       <2>10, <2>11, <2>12, <2>13
    DEF CallBegin, CallStep
<1> QED
  BY <1>1, <1>2, TypeCorrect, LockCorrect, WriteCorrect, TellCorrect, PTL
  DEF Spec, IsRegister, Register!Spec
-----------------------------------------------------------------------------
(***************************************************************************)
(* What CallsReturn rests on beside fairness: who waits for a mutex waits  *)
(* for a client that does not wait, and each step of a call brings its end *)
(* nearer, so nobody keeps the mutexes for more than a bounded number of   *)
(* steps, however many observers are called.                               *)
(***************************************************************************)
Waits(c) ==
  \/ pc[c] \in {"submit", "update", "replay"} /\ notifyLock # NoClient
  \/ pc[c] \in {"validate", "write", "copy"} /\ stateLock # NoClient

NoDeadlock ==
  \A c \in Clients : Waits(c) =>
    /\ notifyLock \in Clients
    /\ pc[notifyLock] \in Inside
    /\ ~Waits(notifyLock)

\* The two mutexes are taken in one order only: whoever has to wait, waits for
\* the holder of the notification mutex, which never waits.
THEOREM HolderNeverWaits == Spec => []NoDeadlock
<1>1. TypeOK /\ LockInv => NoDeadlock
  <2> SUFFICES ASSUME TypeOK, LockInv, NEW c \in Clients, Waits(c)
               PROVE  /\ notifyLock \in Clients
                      /\ pc[notifyLock] \in Inside
                      /\ ~Waits(notifyLock)
    BY DEF NoDeadlock
  <2>1. notifyLock \in Clients /\ pc[notifyLock] \in Inside
    BY DEF Waits, LockInv, Inside, TypeOK, TypeCore
  <2>2. ~Waits(notifyLock)
    <3>1. stateLock # NoClient => stateLock \in Clients /\ pc[stateLock] = "version"
      BY DEF LockInv, TypeOK, TypeCore
    <3>2. stateLock # NoClient => stateLock = notifyLock
      BY <2>1, <3>1 DEF LockInv, Inside
    <3> QED BY <2>1, <3>1, <3>2 DEF Waits, Inside
  <2> QED BY <2>1, <2>2
<1> QED BY <1>1, TypeCorrect, LockCorrect, PTL

\* The steps that a call has still to take, at most: at p, with the loop index
\* of its replay at t and the observers q still to be called.
WorkAt(p, t, q) ==
  CASE p \in {"submit", "update"}  -> Capacity + 4
    [] p \in {"validate", "write"} -> Capacity + 3
    [] p = "version"               -> Capacity + 2
    [] p = "notify"                -> Len(q) + 1
    [] p = "replay"                -> 2 * NumEntities + 1
    [] p = "copy"                  -> 2 * (NumEntities - t)
    [] p = "tell"                  -> 2 * (NumEntities - t) - 1
    [] OTHER                       -> 0

Work(c) == WorkAt(pc[c], target[c], pending[c])

\* A call has a bounded number of steps, and no other call adds one.
CallsAreBounded ==
  /\ [](\A c \in Clients : Work(c) \in Nat /\ (pc[c] # "idle" => Work(c) > 0))
  /\ [][\A c \in Clients :
          /\ pc[c] # "idle" => Work(c)' <= Work(c)
          /\ TakeNotifyLock(c) \/ CallStep(c) => Work(c)' < Work(c)]_vars

LEMMA WorkTypes ==
  ASSUME NEW p \in Pc, NEW t \in Entities, NEW q \in Seq(Observers)
  PROVE  WorkAt(p, t, q) \in Nat /\ (p # "idle" => WorkAt(p, t, q) > 0)
<1>1. /\ Capacity \in Nat /\ NumEntities \in Nat
      /\ NumEntities - t \in Nat \ {0} /\ Len(q) \in Nat
  BY Assumptions DEF Entities
<1>2. CASE p \in {"idle", "submit", "update", "validate", "write", "version"}
  BY <1>1, <1>2 DEF WorkAt
<1>3. CASE p = "notify"
  BY <1>1, <1>3 DEF WorkAt
<1>4. CASE p \in {"replay", "copy", "tell"}
  BY <1>1, <1>4 DEF WorkAt
<1> QED BY <1>1, <1>2, <1>3, <1>4 DEF Pc

\* Every step of a call brings its end nearer and no step of another call takes
\* it away from its end again: entity_core_submit_command, set_sensor and replay
\* hold the mutexes for at most Capacity + 4 or 2 * NumEntities + 1 steps.
THEOREM StepsAreCounted == Spec => CallsAreBounded
<1>1. TypeOK => \A c \in Clients : Work(c) \in Nat /\ (pc[c] # "idle" => Work(c) > 0)
  BY WorkTypes DEF Work, TypeOK, TypeCalls
<1>2. ASSUME TypeOK, ReplayInv, NEW c \in Clients, TakeNotifyLock(c) \/ CallStep(c)
      PROVE  Work(c)' < Work(c)
  <2>0. /\ pc \in [Clients -> Pc] /\ target \in [Clients -> Entities]
        /\ pending \in [Clients -> Seq(Observers)] /\ Capacity \in Nat
        /\ NumEntities \in Nat \ {0} /\ target[c] \in 0 .. NumEntities - 1
    BY <1>2, Assumptions DEF TypeOK, TypeCalls, Entities
  <2>1. CASE TakeNotifyLock(c)
    <3>1. UNCHANGED target /\ (pc[c] = "replay" => target[c] = 0)
      BY <1>2, <2>1 DEF TakeNotifyLock, locals, ReplayInv
    <3> QED BY <2>0, <2>1, <3>1 DEF TakeNotifyLock, Go, Work, WorkAt
  <2>2. CASE Reject(c)
    BY <2>0, <2>2 DEF Reject, Return, Go, Work, WorkAt
  <2>3. CASE WriteValue(c)
    BY <2>0, <2>3 DEF WriteValue, Go, Work, WorkAt
  <2>4. CASE WriteVersion(c)
    <3>1. Len(pending'[c]) <= Capacity /\ Len(pending'[c]) \in Nat
      BY <1>2, <2>0, <2>4 DEF WriteVersion, TypeOK, TypeCore
    <3> QED BY <2>0, <2>4, <3>1 DEF WriteVersion, Go, Work, WorkAt
  <2>5. CASE Notify(c)
    <3>1. /\ Len(pending'[c]) = Len(pending[c]) - 1 /\ Len(pending[c]) \in Nat
          /\ pc[c] = "notify" /\ pc'[c] = "notify"
      BY <2>0, <2>5 DEF Notify
    <3> QED BY <3>1 DEF Work, WorkAt
  <2>6. CASE Notified(c)
    <3>1. Len(pending[c]) \in Nat
      BY <2>0
    <3> QED BY <2>0, <2>6, <3>1 DEF Notified, Return, Go, Work, WorkAt
  <2>7. CASE ReplayCopy(c)
    BY <2>0, <2>7 DEF ReplayCopy, Go, Work, WorkAt
  <2>8. CASE ReplayTell(c)
    <3>1. target'[c] = target[c] + 1 /\ pc'[c] = "copy" /\ pc[c] = "tell"
      BY <2>0, <2>8 DEF ReplayTell, Go
    <3> QED BY <2>0, <3>1 DEF Work, WorkAt
  <2>9. CASE ReplayLast(c)
    BY <2>0, <2>9 DEF ReplayLast, Return, Go, Work, WorkAt
  <2> QED
    BY <1>2, <2>1, <2>2, <2>3, <2>4, <2>5, <2>6, <2>7, <2>8, <2>9 DEF CallStep
<1>3. ASSUME TypeOK, TypeOK', ReplayInv, [Next]_vars, NEW c \in Clients, pc[c] # "idle"
      PROVE  Work(c)' <= Work(c)
  <2>0. /\ pc \in [Clients -> Pc] /\ target \in [Clients -> Entities]
        /\ pending \in [Clients -> Seq(Observers)]
    BY <1>3 DEF TypeOK, TypeCalls
  <2>1. ASSUME NEW d \in Clients, CallBegin(d)
        PROVE  UNCHANGED <<pc[c], target[c], pending[c]>>
    BY <1>3, <2>0, <2>1 DEF CallBegin, Submit, SetSensor, Replay, GetSnapshot,
       AddObserver, Go, locals
  <2>2. ASSUME NEW d \in Clients, d # c, TakeNotifyLock(d) \/ CallStep(d)
        PROVE  UNCHANGED <<pc[c], target[c], pending[c]>>
    BY <2>0, <2>2 DEF TakeNotifyLock, CallStep, Reject, WriteValue, WriteVersion,
       Notify, Notified, ReplayCopy, ReplayTell, ReplayLast, Return, Go, locals
  <2>3. ASSUME UNCHANGED vars
        PROVE  UNCHANGED <<pc[c], target[c], pending[c]>>
    BY <2>3 DEF vars
  <2>4. ASSUME UNCHANGED <<pc[c], target[c], pending[c]>>
        PROVE  Work(c)' = Work(c)
    BY <2>4 DEF Work, WorkAt
  <2>5. Work(c) \in Nat
    BY <1>3, WorkTypes DEF Work, TypeOK, TypeCalls
  <2>6. TakeNotifyLock(c) \/ CallStep(c) => Work(c)' < Work(c)
    BY <1>2, <1>3
  <2>7. \/ UNCHANGED <<pc[c], target[c], pending[c]>>
        \/ TakeNotifyLock(c) \/ CallStep(c)
    BY <1>3, <2>1, <2>2, <2>3 DEF Next
  <2>8. CASE TakeNotifyLock(c) \/ CallStep(c)
    <3>1. /\ pc'[c] \in Pc /\ target'[c] \in Entities
          /\ pending'[c] \in Seq(Observers)
      BY <1>3 DEF TypeOK, TypeCalls
    <3>2. Work(c)' \in Nat
      BY <3>1, WorkTypes DEF Work
    <3> QED BY <2>5, <2>6, <2>8, <3>2
  <2> QED BY <2>4, <2>5, <2>7, <2>8
<1>4. TellInv => ReplayInv
  BY DEF TellInv
<1>5. TypeOK /\ TypeOK' /\ TellInv /\ [Next]_vars =>
        [\A c \in Clients :
          /\ pc[c] # "idle" => Work(c)' <= Work(c)
          /\ TakeNotifyLock(c) \/ CallStep(c) => Work(c)' < Work(c)]_vars
  BY <1>2, <1>3, <1>4
<1> QED BY <1>1, <1>5, TypeCorrect, TellCorrect, PTL DEF Spec, CallsAreBounded
=============================================================================
