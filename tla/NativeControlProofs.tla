------------------------- MODULE NativeControlProofs -------------------------
(* Proofs about NativeControl, for every key, slot and bound. *)
EXTENDS NativeControl, TLAPS

-----------------------------------------------------------------------------
(* The types.                                                              *)

\* The flags among the variables, which one prover handles better by themselves.
Flags ==
  /\ storedEnabled \in BOOLEAN /\ enabled \in BOOLEAN /\ hasIp \in BOOLEAN
  /\ retrying \in BOOLEAN /\ running \in BOOLEAN /\ blocked \in BOOLEAN
  /\ retryDue \in BOOLEAN

LEMMA InitTypes == Init => TypeOK
<1> SUFFICES ASSUME Init PROVE TypeOK
  OBVIOUS
<1>1. Flags
  BY Zenon DEF Init, Flags
<1> QED
  BY <1>1 DEF Init, TypeOK, StoredKeys, Plain, Flags

LEMMA BootTypes ==
  ASSUME TypeOK, Reboot
  PROVE  TypeOK'
<1>1. Flags'
  BY Zenon DEF TypeOK, Reboot, Boot, nvs, Flags
<1> QED
  BY <1>1 DEF TypeOK, Reboot, Boot, Plain, StoredKeys, nvs, Flags

LEMMA CallerTypes ==
  ASSUME TypeOK, Caller
  PROVE  TypeOK'
<1> USE DEF TypeOK, control, restart, serving, nvs, counts
<1>1. ASSUME NEW b \in BOOLEAN, WriteEnabled(b)
      PROVE  TypeOK'
  BY <1>1, ControlAssumptions DEF WriteEnabled
<1>2. ASSUME NEW k \in Keys \cup {NoKey}, WriteKey(k)
      PROVE  TypeOK'
  BY <1>2, ControlAssumptions DEF WriteKey, StoredKeys
<1>3. CASE AnnounceEnabled
  BY <1>3 DEF AnnounceEnabled
<1>4. CASE AnnounceKey
  BY <1>4 DEF AnnounceKey, StoredKeys
<1>5. CASE SetHasIp
  BY <1>5, ControlAssumptions DEF SetHasIp
<1> QED
  BY <1>1, <1>2, <1>3, <1>4, <1>5 DEF Caller, Announce

LEMMA RestartTypes ==
  ASSUME TypeOK, Restart
  PROVE  TypeOK'
<1> USE DEF TypeOK, control, restart, serving, nvs, counts, Go, Return
<1>1. ASSUME NEW b \in BOOLEAN, BeginRestart(b)
      PROVE  TypeOK'
  BY <1>1 DEF BeginRestart, Control, StopServer, Plain, StoredKeys
<1>2. CASE ReadKey \/ ReadFails \/ ListenFails
  BY <1>2, ControlAssumptions DEF ReadKey, ReadFails, ListenFails
<1>6. CASE Listen
  <2>1. Flags'
    BY <1>6, Zenon DEF Listen, Flags
  <2> QED
    BY <1>6, <2>1 DEF Listen, Flags
<1>3. CASE CheckAfterRead
  BY <1>3 DEF CheckAfterRead
<1>4. CASE CheckAfterError \/ CheckAfterFailure
  BY <1>4 DEF CheckAfterError, CheckAfterFailure
<1>5. CASE CheckAfterStart
  <2>1. Flags'
    BY <1>5, Zenon DEF CheckAfterStart, StopServer, Flags
  <2> QED
    BY <1>5, <2>1 DEF CheckAfterStart, StopServer, Plain, StoredKeys, Flags
<1> QED
  BY <1>1, <1>2, <1>3, <1>4, <1>5, <1>6 DEF Restart, ApplyControl, RetryServer

LEMMA ServeTypes ==
  ASSUME TypeOK,
         \/ Loop \/ RetryDelayPasses
         \/ \E c \in Slots : AcceptClient(c) \/ CloseClient(c)
  PROVE  TypeOK'
<1> USE DEF TypeOK, control, restart, serving, nvs, counts, Go
<1>1. CASE Loop
  BY <1>1 DEF Loop, NothingToApply, NoRetry, LoopEnds
<1>2. CASE RetryDelayPasses
  BY <1>2 DEF RetryDelayPasses
<1>3. ASSUME NEW c \in Slots, AcceptClient(c) \/ CloseClient(c)
      PROVE  TypeOK'
  BY <1>3 DEF AcceptClient, CloseClient
<1> QED
  BY <1>1, <1>2, <1>3

\* The variables keep their types whatever the configuration and the server do.
THEOREM TypeCorrect == Spec => []TypeOK
<1>1. TypeOK /\ [Next]_vars => TypeOK'
  <2>1. ASSUME TypeOK, UNCHANGED vars
        PROVE  TypeOK'
    BY <2>1 DEF TypeOK, vars
  <2> QED
    BY <2>1, BootTypes, CallerTypes, RestartTypes, ServeTypes DEF Next
<1> QED
  BY <1>1, InitTypes, PTL DEF Spec

-----------------------------------------------------------------------------
(* What a restart works with.                                              *)

\* A key that was read: stored still, or replaced since.
WasStored(k) == k.n <= stored.n /\ (k.n = stored.n => k = stored)

Restarting ==
  pc \in {"read", "check", "checkError", "listen", "failed", "started"}

\* Nothing is announced before it is stored, or applied before it is seen, and
\* what a restart has seen is wanted and stands until the next generation.
SeenInv ==
  /\ applied <= generation /\ seen.generation <= generation
  /\ announced <= stored.n
  /\ console # "key" => announced = stored.n
  /\ Restarting => applied <= seen.generation
  /\ Restarting /\ seen.generation = generation =>
       seen = Control /\ enabled /\ hasIp

\* The key is read after the control snapshot, so that it is no older than what
\* was announced with the generation seen.
KeyInv ==
  /\ pc = "check" =>
       /\ WasStored(read)
       /\ seen.generation = generation => announced <= read.n
  /\ pc = "listen" \/ running => WasStored(using)
  /\ pc \in {"listen", "started"} /\ seen.generation = generation =>
       announced <= using.n

\* A server that runs has applied what it serves or is about to look again.
ServeInv ==
  /\ Restarting /\ pc # "started" => ~running
  /\ running /\ applied = generation =>
       enabled /\ hasIp /\ announced <= using.n
  /\ running /\ ~Restarting => checked <= using.n
  /\ \A c \in Slots : clients[c] # Closed => running /\ clients[c] = using

ServedInv == TypeOK /\ SeenInv /\ KeyInv /\ ServeInv

LEMMA InitServed == Init => ServedInv
BY InitTypes DEF Init, ServedInv, SeenInv, KeyInv, ServeInv, Restarting

LEMMA BootServed ==
  ASSUME ServedInv, Reboot
  PROVE  ServedInv'
<1>1. TypeOK'
  BY BootTypes DEF ServedInv
<1>2. /\ pc' = "apply" /\ running' = FALSE
      /\ \A c \in Slots : clients'[c] = Closed
  BY DEF Reboot, Boot
<1>3. ServeInv'
  BY <1>2 DEF ServeInv, Restarting
<1>4. KeyInv'
  BY <1>2 DEF KeyInv
<1>5. SeenInv'
  BY <1>2 DEF ServedInv, TypeOK, StoredKeys, SeenInv, Restarting, Reboot, Boot,
     nvs
<1> QED
  BY <1>1, <1>3, <1>4, <1>5 DEF ServedInv

LEMMA CallerServed ==
  ASSUME ServedInv, Caller
  PROVE  ServedInv'
<1> USE CallerTypes DEF ServedInv, SeenInv, KeyInv, ServeInv, Restarting,
        WasStored, TypeOK, StoredKeys, control, restart, serving, nvs, counts
<1>1. ASSUME NEW b \in BOOLEAN, WriteEnabled(b)
      PROVE  ServedInv'
  BY <1>1 DEF WriteEnabled, Control, Caller
<1>2. ASSUME NEW k \in Keys \cup {NoKey}, WriteKey(k)
      PROVE  ServedInv'
  BY <1>2 DEF WriteKey, Control, Caller
<1>3. CASE AnnounceEnabled
  BY <1>3 DEF AnnounceEnabled, Control, Caller, Announce
<1>4. CASE AnnounceKey
  BY <1>4 DEF AnnounceKey, Control, Caller, Announce
<1>5. CASE SetHasIp
  BY <1>5 DEF SetHasIp, Control, Caller
<1> QED
  BY <1>1, <1>2, <1>3, <1>4, <1>5 DEF Caller, Announce

LEMMA RestartServed ==
  ASSUME ServedInv, Restart
  PROVE  ServedInv'
<1>0. TypeOK'
  BY RestartTypes DEF ServedInv
<1> USE <1>0 DEF ServedInv, SeenInv, KeyInv, ServeInv, Restarting, WasStored,
        TypeOK, StoredKeys, control, restart, serving, nvs, counts, Go, Return
<1>1. ASSUME NEW b \in BOOLEAN, BeginRestart(b)
      PROVE  ServedInv'
  BY <1>1 DEF BeginRestart, Control, StopServer
<1>2. CASE ReadKey
  BY <1>2 DEF ReadKey, Control
<1>3. CASE ReadFails \/ ListenFails
  BY <1>3 DEF ReadFails, ListenFails, Control
<1>4. CASE CheckAfterRead
  BY <1>4 DEF CheckAfterRead, IsCurrent, Control
<1>5. CASE CheckAfterError \/ CheckAfterFailure
  BY <1>5 DEF CheckAfterError, CheckAfterFailure, IsCurrent, Control
<1>6. CASE Listen
  BY <1>6 DEF Listen, Control
<1>7. CASE CheckAfterStart
  BY <1>7 DEF CheckAfterStart, StopServer, IsCurrent, Control
<1> QED
  BY <1>1, <1>2, <1>3, <1>4, <1>5, <1>6, <1>7 DEF Restart, ApplyControl,
     RetryServer

LEMMA ServeServed ==
  ASSUME ServedInv,
         \/ Loop \/ RetryDelayPasses
         \/ \E c \in Slots : AcceptClient(c) \/ CloseClient(c)
  PROVE  ServedInv'
<1>0. TypeOK'
  BY ServeTypes DEF ServedInv
<1> USE <1>0 DEF ServedInv, SeenInv, KeyInv, ServeInv, Restarting, WasStored,
        TypeOK, StoredKeys, control, restart, serving, nvs, counts, Go
<1>1. CASE Loop
  BY <1>1 DEF Loop, NothingToApply, NoRetry, LoopEnds, Control
<1>2. CASE RetryDelayPasses
  BY <1>2 DEF RetryDelayPasses, Control
<1>3. ASSUME NEW c \in Slots, AcceptClient(c) \/ CloseClient(c)
      PROVE  ServedInv'
  BY <1>3 DEF AcceptClient, CloseClient, Control
<1> QED
  BY <1>1, <1>2, <1>3

\* The invariant that the checks of restart_server_with_config keep.
THEOREM ServedCorrect == Spec => []ServedInv
<1>1. ServedInv /\ [Next]_vars => ServedInv'
  <2>1. ASSUME ServedInv, UNCHANGED vars
        PROVE  ServedInv'
    BY <2>1 DEF ServedInv, TypeOK, SeenInv, KeyInv, ServeInv, Restarting,
       WasStored, Control, vars
  <2> QED
    BY <2>1, BootServed, CallerServed, RestartServed, ServeServed DEF Next
<1> QED
  BY <1>1, InitServed, PTL DEF Spec

-----------------------------------------------------------------------------
\* The server that has applied the newest generation serves what is stored,
\* although restart_server_with_config reads the settings one by one.
THEOREM ServesWhatIsStored == Spec => []AppliedIsServed
<1>1. ServedInv => AppliedIsServed
  BY DEF ServedInv, TypeOK, SeenInv, KeyInv, ServeInv, AppliedIsServed,
     WasStored, StoredKeys
<1> QED
  BY <1>1, ServedCorrect, PTL

\* No client is accepted under a key older than the one announced when the task
\* last looked.
THEOREM KeysNeverGoBack == Spec => NoOlderKey
<1> DEFINE Accepts == \A c \in Slots :
             clients[c] = Closed /\ clients'[c] # Closed
               => clients'[c].n >= checked
<1>1. ServedInv /\ [Next]_vars => [Accepts]_vars
  <2> SUFFICES ASSUME ServedInv, Next
               PROVE  Accepts
    OBVIOUS
  <2>1. ASSUME NEW c \in Slots, AcceptClient(c)
        PROVE  Accepts
    BY <2>1 DEF AcceptClient, ServedInv, ServeInv, Restarting, TypeOK,
       StoredKeys
  <2>2. ASSUME NEW c \in Slots, CloseClient(c)
        PROVE  Accepts
    BY <2>2 DEF CloseClient, ServedInv, TypeOK
  <2>3. CASE Caller \/ Loop \/ RetryDelayPasses
    BY <2>3 DEF Caller, Announce, WriteEnabled, WriteKey, AnnounceEnabled,
       AnnounceKey, SetHasIp, Loop, NothingToApply, NoRetry, LoopEnds,
       RetryDelayPasses, serving
  <2>4. CASE Restart
    BY <2>4 DEF Restart, ApplyControl, RetryServer, BeginRestart, StopServer,
       ReadKey, ReadFails, CheckAfterRead, CheckAfterError, Listen, ListenFails,
       CheckAfterFailure, CheckAfterStart, serving
  <2>5. CASE Reboot
    BY <2>5 DEF Reboot, Boot
  <2> QED
    BY <2>1, <2>2, <2>3, <2>4, <2>5 DEF Next
<1> QED
  BY <1>1, ServedCorrect, PTL DEF Spec, NoOlderKey
=============================================================================
