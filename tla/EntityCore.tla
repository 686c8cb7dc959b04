----------------------------- MODULE EntityCore -----------------------------
(***************************************************************************)
(* main/ha/entity_core.c: the authoritative entity state.                  *)
(*                                                                         *)
(* Commands (touch, MQTT, Native) and sensor updates commit under the      *)
(* state mutex and are then told to the observers under the notification   *)
(* mutex, which is taken first and given back last.  A replay tells one    *)
(* observer every entity under the notification mutex alone, and takes the *)
(* state mutex for each snapshot.                                          *)
(*                                                                         *)
(* A commit writes the fields of the state one after the other; the model  *)
(* keeps two of them, value and state_version.  Kind never changes, valid  *)
(* is the version of a sensor being positive, and the source is left out.  *)
(* Every call comes after entity_core_init (main/indicator_model.c:34), so *)
(* the NOT_INITIALIZED returns are left out, as are null arguments.        *)
(***************************************************************************)
EXTENDS Integers, Sequences

CONSTANTS
  Clients,      \* tasks that call the core
  Observers,    \* callbacks that can be added
  NumEntities,  \* ENTITY_INDEX_COUNT
  Sensors,      \* indices whose kind is ENTITY_KIND_SENSOR
  Values,       \* finite values a caller passes
  NonFinite,    \* a NaN or an infinity
  Minimum, Maximum, Step, Defaults,   \* entity_registry.c, per entity
  Capacity,     \* ENTITY_CORE_OBSERVER_CAPACITY
  MaxWrites,    \* bound on commands and sensor updates
  NoClient

Entities == 0 .. NumEntities - 1
Snapshot == [value : Int, version : Nat]

ASSUME Assumptions ==
  /\ NoClient \notin Clients
  /\ NumEntities \in Nat \ {0}
  /\ Sensors \subseteq Entities
  /\ Values \subseteq Int
  /\ NonFinite \notin Int
  /\ Minimum \in [Entities -> Int]
  /\ Maximum \in [Entities -> Int]
  /\ Step \in [Entities -> Nat \ {0}]
  /\ Defaults \in [Entities -> Int]
  /\ Capacity \in Nat
  /\ MaxWrites \in Nat

VARIABLES
  states,      \* s_states
  version,     \* s_state_version
  observers,   \* s_observers, the first s_observer_count of them
  notifyLock,  \* holder of s_notification_mutex
  stateLock,   \* holder of s_mutex
  pc,          \* where a client is in its call
  target,      \* the entity of its call, or its replay's loop index
  input,       \* the value it passes
  result,      \* the snapshot its result held before the commit
  snapshot,    \* its local copy, given to the observers
  pending,     \* observers it has still to call
  answer,      \* what its last command, update or read told it
  told,        \* per observer and entity, the last snapshot it was given
  caughtUp,    \* observers that were added and then got a whole replay
  writes       \* commands and sensor updates begun, for the bound

core   == <<states, version, observers>>
locks  == <<notifyLock, stateLock>>
locals == <<target, input, result, snapshot, pending>>
ghosts == <<answer, told, caughtUp>>
vars   == <<states, version, observers, notifyLock, stateLock, pc, target,
            input, result, snapshot, pending, answer, told, caughtUp, writes>>

Occurs(x, q) == \E i \in DOMAIN q : q[i] = x
Boot(e)      == [value |-> Defaults[e], version |-> 0]
Reply(ok, s) == [accepted |-> ok, snapshot |-> s]

Init ==
  /\ states = [e \in Entities |-> Boot(e)]
  /\ version = 0
  /\ observers = <<>>
  /\ notifyLock = NoClient
  /\ stateLock = NoClient
  /\ pc = [c \in Clients |-> "idle"]
  /\ target = [c \in Clients |-> 0]
  /\ input = [c \in Clients |-> 0]
  /\ result = [c \in Clients |-> Boot(0)]
  /\ snapshot = [c \in Clients |-> Boot(0)]
  /\ pending = [c \in Clients |-> <<>>]
  /\ answer = [c \in Clients |-> Reply(FALSE, Boot(0))]
  /\ told = [o \in Observers |-> [e \in Entities |-> Boot(e)]]
  /\ caughtUp = {}
  /\ writes = 0

-----------------------------------------------------------------------------
Go(c, to) == pc' = [pc EXCEPT ![c] = to]

\* validate_command: type, finiteness, range and step.
Accepts(e, v) ==
  /\ e \notin Sensors
  /\ v # NonFinite
  /\ Minimum[e] <= v /\ v <= Maximum[e]
  /\ (v - Minimum[e]) % Step[e] = 0

\* The call's locals go out of scope.
Return(c) ==
  /\ Go(c, "idle")
  /\ target' = [target EXCEPT ![c] = 0]
  /\ input' = [input EXCEPT ![c] = 0]
  /\ result' = [result EXCEPT ![c] = Boot(0)]
  /\ snapshot' = [snapshot EXCEPT ![c] = Boot(0)]
  /\ pending' = [pending EXCEPT ![c] = <<>>]

\* entity_core_submit_command.
Submit(c, e, v) ==
  /\ pc[c] = "idle"
  /\ writes < MaxWrites
  /\ writes' = writes + 1
  /\ target' = [target EXCEPT ![c] = e]
  /\ input' = [input EXCEPT ![c] = v]
  /\ Go(c, "submit")
  /\ UNCHANGED <<core, locks, result, snapshot, pending, ghosts>>

\* entity_core_set_sensor: another kind or a non-finite value returns at once.
SetSensor(c, e, v) ==
  /\ pc[c] = "idle"
  /\ writes < MaxWrites
  /\ writes' = writes + 1
  /\ e \in Sensors
  /\ v # NonFinite
  /\ target' = [target EXCEPT ![c] = e]
  /\ input' = [input EXCEPT ![c] = v]
  /\ Go(c, "update")
  /\ UNCHANGED <<core, locks, result, snapshot, pending, ghosts>>

\* entity_core_replay.
Replay(c, o) ==
  /\ pc[c] = "idle"
  /\ target' = [target EXCEPT ![c] = 0]
  /\ pending' = [pending EXCEPT ![c] = <<o>>]
  /\ Go(c, "replay")
  /\ UNCHANGED <<core, locks, input, result, snapshot, ghosts, writes>>

\* Mutant: a replay does not wait for the observers to be notified.
TakeNotifyLockReplayUnheeded(c) ==
  /\ pc[c] \in {"submit", "update", "replay"}
  /\ IF pc[c] = "replay"
       THEN UNCHANGED notifyLock
       ELSE notifyLock = NoClient /\ notifyLock' = c
  /\ Go(c, CASE pc[c] = "submit" -> "validate"
             [] pc[c] = "update" -> "write"
             [] pc[c] = "replay" -> "copy")
  /\ UNCHANGED <<core, stateLock, locals, ghosts, writes>>

\* platform_notification_lock, the outer mutex.
TakeNotifyLock(c) ==
  /\ pc[c] \in {"submit", "update", "replay"}
  /\ notifyLock = NoClient
  /\ notifyLock' = c
  /\ Go(c, CASE pc[c] = "submit" -> "validate"
             [] pc[c] = "update" -> "write"
             [] pc[c] = "replay" -> "copy")
  /\ UNCHANGED <<core, stateLock, locals, ghosts, writes>>

\* Mutant: a rejected command keeps the notification mutex.
RejectKeepsLock(c) ==
  /\ pc[c] = "validate"
  /\ stateLock = NoClient
  /\ ~Accepts(target[c], input[c])
  /\ answer' = [answer EXCEPT ![c] = Reply(FALSE, states[target[c]])]
  /\ Return(c)
  /\ UNCHANGED <<core, notifyLock, stateLock, told, caughtUp, writes>>

\* The command is invalid: both mutexes are given back and the result holds
\* the authoritative snapshot.
Reject(c) ==
  /\ pc[c] = "validate"
  /\ stateLock = NoClient
  /\ ~Accepts(target[c], input[c])
  /\ answer' = [answer EXCEPT ![c] = Reply(FALSE, states[target[c]])]
  /\ notifyLock' = NoClient
  /\ Return(c)
  /\ UNCHANGED <<core, stateLock, told, caughtUp, writes>>

\* Under the state mutex the value is written first...
WriteValue(c) ==
  /\ \/ pc[c] = "validate" /\ Accepts(target[c], input[c])
     \/ pc[c] = "write"
  /\ stateLock = NoClient
  /\ stateLock' = c
  /\ result' = [result EXCEPT ![c] = states[target[c]]]
  /\ states' = [states EXCEPT ![target[c]].value = input[c]]
  /\ Go(c, "version")
  /\ UNCHANGED <<version, observers, notifyLock, target, input, snapshot,
                 pending, ghosts, writes>>

\* Mutant: both mutexes are given back before the observers are told.
WriteVersionUnlocksBoth(c) ==
  /\ pc[c] = "version"
  /\ version' = version + 1
  /\ states' = [states EXCEPT ![target[c]].version = version + 1]
  /\ snapshot' = [snapshot EXCEPT ![c] = states'[target[c]]]
  /\ pending' = [pending EXCEPT ![c] = observers]
  /\ answer' = [answer EXCEPT ![c] = Reply(TRUE, states'[target[c]])]
  /\ stateLock' = NoClient
  /\ notifyLock' = NoClient
  /\ Go(c, "notify")
  /\ UNCHANGED <<observers, target, input, result, told, caughtUp, writes>>

\* ... and the version after it, before the state and the list of observers
\* are copied and the mutex is given back.
WriteVersion(c) ==
  /\ pc[c] = "version"
  /\ version' = version + 1
  /\ states' = [states EXCEPT ![target[c]].version = version + 1]
  /\ snapshot' = [snapshot EXCEPT ![c] = states'[target[c]]]
  /\ pending' = [pending EXCEPT ![c] = observers]
  /\ answer' = [answer EXCEPT ![c] = Reply(TRUE, states'[target[c]])]
  /\ stateLock' = NoClient
  /\ Go(c, "notify")
  /\ UNCHANGED <<observers, notifyLock, target, input, result, told, caughtUp,
                 writes>>

\* notify_observers: the copied callbacks, one after the other.
Notify(c) ==
  /\ pc[c] = "notify"
  /\ pending[c] # <<>>
  /\ told' = [told EXCEPT ![Head(pending[c])][target[c]] = snapshot[c]]
  /\ pending' = [pending EXCEPT ![c] = Tail(@)]
  /\ UNCHANGED <<core, locks, pc, target, input, result, snapshot, answer,
                 caughtUp, writes>>

Notified(c) ==
  /\ pc[c] = "notify"
  /\ pending[c] = <<>>
  /\ notifyLock' = NoClient
  /\ Return(c)
  /\ UNCHANGED <<core, stateLock, ghosts, writes>>

\* A replay copies the next entity under the state mutex...
ReplayCopy(c) ==
  /\ pc[c] = "copy"
  /\ stateLock = NoClient
  /\ snapshot' = [snapshot EXCEPT ![c] = states[target[c]]]
  /\ Go(c, "tell")
  /\ UNCHANGED <<core, locks, target, input, result, pending, ghosts, writes>>

\* ... and hands the copy to the observer after giving the mutex back.
ReplayTell(c) ==
  /\ pc[c] = "tell"
  /\ told' = [told EXCEPT ![Head(pending[c])][target[c]] = snapshot[c]]
  /\ target[c] + 1 < NumEntities
  /\ target' = [target EXCEPT ![c] = @ + 1]
  /\ Go(c, "copy")
  /\ UNCHANGED <<core, locks, input, result, snapshot, pending, answer,
                 caughtUp, writes>>

Added(o) == Occurs(o, observers)

ReplayLast(c) ==
  /\ pc[c] = "tell"
  /\ target[c] + 1 = NumEntities
  /\ told' = [told EXCEPT ![Head(pending[c])][target[c]] = snapshot[c]]
  /\ caughtUp' = caughtUp \cup {o \in {Head(pending[c])} : Added(o)}
  /\ notifyLock' = NoClient
  /\ Return(c)
  /\ UNCHANGED <<core, stateLock, answer, writes>>

\* Mutant: the state mutex is not taken for the copy.
GetSnapshotUnlocked(c, e) ==
  /\ pc[c] = "idle"
  /\ answer' = [answer EXCEPT ![c] = Reply(TRUE, states[e])]
  /\ UNCHANGED <<core, locks, pc, locals, told, caughtUp, writes>>

\* entity_core_get_snapshot.
GetSnapshot(c, e) ==
  /\ pc[c] = "idle"
  /\ stateLock = NoClient
  /\ answer' = [answer EXCEPT ![c] = Reply(TRUE, states[e])]
  /\ UNCHANGED <<core, locks, pc, locals, told, caughtUp, writes>>

\* Mutant: an observer too many is written past the end of the list.
AddObserverBeyondCapacity(c, o) ==
  /\ pc[c] = "idle"
  /\ stateLock = NoClient
  /\ ~Added(o)
  /\ observers' = Append(observers, o)
  /\ UNCHANGED <<states, version, locks, pc, locals, ghosts, writes>>

\* entity_core_add_observer: the state mutex alone.  One that is there already
\* is not added again, and a full list returns false.
AddObserver(c, o) ==
  /\ pc[c] = "idle"
  /\ stateLock = NoClient
  /\ ~Added(o)
  /\ Len(observers) < Capacity
  /\ observers' = Append(observers, o)
  /\ UNCHANGED <<states, version, locks, pc, locals, ghosts, writes>>

-----------------------------------------------------------------------------
CallStep(c) ==
  \/ Reject(c)
  \/ WriteValue(c)
  \/ WriteVersion(c)
  \/ Notify(c)
  \/ Notified(c)
  \/ ReplayCopy(c)
  \/ ReplayTell(c)
  \/ ReplayLast(c)

CallBegin(c) ==
  \/ \E e \in Entities, v \in Values \cup {NonFinite} : Submit(c, e, v)
  \/ \E e \in Entities, v \in Values : SetSensor(c, e, v)
  \/ \E o \in Observers : Replay(c, o)
  \/ \E e \in Entities : GetSnapshot(c, e)
  \/ \E o \in Observers : AddObserver(c, o)

Next == \E c \in Clients : CallBegin(c) \/ TakeNotifyLock(c) \/ CallStep(c)

Spec == Init /\ [][Next]_vars

(***************************************************************************)
(* A client inside a call is scheduled.  The notification mutex goes to    *)
(* its waiters in priority order, and every caller is driven by events     *)
(* with pauses between them (a touch, a message, a sensor packet), so no   *)
(* waiter is passed over for ever.                                         *)
(***************************************************************************)
Fairness ==
  \A c \in Clients : WF_vars(CallStep(c)) /\ SF_vars(TakeNotifyLock(c))

FairSpec == Spec /\ Fairness

-----------------------------------------------------------------------------
Pc == {"idle", "submit", "update", "replay", "validate", "write", "version",
       "notify", "copy", "tell"}

TypeCore ==
  /\ states \in [Entities -> Snapshot]
  /\ version \in Nat
  /\ observers \in Seq(Observers)
  /\ Len(observers) <= Capacity
  /\ notifyLock \in Clients \cup {NoClient}
  /\ stateLock \in Clients \cup {NoClient}

TypeCalls ==
  /\ pc \in [Clients -> Pc]
  /\ target \in [Clients -> Entities]
  /\ input \in [Clients -> Int \cup {NonFinite}]
  /\ \A c \in Clients : pc[c] \in {"update", "write"} => input[c] \in Int
  /\ result \in [Clients -> Snapshot]
  /\ snapshot \in [Clients -> Snapshot]
  /\ pending \in [Clients -> Seq(Observers)]
  /\ \A c \in Clients : pc[c] \in {"replay", "copy", "tell"} => pending[c] # <<>>

TypeGhosts ==
  /\ answer \in [Clients -> [accepted : BOOLEAN, snapshot : Snapshot]]
  /\ told \in [Observers -> [Entities -> Snapshot]]
  /\ caughtUp \subseteq Observers
  /\ writes \in Nat

\* Type invariant; the list of observers stays within its capacity.
TypeOK == TypeCore /\ TypeCalls /\ TypeGhosts

\* An observer that was added and then got a whole replay misses nothing: when
\* no commit is being told, it was last given what is authoritative, for every
\* entity, wherever its addition fell between the commits of other tasks.
ReplayedIsCurrent ==
  notifyLock = NoClient =>
    \A o \in caughtUp, e \in Entities : told[o][e] = states[e]

\* No observer is told an older snapshot of an entity after a newer one: a
\* replay never overwrites what a commit told meanwhile.
ToldInOrder ==
  [][\A o \in Observers, e \in Entities :
       told'[o][e].version >= told[o][e].version]_vars

\* What entity_core.h promises, without locks.  Between its two writes a state
\* still counts as what it was.
Only(S)   == CHOOSE s \in S : TRUE
Before(e) == {result[c] : c \in {c \in Clients : pc[c] = "version" /\ target[c] = e}}
Committed == [e \in Entities |->
                IF Before(e) = {} THEN states[e] ELSE Only(Before(e))]

Register == INSTANCE EntityRegister WITH
  clock    <- version,
  reg      <- Committed,
  Accepted <- [e \in Entities |->
                 {v \in Values : e \in Sensors \/ Accepts(e, v)}]

\* The core is linearizable: each call takes effect at once, whole, between its
\* call and its return, no reader sees half a commit, and observers are given
\* only what is authoritative at that moment.
IsRegister == Register!Spec

\* No call waits for ever for one of the mutexes.
CallsReturn == \A c \in Clients : (pc[c] # "idle") ~> (pc[c] = "idle")
=============================================================================
