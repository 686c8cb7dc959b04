--------------------------- MODULE EntityRegister ---------------------------
(***************************************************************************)
(* What main/ha/entity_core.h promises: one authoritative snapshot per     *)
(* entity, changed in a single order of commits, read whole, and told to   *)
(* the observers as it is at that moment.  Every operation takes effect in *)
(* one step between its call and its return; EntityCore, with its two      *)
(* locks, implements this module.                                          *)
(***************************************************************************)
EXTENDS Naturals

CONSTANTS
  Clients,    \* tasks that call the core
  Observers,  \* callbacks that can be added
  Entities,   \* entity indices
  Sensors,    \* the entities with ENTITY_KIND_SENSOR
  Accepted,   \* per entity, the values it can be given
  Defaults    \* per entity, its default value

VARIABLES
  clock,      \* commits so far
  reg,        \* per entity, the committed snapshot
  answer,     \* per client, what its last call returned
  told        \* per observer and entity, the last snapshot it was given

vars == <<clock, reg, answer, told>>

Boot(e)      == [value |-> Defaults[e], version |-> 0]
Nothing      == [e \in Entities |-> Boot(e)]
Reply(ok, s) == [accepted |-> ok, snapshot |-> s]

Init ==
  /\ clock = 0
  /\ reg = Nothing
  /\ answer = [c \in Clients |-> Reply(FALSE, Boot(0))]
  /\ told = [o \in Observers |-> Nothing]

\* A command or a sensor update is accepted.
Commit(c, e, v) ==
  /\ v \in Accepted[e]
  /\ clock' = clock + 1
  /\ reg' = [reg EXCEPT ![e] = [value |-> v, version |-> clock + 1]]
  /\ answer' = [answer EXCEPT ![c] = Reply(TRUE, reg'[e])]
  /\ UNCHANGED told

\* A command is rejected and the client gets what is authoritative.
Reject(c, e) ==
  /\ answer' = [answer EXCEPT ![c] = Reply(FALSE, reg[e])]
  /\ UNCHANGED <<clock, reg, told>>

Read(c, e) ==
  /\ answer' = [answer EXCEPT ![c] = Reply(TRUE, reg[e])]
  /\ UNCHANGED <<clock, reg, told>>

Tell(o, e) ==
  /\ told' = [told EXCEPT ![o][e] = reg[e]]
  /\ UNCHANGED <<clock, reg, answer>>

Next ==
  \/ \E c \in Clients, e \in Entities :
       \/ \E v \in Accepted[e] : Commit(c, e, v)
       \/ Reject(c, e)
       \/ Read(c, e)
  \/ \E o \in Observers, e \in Entities : Tell(o, e)

Spec == Init /\ [][Next]_vars
=============================================================================
