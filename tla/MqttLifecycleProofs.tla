------------------------ MODULE MqttLifecycleProofs ------------------------
(* Proofs about MqttLifecycle, for every configuration, handle and bound. *)
EXTENDS MqttLifecycle, TLAPS

USE DEF Requesters, Lifecycle

----------------------------------------------------------------------------
(* The types.                                                              *)

LEMMA PostTypes ==
  ASSUME NEW n \in Nat, queue \in 0..QueueSize, Post(n)
  PROVE  queue' \in 0..QueueSize
BY BoundAssumption DEF Post

LEMMA SpendTypes ==
  ASSUME NEW b \in {"link", "settings", "failure"}, Spend(b),
         left \in [{"link", "settings", "failure"} -> Nat]
  PROVE  left' \in [{"link", "settings", "failure"} -> Nat]
BY DEF Spend

LEMMA AdvanceTypes ==
  ASSUME NEW box \in Boxes
  PROVE  /\ Advance(box) \in Boxes
         /\ Advance(box).lifecycle = box.lifecycle
         /\ Advance(box).connected.client = box.connected.client
BY DEF Advance, Boxes

LEMMA EmptyTypes ==
  /\ Empty \in Boxes
  /\ Empty.lifecycle = "none" /\ Empty.connected.client = NoClient
BY DEF Empty, Boxes, NoReport

LEMMA InitTypes == Init => TypeOK
<1> SUFFICES ASSUME Init PROVE TypeOK
  OBVIOUS
<1>1. TypeSettings
  BY BoundAssumption DEF Init, TypeSettings
<1>2. TypeRequests
  <2>1. 0 \in 0..CfgQueueSize
    BY BoundAssumption
  <2> QED
    BY <2>1 DEF Init, TypeRequests
<1>3. TypeLifecycle
  BY EmptyTypes DEF Init, TypeLifecycle
<1>4. TypeClients
  BY DEF Init, TypeClients
<1>5. TypeInstance
  BY EmptyTypes DEF Init, TypeInstance, Enabled
<1>6. queue \in 0..QueueSize
  BY BoundAssumption DEF Init
<1> QED
  BY <1>1, <1>2, <1>3, <1>4, <1>5, <1>6 DEF TypeOK

LEMMA ArrivalTypes == TypeOK /\ (Surroundings \/ Arrivals) => TypeOK'
<1> SUFFICES ASSUME TypeOK, Surroundings \/ Arrivals PROVE TypeOK'
  OBVIOUS
<1> USE DEF TypeOK, settings, requests, lifecycle, clients, instance
<1>1. CASE LinkChanges
  <2>1. TypeSettings'
    BY <1>1, SpendTypes DEF LinkChanges, TypeSettings
  <2>2. TypeRequests' /\ TypeLifecycle' /\ TypeClients' /\ TypeInstance' /\ queue' \in 0..QueueSize
    BY <1>1 DEF LinkChanges, TypeRequests, TypeLifecycle, TypeClients,
       TypeInstance
  <2> QED
    BY <2>1, <2>2
<1>2. CASE Publish
  <2>1. queue' \in 0..QueueSize
    BY <1>2, PostTypes DEF Publish
  <2>2. TypeSettings' /\ TypeRequests' /\ TypeLifecycle' /\ TypeClients' /\ TypeInstance'
    BY <1>2 DEF Publish, TypeSettings, TypeRequests, TypeLifecycle,
       TypeClients, TypeInstance
  <2> QED
    BY <2>1, <2>2
<1>3. CASE StatusArrives
  <2>1. TypeSettings'
    BY <1>3 DEF StatusArrives, TypeSettings
  <2>2. TypeRequests'
    BY <1>3 DEF StatusArrives, TypeRequests, Goto, ReadEnabled, Enabled,
       TypeSettings
  <2>3. TypeLifecycle' /\ TypeClients' /\ TypeInstance' /\ queue' \in 0..QueueSize
    BY <1>3 DEF StatusArrives, TypeLifecycle, TypeClients, TypeInstance
  <2> QED
    BY <2>1, <2>2, <2>3
<1>4. CASE ConfigArrives
  <2>1. TypeRequests'
    BY <1>4, BoundAssumption DEF ConfigArrives, TypeRequests, Goto,
       ReadEnabled, Enabled
  <2>2. TypeSettings' /\ TypeLifecycle' /\ TypeClients' /\ TypeInstance' /\ queue' \in 0..QueueSize
    BY <1>4 DEF ConfigArrives, TypeSettings, TypeLifecycle, TypeClients,
       TypeInstance
  <2> QED
    BY <2>1, <2>2
<1>5. CASE SetConfig
  <2>1. TypeSettings'
    BY <1>5, SpendTypes DEF SetConfig, TypeSettings
  <2>2. TypeRequests'
    BY <1>5 DEF SetConfig, TypeRequests, Goto
  <2>3. TypeLifecycle' /\ TypeClients' /\ TypeInstance' /\ queue' \in 0..QueueSize
    BY <1>5 DEF SetConfig, TypeLifecycle, TypeClients, TypeInstance
  <2> QED
    BY <2>1, <2>2, <2>3
<1>6. CASE PostConfig
  <2>1. TypeRequests'
    BY <1>6, BoundAssumption DEF PostConfig, TypeRequests, Goto
  <2>2. TypeSettings' /\ TypeLifecycle' /\ TypeClients' /\ TypeInstance' /\ queue' \in 0..QueueSize
    BY <1>6 DEF PostConfig, TypeSettings, TypeLifecycle, TypeClients,
       TypeInstance
  <2> QED
    BY <2>1, <2>2
<1>7. CASE SetEnabled
  <2>1. TypeSettings'
    BY <1>7, SpendTypes DEF SetEnabled, TypeSettings
  <2>2. TypeRequests'
    BY <1>7 DEF SetEnabled, TypeRequests, Goto
  <2>3. TypeLifecycle' /\ TypeClients' /\ TypeInstance' /\ queue' \in 0..QueueSize
    BY <1>7 DEF SetEnabled, TypeLifecycle, TypeClients, TypeInstance
  <2> QED
    BY <2>1, <2>2, <2>3
<1>8. CASE EnableUsing
  <2>1. TypeRequests'
    BY <1>8 DEF EnableUsing, TypeRequests, Goto, ReadEnabled, Enabled
  <2>2. TypeInstance'
    BY <1>8 DEF EnableUsing, TypeInstance, TypeRequests
  <2>3. TypeSettings' /\ TypeLifecycle' /\ TypeClients' /\ queue' \in 0..QueueSize
    BY <1>8 DEF EnableUsing, TypeSettings, TypeLifecycle, TypeClients
  <2> QED
    BY <2>1, <2>2, <2>3
<1>9. CASE SetNetFlag
  <2>1. TypeRequests'
    BY <1>9 DEF SetNetFlag, TypeRequests, Goto
  <2>2. TypeInstance'
    BY <1>9 DEF SetNetFlag, TypeInstance, TypeRequests
  <2>3. TypeSettings' /\ TypeLifecycle' /\ TypeClients' /\ queue' \in 0..QueueSize
    BY <1>9 DEF SetNetFlag, TypeSettings, TypeLifecycle, TypeClients
  <2> QED
    BY <2>1, <2>2, <2>3
<1> QED
  BY <1>1, <1>2, <1>3, <1>4, <1>5, <1>6, <1>7, <1>8, <1>9 DEF Surroundings,
     Arrivals

LEMMA RequestTypes ==
  ASSUME TypeOK, NEW t \in Requesters, RequestStep(t)
  PROVE  TypeOK'
<1> USE DEF TypeOK, settings, requests, lifecycle, clients, instance
<1>1. CASE StoreUsing(t)
  <2>1. TypeRequests'
    BY <1>1 DEF StoreUsing, TypeRequests, Goto
  <2>2. TypeInstance'
    BY <1>1 DEF StoreUsing, TypeInstance, TypeRequests
  <2>3. TypeSettings' /\ TypeLifecycle' /\ TypeClients' /\ queue' \in 0..QueueSize
    BY <1>1 DEF StoreUsing, TypeSettings, TypeLifecycle, TypeClients
  <2> QED
    BY <2>1, <2>2, <2>3
<1>2. CASE Decide(t)
  <2>1. TypeRequests'
    BY <1>2 DEF Decide, TypeRequests, Goto
  <2>2. TypeSettings' /\ TypeLifecycle' /\ TypeClients' /\ TypeInstance' /\ queue' \in 0..QueueSize
    BY <1>2 DEF Decide, TypeSettings, TypeLifecycle, TypeClients, TypeInstance
  <2> QED
    BY <2>1, <2>2
<1>3. CASE Request(t)
  <2>1. TypeRequests'
    BY <1>3 DEF Request, TypeRequests, Goto
  <2>2. TypeInstance'
    BY <1>3 DEF Request, TypeInstance, Merge, Boxes, TypeRequests
  <2>3. TypeSettings' /\ TypeLifecycle' /\ TypeClients' /\ queue' \in 0..QueueSize
    BY <1>3 DEF Request, TypeSettings, TypeLifecycle, TypeClients
  <2> QED
    BY <2>1, <2>2, <2>3
<1>4. CASE Wake(t)
  <2>1. TypeRequests'
    BY <1>4 DEF Wake, TypeRequests, Goto
  <2>2. queue' \in 0..QueueSize
    BY <1>4, PostTypes DEF Wake
  <2>3. TypeSettings' /\ TypeLifecycle' /\ TypeClients' /\ TypeInstance'
    BY <1>4 DEF Wake, TypeSettings, TypeLifecycle, TypeClients, TypeInstance
  <2> QED
    BY <2>1, <2>2, <2>3
<1> QED
  BY <1>1, <1>2, <1>3, <1>4 DEF RequestStep

LEMMA LifeTypes == TypeOK /\ LifeStep => TypeOK'
<1> SUFFICES ASSUME TypeOK, LifeStep PROVE TypeOK'
  OBVIOUS
<1> USE DEF TypeOK, settings, requests, lifecycle, clients, instance
<1>1. CASE Dispatch
  <2>1. TypeLifecycle'
    BY <1>1 DEF Dispatch, TypeLifecycle, TypeInstance
  <2>2. TypeInstance'
    BY <1>1, EmptyTypes DEF Dispatch, TypeInstance
  <2>3. queue' \in 0..QueueSize
    BY <1>1, BoundAssumption DEF Dispatch
  <2>4. TypeSettings' /\ TypeRequests' /\ TypeClients'
    BY <1>1 DEF Dispatch, TypeSettings, TypeRequests, TypeClients
  <2> QED
    BY <2>1, <2>2, <2>3, <2>4
<1>2. CASE ServeNothing
  <2>1. TypeLifecycle'
    BY <1>2 DEF ServeNothing, TypeLifecycle
  <2>2. TypeSettings' /\ TypeRequests' /\ TypeClients' /\ TypeInstance' /\ queue' \in 0..QueueSize
    BY <1>2 DEF ServeNothing, TypeSettings, TypeRequests, TypeClients,
       TypeInstance
  <2> QED
    BY <2>1, <2>2
<1>3. CASE ServeStop
  <2>1. TypeLifecycle'
    BY <1>3 DEF ServeStop, TypeLifecycle
  <2>2. TypeSettings' /\ TypeRequests' /\ TypeClients' /\ TypeInstance' /\ queue' \in 0..QueueSize
    BY <1>3 DEF ServeStop, TypeSettings, TypeRequests, TypeClients, TypeInstance
  <2> QED
    BY <2>1, <2>2
<1>4. CASE ServeStart
  <2>1. TypeLifecycle'
    BY <1>4, AdvanceTypes DEF ServeStart, TypeLifecycle
  <2>2. TypeInstance'
    BY <1>4, AdvanceTypes DEF ServeStart, TypeInstance
  <2>3. TypeSettings' /\ TypeRequests' /\ TypeClients' /\ queue' \in 0..QueueSize
    BY <1>4 DEF ServeStart, TypeSettings, TypeRequests, TypeClients
  <2> QED
    BY <2>1, <2>2, <2>3
<1>5. CASE Detach
  <2>1. TypeLifecycle'
    BY <1>5, AdvanceTypes DEF Detach, TypeLifecycle, TypeInstance
  <2>2. TypeInstance'
    BY <1>5, AdvanceTypes DEF Detach, TypeInstance
  <2>3. TypeSettings' /\ TypeRequests' /\ TypeClients' /\ queue' \in 0..QueueSize
    BY <1>5 DEF Detach, TypeSettings, TypeRequests, TypeClients
  <2> QED
    BY <2>1, <2>2, <2>3
<1>6. CASE Destroy
  <2>1. TypeLifecycle'
    BY <1>6 DEF Destroy, TypeLifecycle
  <2>2. TypeClients'
    BY <1>6 DEF Destroy, TypeClients
  <2>3. TypeSettings' /\ TypeRequests' /\ TypeInstance' /\ queue' \in 0..QueueSize
    BY <1>6 DEF Destroy, TypeSettings, TypeRequests, TypeInstance
  <2> QED
    BY <2>1, <2>2, <2>3
<1>7. CASE Free
  <2>1. TypeLifecycle'
    BY <1>7 DEF Free, TypeLifecycle
  <2>2. TypeSettings' /\ TypeRequests' /\ TypeClients' /\ TypeInstance' /\ queue' \in 0..QueueSize
    BY <1>7 DEF Free, TypeSettings, TypeRequests, TypeClients, TypeInstance
  <2> QED
    BY <2>1, <2>2
<1>8. CASE Recheck
  <2>1. TypeLifecycle'
    BY <1>8 DEF Recheck, TypeLifecycle
  <2>2. TypeSettings' /\ TypeRequests' /\ TypeClients' /\ TypeInstance' /\ queue' \in 0..QueueSize
    BY <1>8 DEF Recheck, TypeSettings, TypeRequests, TypeClients, TypeInstance
  <2> QED
    BY <2>1, <2>2
<1>9. CASE Build
  <2>1. TypeLifecycle'
    BY <1>9 DEF Build, TypeLifecycle, TypeSettings
  <2>2. TypeClients'
    BY <1>9 DEF Build, TypeClients, TypeSettings
  <2>3. TypeInstance'
    BY <1>9 DEF Build, TypeInstance
  <2>4. TypeSettings' /\ TypeRequests' /\ queue' \in 0..QueueSize
    BY <1>9 DEF Build, TypeSettings, TypeRequests
  <2> QED
    BY <2>1, <2>2, <2>3, <2>4
<1>10. CASE BuildNothing
  <2>1. TypeSettings'
    BY <1>10, SpendTypes DEF BuildNothing, TypeSettings
  <2>2. TypeLifecycle'
    BY <1>10 DEF BuildNothing, TypeLifecycle
  <2>3. TypeRequests' /\ TypeClients' /\ TypeInstance' /\ queue' \in 0..QueueSize
    BY <1>10 DEF BuildNothing, TypeRequests, TypeClients, TypeInstance
  <2> QED
    BY <2>1, <2>2, <2>3
<1>11. CASE BuildFails
  <2>1. TypeSettings'
    BY <1>11, SpendTypes DEF BuildFails, TypeSettings
  <2>2. TypeLifecycle'
    BY <1>11 DEF BuildFails, TypeLifecycle, TypeSettings
  <2>3. TypeRequests' /\ TypeClients' /\ TypeInstance' /\ queue' \in 0..QueueSize
    BY <1>11 DEF BuildFails, TypeRequests, TypeClients, TypeInstance
  <2> QED
    BY <2>1, <2>2, <2>3
<1>12. CASE Start
  <2>1. TypeLifecycle'
    BY <1>12 DEF Start, TypeLifecycle
  <2>2. TypeClients'
    BY <1>12 DEF Start, TypeClients
  <2>3. TypeSettings' /\ TypeRequests' /\ TypeInstance' /\ queue' \in 0..QueueSize
    BY <1>12 DEF Start, TypeSettings, TypeRequests, TypeInstance
  <2> QED
    BY <2>1, <2>2, <2>3
<1>13. CASE StartFails
  <2>1. TypeSettings'
    BY <1>13, SpendTypes DEF StartFails, TypeSettings
  <2>2. TypeLifecycle'
    BY <1>13 DEF StartFails, TypeLifecycle
  <2>3. TypeRequests' /\ TypeClients' /\ TypeInstance' /\ queue' \in 0..QueueSize
    BY <1>13 DEF StartFails, TypeRequests, TypeClients, TypeInstance
  <2> QED
    BY <2>1, <2>2, <2>3
<1>14. CASE Connected
  <2>1. queue' \in 0..QueueSize
    BY <1>14, PostTypes, BoundAssumption DEF Connected
  <2>2. TypeClients'
    BY <1>14 DEF Connected, TypeClients, InSession
  <2>3. TypeLifecycle'
    BY <1>14, EmptyTypes DEF Connected, TypeLifecycle
  <2>4. TypeSettings' /\ TypeRequests' /\ TypeInstance'
    BY <1>14 DEF Connected, TypeSettings, TypeRequests, TypeInstance
  <2> QED
    BY <2>1, <2>2, <2>3, <2>4
<1> QED
  BY <1>1, <1>2, <1>3, <1>4, <1>5, <1>6, <1>7, <1>8, <1>9, <1>10, <1>11, <1>12,
     <1>13, <1>14 DEF LifeStep

LEMMA ClientTypes ==
  ASSUME TypeOK, NEW h \in Handles, ClientStep(h)
  PROVE  TypeOK'
<1> USE DEF TypeOK, settings, requests, lifecycle, clients, instance
<1>1. CASE ClientConnects(h)
  <2>1. TypeClients'
    BY <1>1 DEF ClientConnects, TypeClients
  <2>2. TypeInstance'
    BY <1>1 DEF ClientConnects, TypeInstance
  <2>3. TypeSettings' /\ TypeRequests' /\ TypeLifecycle' /\ queue' \in 0..QueueSize
    BY <1>1 DEF ClientConnects, TypeSettings, TypeRequests, TypeLifecycle
  <2> QED
    BY <2>1, <2>2, <2>3
<1>2. CASE ClientReports(h)
  <2>1. TypeInstance'
    BY <1>2 DEF ClientReports, TypeInstance, Boxes
  <2>2. TypeClients'
    BY <1>2 DEF ClientReports, TypeClients
  <2>3. TypeSettings' /\ TypeRequests' /\ TypeLifecycle' /\ queue' \in 0..QueueSize
    BY <1>2 DEF ClientReports, TypeSettings, TypeRequests, TypeLifecycle
  <2> QED
    BY <2>1, <2>2, <2>3
<1>3. CASE ClientWakes(h)
  <2>1. queue' \in 0..QueueSize
    BY <1>3, PostTypes DEF ClientWakes
  <2>2. TypeClients'
    BY <1>3 DEF ClientWakes, TypeClients
  <2>3. TypeSettings' /\ TypeRequests' /\ TypeLifecycle' /\ TypeInstance'
    BY <1>3 DEF ClientWakes, TypeSettings, TypeRequests, TypeLifecycle,
       TypeInstance
  <2> QED
    BY <2>1, <2>2, <2>3
<1>4. CASE ClientDisconnects(h)
  <2>1. TypeClients'
    BY <1>4 DEF ClientDisconnects, TypeClients
  <2>2. TypeInstance'
    BY <1>4 DEF ClientDisconnects, TypeInstance
  <2>3. TypeSettings' /\ TypeRequests' /\ TypeLifecycle' /\ queue' \in 0..QueueSize
    BY <1>4 DEF ClientDisconnects, TypeSettings, TypeRequests, TypeLifecycle
  <2> QED
    BY <2>1, <2>2, <2>3
<1> QED
  BY <1>1, <1>2, <1>3, <1>4 DEF ClientStep

LEMMA StutterTypes == TypeOK /\ UNCHANGED vars => TypeOK'
BY DEF TypeOK, TypeSettings, TypeRequests, TypeLifecycle, TypeClients,
       TypeInstance, vars, settings, requests, lifecycle, clients, instance

\* Every variable keeps its type and no queue grows past its places, in
\* mqtt.c, ha_mqtt.c and their callers.
THEOREM TypeCorrect == Spec => []TypeOK
<1>1. TypeOK /\ [Next]_vars => TypeOK'
  BY ArrivalTypes, RequestTypes, LifeTypes, ClientTypes, StutterTypes DEF Next
<1> QED
  BY InitTypes, <1>1, PTL DEF Spec

----------------------------------------------------------------------------
(* Clients.  There is at most one, its handle is in mqtt_client or with the *)
(* stop in progress, and it is only while there is none that the CA changes. *)

Gone == client = NoClient /\ \A h \in Handles : built[h] = NoConfig

ClientInv ==
  /\ ClientsOwnTheirCa
  /\ \A h \in Handles : task[h] # "none" => built[h] # NoConfig
  /\ life # "destroy" => doomed = NoClient
  /\ life \in {"destroy", "free", "recheck", "build"} => client = NoClient
  /\ life = "start" => /\ client \in Handles
                       /\ built[client] # NoConfig /\ task[client] = "none"

LEMMA ClientFrame ==
  ASSUME ClientInv, UNCHANGED <<lifecycle, clients, client>>
  PROVE  ClientInv'
BY DEF ClientInv, ClientsOwnTheirCa, lifecycle, clients

LEMMA OthersKeepClients ==
  ASSUME ClientInv,
         Surroundings \/ Arrivals \/ \E t \in Requesters : RequestStep(t)
  PROVE  ClientInv'
<1>1. UNCHANGED <<lifecycle, clients, client>>
  BY DEF Surroundings, Arrivals, RequestStep, LinkChanges, Publish,
         StatusArrives, ConfigArrives, SetConfig, PostConfig, SetEnabled,
         EnableUsing, SetNetFlag, StoreUsing, Decide, Request, Wake, instance
<1> QED
  BY <1>1, ClientFrame

LEMMA LifeKeepsClients == TypeOK /\ ClientInv /\ LifeStep => ClientInv'
<1> SUFFICES ASSUME TypeOK, ClientInv, LifeStep PROVE ClientInv'
  OBVIOUS
<1> USE ValueAssumption DEF ClientInv, ClientsOwnTheirCa
<1>1. CASE Dispatch
  BY <1>1 DEF Dispatch, clients
<1>2. CASE ServeNothing
  BY <1>2 DEF ServeNothing, clients, instance
<1>3. CASE ServeStop
  BY <1>3 DEF ServeStop, clients, instance
<1>4. CASE ServeStart
  BY <1>4 DEF ServeStart, clients
<1>5. CASE Detach
  BY <1>5 DEF Detach, clients
<1>6. CASE Destroy
  BY <1>6 DEF Destroy, instance, TypeOK, TypeClients
<1>7. CASE Free
  BY <1>7 DEF Free, clients, instance, TypeOK, TypeLifecycle
<1>8. CASE Recheck
  BY <1>8 DEF Recheck, clients, instance
<1>9. CASE Build
  <2>1. PICK g \in Handles : /\ built[g] = NoConfig /\ client' = g
                            /\ built' = [built EXCEPT ![g] = stored]
    BY <1>9 DEF Build
  <2>2. \A h \in Handles : built[h] = NoConfig
    BY <1>9 DEF Build
  <2>3. \A h \in Handles : built'[h] # NoConfig => h = g /\ built'[h] = stored
    BY <2>1, <2>2 DEF TypeOK, TypeClients
  <2> QED
    BY <1>9, <2>1, <2>2, <2>3 DEF Build, TypeOK, TypeClients, TypeSettings
<1>10. CASE BuildNothing
  BY <1>10 DEF BuildNothing, clients, instance
<1>11. CASE BuildFails
  BY <1>11 DEF BuildFails, clients, instance
<1>12. CASE Start
  BY <1>12 DEF Start, instance, TypeOK, TypeClients
<1>13. CASE StartFails
  BY <1>13 DEF StartFails, clients, instance
<1>14. CASE Connected
  BY <1>14 DEF Connected, instance
<1> QED
  BY <1>1, <1>2, <1>3, <1>4, <1>5, <1>6, <1>7, <1>8, <1>9, <1>10, <1>11, <1>12,
     <1>13, <1>14 DEF LifeStep

LEMMA TasksKeepClients ==
  ASSUME TypeOK, ClientInv, NEW h \in Handles, ClientStep(h)
  PROVE  ClientInv'
<1>1. /\ task[h] # "none" /\ UNCHANGED <<lifecycle, built, client>>
      /\ \A g \in Handles : g # h => task'[g] = task[g]
  BY DEF ClientStep, ClientConnects, ClientReports, ClientWakes,
         ClientDisconnects, instance, TypeOK, TypeClients
<1> QED
  BY <1>1 DEF ClientInv, ClientsOwnTheirCa, lifecycle

LEMMA ClientsCorrect == Spec => []ClientInv
<1>1. Init => ClientInv
  BY ValueAssumption DEF Init, ClientInv, ClientsOwnTheirCa
<1>2. TypeOK /\ ClientInv /\ [Next]_vars => ClientInv'
  <2>1. ClientInv /\ UNCHANGED vars => ClientInv'
    BY ClientFrame DEF vars, instance
  <2> QED
    BY <2>1, OthersKeepClients, LifeKeepsClients, TasksKeepClients DEF Next
<1> QED
  BY <1>1, <1>2, TypeCorrect, PTL DEF Spec

\* No client is ever lost by mqtt_instance_stop, and none outlives the CA it
\* points to, whatever fails while it is built.
THEOREM CaOutlivesClients == Spec => []ClientsOwnTheirCa
<1>1. ClientInv => ClientsOwnTheirCa
  BY DEF ClientInv
<1> QED
  BY <1>1, ClientsCorrect, PTL

----------------------------------------------------------------------------
(* The last STOP.  It is in the mailbox, or the lifecycle task is serving   *)
(* it, or there is no client and nothing that could make one.              *)

StopInv ==
  lastStop /\ mailbox.lifecycle # "STOP" =>
    /\ mailbox.lifecycle = "none"
    /\ \/ life = "lifecycle" /\ job.lifecycle = "STOP"
       \/ life \in {"detach", "destroy", "free"} /\ then = "connected"
       \/ /\ life \in {"idle", "lifecycle", "connected"} /\ Gone
          /\ life = "lifecycle" => job.lifecycle = "none"

LEMMA StopFrame ==
  ASSUME StopInv,
         UNCHANGED <<lifecycle, built, client, lastStop, mailbox.lifecycle>>
  PROVE  StopInv'
BY DEF StopInv, Gone, lifecycle

LEMMA RequestKeepsStop ==
  ASSUME TypeOK, StopInv, NEW t \in Requesters, RequestStep(t)
  PROVE  StopInv'
<1>1. CASE Request(t)
  <2>1. /\ lastStop' = (event[t] = "STOP")
        /\ mailbox'.lifecycle = Merge(mailbox.lifecycle, event[t])
    BY <1>1 DEF Request, TypeOK, TypeInstance, Boxes
  <2> QED
    BY <2>1 DEF StopInv, Merge
<1>2. CASE StoreUsing(t) \/ Decide(t) \/ Wake(t)
  <2>1. UNCHANGED <<lifecycle, built, client, lastStop, mailbox.lifecycle>>
    BY <1>2 DEF StoreUsing, Decide, Wake, clients, instance
  <2> QED
    BY <2>1, StopFrame
<1> QED
  BY <1>1, <1>2 DEF RequestStep

LEMMA LifeKeepsStop == TypeOK /\ ClientInv /\ StopInv /\ LifeStep => StopInv'
<1> SUFFICES ASSUME TypeOK, ClientInv, StopInv, LifeStep PROVE StopInv'
  OBVIOUS
<1> USE DEF StopInv, Gone
<1>1. CASE Dispatch
  BY <1>1, EmptyTypes DEF Dispatch, clients
<1>2. CASE ServeNothing
  BY <1>2 DEF ServeNothing, clients, instance
<1>3. CASE ServeStop
  BY <1>3 DEF ServeStop, clients, instance
<1>4. CASE ServeStart
  BY <1>4, AdvanceTypes DEF ServeStart, TypeOK, TypeInstance
<1>5. CASE Detach
  BY <1>5, AdvanceTypes DEF Detach, TypeOK, TypeInstance
<1>6. CASE Destroy
  BY <1>6 DEF Destroy, instance
<1>7. CASE Free
  <2>1. Gone
    BY <1>7, ValueAssumption DEF Free, ClientInv, ClientsOwnTheirCa
  <2> QED
    BY <1>7, <2>1 DEF Free, clients, instance
<1>8. CASE Recheck
  BY <1>8 DEF Recheck, instance
<1>9. CASE Build
  BY <1>9 DEF Build
<1>10. CASE BuildNothing
  BY <1>10 DEF BuildNothing, instance
<1>11. CASE BuildFails
  BY <1>11 DEF BuildFails, instance
<1>12. CASE Start
  BY <1>12 DEF Start, instance
<1>13. CASE StartFails
  BY <1>13 DEF StartFails, instance
<1>14. CASE Connected
  BY <1>14 DEF Connected, instance
<1> QED
  BY <1>1, <1>2, <1>3, <1>4, <1>5, <1>6, <1>7, <1>8, <1>9, <1>10, <1>11, <1>12,
     <1>13, <1>14 DEF LifeStep

LEMMA TasksKeepStop ==
  ASSUME TypeOK, StopInv, NEW h \in Handles, ClientStep(h)
  PROVE  StopInv'
<1>1. UNCHANGED <<lifecycle, built, client, lastStop, mailbox.lifecycle>>
  BY DEF ClientStep, ClientConnects, ClientReports, ClientWakes,
         ClientDisconnects, instance, TypeOK, TypeInstance, Boxes
<1> QED
  BY <1>1, StopFrame

\* A STOP that is the last request is obeyed, whatever mqtt_instance_request
\* merged it with: once it is served no client is left.
THEOREM LastStopIsObeyed == Spec => []StopIsObeyed
<1>1. Init => StopInv
  BY DEF Init, StopInv
<1>2. TypeOK /\ ClientInv /\ StopInv /\ [Next]_vars => StopInv'
  <2> SUFFICES ASSUME TypeOK, ClientInv, StopInv, [Next]_vars PROVE StopInv'
    OBVIOUS
  <2>1. CASE Surroundings \/ Arrivals
    <3>1. UNCHANGED <<lifecycle, built, client, lastStop, mailbox.lifecycle>>
      BY <2>1 DEF Surroundings, Arrivals, LinkChanges, Publish, StatusArrives,
         ConfigArrives, SetConfig, PostConfig, SetEnabled, EnableUsing,
         SetNetFlag, clients, instance
    <3> QED
      BY <3>1, StopFrame
  <2>2. CASE UNCHANGED vars
    BY <2>2, StopFrame DEF vars, clients, instance
  <2> QED
    BY <2>1, <2>2, RequestKeepsStop, LifeKeepsStop, TasksKeepStop DEF Next
<1>3. StopInv => StopIsObeyed
  BY DEF StopInv, StopIsObeyed, Gone
<1> QED
  BY <1>1, <1>2, <1>3, TypeCorrect, ClientsCorrect, PTL DEF Spec

----------------------------------------------------------------------------
(* Wakes.                                                                  *)

LEMMA PostWakes ==
  ASSUME NEW n \in Nat, n > 0, queue \in 0..QueueSize, Post(n)
  PROVE  queue' > 0
BY BoundAssumption DEF Post

LEMMA PostKeeps ==
  ASSUME NEW n \in Nat, queue \in 0..QueueSize, Post(n), queue > 0
  PROVE  queue' > 0
BY BoundAssumption DEF Post

LEMMA WakeFrame ==
  ASSUME PendingIsWoken, UNCHANGED <<mailbox, queue, pc, task>>
  PROVE  PendingIsWoken'
BY DEF PendingIsWoken

LEMMA OthersKeepWakes ==
  ASSUME TypeOK, PendingIsWoken,
         Surroundings \/ Arrivals \/ \E t \in Requesters : RequestStep(t)
  PROVE  PendingIsWoken'
<1> USE DEF PendingIsWoken, Goto, ReadEnabled, clients, instance, TypeOK,
            TypeRequests
<1>1. CASE LinkChanges \/ SetConfig \/ PostConfig \/ SetEnabled
  BY <1>1 DEF LinkChanges, SetConfig, PostConfig, SetEnabled, requests
<1>2. CASE Publish
  BY <1>2, PostKeeps DEF Publish, requests
<1>3. CASE StatusArrives \/ ConfigArrives \/ EnableUsing \/ SetNetFlag
  BY <1>3 DEF StatusArrives, ConfigArrives, EnableUsing, SetNetFlag
<1>4. ASSUME NEW t \in Requesters, StoreUsing(t) \/ Decide(t)
      PROVE  PendingIsWoken'
  BY <1>4 DEF StoreUsing, Decide
<1>5. ASSUME NEW t \in Requesters, Request(t)
      PROVE  PendingIsWoken'
  BY <1>5 DEF Request
<1>6. ASSUME NEW t \in Requesters, Wake(t)
      PROVE  PendingIsWoken'
  BY <1>6, PostWakes DEF Wake
<1> QED
  BY <1>1, <1>2, <1>3, <1>4, <1>5, <1>6 DEF Surroundings, Arrivals, RequestStep

LEMMA LifeKeepsWakes ==
  ASSUME TypeOK, ClientInv, PendingIsWoken, LifeStep
  PROVE  PendingIsWoken'
<1> USE DEF PendingIsWoken, requests, clients, instance
<1>1. CASE Dispatch
  BY <1>1, EmptyTypes DEF Dispatch
<1>2. CASE ServeStart
  BY <1>2, AdvanceTypes DEF ServeStart, TypeOK, TypeInstance
<1>3. CASE Detach
  BY <1>3, AdvanceTypes DEF Detach, TypeOK, TypeInstance
<1>4. CASE Destroy
  BY <1>4, ValueAssumption DEF Destroy, TypeOK, TypeClients
<1>5. CASE Build
  BY <1>5 DEF Build
<1>6. CASE Start
  BY <1>6 DEF Start, ClientInv, TypeOK, TypeClients
<1>7. CASE Connected
  BY <1>7, PostKeeps, BoundAssumption DEF Connected, TypeOK
<1>8. CASE ServeNothing \/ ServeStop \/ Free \/ Recheck \/ BuildNothing
           \/ BuildFails \/ StartFails
  BY <1>8 DEF ServeNothing, ServeStop, Free, Recheck, BuildNothing, BuildFails,
              StartFails
<1> QED
  BY <1>1, <1>2, <1>3, <1>4, <1>5, <1>6, <1>7, <1>8 DEF LifeStep

LEMMA TasksKeepWakes ==
  ASSUME TypeOK, PendingIsWoken, NEW h \in Handles, ClientStep(h)
  PROVE  PendingIsWoken'
<1> USE DEF PendingIsWoken, requests, instance, TypeOK, TypeClients
<1>1. CASE ClientConnects(h)
  BY <1>1 DEF ClientConnects
<1>2. CASE ClientReports(h)
  BY <1>2 DEF ClientReports
<1>3. CASE ClientWakes(h)
  BY <1>3, PostWakes DEF ClientWakes
<1>4. CASE ClientDisconnects(h)
  BY <1>4 DEF ClientDisconnects
<1> QED
  BY <1>1, <1>2, <1>3, <1>4 DEF ClientStep

\* mqtt_control_wake may drop its event, and still no request or report stays
\* in the mailbox without an event that makes the lifecycle task look at it.
THEOREM NoRequestSleeps == Spec => []PendingIsWoken
<1>1. Init => PendingIsWoken
  BY EmptyTypes DEF Init, PendingIsWoken
<1>2. TypeOK /\ ClientInv /\ PendingIsWoken /\ [Next]_vars => PendingIsWoken'
  <2>1. PendingIsWoken /\ UNCHANGED vars => PendingIsWoken'
    BY WakeFrame DEF vars, requests, clients, instance
  <2> QED
    BY <2>1, OthersKeepWakes, LifeKeepsWakes, TasksKeepWakes DEF Next
<1> QED
  BY <1>1, <1>2, TypeCorrect, ClientsCorrect, PTL DEF Spec

----------------------------------------------------------------------------
(* Sessions.  A client that has told of its connection and has no           *)
(* subscriptions yet is still the current one and connected, and its report *)
(* is in the mailbox or the lifecycle task is on its way to it: only a stop  *)
(* of that same client makes a report obsolete.                             *)

ReportOf(h) == [client |-> h, current |-> TRUE]

SessionInv ==
  \A h \in Handles :
    h = client /\ life # "detach" /\ InSession(h) =>
      /\ flag
      /\ task[h] # "report" /\ ~subscribed =>
           \/ mailbox.connected = ReportOf(h)
           \/ /\ life \in {"lifecycle", "connected"}
              /\ job.connected = ReportOf(h)

LEMMA OnlyTheClientRuns ==
  ASSUME ClientInv, NEW h \in Handles, task[h] # "none", client # NoClient
  PROVE  h = client
BY ValueAssumption DEF ClientInv, ClientsOwnTheirCa

LEMMA OthersKeepSessions ==
  ASSUME TypeOK, SessionInv,
         Surroundings \/ Arrivals \/ \E t \in Requesters : RequestStep(t)
  PROVE  SessionInv'
<1>1. UNCHANGED <<lifecycle, clients, client, flag, mailbox.connected>>
  BY DEF Surroundings, Arrivals, RequestStep, LinkChanges, Publish,
         StatusArrives, ConfigArrives, SetConfig, PostConfig, SetEnabled,
         EnableUsing, SetNetFlag, StoreUsing, Decide, Request, Wake, instance,
         TypeOK, TypeInstance, Boxes
<1> QED
  BY <1>1 DEF SessionInv, InSession, lifecycle, clients

LEMMA LifeKeepsSessions ==
  ASSUME TypeOK, ClientInv, SessionInv, LifeStep
  PROVE  SessionInv'
<1> USE ValueAssumption DEF SessionInv, InSession
<1>1. CASE Dispatch
  BY <1>1 DEF Dispatch, clients
<1>2. CASE ServeNothing
  BY <1>2 DEF ServeNothing, clients, instance
<1>3. CASE ServeStop \/ ServeStart \/ BuildFails \/ StartFails
  BY <1>3 DEF ServeStop, ServeStart, BuildFails, StartFails
<1>4. CASE Detach
  BY <1>4 DEF Detach
<1>5. CASE Destroy \/ Free \/ Recheck
  <2>1. client' = NoClient
    BY <1>5 DEF Destroy, Free, Recheck, ClientInv, instance
  <2> QED
    BY <2>1
<1>6. CASE Build
  <2>1. \A h \in Handles : task'[h] = "none"
    BY <1>6 DEF Build, ClientInv, ClientsOwnTheirCa
  <2> QED
    BY <2>1
<1>7. CASE BuildNothing
  BY <1>7 DEF BuildNothing, clients, instance, ClientInv
<1>8. CASE Start
  <2>1. client' = client /\ task'[client] = "down"
    BY <1>8 DEF Start, ClientInv, TypeOK, TypeClients, instance
  <2> QED
    BY <2>1
<1>9. CASE Connected
  <2> SUFFICES ASSUME NEW h \in Handles, h = client, InSession(h)
               PROVE  /\ flag
                      /\ task[h] # "report" /\ ~subscribed' =>
                           mailbox.connected = ReportOf(h)
    BY <1>9 DEF Connected, instance
  <2>1. /\ flag
        /\ task[h] # "report" /\ ~subscribed =>
             \/ mailbox.connected = ReportOf(h)
             \/ job.connected = ReportOf(h)
    BY <1>9 DEF Connected
  <2>2. CASE job.connected = ReportOf(h)
    <3>1. Acceptable(job.connected)
      BY <2>1, <2>2 DEF Acceptable, ReportOf
    <3> QED
      BY <1>9, <2>1, <3>1 DEF Connected
  <2>3. CASE job.connected # ReportOf(h)
    <3>1. subscribed => subscribed'
      BY <1>9, Zenon DEF Connected
    <3> QED
      BY <2>1, <2>3, <3>1
  <2> QED
    BY <2>2, <2>3
<1> QED
  BY <1>1, <1>2, <1>3, <1>4, <1>5, <1>6, <1>7, <1>8, <1>9 DEF LifeStep

LEMMA TasksKeepSessions ==
  ASSUME TypeOK, ClientInv, SessionInv, NEW g \in Handles, ClientStep(g)
  PROVE  SessionInv'
<1> SUFFICES ASSUME NEW h \in Handles, h = client, life # "detach",
                    InSession(h)'
             PROVE  /\ flag'
                    /\ task'[h] # "report" /\ ~subscribed' =>
                         \/ mailbox'.connected = ReportOf(h)
                         \/ /\ life \in {"lifecycle", "connected"}
                            /\ job.connected = ReportOf(h)
  BY DEF SessionInv, ClientStep, ClientConnects, ClientReports, ClientWakes,
         ClientDisconnects, lifecycle, instance
<1>1. g = h
  <2>1. task[g] # "none"
    BY DEF ClientStep, ClientConnects, ClientReports, ClientWakes,
           ClientDisconnects
  <2> QED
    BY <2>1, OnlyTheClientRuns, ValueAssumption
<1> USE <1>1 DEF InSession, TypeOK, TypeClients
<1>2. CASE ClientConnects(g)
  BY <1>2 DEF ClientConnects
<1>3. CASE ClientReports(g)
  <2>1. flag /\ mailbox'.connected = ReportOf(h)
    BY <1>3 DEF ClientReports, SessionInv, ReportOf, TypeInstance, Boxes
  <2> QED
    BY <1>3, <2>1 DEF ClientReports
<1>4. CASE ClientWakes(g)
  BY <1>4 DEF ClientWakes, SessionInv, instance
<1>5. CASE ClientDisconnects(g)
  BY <1>5 DEF ClientDisconnects
<1> QED
  BY <1>2, <1>3, <1>4, <1>5 DEF ClientStep

\* A session that is up gets its subscriptions: mqtt_connected_interface never
\* takes its CONNECTED report for that of an older client, and the report is
\* never lost, whatever stops, restarts and full queues it meets.
THEOREM SessionsGetSubscribed == Spec => []SessionIsSubscribed
<1>1. Init => SessionInv
  BY DEF Init, SessionInv, InSession
<1>2. TypeOK /\ ClientInv /\ SessionInv /\ [Next]_vars => SessionInv'
  <2>1. SessionInv /\ UNCHANGED vars => SessionInv'
    BY DEF SessionInv, InSession, vars, lifecycle, clients, instance
  <2> QED
    BY <2>1, OthersKeepSessions, LifeKeepsSessions, TasksKeepSessions DEF Next
<1>3. TypeOK /\ ClientInv /\ PendingIsWoken /\ SessionInv => SessionIsSubscribed
  <2> SUFFICES ASSUME TypeOK, ClientInv, PendingIsWoken, SessionInv, Quiet,
                      NEW h \in Handles, task[h] = "up"
               PROVE  subscribed
    BY DEF SessionIsSubscribed
  <2>1. h = client
    BY ValueAssumption DEF ClientInv, ClientsOwnTheirCa, Quiet
  <2>2. mailbox.connected # ReportOf(h)
    BY ValueAssumption DEF PendingIsWoken, Quiet, ReportOf
  <2> QED
    BY <2>1, <2>2 DEF SessionInv, InSession, Quiet
<1> QED
  BY <1>1, <1>2, <1>3, TypeCorrect, ClientsCorrect, NoRequestSleeps, PTL
     DEF Spec
============================================================================
