------------------------- MODULE NativeSessionProofs -------------------------
(* Proofs about NativeSession, for every number of clients and entities. *)
EXTENDS NativeSession, SequenceTheorems, WellFoundedInduction, TLAPS

-----------------------------------------------------------------------------
(* What the operators do to the record of a client.                        *)

\* A record with a queue that fits.
Bounded == {cl \in Sessions : Len(cl.tx) <= TxCapacity}

\* The client is owed states.
Alive(cl) == cl.open /\ cl.subscribed /\ ~cl.closing /\ ~cl.remove

\* new is the record old as it is left by an operator that owes the peer no
\* fewer states.
Keeps(old, new) ==
  /\ new \in Bounded /\ new.open = old.open
  /\ Alive(new) => new.dirty = Entities \/ (Alive(old) /\ new.dirty = old.dirty)

LEMMA LeastOf ==
  ASSUME NEW S \in SUBSET Entities, S # {}
  PROVE  Least(S) \in S
<1>1. S \subseteq Nat
  BY SessionAssumptions DEF Entities
<1>2. PICK x \in S : \A y \in S : <<y, x>> \notin OpToRel(<, Nat)
  BY <1>1, NatLessThanWellFounded, WFMin
<1>3. \A y \in S : x <= y
  <2> SUFFICES ASSUME NEW y \in S, y < x PROVE FALSE
    BY <1>1
  <2> QED
    BY <1>1, <1>2 DEF OpToRel
<1> QED
  BY <1>3 DEF Least

LEMMA QueueTypes ==
  ASSUME NEW cl \in Sessions, NEW m \in Messages, NEW b \in BOOLEAN, Room(cl, b)
  PROVE  /\ Queue(cl, m) \in Bounded
         /\ Queue(cl, m) = [cl EXCEPT !.tx = Append(cl.tx, m)]
         /\ ~cl.remove /\ ~cl.closing
<1>1. /\ Append(cl.tx, m) \in Seq(Messages)
      /\ Len(Append(cl.tx, m)) = Len(cl.tx) + 1 /\ Len(cl.tx) \in Nat
  BY AppendProperties, LenProperties DEF Sessions
<1>2. Len(cl.tx) < TxCapacity /\ ~cl.remove /\ ~cl.closing
  BY <1>1, SessionAssumptions DEF Room
<1>3. /\ Queue(cl, m) \in Sessions
      /\ Queue(cl, m).tx = Append(cl.tx, m)
      /\ Queue(cl, m) = [cl EXCEPT !.tx = Append(cl.tx, m)]
  BY <1>1, Zenon DEF Queue, Sessions
<1>4. Len(Queue(cl, m).tx) <= TxCapacity
  <2>1. Len(Queue(cl, m).tx) = Len(cl.tx) + 1
    BY <1>1, <1>3, Zenon
  <2> QED
    BY <1>1, <1>2, <2>1, SessionAssumptions
<1> QED
  BY <1>2, <1>3, <1>4, Zenon DEF Bounded

LEMMA ControlTypes ==
  \A kind \in {"reply", "farewell", "noise", "ping", "done"} :
    Control(kind) \in Messages
BY DEF Control, Message, Messages

LEMMA ReplyKeeps ==
  ASSUME NEW cl \in Bounded, NEW kind \in {"reply", "farewell", "noise"}
  PROVE  Keeps(cl, Reply(cl, kind))
<1>1. CASE Room(cl, TRUE)
  <2>1. /\ Reply(cl, kind) \in Bounded
        /\ Reply(cl, kind) = [cl EXCEPT !.tx = Append(cl.tx, Control(kind))]
    BY <1>1, QueueTypes, ControlTypes DEF Reply, Bounded
  <2> QED
    BY <2>1, Zenon DEF Keeps, Bounded, Sessions, Alive
<1>2. CASE ~Room(cl, TRUE)
  BY <1>2, Zenon DEF Reply, Keeps, Bounded, Sessions, Alive
<1> QED
  BY <1>1, <1>2

LEMMA RejectKeeps ==
  ASSUME NEW cl \in Bounded
  PROVE  Keeps(cl, Reject(cl))
<1>1. CASE Room(cl, TRUE)
  <2> DEFINE q == Queue(cl, Control("farewell"))
  <2>1. q \in Bounded /\ q = [cl EXCEPT !.tx = Append(cl.tx, Control("farewell"))]
    BY <1>1, QueueTypes, ControlTypes DEF Bounded
  <2>2. Reject(cl) = [q EXCEPT !.closing = TRUE, !.phase = "failed"]
    BY <1>1 DEF Reject
  <2> HIDE DEF q
  <2> QED
    BY <2>1, <2>2, Zenon DEF Keeps, Bounded, Sessions, Alive
<1>2. CASE ~Room(cl, TRUE)
  BY <1>2, Zenon DEF Reject, Keeps, Bounded, Sessions, Alive
<1> QED
  BY <1>1, <1>2

LEMMA KeepsTransitive ==
  ASSUME NEW a, NEW b, NEW c, Keeps(a, b), Keeps(b, c)
  PROVE  Keeps(a, c)
BY Zenon DEF Keeps

LEMMA HandleFrameKeeps ==
  ASSUME NEW cl \in Bounded, NEW f
  PROVE  Keeps(cl, HandleFrame(cl, f))
<1> DEFINE heard   == [cl EXCEPT !.ping = FALSE]
           greeted == [heard EXCEPT !.hello = TRUE]
           bye     == Reply(heard, "farewell")
<1>1. /\ Keeps(cl, cl) /\ Keeps(cl, heard) /\ Keeps(cl, greeted)
      /\ Keeps(cl, [heard EXCEPT !.remove = TRUE])
      /\ Keeps(cl, [heard EXCEPT !.listing = TRUE, !.next = 0])
  <2>1. 0 \in 0 .. NumEntities
    BY SessionAssumptions
  <2> QED
    BY <2>1, Zenon DEF Keeps, Bounded, Sessions, Alive
<1>2. Keeps(cl, [heard EXCEPT !.subscribed = TRUE, !.dirty = Entities])
  BY Zenon DEF Keeps, Bounded, Sessions, Alive
<1>3. heard \in Bounded /\ greeted \in Bounded
  BY <1>1, Zenon DEF Keeps
<1> HIDE DEF heard, greeted
<1>4. /\ Keeps(cl, Reply(heard, "reply")) /\ Keeps(cl, Reply(greeted, "reply"))
      /\ Keeps(cl, bye)
  BY <1>1, <1>3, ReplyKeeps, KeepsTransitive
<1> HIDE DEF bye
<1>5. Keeps(cl, [bye EXCEPT !.closing = ~bye.remove])
  <2>1. bye \in Bounded /\ bye.remove \in BOOLEAN
    BY <1>4, Zenon DEF Keeps, Bounded, Sessions
  <2>2. CASE bye.remove
    BY <2>1, <2>2, <1>4, Zenon DEF Keeps, Bounded, Sessions, Alive
  <2>3. CASE ~bye.remove
    BY <2>1, <2>3, <1>4, Zenon DEF Keeps, Bounded, Sessions, Alive
  <2> QED
    BY <2>2, <2>3
<1>6. \/ HandleFrame(cl, f) \in {cl, heard}
      \/ HandleFrame(cl, f) = Reply(greeted, "reply")
      \/ HandleFrame(cl, f) = Reply(heard, "reply")
      \/ HandleFrame(cl, f) = [bye EXCEPT !.closing = ~bye.remove]
      \/ HandleFrame(cl, f) = [heard EXCEPT !.remove = TRUE]
      \/ HandleFrame(cl, f) = [heard EXCEPT !.listing = TRUE, !.next = 0]
      \/ HandleFrame(cl, f) = [heard EXCEPT !.subscribed = TRUE, !.dirty = Entities]
  BY SMT DEF HandleFrame, heard, greeted, bye
<1> QED
  BY <1>1, <1>2, <1>4, <1>5, <1>6, Zenon

LEMMA HandleNoiseKeeps ==
  ASSUME NEW cl \in Bounded, NEW f
  PROVE  Keeps(cl, HandleNoise(cl, f))
<1> DEFINE heard == [cl EXCEPT !.ping = FALSE]
           r     == Reply(heard, "noise")
<1>1. /\ Keeps(cl, cl) /\ Keeps(cl, heard)
      /\ Keeps(cl, [heard EXCEPT !.remove = TRUE, !.phase = "failed"])
  BY Zenon DEF Keeps, Bounded, Sessions, Alive
<1>2. heard \in Bounded
  BY <1>1, Zenon DEF Keeps
<1> HIDE DEF heard
<1>3. /\ Keeps(cl, r) /\ Keeps(cl, Reject(heard))
      /\ Keeps(cl, HandleFrame(heard, f))
  BY <1>1, <1>2, ReplyKeeps, RejectKeeps, HandleFrameKeeps, KeepsTransitive
<1> HIDE DEF r
<1>4. /\ Keeps(cl, [r EXCEPT !.phase = "handshake"])
      /\ Keeps(cl, [r EXCEPT !.phase = "data"])
  BY <1>3, Zenon DEF Keeps, Bounded, Sessions, Alive
<1>5. \/ HandleNoise(cl, f) \in {cl, heard, Reject(heard), HandleFrame(heard, f)}
      \/ HandleNoise(cl, f) = [r EXCEPT !.phase = "handshake"]
      \/ HandleNoise(cl, f) = [r EXCEPT !.phase = "data"]
      \/ HandleNoise(cl, f) = [heard EXCEPT !.remove = TRUE, !.phase = "failed"]
  BY SMT DEF HandleNoise, heard, r
<1> QED
  BY <1>1, <1>3, <1>4, <1>5, Zenon

LEMMA HandleKeeps ==
  ASSUME NEW cl \in Bounded, NEW f
  PROVE  Keeps(cl, Handle(cl, f))
<1>1. Keeps(cl, [cl EXCEPT !.remove = TRUE]) /\ Keeps(cl, cl)
  BY Zenon DEF Keeps, Bounded, Sessions, Alive
<1>2. Keeps(cl, HandleBad(cl))
  BY <1>1, RejectKeeps, Zenon DEF HandleBad
<1> QED
  BY <1>1, <1>2, HandleNoiseKeeps, HandleFrameKeeps, Zenon DEF Handle

\* What flush_client leaves and what it writes, for a queue and a network that
\* keep to their capacities.
LEMMA FlushKeeps ==
  ASSUME NEW c \in Clients, NEW cl \in Bounded,
         net \in [Clients -> Seq(Messages)],
         \A d \in Clients : Len(net[d]) <= NetCapacity
  PROVE  /\ Keeps(cl, Flush(cl, c))
         /\ Flushed(cl, c) \in [Clients -> Seq(Messages)]
         /\ \A d \in Clients : Len(Flushed(cl, c)[d]) <= NetCapacity
<1> DEFINE n    == Writable(cl, c)
           rest == SubSeq(cl.tx, n + 1, Len(cl.tx))
           sent == SubSeq(cl.tx, 1, n)
<1>1. /\ cl.tx \in Seq(Messages) /\ Len(cl.tx) \in Nat /\ Len(cl.tx) <= TxCapacity
      /\ net[c] \in Seq(Messages) /\ Len(net[c]) \in Nat
      /\ Len(net[c]) <= NetCapacity
  BY LenProperties DEF Bounded, Sessions
<1>2. n \in 0 .. Len(cl.tx) /\ n <= NetCapacity - Len(net[c])
  BY <1>1, SessionAssumptions DEF Writable, MinOf
<1>3. \A i \in 1 .. Len(cl.tx) : cl.tx[i] \in Messages
  BY <1>1, ElementOfSeq
<1> HIDE DEF n
<1>4. rest \in Seq(Messages) /\ Len(rest) <= TxCapacity
  <2>1. \A i \in n + 1 .. Len(cl.tx) : cl.tx[i] \in Messages
    BY <1>1, <1>2, <1>3
  <2>2. rest \in Seq(Messages) /\ Len(rest) = IF n + 1 <= Len(cl.tx) THEN Len(cl.tx) - (n + 1) + 1 ELSE 0
    BY <1>1, <1>2, <2>1, SubSeqProperties
  <2> QED
    BY <1>1, <1>2, <2>2, SessionAssumptions
<1>5. sent \in Seq(Messages) /\ Len(sent) = n
  <2>1. \A i \in 1 .. n : cl.tx[i] \in Messages
    BY <1>1, <1>2, <1>3
  <2>2. sent \in Seq(Messages) /\ Len(sent) = IF 1 <= n THEN n - 1 + 1 ELSE 0
    BY <1>1, <1>2, <2>1, SubSeqProperties
  <2> QED
    BY <1>2, <2>2
<1>6. /\ net[c] \o sent \in Seq(Messages)
      /\ Len(net[c] \o sent) <= NetCapacity
  BY <1>1, <1>2, <1>5, ConcatProperties, SessionAssumptions
<1>7. /\ Flush(cl, c) = cl \/ Flush(cl, c) = [cl EXCEPT !.tx = rest, !.remove = cl.closing /\ rest = <<>>]
      /\ cl.remove => Flush(cl, c) = cl
  BY DEF Flush, n
<1>8. Flushed(cl, c) = net \/ Flushed(cl, c) = [net EXCEPT ![c] = net[c] \o sent]
  BY DEF Flushed, n
<1> HIDE DEF rest, sent
<1>9. Keeps(cl, Flush(cl, c))
  <2>1. CASE Flush(cl, c) = cl
    BY <2>1, Zenon DEF Keeps
  <2>2. CASE ~cl.remove /\ Flush(cl, c) = [cl EXCEPT !.tx = rest, !.remove = cl.closing /\ rest = <<>>]
    BY <2>2, <1>4, Zenon DEF Keeps, Bounded, Sessions, Alive
  <2> QED
    BY <2>1, <2>2, <1>7 DEF Bounded, Sessions
<1> QED
  BY <1>6, <1>8, <1>9
LEMMA MessageTypes ==
  ASSUME NEW e \in Entities
  PROVE  Message("entity", e) \in Messages /\ Message("state", e) \in Messages
BY DEF Message, Messages

LEMMA ProduceListingKeeps ==
  ASSUME NEW cl \in Bounded
  PROVE  Keeps(cl, ProduceListing(cl))
<1>0. cl.next \in 0 .. NumEntities /\ cl \in Sessions
  BY Zenon DEF Bounded, Sessions
<1>1. CASE ProduceListing(cl) = cl
  BY <1>1, Zenon DEF Keeps, Bounded
<1>2. CASE /\ Room(cl, FALSE) /\ cl.next < NumEntities
           /\ ProduceListing(cl) =
                [Queue(cl, Message("entity", cl.next)) EXCEPT !.next = @ + 1]
  <2> DEFINE m == Message("entity", cl.next)
             q == Queue(cl, m)
  <2>1. cl.next \in Entities /\ cl.next + 1 \in 0 .. NumEntities
    BY <1>0, <1>2, SessionAssumptions DEF Entities
  <2>2. q \in Bounded /\ q = [cl EXCEPT !.tx = Append(cl.tx, m)]
    BY <1>0, <1>2, <2>1, MessageTypes, QueueTypes
  <2>3. q.next = cl.next
    BY <1>0, <2>2, Zenon DEF Sessions
  <2>4. ProduceListing(cl) = [q EXCEPT !.next = cl.next + 1]
    BY <1>2, <2>3, Zenon
  <2> HIDE DEF q
  <2> QED
    BY <2>1, <2>2, <2>4, Zenon DEF Keeps, Bounded, Sessions, Alive
<1>3. CASE /\ Room(cl, FALSE)
           /\ ProduceListing(cl) = [Queue(cl, Control("done")) EXCEPT !.listing = FALSE]
  <2> DEFINE q == Queue(cl, Control("done"))
  <2>2. q \in Bounded /\ q = [cl EXCEPT !.tx = Append(cl.tx, Control("done"))]
    BY <1>0, <1>3, ControlTypes, QueueTypes
  <2>4. ProduceListing(cl) = [q EXCEPT !.listing = FALSE]
    BY <1>3
  <2> HIDE DEF q
  <2> QED
    BY <2>2, <2>4, Zenon DEF Keeps, Bounded, Sessions, Alive
<1> QED
  BY <1>1, <1>2, <1>3, Zenon DEF ProduceListing

LEMMA KeepAliveKeeps ==
  ASSUME NEW cl \in Bounded, NEW late \in BOOLEAN
  PROVE  Keeps(cl, KeepAlive(cl, late))
<1>1. Keeps(cl, cl) /\ Keeps(cl, [cl EXCEPT !.remove = TRUE])
  BY Zenon DEF Keeps, Bounded, Sessions, Alive
<1>2. CASE /\ Room(cl, TRUE)
           /\ KeepAlive(cl, late) = [Queue(cl, Control("ping")) EXCEPT !.ping = TRUE]
  <2> DEFINE q == Queue(cl, Control("ping"))
  <2>2. q \in Bounded /\ q = [cl EXCEPT !.tx = Append(cl.tx, Control("ping"))]
    BY <1>2, ControlTypes, QueueTypes DEF Bounded
  <2>4. KeepAlive(cl, late) = [q EXCEPT !.ping = TRUE]
    BY <1>2
  <2> HIDE DEF q
  <2> QED
    BY <2>2, <2>4, Zenon DEF Keeps, Bounded, Sessions, Alive
<1> QED
  BY <1>1, <1>2, Zenon DEF KeepAlive

\* The states a turn sends: the first dirty entity, or none.
Sent(cl) == IF SendsState(cl) THEN {Least(cl.dirty)} ELSE {}

\* new is the record old after a turn that sent these states.
Owes(old, states, new) ==
  /\ new \in Bounded /\ new.open = old.open
  /\ Alive(new) => \/ Entities \subseteq new.dirty \cup states
                   \/ Alive(old) /\ old.dirty \subseteq new.dirty \cup states

LEMMA ProduceStateOwes ==
  ASSUME NEW cl \in Bounded
  PROVE  Sent(cl) \subseteq Entities /\ Owes(cl, Sent(cl), ProduceState(cl))
<1>0. cl.dirty \subseteq Entities /\ cl \in Sessions
  BY Zenon DEF Bounded, Sessions
<1>1. CASE SendsState(cl)
  <2> DEFINE e == Least(cl.dirty)
             q == Queue(cl, Message("state", e))
  <2>1. e \in Entities
    BY <1>0, <1>1, LeastOf DEF SendsState
  <2>2. q \in Bounded /\ q = [cl EXCEPT !.tx = Append(cl.tx, Message("state", e))]
    BY <1>0, <1>1, <2>1, MessageTypes, QueueTypes DEF SendsState
  <2>3. q.dirty = cl.dirty
    BY <1>0, <2>2, Zenon DEF Sessions
  <2>4. ProduceState(cl) = [q EXCEPT !.dirty = cl.dirty \ {e}] /\ Sent(cl) = {e}
    BY <1>1, <2>3, Zenon DEF ProduceState, Sent
  <2> HIDE DEF q, e
  <2>5. /\ ProduceState(cl) \in Bounded /\ ProduceState(cl).open = cl.open
        /\ ProduceState(cl).dirty = cl.dirty \ {e}
        /\ Alive(ProduceState(cl)) => Alive(cl)
    <3>1. cl.dirty \ {e} \in SUBSET Entities
      BY <1>0
    <3> QED
      BY <1>0, <2>2, <2>4, <3>1, Zenon DEF Bounded, Sessions, Alive
  <2> QED
    BY <2>1, <2>4, <2>5, Zenon DEF Owes
<1>2. CASE ~SendsState(cl)
  BY <1>2, Zenon DEF ProduceState, Sent, Owes, Bounded
<1> QED
  BY <1>1, <1>2

LEMMA KeepsOwes ==
  ASSUME NEW a, NEW b, NEW c, NEW d, NEW S, Keeps(a, b), Owes(b, S, c), Keeps(c, d)
  PROVE  Owes(a, S, d)
BY Zenon DEF Keeps, Owes

-----------------------------------------------------------------------------
(* The types.                                                              *)

LEMMA FreeTypes == Free \in Bounded /\ ~Alive(Free)
<1>1. <<>> \in Seq(Messages) /\ Len(<<>>) <= TxCapacity /\ 0 \in 0 .. NumEntities
  BY SessionAssumptions
<1> QED
  BY <1>1, Zenon DEF Free, Bounded, Sessions, Alive

LEMMA AcceptedTypes ==
  ASSUME noise \in BOOLEAN
  PROVE  Accepted \in Bounded /\ ~Alive(Accepted)
BY FreeTypes, Zenon DEF Accepted, Bounded, Sessions, Alive, Free

\* The bound of the queues is part of the type of a record.
LEMMA TypeClients ==
  ASSUME NEW cls
  PROVE  cls \in [Clients -> Bounded] <=>
           /\ cls \in [Clients -> Sessions]
           /\ \A c \in Clients : Len(cls[c].tx) <= TxCapacity
BY DEF Bounded

Inboxes == [Clients -> Seq(Frames \cup {"pong", "fin"})]
Peers   == [Clients -> {"none", "polite", "rude", "mute", "gone"}]

LEMMA EmptyInbox == <<>> \in Seq(Frames \cup {"pong", "fin"}) /\ <<>> \in Seq(Messages)
OBVIOUS

LEMMA LeaveTypes ==
  ASSUME TypeOK, NEW cl \in Bounded, NEW states \in SUBSET Entities,
         Leave(cl, states)
  PROVE  /\ clients' \in [Clients -> Bounded]
         /\ inbox' \in Inboxes
         /\ peer' \in Peers
         /\ current' \in [Clients -> SUBSET Entities]
<1>1. clients \in [Clients -> Bounded]
  BY TypeClients DEF TypeOK
<1> QED
  BY <1>1, FreeTypes, EmptyInbox DEF TypeOK, Leave, Inboxes, Peers

\* What a chunk or a turn makes of the server's place in its loops.
LEMMA NextClientTypes ==
  ASSUME at \in Clients, NEW here, NEW then, NextClient(here, then)
  PROVE  at' \in Clients /\ pc' \in {here, then}
BY SessionAssumptions DEF NextClient, Clients

LEMMA InitTypes == Init => TypeOK
<1> SUFFICES ASSUME Init PROVE TypeOK
  OBVIOUS
<1>1. noise \in BOOLEAN /\ wasReady \in BOOLEAN
  BY SessionAssumptions, Zenon DEF Init
<1>2. clients \in [Clients -> Bounded]
  BY FreeTypes DEF Init
<1>3. inbox \in Inboxes /\ net \in [Clients -> Seq(Messages)]
      /\ \A c \in Clients : Len(net[c]) <= NetCapacity
  BY SessionAssumptions DEF Init, Inboxes
<1>4. 0 \in Clients /\ at \in Clients
  BY SessionAssumptions DEF Init, Clients
<1> QED
  BY <1>1, <1>2, <1>3, <1>4, TypeClients DEF Init, TypeOK, Inboxes

LEMMA CoreTypes ==
  ASSUME TypeOK, Tell \/ \E e \in Changing : Commit(e)
  PROVE  TypeOK'
<1> USE DEF TypeOK, world, counts
<1>1. CASE Tell
  BY <1>1 DEF Tell
<1>2. ASSUME NEW e \in Changing, Commit(e)
      PROVE  TypeOK'
  BY <1>2, SessionAssumptions DEF Commit, Outdate
<1> QED
  BY <1>1, <1>2

LEMMA DistributeTypes ==
  ASSUME TypeOK, Distribute
  PROVE  TypeOK'
<1>1. clients \in [Clients -> Bounded]
  BY TypeClients DEF TypeOK
<1>2. clients' \in [Clients -> Bounded]
  <2>1. ASSUME NEW c \in Clients
        PROVE  [clients[c] EXCEPT !.dirty = clients[c].dirty \cup dirty] \in Bounded
    <3>1. clients[c].dirty \cup dirty \in SUBSET Entities
      BY <1>1 DEF TypeOK, Bounded, Sessions
    <3> QED
      BY <1>1, <3>1, Zenon DEF Bounded, Sessions
  <2> QED
    BY <1>1, <2>1 DEF Distribute
<1>3. 0 \in Clients
  BY SessionAssumptions DEF Clients
<1> QED
  BY <1>2, <1>3, TypeClients DEF Distribute, TypeOK, world, counts

LEMMA ServiceTypes ==
  ASSUME TypeOK, NEW late \in BOOLEAN, Service(late)
  PROVE  TypeOK'
<1>1. clients[at] \in Bounded
  BY TypeClients DEF TypeOK
<1>2. PICK listing \in {ProduceListing(Flush(clients[at], at))} :
        \E cl \in {KeepAlive(ProduceState(listing), late)} :
          /\ Leave(cl, IF SendsState(listing)
                         THEN current[at] \cup {Least(listing.dirty)}
                         ELSE current[at])
          /\ net' = Flushed(clients[at], at)
  BY DEF Service
<1>3. PICK cl \in {KeepAlive(ProduceState(listing), late)} :
          /\ Leave(cl, current[at] \cup Sent(listing))
          /\ net' = Flushed(clients[at], at)
  BY <1>2 DEF Sent
<1>4. /\ Flush(clients[at], at) \in Bounded /\ listing \in Bounded
      /\ net' \in [Clients -> Seq(Messages)]
      /\ \A d \in Clients : Len(net'[d]) <= NetCapacity
  <2>1. at \in Clients /\ net \in [Clients -> Seq(Messages)]
        /\ \A d \in Clients : Len(net[d]) <= NetCapacity
    BY DEF TypeOK
  <2>2. /\ Flush(clients[at], at) \in Bounded
        /\ Flushed(clients[at], at) \in [Clients -> Seq(Messages)]
        /\ \A d \in Clients : Len(Flushed(clients[at], at)[d]) <= NetCapacity
    BY <1>1, <2>1, FlushKeeps DEF Keeps
  <2>3. ProduceListing(Flush(clients[at], at)) \in Bounded
    BY <2>2, ProduceListingKeeps DEF Keeps
  <2> QED
    BY <1>3, <2>2, <2>3
<1>5. cl \in Bounded /\ Sent(listing) \subseteq Entities
  BY <1>4, ProduceStateOwes, KeepAliveKeeps DEF Owes, Keeps
<1>6. /\ clients' \in [Clients -> Bounded] /\ inbox' \in Inboxes
      /\ peer' \in Peers /\ current' \in [Clients -> SUBSET Entities]
  BY <1>3, <1>5, LeaveTypes DEF TypeOK
<1>7. at' \in Clients /\ pc' \in {"service", "select"}
  BY NextClientTypes DEF Service, TypeOK
<1>8. UNCHANGED <<telling, dirty, noise, readable, wasReady, listed, counts>>
  BY DEF Service
<1> QED
  BY <1>4, <1>6, <1>7, <1>8, TypeClients DEF TypeOK, Inboxes, Peers, counts

LEMMA AcceptTypes ==
  ASSUME TypeOK, NEW n \in 0 .. MaxConnections, Accept(n)
  PROVE  TypeOK'
<1>1. clients' \in [Clients -> Bounded]
  BY TypeClients, AcceptedTypes DEF TypeOK, Accept
<1>2. /\ inbox' \in Inboxes /\ peer' \in Peers
      /\ current' \in [Clients -> SUBSET Entities]
      /\ listed' \in [Clients -> SUBSET Entities]
      /\ net' \in [Clients -> Seq(Messages)]
      /\ \A c \in Clients : Len(net'[c]) <= NetCapacity
  BY EmptyInbox, SessionAssumptions DEF TypeOK, Accept, Inboxes, Peers
<1>3. at' \in Clients /\ connections' \in Nat
  BY SessionAssumptions DEF TypeOK, Accept, Clients
<1> QED
  BY <1>1, <1>2, <1>3, TypeClients DEF Accept, TypeOK, Inboxes, Peers

LEMMA ReadFrameTypes ==
  ASSUME TypeOK, ReadFrame
  PROVE  TypeOK'
<1>1. clients' \in [Clients -> Bounded]
  BY TypeClients, HandleKeeps DEF TypeOK, ReadFrame, Keeps
<1>2. inbox' \in Inboxes
  BY HeadTailProperties DEF TypeOK, ReadFrame, Inboxes
<1>3. current' \in [Clients -> SUBSET Entities] /\ dirty' \subseteq Entities
  BY SessionAssumptions DEF TypeOK, ReadFrame, Outdate
<1>4. wasReady' \in BOOLEAN
  BY Zenon DEF TypeOK, ReadFrame
<1> QED
  BY <1>1, <1>2, <1>3, <1>4, TypeClients DEF ReadFrame, TypeOK, Inboxes, counts

LEMMA FinishTypes ==
  ASSUME TypeOK, FinishClient
  PROVE  TypeOK'
<1>1. clients[at] \in Bounded
  BY TypeClients DEF TypeOK
<1>2. Flush(clients[at], at) \in Bounded
      /\ net' \in [Clients -> Seq(Messages)]
      /\ \A d \in Clients : Len(net'[d]) <= NetCapacity
  BY <1>1, FlushKeeps DEF Keeps, TypeOK, FinishClient
<1>3. /\ clients' \in [Clients -> Bounded] /\ inbox' \in Inboxes
      /\ peer' \in Peers /\ current' \in [Clients -> SUBSET Entities]
  BY <1>2, LeaveTypes DEF TypeOK, FinishClient
<1>4. at' \in Clients /\ pc' \in {"read", "loop"}
  BY NextClientTypes DEF FinishClient, TypeOK
<1>5. wasReady' \in BOOLEAN
  BY Zenon DEF FinishClient
<1> QED
  BY <1>2, <1>3, <1>4, <1>5, TypeClients DEF FinishClient, TypeOK, Inboxes,
     Peers, counts

LEMMA EndTypes ==
  ASSUME TypeOK, SendFails \/ Restart
  PROVE  TypeOK'
<1>1. CASE SendFails
  <2>1. clients' \in [Clients -> Bounded]
    <3>1. clients \in [Clients -> Bounded]
      BY TypeClients DEF TypeOK
    <3>2. \A cl \in Bounded : [cl EXCEPT !.remove = TRUE] \in Bounded
      BY Zenon DEF Bounded, Sessions
    <3> QED
      BY <1>1, <3>1, <3>2 DEF SendFails, TypeOK
  <2> QED
    BY <1>1, <2>1, TypeClients DEF SendFails, TypeOK, world, counts
<1>2. CASE Restart
  <2>1. clients' \in [Clients -> Bounded]
    BY <1>2, FreeTypes DEF Restart
  <2>2. /\ inbox' \in Inboxes /\ peer' \in Peers
        /\ net' \in [Clients -> Seq(Messages)]
        /\ \A c \in Clients : Len(net'[c]) <= NetCapacity
    BY <1>2, EmptyInbox, SessionAssumptions DEF Restart, Inboxes, Peers
  <2>3. noise' \in BOOLEAN /\ wasReady' \in BOOLEAN
    BY <1>2, SessionAssumptions, Zenon DEF Restart, TypeOK
  <2>4. /\ UNCHANGED <<current, telling, pc, at, readable, listed, frames,
                       connections, commits>>
        /\ dirty' = {} /\ restarts' = restarts + 1
    BY <1>2 DEF Restart
  <2>5. /\ clients' \in [Clients -> Sessions]
        /\ \A c \in Clients : Len(clients'[c].tx) <= TxCapacity
    BY <2>1, TypeClients
  <2>6. dirty' \subseteq Entities /\ restarts' \in Nat
    BY <2>4 DEF TypeOK
  <2>7. UNCHANGED <<current, telling, pc, at, readable, listed, frames,
                    connections, commits>>
    BY <2>4
  <2> QED
    BY <2>2, <2>3, <2>5, <2>6, <2>7 DEF TypeOK, Inboxes, Peers
<1> QED
  BY <1>1, <1>2

LEMMA PeerTypes ==
  ASSUME TypeOK, NEW c \in Clients,
         \/ \E f \in Openings \cup Requests : PeerSends(c, f)
         \/ PeerShakesHands(c)
         \/ \E to \in {"gone", "mute"} : PeerTurns(c, to)
         \/ PeerReads(c)
  PROVE  TypeOK'
<1> USE DEF TypeOK, counts
<1>0. /\ \A q \in Seq(Frames \cup {"pong", "fin"}), f \in Frames \cup {"pong", "fin"} :
           Append(q, f) \in Seq(Frames \cup {"pong", "fin"})
      /\ <<"noise">> \in Seq(Frames \cup {"pong", "fin"})
  BY DEF Frames
<1>1. ASSUME NEW f \in Openings \cup Requests, PeerSends(c, f)
      PROVE  TypeOK'
  <2>1. f \in Frames
    BY SessionAssumptions
  <2> QED
    BY <1>0, <1>1, <2>1, SessionAssumptions DEF PeerSends
<1>2. CASE PeerShakesHands(c)
  BY <1>0, <1>2 DEF PeerShakesHands
<1>3. ASSUME NEW to \in {"gone", "mute"}, PeerTurns(c, to)
      PROVE  TypeOK'
  BY <1>0, <1>3 DEF PeerTurns
<1>4. CASE PeerReads(c)
  <2>1. net[c] \in Seq(Messages) /\ net[c] # <<>>
    BY <1>4 DEF PeerReads
  <2>2. /\ Head(net[c]) \in Messages /\ Tail(net[c]) \in Seq(Messages)
        /\ Len(Tail(net[c])) = Len(net[c]) - 1 /\ Len(net[c]) \in Nat
    BY <2>1, HeadTailProperties, LenProperties
  <2>3. /\ net' \in [Clients -> Seq(Messages)]
        /\ \A d \in Clients : Len(net'[d]) <= NetCapacity
    <3>1. net' = [net EXCEPT ![c] = Tail(net[c])]
      BY <1>4 DEF PeerReads
    <3>2. net \in [Clients -> Seq(Messages)]
      OBVIOUS
    <3>3. net' \in [Clients -> Seq(Messages)]
      BY <2>2, <3>1, <3>2, Zenon
    <3>4. Len(Tail(net[c])) <= NetCapacity
      <4>1. Len(net[c]) <= NetCapacity /\ NetCapacity \in Nat
        BY SessionAssumptions
      <4> QED
        BY <2>2, <4>1
    <3>5. \A d \in Clients : net'[d] = IF d = c THEN Tail(net[c]) ELSE net[d]
      BY <3>1, <3>2, Zenon
    <3>6. \A d \in Clients : Len(net[d]) <= NetCapacity
      OBVIOUS
    <3> QED
      BY <3>3, <3>4, <3>5, <3>6, Zenon
  <2>4. listed' \in [Clients -> SUBSET Entities]
    <3>1. Head(net[c]).kind = "entity" => Head(net[c]).entity \in Entities
      BY <2>2 DEF Messages
    <3> QED
      BY <1>4, <3>1 DEF PeerReads
  <2>5. inbox' \in Inboxes
    BY <1>0, <1>4 DEF PeerReads, Inboxes
  <2> QED
    BY <1>4, <2>3, <2>4, <2>5 DEF PeerReads, Inboxes
<1> QED
  BY <1>1, <1>2, <1>3, <1>4

\* The variables keep their types, the queues of the clients and the network
\* their capacities, whatever the peers send.
THEOREM TypeCorrect == Spec => []TypeOK
<1>1. TypeOK /\ [Next]_vars => TypeOK'
  <2>1. ASSUME TypeOK, UNCHANGED vars
        PROVE  TypeOK'
    BY <2>1 DEF TypeOK, vars
  <2> QED
    BY <2>1, CoreTypes, DistributeTypes, ServiceTypes, AcceptTypes,
       ReadFrameTypes, FinishTypes, EndTypes, PeerTypes DEF Next, Server
<1> QED
  BY <1>1, InitTypes, PTL DEF Spec

-----------------------------------------------------------------------------
(* States on their way.                                                    *)

\* The state of e is current at c or marked somewhere.
Marked(c, e) ==
  \/ e \in current[c]
  \/ e \in clients[c].dirty \/ e \in dirty \/ telling = e

\* A client that a step leaves owed states as Keeps and Owes say.
LEMMA LeaveStates ==
  ASSUME TypeOK, StatesAreCurrent, NEW cl, NEW S \in SUBSET Entities,
         Owes(clients[at], S, cl), Leave(cl, current[at] \cup S),
         dirty' = dirty, telling' = telling
  PROVE  StatesAreCurrent'
<1> SUFFICES ASSUME NEW c \in Clients, NEW e \in Entities, Subscribed(c)'
             PROVE  Marked(c, e)'
  BY DEF StatesAreCurrent, Marked
<1>1. CASE c # at
  BY <1>1 DEF StatesAreCurrent, Subscribed, Marked, Leave, TypeOK
<1>2. CASE c = at
  <2>1. clients'[c] = cl /\ ~cl.remove
    BY <1>2, FreeTypes DEF Leave, Subscribed, TypeOK, Alive
  <2>2. Alive(cl) /\ current'[c] = current[c] \cup S
    BY <1>2, <2>1 DEF Leave, Subscribed, TypeOK, Alive
  <2>3. CASE Entities \subseteq cl.dirty \cup S
    BY <2>1, <2>2, <2>3 DEF Marked
  <2>4. CASE Alive(clients[at]) /\ clients[at].dirty \subseteq cl.dirty \cup S
    <3>1. Marked(c, e)
      BY <1>2, <2>4 DEF StatesAreCurrent, Subscribed, Alive, Marked
    <3> QED
      BY <1>2, <2>1, <2>2, <2>4, <3>1 DEF Marked
  <2> QED
    BY <2>2, <2>3, <2>4 DEF Owes
<1> QED
  BY <1>1, <1>2

LEMMA ServiceStates ==
  ASSUME TypeOK, StatesAreCurrent, NEW late \in BOOLEAN, Service(late)
  PROVE  StatesAreCurrent'
<1>1. clients[at] \in Bounded /\ at \in Clients
  BY TypeClients DEF TypeOK
<1> DEFINE flushed == Flush(clients[at], at)
           listing == ProduceListing(flushed)
           cl      == KeepAlive(ProduceState(listing), late)
<1>2. Leave(cl, current[at] \cup Sent(listing)) /\ dirty' = dirty /\ telling' = telling
  BY DEF Service, Sent
<1>3. Keeps(clients[at], flushed) /\ flushed \in Bounded
  BY <1>1, FlushKeeps DEF Keeps, TypeOK
<1> HIDE DEF flushed
<1>4. Keeps(clients[at], listing) /\ listing \in Bounded
  BY <1>3, ProduceListingKeeps, KeepsTransitive DEF Keeps
<1> HIDE DEF listing
<1>5. /\ Owes(listing, Sent(listing), ProduceState(listing))
      /\ Sent(listing) \subseteq Entities /\ ProduceState(listing) \in Bounded
  BY <1>4, ProduceStateOwes DEF Owes
<1>6. Keeps(ProduceState(listing), cl)
  BY <1>5, KeepAliveKeeps
<1>7. Owes(clients[at], Sent(listing), cl)
  BY <1>4, <1>5, <1>6, KeepsOwes
<1> QED
  BY <1>2, <1>5, <1>7, LeaveStates

LEMMA FinishStates ==
  ASSUME TypeOK, StatesAreCurrent, FinishClient
  PROVE  StatesAreCurrent'
<1>1. clients[at] \in Bounded /\ at \in Clients
  BY TypeClients DEF TypeOK
<1> DEFINE cl == Flush(clients[at], at)
<1>2. Leave(cl, current[at] \cup {}) /\ dirty' = dirty /\ telling' = telling
  BY DEF FinishClient
<1>3. Keeps(clients[at], cl)
  BY <1>1, FlushKeeps DEF TypeOK
<1> HIDE DEF cl
<1>4. Owes(clients[at], {}, cl)
  BY <1>3, Zenon DEF Keeps, Owes
<1> QED
  BY <1>2, <1>4, LeaveStates

LEMMA CoreStates ==
  ASSUME TypeOK, StatesAreCurrent, Tell \/ Distribute \/ \E e \in Changing : Commit(e)
  PROVE  StatesAreCurrent'
<1> SUFFICES ASSUME NEW c \in Clients, NEW e \in Entities, Subscribed(c)'
             PROVE  Marked(c, e)'
  BY DEF StatesAreCurrent, Marked
<1>1. CASE Tell
  BY <1>1 DEF Tell, StatesAreCurrent, Subscribed, Marked
<1>2. ASSUME NEW f \in Changing, Commit(f)
      PROVE  Marked(c, e)'
  <2>1. telling # e
    BY <1>2 DEF Commit, NoEntity, Entities
  <2> QED
    BY <1>2, <2>1 DEF Commit, Outdate, StatesAreCurrent, Subscribed, Marked,
       TypeOK
<1>3. CASE Distribute
  <2>1. /\ clients'[c].subscribed = clients[c].subscribed
        /\ clients'[c].open = clients[c].open
        /\ clients'[c].remove = clients[c].remove
        /\ clients'[c].closing = clients[c].closing
        /\ clients[c].open /\ clients[c].subscribed /\ ~clients[c].closing =>
             clients'[c].dirty = clients[c].dirty \cup dirty
    BY <1>3 DEF Distribute, TypeOK, Sessions
  <2> QED
    BY <1>3, <2>1 DEF Distribute, StatesAreCurrent, Subscribed, Marked
<1> QED
  BY <1>1, <1>2, <1>3

LEMMA ReadFrameStates ==
  ASSUME TypeOK, StatesAreCurrent, ReadFrame
  PROVE  StatesAreCurrent'
<1> SUFFICES ASSUME NEW c \in Clients, NEW e \in Entities, Subscribed(c)'
             PROVE  Marked(c, e)'
  BY DEF StatesAreCurrent, Marked
<1>1. /\ telling' = telling /\ dirty \subseteq dirty'
      /\ e \in current[c] => e \in current'[c] \/ e \in dirty'
  BY DEF ReadFrame, Outdate, TypeOK
<1>2. CASE c # at
  BY <1>1, <1>2 DEF ReadFrame, StatesAreCurrent, Subscribed, Marked, TypeOK
<1>3. CASE c = at
  <2>1. Keeps(clients[c], clients'[c])
    BY <1>3, TypeClients, HandleKeeps DEF ReadFrame, TypeOK
  <2> QED
    BY <1>1, <1>3, <2>1 DEF Keeps, Alive, StatesAreCurrent, Subscribed, Marked
<1> QED
  BY <1>2, <1>3

LEMMA OtherStates ==
  ASSUME TypeOK, StatesAreCurrent,
         \/ \E n \in 0 .. MaxConnections : Accept(n)
         \/ SendFails \/ Restart
         \/ \E c \in Clients :
              \/ \E f \in Openings \cup Requests : PeerSends(c, f)
              \/ PeerShakesHands(c)
              \/ \E to \in {"gone", "mute"} : PeerTurns(c, to)
              \/ PeerReads(c)
  PROVE  StatesAreCurrent'
<1> SUFFICES ASSUME NEW c \in Clients, NEW e \in Entities, Subscribed(c)'
             PROVE  Marked(c, e)'
  BY DEF StatesAreCurrent, Marked
<1>1. ASSUME NEW n \in 0 .. MaxConnections, Accept(n)
      PROVE  Marked(c, e)'
  BY <1>1, AcceptedTypes DEF Accept, StatesAreCurrent, Subscribed, Marked,
     TypeOK, Alive
<1>2. CASE SendFails
  <2>1. clients[c] \in Sessions /\ at \in Clients
    BY DEF TypeOK
  <2>2. CASE c = at
    <3>1. clients'[c] = [clients[c] EXCEPT !.remove = TRUE]
      BY <1>2, <2>2 DEF SendFails, TypeOK
    <3>2. clients'[c].remove
      BY <2>1, <3>1, Zenon DEF Sessions
    <3> QED
      BY <3>2 DEF Subscribed
  <2>3. CASE c # at
    BY <1>2, <2>3 DEF SendFails, StatesAreCurrent, Subscribed, Marked, TypeOK,
       world
  <2> QED
    BY <2>2, <2>3
<1>3. CASE Restart
  BY <1>3, FreeTypes DEF Restart, Subscribed, Alive
<1>4. ASSUME UNCHANGED <<current, telling, dirty, clients>>
      PROVE  Marked(c, e)'
  BY <1>4 DEF StatesAreCurrent, Subscribed, Marked
<1> QED
  BY <1>1, <1>2, <1>3, <1>4 DEF PeerSends, PeerShakesHands, PeerTurns, PeerReads

\* Between a commit and the message that carries it no subscriber's state is
\* forgotten, for every number of clients, entities and transmit slots.
THEOREM StatesReachSubscribers == Spec => []StatesAreCurrent
<1>1. Init => StatesAreCurrent
  BY FreeTypes DEF Init, StatesAreCurrent, Subscribed, Alive
<1>2. TypeOK /\ StatesAreCurrent /\ [Next]_vars => StatesAreCurrent'
  <2>1. ASSUME StatesAreCurrent, UNCHANGED vars
        PROVE  StatesAreCurrent'
    BY <2>1 DEF StatesAreCurrent, Subscribed, vars
  <2> QED
    BY <2>1, CoreStates, ServiceStates, ReadFrameStates, FinishStates,
       OtherStates DEF Next, Server
<1> QED
  BY <1>1, <1>2, TypeCorrect, PTL DEF Spec


-----------------------------------------------------------------------------
(* Lists on their way.  The messages a peer has not read yet are those in   *)
(* the network and those in its queue, in this order.                       *)

\* No list ends between two places of a sequence of messages.
NoEnd(s, i, j) == \A k \in i .. j : s[k].kind # "done"

\* A peer that was sent the entities in L gets e with the first n messages of
\* s, and no end of a list after it.
Told(L, s, n, e) ==
  \/ e \in L /\ NoEnd(s, 1, n)
  \/ \E j \in 1 .. n : s[j] = Message("entity", e) /\ NoEnd(s, j, n)

\* Every list that ends in s is complete.
Complete(L, s) ==
  \A i \in 1 .. Len(s), e \in Entities :
    s[i].kind = "done" => Told(L, s, i - 1, e)

LEMMA ToldPrefix ==
  ASSUME NEW L, NEW s, NEW t, NEW n \in Nat, NEW e,
         \A k \in 1 .. n : s[k] = t[k], Told(L, s, n, e)
  PROVE  Told(L, t, n, e)
BY DEF Told, NoEnd

LEMMA CompletePrefix ==
  ASSUME NEW L, NEW s \in Seq(Messages), NEW t \in Seq(Messages),
         Len(t) <= Len(s), \A k \in 1 .. Len(t) : s[k] = t[k], Complete(L, s)
  PROVE  Complete(L, t)
<1> SUFFICES ASSUME NEW i \in 1 .. Len(t), NEW e \in Entities,
                    t[i].kind = "done"
             PROVE  Told(L, t, i - 1, e)
  BY DEF Complete
<1>1. Len(s) \in Nat /\ Len(t) \in Nat
  BY LenProperties
<1>2. i \in 1 .. Len(s) /\ s[i].kind = "done"
  BY <1>1
<1>3. Told(L, s, i - 1, e)
  BY <1>2 DEF Complete
<1>4. i - 1 \in Nat /\ \A k \in 1 .. i - 1 : s[k] = t[k]
  BY <1>1
<1> QED
  BY <1>3, <1>4, ToldPrefix

LEMMA CompleteAppend ==
  ASSUME NEW L, NEW s \in Seq(Messages), NEW m \in Messages, Complete(L, s),
         m.kind = "done" => \A e \in Entities : Told(L, s, Len(s), e)
  PROVE  Complete(L, Append(s, m))
<1> DEFINE t == Append(s, m)
<1>1. /\ t \in Seq(Messages) /\ Len(t) = Len(s) + 1 /\ Len(s) \in Nat
      /\ \A k \in 1 .. Len(s) : s[k] = t[k]
      /\ t[Len(s) + 1] = m
  BY AppendProperties, LenProperties
<1> HIDE DEF t
<1> SUFFICES ASSUME NEW i \in 1 .. Len(t), NEW e \in Entities,
                    t[i].kind = "done"
             PROVE  Told(L, t, i - 1, e)
  BY DEF Complete, t
<1>2. Told(L, s, i - 1, e)
  <2>1. CASE i <= Len(s)
    <3>1. i \in 1 .. Len(s) /\ s[i].kind = "done"
      BY <1>1, <2>1
    <3> QED
      BY <3>1 DEF Complete
  <2>2. CASE i = Len(s) + 1
    <3>1. m.kind = "done" /\ i - 1 = Len(s)
      BY <1>1, <2>2
    <3> QED
      BY <3>1
  <2> QED
    BY <1>1, <2>1, <2>2
<1>3. i - 1 \in Nat /\ \A k \in 1 .. i - 1 : s[k] = t[k]
  BY <1>1
<1> QED
  BY <1>2, <1>3, ToldPrefix

LEMMA ToldAppend ==
  ASSUME NEW L, NEW s \in Seq(Messages), NEW m \in Messages, NEW e,
         m.kind # "done",
         Told(L, s, Len(s), e) \/ m = Message("entity", e)
  PROVE  Told(L, Append(s, m), Len(Append(s, m)), e)
<1> DEFINE t == Append(s, m)
<1>1. /\ Len(t) = Len(s) + 1 /\ Len(s) \in Nat
      /\ \A k \in 1 .. Len(s) : t[k] = s[k]
      /\ t[Len(t)] = m
  BY AppendProperties, LenProperties
<1> HIDE DEF t
<1>2. \A i \in 1 .. Len(t) : NoEnd(s, i, Len(s)) => NoEnd(t, i, Len(t))
  BY <1>1 DEF NoEnd
<1>3. CASE m = Message("entity", e)
  <2>1. Len(t) \in 1 .. Len(t) /\ NoEnd(t, Len(t), Len(t))
    BY <1>1 DEF NoEnd
  <2> QED
    BY <1>1, <1>3, <2>1 DEF Told, t
<1>4. CASE e \in L /\ NoEnd(s, 1, Len(s))
  <2>1. 1 \in 1 .. Len(t)
    BY <1>1
  <2> QED
    BY <1>2, <1>4, <2>1 DEF Told, t
<1>5. ASSUME NEW j \in 1 .. Len(s), s[j] = Message("entity", e),
             NoEnd(s, j, Len(s))
      PROVE  Told(L, t, Len(t), e)
  <2>1. j \in 1 .. Len(t) /\ t[j] = Message("entity", e)
    BY <1>1, <1>5
  <2> QED
    BY <1>2, <1>5, <2>1 DEF Told
<1> QED
  BY <1>3, <1>4, <1>5 DEF Told, t

\* What a peer has been sent after it reads m.
After(L, m) == CASE m.kind = "entity" -> L \cup {m.entity}
                 [] m.kind = "done"   -> {}
                 [] OTHER             -> L

LEMMA ToldTail ==
  ASSUME NEW L, NEW s \in Seq(Messages), s # <<>>, NEW n \in 1 .. Len(s),
         NEW e \in Entities, Told(L, s, n, e)
  PROVE  Told(After(L, Head(s)), Tail(s), n - 1, e)
<1> DEFINE t == Tail(s)
           K == After(L, Head(s))
<1>1. /\ Head(s) \in Messages /\ Head(s) = s[1]
      /\ Len(t) = Len(s) - 1 /\ Len(s) \in Nat
      /\ \A k \in 1 .. Len(t) : t[k] = s[k + 1]
  BY HeadTailProperties, LenProperties
<1> HIDE DEF t
<1>2. \A i \in 1 .. n : NoEnd(s, i + 1, n) => NoEnd(t, i, n - 1)
  <2> SUFFICES ASSUME NEW i \in 1 .. n, NoEnd(s, i + 1, n), NEW k \in i .. n - 1
               PROVE  t[k].kind # "done"
    BY DEF NoEnd
  <2>1. t[k] = s[k + 1] /\ k + 1 \in i + 1 .. n
    BY <1>1
  <2> QED
    BY <2>1 DEF NoEnd
<1>3. CASE e \in K /\ NoEnd(s, 2, n)
  <2>1. NoEnd(t, 1, n - 1)
    BY <1>2, <1>3
  <2> QED
    BY <1>3, <2>1 DEF Told, t
<1>4. ASSUME NEW j \in 2 .. n, s[j] = Message("entity", e), NoEnd(s, j, n)
      PROVE  Told(K, t, n - 1, e)
  <2>1. j - 1 \in 1 .. n - 1 /\ j - 1 \in 1 .. n /\ (j - 1) + 1 = j
    OBVIOUS
  <2>2. t[j - 1] = Message("entity", e)
    BY <1>1, <1>4, <2>1
  <2>3. NoEnd(t, j - 1, n - 1)
    BY <1>2, <1>4, <2>1
  <2> HIDE DEF K
  <2> QED
    BY <2>1, <2>2, <2>3 DEF Told
<1>5. CASE e \in L /\ NoEnd(s, 1, n)
  <2>1. s[1].kind # "done" /\ NoEnd(s, 2, n)
    BY <1>5 DEF NoEnd
  <2> QED
    BY <1>1, <1>3, <1>5, <2>1 DEF After
<1>6. CASE s[1] = Message("entity", e) /\ NoEnd(s, 1, n)
  <2>1. e \in K /\ NoEnd(s, 2, n)
    BY <1>1, <1>6 DEF After, Message, NoEnd
  <2> QED
    BY <1>3, <2>1
<1> QED
  BY <1>4, <1>5, <1>6 DEF Told, t

LEMMA CompleteTail ==
  ASSUME NEW L, NEW s \in Seq(Messages), s # <<>>, Complete(L, s)
  PROVE  Complete(After(L, Head(s)), Tail(s))
<1> DEFINE t == Tail(s)
<1>1. /\ Len(t) = Len(s) - 1 /\ Len(s) \in Nat
      /\ \A k \in 1 .. Len(t) : t[k] = s[k + 1]
  BY HeadTailProperties, LenProperties
<1> HIDE DEF t
<1> SUFFICES ASSUME NEW i \in 1 .. Len(t), NEW e \in Entities,
                    t[i].kind = "done"
             PROVE  Told(After(L, Head(s)), t, i - 1, e)
  BY DEF Complete, t
<1>2. i + 1 \in 1 .. Len(s) /\ s[i + 1].kind = "done" /\ (i + 1) - 1 = i
  BY <1>1
<1>3. Told(L, s, i, e)
  BY <1>2 DEF Complete
<1>4. i \in 1 .. Len(s)
  BY <1>1
<1> QED
  BY <1>3, <1>4, ToldTail DEF t

\* What is on its way to a peer that was sent L: every list is complete, and of
\* one that is not over yet the peer gets all that comes before the next entity.
Listing(L, sent, cl) ==
  /\ Complete(L, sent \o cl.tx)
  /\ cl.listing => \A e \in Entities :
       e < cl.next => Told(L, sent \o cl.tx, Len(sent \o cl.tx), e)

\* A client that says goodbye has its farewell last in its queue.
Says(cl) ==
  cl.closing /\ ~cl.remove =>
    cl.tx # <<>> /\ cl.tx[Len(cl.tx)].kind = "farewell"

\* new is the record old as an operator leaves it that does not list: with at
\* most one message more, which is the farewell of a client that now closes.
Answers(old, new) ==
  /\ new \in Sessions
  /\ old.remove => new.remove
  /\ \/ new.tx = old.tx /\ (new.closing => old.closing)
     \/ /\ ~old.remove
        /\ \E m \in Messages : /\ m.kind # "done"
                               /\ new.tx = Append(old.tx, m)
                               /\ new.closing => m.kind = "farewell"
  /\ new.listing => new.next = 0 \/ (old.listing /\ new.next = old.next)

LEMMA ConcatAppend ==
  ASSUME NEW s \in Seq(Messages), NEW t \in Seq(Messages), NEW m \in Messages
  PROVE  /\ s \o Append(t, m) = Append(s \o t, m)
         /\ s \o t \in Seq(Messages)
<1> DEFINE l == s \o Append(t, m)
           r == Append(s \o t, m)
<1>1. /\ Len(s) \in Nat /\ Len(t) \in Nat /\ Append(t, m) \in Seq(Messages)
      /\ Len(Append(t, m)) = Len(t) + 1
      /\ \A i \in 1 .. Len(t) : Append(t, m)[i] = t[i]
      /\ Append(t, m)[Len(t) + 1] = m
  BY LenProperties, AppendProperties
<1>2. /\ s \o t \in Seq(Messages) /\ Len(s \o t) = Len(s) + Len(t)
      /\ \A i \in 1 .. Len(s) + Len(t) :
           (s \o t)[i] = IF i <= Len(s) THEN s[i] ELSE t[i - Len(s)]
  BY ConcatProperties
<1>3. /\ l \in Seq(Messages) /\ Len(l) = Len(s) + (Len(t) + 1)
      /\ \A i \in 1 .. Len(s) + (Len(t) + 1) :
           l[i] = IF i <= Len(s) THEN s[i] ELSE Append(t, m)[i - Len(s)]
  BY <1>1, ConcatProperties
<1>4. /\ r \in Seq(Messages) /\ Len(r) = (Len(s) + Len(t)) + 1
      /\ \A i \in 1 .. Len(s) + Len(t) : r[i] = (s \o t)[i]
      /\ r[(Len(s) + Len(t)) + 1] = m
  BY <1>2, AppendProperties
<1> HIDE DEF l, r
<1>5. \A i \in 1 .. Len(l) : l[i] = r[i]
  <2> SUFFICES ASSUME NEW i \in 1 .. Len(l) PROVE l[i] = r[i]
    OBVIOUS
  <2>1. CASE i <= Len(s)
    <3>1. i \in 1 .. Len(s) + Len(t)
      BY <1>1, <2>1
    <3>2. l[i] = s[i] /\ r[i] = s[i]
      BY <1>1, <1>2, <1>3, <1>4, <2>1, <3>1
    <3> QED
      BY <3>2
  <2>2. CASE i > Len(s) /\ i <= Len(s) + Len(t)
    <3>1. i - Len(s) \in 1 .. Len(t)
      BY <1>1, <2>2
    <3>2. l[i] = t[i - Len(s)]
      BY <1>1, <1>3, <2>2, <3>1
    <3>3. r[i] = t[i - Len(s)]
      BY <1>1, <1>2, <1>4, <2>2
    <3> QED
      BY <3>2, <3>3
  <2>3. CASE i = Len(s) + (Len(t) + 1)
    <3>1. l[i] = m /\ r[i] = m
      BY <1>1, <1>3, <1>4, <2>3
    <3> QED
      BY <3>1
  <2> QED
    BY <1>1, <1>3, <2>1, <2>2, <2>3
<1> QED
  BY <1>1, <1>2, <1>3, <1>4, <1>5, SeqEqual DEF l, r

LEMMA AnswersList ==
  ASSUME NEW L, NEW sent \in Seq(Messages), NEW old \in Sessions, NEW new,
         Answers(old, new), Listing(L, sent, old)
  PROVE  Listing(L, sent, new)
<1>1. old.tx \in Seq(Messages) /\ \A e \in Entities : ~(e < 0)
  BY SessionAssumptions DEF Sessions, Entities
<1>2. CASE new.tx = old.tx
  BY <1>1, <1>2 DEF Answers, Listing
<1>3. ASSUME NEW m \in Messages, m.kind # "done", new.tx = Append(old.tx, m)
      PROVE  Listing(L, sent, new)
  <2> DEFINE s == sent \o old.tx
  <2>1. sent \o new.tx = Append(s, m) /\ s \in Seq(Messages)
    BY <1>1, <1>3, ConcatAppend
  <2>2. Complete(L, s)
    BY DEF Listing
  <2>3. old.listing => \A e \in Entities : e < old.next => Told(L, s, Len(s), e)
    BY DEF Listing
  <2> HIDE DEF s
  <2>4. Complete(L, Append(s, m))
    BY <1>3, <2>1, <2>2, CompleteAppend
  <2>5. \A e \in Entities : Told(L, s, Len(s), e) =>
          Told(L, Append(s, m), Len(Append(s, m)), e)
    BY <1>3, <2>1, ToldAppend
  <2> QED
    BY <1>1, <2>1, <2>3, <2>4, <2>5 DEF Answers, Listing
<1> QED
  BY <1>2, <1>3 DEF Answers

LEMMA AnswersSays ==
  ASSUME NEW old \in Sessions, NEW new, Answers(old, new), Says(old)
  PROVE  Says(new)
<1>1. CASE new.tx = old.tx /\ (new.closing => old.closing)
  BY <1>1, Zenon DEF Answers, Says
<1>2. ASSUME NEW m \in Messages, new.tx = Append(old.tx, m),
             new.closing => m.kind = "farewell"
      PROVE  Says(new)
  <2>1. old.tx \in Seq(Messages)
    BY Zenon DEF Sessions
  <2>2. new.tx # <<>> /\ new.tx[Len(new.tx)] = m
    BY <1>2, <2>1, AppendProperties, LenProperties
  <2> QED
    BY <1>2, <2>2 DEF Says
<1> QED
  BY <1>1, <1>2, Zenon DEF Answers

-----------------------------------------------------------------------------
(* What answers. *)

\* a and b differ in what the lists and the farewell do not depend on.
Alike(a, b) ==
  /\ a \in Sessions /\ b \in Sessions
  /\ a.tx = b.tx /\ a.closing = b.closing /\ a.remove = b.remove
  /\ a.listing = b.listing /\ a.next = b.next

LEMMA AlikeAnswers ==
  ASSUME NEW a, NEW b, NEW new, Alike(a, b)
  PROVE  Answers(a, b) /\ (Answers(b, new) => Answers(a, new))
BY Zenon DEF Alike, Answers

LEMMA ReplyAnswers ==
  ASSUME NEW cl \in Sessions, NEW kind \in {"reply", "farewell", "noise"}
  PROVE  /\ Answers(cl, Reply(cl, kind))
         /\ ~Reply(cl, kind).remove => 
              /\ Reply(cl, kind).tx = Append(cl.tx, Control(kind))
              /\ ~cl.remove /\ ~cl.closing
         /\ Reply(cl, kind).listing = cl.listing /\ Reply(cl, kind).next = cl.next
         /\ Reply(cl, kind).closing = cl.closing
         /\ Reply(cl, kind).remove => Reply(cl, kind).tx = cl.tx
<1>1. CASE Room(cl, TRUE)
  <2> DEFINE m == Control(kind)
  <2>1. /\ Reply(cl, kind) \in Sessions /\ m \in Messages
        /\ Reply(cl, kind) = [cl EXCEPT !.tx = Append(cl.tx, m)]
        /\ ~cl.remove /\ ~cl.closing
    BY <1>1, QueueTypes, ControlTypes DEF Reply, Bounded
  <2>2. m.kind # "done" 
    BY DEF Control, Message
  <2> HIDE DEF m
  <2>3. Reply(cl, kind).tx = Append(cl.tx, m)
    BY <2>1, Zenon DEF Sessions
  <2>4. /\ Reply(cl, kind).listing = cl.listing /\ Reply(cl, kind).next = cl.next
        /\ Reply(cl, kind).closing = cl.closing
        /\ Reply(cl, kind).remove = cl.remove
    BY <2>1, Zenon DEF Sessions
  <2>5. Answers(cl, Reply(cl, kind))
    BY <2>1, <2>2, <2>3, <2>4, Zenon DEF Answers
  <2> QED
    BY <2>1, <2>3, <2>4, <2>5, Zenon DEF m
<1>2. CASE ~Room(cl, TRUE)
  BY <1>2, Zenon DEF Reply, Sessions, Answers
<1> QED
  BY <1>1, <1>2

\* The answer of a client that begins to close.
LEMMA FarewellAnswers ==
  ASSUME NEW cl \in Sessions
  PROVE  LET r == Reply(cl, "farewell")
         IN  /\ Answers(cl, [r EXCEPT !.closing = ~r.remove])
             /\ Answers(cl, Reject(cl))
<1> DEFINE r == Reply(cl, "farewell")
           q == [cl EXCEPT !.tx = Append(cl.tx, Control("farewell"))]
<1>1. CASE Room(cl, TRUE)
  <2>1. /\ r = q /\ q \in Sessions /\ Reject(cl) = [q EXCEPT !.closing = TRUE, !.phase = "failed"]
        /\ ~cl.remove /\ ~cl.closing /\ Control("farewell") \in Messages
    BY <1>1, QueueTypes, ControlTypes DEF Reply, Bounded, Reject
  <2>2. q.tx = Append(cl.tx, Control("farewell")) /\ q.remove = cl.remove
        /\ q.listing = cl.listing /\ q.next = cl.next
    BY Zenon DEF Sessions
  <2>3. Control("farewell").kind = "farewell"
    BY DEF Control, Message
  <2> HIDE DEF q
  <2>4. Answers(cl, [q EXCEPT !.closing = TRUE, !.phase = "failed"])
    BY <2>1, <2>2, <2>3, Zenon DEF Answers, Sessions
  <2>5. Answers(cl, [q EXCEPT !.closing = ~q.remove])
    BY <2>1, <2>2, <2>3, Zenon DEF Answers, Sessions
  <2> QED
    BY <2>1, <2>4, <2>5
<1>2. CASE ~Room(cl, TRUE)
  <2>1. r = [cl EXCEPT !.remove = TRUE] /\ Reject(cl) = [cl EXCEPT !.remove = TRUE, !.phase = "failed"]
    BY <1>2 DEF Reply, Reject
  <2>2. Answers(cl, [r EXCEPT !.closing = ~r.remove])
    BY <2>1, Zenon DEF Answers, Sessions
  <2>3. Answers(cl, Reject(cl))
    BY <2>1, Zenon DEF Answers, Sessions
  <2> QED
    BY <2>2, <2>3
<1> QED
  BY <1>1, <1>2

LEMMA HandleFrameAnswers ==
  ASSUME NEW cl \in Sessions, NEW f
  PROVE  Answers(cl, HandleFrame(cl, f))
<1> DEFINE heard   == [cl EXCEPT !.ping = FALSE]
           greeted == [heard EXCEPT !.hello = TRUE]
           bye     == Reply(heard, "farewell")
           listing == [heard EXCEPT !.listing = TRUE, !.next = 0]
<1>1. Alike(cl, cl) /\ Alike(cl, heard) /\ Alike(cl, greeted)
  BY Zenon DEF Alike, Sessions
<1>2. Alike(cl, [heard EXCEPT !.subscribed = TRUE, !.dirty = Entities])
  BY Zenon DEF Alike, Sessions
<1>3. /\ Answers(cl, [heard EXCEPT !.remove = TRUE])
      /\ Answers(cl, listing)
  <2>1. 0 \in 0 .. NumEntities
    BY SessionAssumptions
  <2> QED
    BY <2>1, Zenon DEF Answers, Sessions
<1>4. /\ Answers(cl, cl) /\ Answers(cl, heard)
      /\ Answers(cl, [heard EXCEPT !.subscribed = TRUE, !.dirty = Entities])
  BY <1>1, <1>2, AlikeAnswers
<1>5. heard \in Sessions /\ greeted \in Sessions
  BY <1>1, Zenon DEF Alike
<1> HIDE DEF heard, greeted, listing
<1>6. /\ Answers(cl, Reply(heard, "reply")) /\ Answers(cl, Reply(greeted, "reply"))
      /\ Answers(cl, [bye EXCEPT !.closing = ~bye.remove])
  <2>1. /\ Answers(heard, Reply(heard, "reply"))
        /\ Answers(greeted, Reply(greeted, "reply"))
        /\ Answers(heard, [bye EXCEPT !.closing = ~bye.remove])
    BY <1>5, ReplyAnswers, FarewellAnswers
  <2> QED
    BY <1>1, <2>1, AlikeAnswers
<1> HIDE DEF bye
<1>7. \/ HandleFrame(cl, f) \in {cl, heard, listing}
      \/ HandleFrame(cl, f) = Reply(greeted, "reply")
      \/ HandleFrame(cl, f) = Reply(heard, "reply")
      \/ HandleFrame(cl, f) = [bye EXCEPT !.closing = ~bye.remove]
      \/ HandleFrame(cl, f) = [heard EXCEPT !.remove = TRUE]
      \/ HandleFrame(cl, f) = [heard EXCEPT !.subscribed = TRUE, !.dirty = Entities]
  BY SMT DEF HandleFrame, heard, greeted, bye, listing
<1> QED
  BY <1>3, <1>4, <1>6, <1>7, Zenon

LEMMA HandleNoiseAnswers ==
  ASSUME NEW cl \in Sessions, NEW f
  PROVE  Answers(cl, HandleNoise(cl, f))
<1> DEFINE heard == [cl EXCEPT !.ping = FALSE]
           r     == Reply(heard, "noise")
<1>1. Alike(cl, cl) /\ Alike(cl, heard)
  BY Zenon DEF Alike, Sessions
<1>2. Answers(cl, [heard EXCEPT !.remove = TRUE, !.phase = "failed"])
  BY Zenon DEF Answers, Sessions
<1>3. heard \in Sessions
  BY <1>1, Zenon DEF Alike
<1> HIDE DEF heard
<1>4. /\ Answers(cl, r) /\ Answers(cl, Reject(heard))
      /\ Answers(cl, HandleFrame(heard, f)) /\ Answers(cl, cl) /\ Answers(cl, heard)
  BY <1>1, <1>3, ReplyAnswers, FarewellAnswers, HandleFrameAnswers, AlikeAnswers
<1> HIDE DEF r
<1>5. /\ Answers(cl, [r EXCEPT !.phase = "handshake"])
      /\ Answers(cl, [r EXCEPT !.phase = "data"])
  BY <1>4, Zenon DEF Answers, Sessions
<1>6. \/ HandleNoise(cl, f) \in {cl, heard, Reject(heard), HandleFrame(heard, f)}
      \/ HandleNoise(cl, f) = [r EXCEPT !.phase = "handshake"]
      \/ HandleNoise(cl, f) = [r EXCEPT !.phase = "data"]
      \/ HandleNoise(cl, f) = [heard EXCEPT !.remove = TRUE, !.phase = "failed"]
  BY SMT DEF HandleNoise, heard, r
<1> QED
  BY <1>2, <1>4, <1>5, <1>6, Zenon

LEMMA HandleAnswers ==
  ASSUME NEW cl \in Sessions, NEW f
  PROVE  Answers(cl, Handle(cl, f))
<1>1. Answers(cl, [cl EXCEPT !.remove = TRUE]) /\ Answers(cl, cl)
  BY Zenon DEF Answers, Sessions
<1>2. Answers(cl, HandleBad(cl))
  BY <1>1, FarewellAnswers, Zenon DEF HandleBad
<1> QED
  BY <1>1, <1>2, HandleNoiseAnswers, HandleFrameAnswers, Zenon DEF Handle

LEMMA ProduceStateAnswers ==
  ASSUME NEW cl \in Bounded
  PROVE  Answers(cl, ProduceState(cl))
<1>0. cl \in Sessions /\ cl.dirty \subseteq Entities
  BY Zenon DEF Bounded, Sessions
<1>1. CASE SendsState(cl)
  <2> DEFINE e == Least(cl.dirty)
             m == Message("state", e)
             q == [cl EXCEPT !.tx = Append(cl.tx, m)]
  <2>1. e \in Entities
    BY <1>0, <1>1, LeastOf DEF SendsState
  <2>2. /\ m \in Messages /\ m.kind # "done"
        /\ q \in Sessions /\ Queue(cl, m) = q
        /\ ~cl.remove /\ ~cl.closing
    BY <1>0, <1>1, <2>1, MessageTypes, QueueTypes DEF SendsState, Bounded, Message
  <2>3. ProduceState(cl) = [q EXCEPT !.dirty = q.dirty \ {e}]
    BY <1>1, <2>2 DEF ProduceState
  <2>4. /\ q.tx = Append(cl.tx, m) /\ q.closing = cl.closing
        /\ q.listing = cl.listing /\ q.next = cl.next /\ q.remove = cl.remove
        /\ q.dirty \ {e} \in SUBSET Entities
    BY <1>0, <2>2, Zenon DEF Sessions
  <2> HIDE DEF q, e, m
  <2>5. /\ ProduceState(cl) \in Sessions
        /\ ProduceState(cl).tx = Append(cl.tx, m) /\ ~ProduceState(cl).closing
        /\ ProduceState(cl).listing = cl.listing
        /\ ProduceState(cl).next = cl.next
    BY <2>2, <2>3, <2>4, Zenon DEF Sessions
  <2> QED
    BY <2>2, <2>5, Zenon DEF Answers
<1>2. CASE ~SendsState(cl)
  BY <1>0, <1>2, Zenon DEF ProduceState, Answers
<1> QED
  BY <1>1, <1>2

LEMMA KeepAliveAnswers ==
  ASSUME NEW cl \in Bounded, NEW late \in BOOLEAN
  PROVE  Answers(cl, KeepAlive(cl, late))
<1>0. cl \in Sessions
  BY Zenon DEF Bounded
<1>1. Answers(cl, cl) /\ Answers(cl, [cl EXCEPT !.remove = TRUE])
  BY <1>0, Zenon DEF Answers, Sessions
<1>2. CASE /\ Room(cl, TRUE)
           /\ KeepAlive(cl, late) = [Queue(cl, Control("ping")) EXCEPT !.ping = TRUE]
  <2> DEFINE m == Control("ping")
             q == [cl EXCEPT !.tx = Append(cl.tx, m)]
  <2>1. /\ m \in Messages /\ m.kind # "done"
        /\ q \in Sessions /\ Queue(cl, m) = q
        /\ ~cl.remove /\ ~cl.closing
    BY <1>0, <1>2, ControlTypes, QueueTypes DEF Bounded, Control, Message
  <2>2. /\ q.tx = Append(cl.tx, m) /\ q.closing = cl.closing
        /\ q.listing = cl.listing /\ q.next = cl.next /\ q.remove = cl.remove
        /\ KeepAlive(cl, late) = [q EXCEPT !.ping = TRUE]
    BY <1>0, <1>2, <2>1, Zenon DEF Sessions
  <2> HIDE DEF q, m
  <2>3. /\ KeepAlive(cl, late) \in Sessions
        /\ KeepAlive(cl, late).tx = Append(cl.tx, m)
        /\ ~KeepAlive(cl, late).closing
        /\ KeepAlive(cl, late).listing = cl.listing
        /\ KeepAlive(cl, late).next = cl.next
    BY <2>1, <2>2, Zenon DEF Sessions
  <2> QED
    BY <2>1, <2>3, Zenon DEF Answers
<1> QED
  BY <1>1, <1>2, Zenon DEF KeepAlive

\* A flush moves messages from the queue to the network and loses none; it ends
\* the session of a client that closes with the last of them.
LEMMA FlushMoves ==
  ASSUME NEW c \in Clients, NEW cl \in Bounded,
         net \in [Clients -> Seq(Messages)],
         \A d \in Clients : Len(net[d]) <= NetCapacity
  PROVE  LET new == Flush(cl, c)
         IN  /\ Flushed(cl, c)[c] \o new.tx = net[c] \o cl.tx
             /\ \A d \in Clients : d # c => Flushed(cl, c)[d] = net[d]
             /\ new.listing = cl.listing /\ new.next = cl.next
             /\ new.closing = cl.closing /\ new.phase = cl.phase
             /\ \/ new = cl
                \/ ~cl.remove /\ new.remove = (cl.closing /\ new.tx = <<>>)
             /\ cl.open /\ ~cl.remove =>
                  new.remove = (cl.closing /\ new.tx = <<>>)
<1> DEFINE n    == Writable(cl, c)
           rest == SubSeq(cl.tx, n + 1, Len(cl.tx))
           sent == SubSeq(cl.tx, 1, n)
           new  == Flush(cl, c)
<1>1. /\ cl.tx \in Seq(Messages) /\ Len(cl.tx) \in Nat
      /\ net[c] \in Seq(Messages) /\ Len(net[c]) \in Nat
      /\ Len(net[c]) <= NetCapacity
  BY LenProperties DEF Bounded, Sessions
<1>2. n \in 0 .. Len(cl.tx)
  BY <1>1, SessionAssumptions DEF Writable, MinOf
<1>3. \A i \in 1 .. Len(cl.tx) : cl.tx[i] \in Messages
  BY <1>1, ElementOfSeq
<1> HIDE DEF n
<1>4. rest \in Seq(Messages) /\ sent \in Seq(Messages)
  <2>1. /\ \A i \in n + 1 .. Len(cl.tx) : cl.tx[i] \in Messages
        /\ \A i \in 1 .. n : cl.tx[i] \in Messages
    BY <1>1, <1>2, <1>3
  <2> QED
    BY <1>1, <1>2, <2>1, SubSeqProperties
<1>5. sent \o rest = cl.tx
  <2>1. SubSeq(cl.tx, 1, n) \o SubSeq(cl.tx, n + 1, Len(cl.tx)) = SubSeq(cl.tx, 1, Len(cl.tx))
    <3>1. 1 \in 1 .. Len(cl.tx) + 1 /\ n \in 1 - 1 .. Len(cl.tx)
          /\ Len(cl.tx) \in n .. Len(cl.tx)
      BY <1>1, <1>2
    <3> QED
      BY <1>1, <3>1, ConcatAdjacentSubSeq, Zenon
  <2> QED
    BY <1>1, <2>1, SubSeqFull
<1>6. CASE ~cl.open \/ cl.remove
  <2>1. new = cl /\ Flushed(cl, c) = net
    BY <1>6 DEF Flush, Flushed
  <2> QED
    BY <1>6, <2>1
<1>7. CASE cl.open /\ ~cl.remove
  <2>1. /\ new = [cl EXCEPT !.tx = rest, !.remove = cl.closing /\ rest = <<>>]
        /\ Flushed(cl, c) = [net EXCEPT ![c] = net[c] \o sent]
    BY <1>7 DEF Flush, Flushed, n
  <2> HIDE DEF rest, sent
  <2>2. (net[c] \o sent) \o rest = net[c] \o cl.tx
    <3>1. (net[c] \o sent) \o rest = net[c] \o (sent \o rest)
      BY <1>1, <1>4, ConcatAssociative
    <3> QED
      BY <1>5, <3>1, Zenon
  <2>3. /\ new.tx = rest /\ new.listing = cl.listing /\ new.next = cl.next
        /\ new.closing = cl.closing /\ new.phase = cl.phase
        /\ new.remove = (cl.closing /\ rest = <<>>)
    BY <1>4, <2>1, Zenon DEF Bounded, Sessions
  <2>4. /\ Flushed(cl, c)[c] = net[c] \o sent
        /\ \A d \in Clients : d # c => Flushed(cl, c)[d] = net[d]
    BY <2>1
  <2> QED
    BY <1>7, <2>2, <2>3, <2>4, Zenon
<1> QED
  BY <1>6, <1>7

LEMMA FlushList ==
  ASSUME NEW c \in Clients, NEW cl \in Bounded, NEW L,
         net \in [Clients -> Seq(Messages)],
         \A d \in Clients : Len(net[d]) <= NetCapacity,
         Listing(L, net[c], cl)
  PROVE  Listing(L, Flushed(cl, c)[c], Flush(cl, c))
<1>1. /\ Flushed(cl, c)[c] \o Flush(cl, c).tx = net[c] \o cl.tx
      /\ Flush(cl, c).listing = cl.listing /\ Flush(cl, c).next = cl.next
  BY FlushMoves
<1> QED
  BY <1>1, Zenon DEF Listing

LEMMA ProduceListingList ==
  ASSUME NEW cl \in Bounded, NEW L, NEW sent \in Seq(Messages),
         Listing(L, sent, cl)
  PROVE  Listing(L, sent, ProduceListing(cl))
<1>0. cl.next \in 0 .. NumEntities /\ cl \in Sessions /\ cl.tx \in Seq(Messages)
  BY Zenon DEF Bounded, Sessions
<1> DEFINE s == sent \o cl.tx
<1>1. Complete(L, s) /\ (cl.listing => \A e \in Entities : e < cl.next => Told(L, s, Len(s), e))
  BY DEF Listing
<1>2. \A m \in Messages : sent \o Append(cl.tx, m) = Append(s, m) /\ s \in Seq(Messages)
  BY <1>0, ConcatAppend
<1> HIDE DEF s
<1>3. CASE ProduceListing(cl) = cl
  BY <1>3
<1>4. CASE /\ Room(cl, FALSE) /\ cl.next < NumEntities /\ cl.listing
           /\ ProduceListing(cl) =
                [Queue(cl, Message("entity", cl.next)) EXCEPT !.next = @ + 1]
  <2> DEFINE m == Message("entity", cl.next)
             q == Queue(cl, m)
             new == ProduceListing(cl)
  <2>1. cl.next \in Entities /\ cl.next + 1 \in 0 .. NumEntities
    BY <1>0, <1>4, SessionAssumptions DEF Entities
  <2>2. /\ q \in Sessions /\ q = [cl EXCEPT !.tx = Append(cl.tx, m)]
        /\ m \in Messages /\ m.kind # "done"
    BY <1>0, <1>4, <2>1, MessageTypes, QueueTypes DEF Bounded, Message
  <2>3. q.next = cl.next
    BY <1>0, <2>2, Zenon DEF Sessions
  <2>4. new = [q EXCEPT !.next = cl.next + 1]
    BY <1>4, <2>3, Zenon
  <2> HIDE DEF q, new
  <2>5. new.tx = Append(cl.tx, m) /\ new.next = cl.next + 1
    BY <1>0, <2>1, <2>2, <2>4, Zenon DEF Sessions
  <2>6. sent \o new.tx = Append(s, m) /\ s \in Seq(Messages)
    BY <1>2, <2>2, <2>5
  <2>7. Complete(L, Append(s, m))
    BY <1>1, <2>2, <2>6, CompleteAppend
  <2>8. ASSUME NEW e \in Entities, e < cl.next + 1
        PROVE  Told(L, Append(s, m), Len(Append(s, m)), e)
    <3>1. CASE e < cl.next
      BY <1>1, <1>4, <2>2, <2>6, <3>1, ToldAppend
    <3>2. CASE e = cl.next
      BY <2>2, <2>6, <3>2, ToldAppend
    <3> QED
      BY <1>0, <2>8, <3>1, <3>2, SessionAssumptions DEF Entities
  <2> QED
    BY <2>5, <2>6, <2>7, <2>8 DEF Listing, new
<1>5. CASE /\ Room(cl, FALSE) /\ ~(cl.next < NumEntities) /\ cl.listing
           /\ ProduceListing(cl) = [Queue(cl, Control("done")) EXCEPT !.listing = FALSE]
  <2> DEFINE m == Control("done")
             q == Queue(cl, m)
             new == ProduceListing(cl)
  <2>1. \A e \in Entities : e < cl.next
    BY <1>0, <1>5, SessionAssumptions DEF Entities
  <2>2. /\ q \in Sessions /\ q = [cl EXCEPT !.tx = Append(cl.tx, m)]
        /\ m \in Messages
    BY <1>0, <1>5, ControlTypes, QueueTypes DEF Bounded
  <2>4. new = [q EXCEPT !.listing = FALSE]
    BY <1>5
  <2> HIDE DEF q, new
  <2>5. new.tx = Append(cl.tx, m) /\ ~new.listing
    BY <1>0, <2>2, <2>4, Zenon DEF Sessions
  <2>6. sent \o new.tx = Append(s, m) /\ s \in Seq(Messages)
    BY <1>2, <2>2, <2>5
  <2>7. Complete(L, Append(s, m))
    BY <1>1, <1>5, <2>1, <2>2, <2>6, CompleteAppend
  <2> QED
    BY <2>5, <2>6, <2>7 DEF Listing, new
<1> QED
  BY <1>3, <1>4, <1>5, Zenon DEF ProduceListing

\* One turn of the first loop, before the client is left.
LEMMA TurnList ==
  ASSUME TypeOK, NEW late \in BOOLEAN, NEW L, Listing(L, net[at], clients[at])
  PROVE  LET listing == ProduceListing(Flush(clients[at], at))
         IN  Listing(L, Flushed(clients[at], at)[at],
                     KeepAlive(ProduceState(listing), late))
<1> DEFINE flushed == Flush(clients[at], at)
           listing == ProduceListing(flushed)
           stated  == ProduceState(listing)
           sent    == Flushed(clients[at], at)[at]
<1>1. /\ clients[at] \in Bounded /\ at \in Clients
      /\ net \in [Clients -> Seq(Messages)]
      /\ \A d \in Clients : Len(net[d]) <= NetCapacity
  BY TypeClients DEF TypeOK
<1>2. /\ flushed \in Bounded /\ sent \in Seq(Messages)
      /\ Listing(L, sent, flushed)
  BY <1>1, FlushKeeps, FlushList DEF Keeps
<1> HIDE DEF flushed, sent
<1>3. listing \in Bounded /\ Listing(L, sent, listing)
  BY <1>2, ProduceListingKeeps, ProduceListingList DEF Keeps
<1> HIDE DEF listing
<1>4. stated \in Bounded /\ Listing(L, sent, stated)
  <2>1. listing \in Sessions
    BY <1>3, Zenon DEF Bounded
  <2> QED
    BY <1>2, <1>3, <2>1, ProduceStateOwes, ProduceStateAnswers, AnswersList DEF Owes
<1> HIDE DEF stated
<1>5. Listing(L, sent, KeepAlive(stated, late))
  <2>1. stated \in Sessions
    BY <1>4, Zenon DEF Bounded
  <2> QED
    BY <1>2, <1>4, <2>1, KeepAliveAnswers, AnswersList
<1> QED
  BY <1>5 DEF stated, listing, flushed, sent

ListInv == \A c \in Clients : Listing(listed[c], net[c], clients[c])

LEMMA FreeList ==
  ASSUME NEW L, NEW sent \in Seq(Messages), NEW cl \in Sessions,
         Listing(L, sent, cl)
  PROVE  Listing(L, sent, Free)
<1>1. sent \o <<>> = sent /\ cl.tx \in Seq(Messages)
  BY ConcatEmptySeq DEF Sessions
<1>2. /\ sent \o cl.tx \in Seq(Messages) /\ Len(sent) <= Len(sent \o cl.tx)
      /\ \A k \in 1 .. Len(sent) : (sent \o cl.tx)[k] = sent[k]
  BY <1>1, ConcatProperties, LenProperties
<1>3. Complete(L, sent)
  BY <1>2, CompletePrefix DEF Listing
<1> QED
  BY <1>1, <1>3 DEF Listing, Free

LEMMA NothingSent ==
  ASSUME NEW L, NEW cl, cl.tx = <<>>, ~cl.listing
  PROVE  Listing(L, <<>>, cl)
<1>1. <<>> \o <<>> = <<>> /\ Len(<<>>) = 0
  OBVIOUS
<1> QED
  BY <1>1 DEF Listing, Complete

LEMMA LeaveList ==
  ASSUME TypeOK, ListInv, NEW cl \in Sessions, NEW states, Leave(cl, states),
         listed' = listed, net'[at] \in Seq(Messages),
         \A d \in Clients : d # at => net'[d] = net[d],
         Listing(listed[at], net'[at], cl)
  PROVE  ListInv'
<1> SUFFICES ASSUME NEW c \in Clients
             PROVE  Listing(listed[c], net'[c], clients'[c])
  BY DEF ListInv
<1>1. clients' = [clients EXCEPT ![at] = IF cl.remove THEN Free ELSE cl]
  BY DEF Leave
<1>2. CASE c # at
  BY <1>1, <1>2 DEF ListInv, TypeOK
<1>3. CASE c = at
  <2>1. clients'[c] = Free \/ clients'[c] = cl
    BY <1>1, <1>3 DEF TypeOK
  <2> QED
    BY <1>3, <2>1, FreeList
<1> QED
  BY <1>2, <1>3

LEMMA ServerList ==
  ASSUME TypeOK, ListInv, Server \/ SendFails \/ Restart
  PROVE  ListInv'
<1>0. /\ clients \in [Clients -> Bounded] /\ at \in Clients
      /\ net \in [Clients -> Seq(Messages)]
      /\ \A d \in Clients : Len(net[d]) <= NetCapacity
  BY TypeClients DEF TypeOK
<1>1. CASE Distribute
  <2> SUFFICES ASSUME NEW c \in Clients
               PROVE  Listing(listed[c], net[c], clients'[c])
    BY <1>1 DEF Distribute, world, ListInv
  <2>1. /\ clients'[c].tx = clients[c].tx
        /\ clients'[c].listing = clients[c].listing
        /\ clients'[c].next = clients[c].next
    BY <1>1 DEF Distribute, TypeOK, Sessions
  <2>2. Listing(listed[c], net[c], clients[c])
    BY DEF ListInv
  <2> QED
    BY <2>1, <2>2, Zenon DEF Listing
<1>2. ASSUME NEW late \in BOOLEAN, Service(late)
      PROVE  ListInv'
  <2> DEFINE listing == ProduceListing(Flush(clients[at], at))
             cl      == KeepAlive(ProduceState(listing), late)
  <2>1. /\ Leave(cl, current[at] \cup Sent(listing))
        /\ net' = Flushed(clients[at], at) /\ listed' = listed
    BY <1>2 DEF Service, Sent
  <2>2. Listing(listed[at], net'[at], cl)
    BY <1>0, <2>1, TurnList DEF ListInv
  <2>3. cl \in Sessions
    <3>1. Flush(clients[at], at) \in Bounded
      BY <1>0, FlushKeeps DEF Keeps
    <3>2. listing \in Bounded
      BY <3>1, ProduceListingKeeps DEF Keeps
    <3>3. ProduceState(listing) \in Bounded
      BY <3>2, ProduceStateOwes DEF Owes
    <3> QED
      BY <3>3, KeepAliveAnswers DEF Answers
  <2>4. /\ net'[at] \in Seq(Messages)
        /\ \A d \in Clients : d # at => net'[d] = net[d]
    BY <1>0, <2>1, FlushKeeps, FlushMoves
  <2> HIDE DEF cl
  <2> QED
    BY <2>1, <2>2, <2>3, <2>4, LeaveList
<1>3. ASSUME NEW n \in 0 .. MaxConnections, Accept(n)
      PROVE  ListInv'
  <2> SUFFICES ASSUME NEW c \in Clients
               PROVE  Listing(listed'[c], net'[c], clients'[c])
    BY DEF ListInv
  <2>1. CASE c \in Taken(n)
    <3>1. net'[c] = <<>> /\ clients'[c] = Accepted
      BY <1>3, <2>1 DEF Accept
    <3>2. Accepted.tx = <<>> /\ ~Accepted.listing
      BY DEF Accepted, Free
    <3> QED
      BY <3>1, <3>2, NothingSent
  <2>2. CASE c \notin Taken(n)
    <3>1. net'[c] = net[c] /\ clients'[c] = clients[c] /\ listed'[c] = listed[c]
      BY <1>3, <2>2 DEF Accept
    <3> QED
      BY <3>1 DEF ListInv
  <2> QED
    BY <2>1, <2>2
<1>4. CASE ReadFrame
  <2> SUFFICES ASSUME NEW c \in Clients
               PROVE  Listing(listed[c], net[c], clients'[c])
    BY <1>4 DEF ReadFrame, ListInv
  <2>1. Listing(listed[c], net[c], clients[c]) /\ net[c] \in Seq(Messages)
    BY <1>0 DEF ListInv
  <2>2. clients[c] \in Sessions
    BY DEF TypeOK
  <2>3. clients'[c] = clients[c] \/ clients'[c] = Handle(clients[c], Head(inbox[at]))
    BY <1>0, <1>4 DEF ReadFrame
  <2> QED
    BY <2>1, <2>2, <2>3, HandleAnswers, AnswersList
<1>5. CASE FinishClient
  <2> DEFINE cl == Flush(clients[at], at)
  <2>1. /\ Leave(cl, current[at]) /\ net' = Flushed(clients[at], at)
        /\ listed' = listed
    BY <1>5 DEF FinishClient
  <2>2. Listing(listed[at], net'[at], cl)
    BY <1>0, <2>1, FlushList DEF ListInv
  <2>3. cl \in Sessions
    BY <1>0, FlushKeeps DEF Keeps, Bounded
  <2>4. /\ net'[at] \in Seq(Messages)
        /\ \A d \in Clients : d # at => net'[d] = net[d]
    BY <1>0, <2>1, FlushKeeps, FlushMoves
  <2> HIDE DEF cl
  <2> QED
    BY <2>1, <2>2, <2>3, <2>4, LeaveList
<1>6. CASE SendFails
  <2> SUFFICES ASSUME NEW c \in Clients
               PROVE  Listing(listed[c], net[c], clients'[c])
    BY <1>6 DEF SendFails, world, ListInv
  <2>1. clients' = [clients EXCEPT ![at] = [clients[at] EXCEPT !.remove = TRUE]]
    BY <1>6 DEF SendFails
  <2>2. clients[at] \in Sessions /\ clients[c] \in Sessions
    BY DEF TypeOK
  <2>3. \/ clients'[c] = clients[c]
        \/ clients'[c] = [clients[c] EXCEPT !.remove = TRUE]
    BY <1>0, <2>1
  <2>4. /\ clients'[c].tx = clients[c].tx
        /\ clients'[c].listing = clients[c].listing
        /\ clients'[c].next = clients[c].next
    BY <2>2, <2>3, Zenon DEF Sessions
  <2>5. Listing(listed[c], net[c], clients[c])
    BY DEF ListInv
  <2> QED
    BY <2>4, <2>5, Zenon DEF Listing
<1>7. CASE Restart
  <2> SUFFICES ASSUME NEW c \in Clients
               PROVE  Listing(listed'[c], net'[c], clients'[c])
    BY DEF ListInv
  <2>1. net'[c] = <<>> /\ clients'[c] = Free
    BY <1>7 DEF Restart
  <2>2. Free.tx = <<>> /\ ~Free.listing
    BY DEF Free
  <2> QED
    BY <2>1, <2>2, NothingSent
<1> QED
  BY <1>1, <1>2, <1>3, <1>4, <1>5, <1>6, <1>7 DEF Server

LEMMA TailConcat ==
  ASSUME NEW s \in Seq(Messages), NEW t \in Seq(Messages), s # <<>>
  PROVE  /\ s \o t \in Seq(Messages) /\ s \o t # <<>>
         /\ Head(s \o t) = Head(s)
         /\ Tail(s \o t) = Tail(s) \o t
<1> DEFINE u == s \o t
           v == Tail(s)
           w == v \o t
           m == Len(s)
           n == Len(t)
<1>1. m \in Nat /\ n \in Nat /\ m > 0 /\ Head(s) = s[1]
  BY EmptySeq, LenProperties
<1>2. /\ u \in Seq(Messages) /\ Len(u) = m + n
      /\ \A i \in 1 .. m + n : u[i] = IF i <= m THEN s[i] ELSE t[i - m]
  BY ConcatProperties
<1>3. /\ v \in Seq(Messages) /\ Len(v) = m - 1
      /\ \A i \in 1 .. m - 1 : v[i] = s[i + 1]
  <2>1. /\ v \in Seq(Messages) /\ Len(v) = m - 1
        /\ \A i \in 1 .. Len(v) : v[i] = s[i + 1]
    BY HeadTailProperties
  <2> QED
    BY <2>1
<1> HIDE DEF u, v, m, n
<1>4. u # <<>> /\ Head(u) = s[1]
  BY <1>1, <1>2
<1>5. /\ Tail(u) \in Seq(Messages) /\ Len(Tail(u)) = (m + n) - 1
      /\ \A i \in 1 .. (m + n) - 1 : Tail(u)[i] = u[i + 1]
  <2>1. /\ Tail(u) \in Seq(Messages) /\ Len(Tail(u)) = Len(u) - 1
        /\ \A i \in 1 .. Len(Tail(u)) : Tail(u)[i] = u[i + 1]
    BY <1>2, <1>4, HeadTailProperties
  <2> QED
    BY <1>2, <2>1
<1>6. /\ w \in Seq(Messages) /\ Len(w) = (m - 1) + n
      /\ \A i \in 1 .. (m - 1) + n : w[i] = IF i <= m - 1 THEN v[i] ELSE t[i - (m - 1)]
  <2>1. /\ w \in Seq(Messages) /\ Len(w) = Len(v) + Len(t)
        /\ \A i \in 1 .. Len(v) + Len(t) : w[i] = IF i <= Len(v) THEN v[i] ELSE t[i - Len(v)]
    BY <1>3, ConcatProperties
  <2> QED
    BY <1>3, <2>1 DEF n
<1> HIDE DEF w
<1>7. ASSUME NEW i \in 1 .. (m - 1) + n
      PROVE  Tail(u)[i] = w[i]
  <2>1. /\ i \in 1 .. (m + n) - 1 /\ i + 1 \in 1 .. m + n
        /\ (i + 1) - m = i - (m - 1)
    BY <1>1
  <2>2. Tail(u)[i] = IF i + 1 <= m THEN s[i + 1] ELSE t[(i + 1) - m]
    BY <1>2, <1>5, <2>1
  <2>3. w[i] = IF i <= m - 1 THEN v[i] ELSE t[i - (m - 1)]
    BY <1>6
  <2>4. CASE i <= m - 1
    <3>1. i + 1 <= m /\ i \in 1 .. m - 1
      BY <1>1, <2>4
    <3> QED
      BY <1>3, <2>2, <2>3, <2>4, <3>1
  <2>5. CASE ~(i <= m - 1)
    <3>1. ~(i + 1 <= m)
      BY <1>1, <2>5
    <3> QED
      BY <2>1, <2>2, <2>3, <2>5, <3>1
  <2> QED
    BY <2>4, <2>5
<1>8. Tail(u) = w
  <2>1. Len(Tail(u)) = Len(w) /\ \A i \in 1 .. Len(Tail(u)) : Tail(u)[i] = w[i]
    BY <1>1, <1>5, <1>6, <1>7
  <2> QED
    BY <1>5, <1>6, <2>1, SeqEqual
<1> QED
  BY <1>1, <1>2, <1>4, <1>8 DEF u, v, w

LEMMA ReadsList ==
  ASSUME TypeOK, ListInv, NEW c \in Clients, PeerReads(c)
  PROVE  ListInv'
<1> SUFFICES ASSUME NEW d \in Clients
             PROVE  Listing(listed'[d], net'[d], clients[d])
  BY DEF PeerReads, ListInv
<1>1. CASE d # c
  BY <1>1 DEF PeerReads, ListInv, TypeOK
<1>2. CASE d = c
  <2> DEFINE tx == clients[c].tx
             s  == net[c] \o tx
             L  == listed[c]
  <2>1. net[c] \in Seq(Messages) /\ net[c] # <<>> /\ tx \in Seq(Messages)
    BY DEF PeerReads, TypeOK, Sessions
  <2>2. /\ net'[c] = Tail(net[c])
        /\ listed'[c] = After(L, Head(net[c]))
    BY DEF PeerReads, After, TypeOK
  <2>3. /\ s \in Seq(Messages) /\ s # <<>> /\ Head(s) = Head(net[c])
        /\ Tail(net[c]) \o tx = Tail(s)
        /\ Len(Tail(s)) = Len(s) - 1 /\ Len(s) \in 1 .. Len(s)
    <3>1. /\ s \in Seq(Messages) /\ s # <<>> /\ Head(s) = Head(net[c])
          /\ Tail(net[c]) \o tx = Tail(s)
      BY <2>1, TailConcat
    <3> HIDE DEF s, tx
    <3>2. Len(s) \in Nat \ {0}
      BY <3>1, EmptySeq
    <3>3. Len(Tail(s)) = Len(s) - 1
      BY <3>1, HeadTailProperties
    <3>4. Len(s) \in 1 .. Len(s)
      BY <3>2
    <3> QED
      BY <3>1, <3>3, <3>4
  <2>4. /\ Complete(L, s)
        /\ clients[c].listing => \A e \in Entities :
             e < clients[c].next => Told(L, s, Len(s), e)
    BY DEF ListInv, Listing
  <2> HIDE DEF s, L
  <2>5. Complete(After(L, Head(s)), Tail(s))
    BY <2>3, <2>4, CompleteTail
  <2>6. ASSUME NEW e \in Entities, Told(L, s, Len(s), e)
        PROVE  Told(After(L, Head(s)), Tail(s), Len(Tail(s)), e)
    <3>1. Told(After(L, Head(s)), Tail(s), Len(s) - 1, e)
      BY <2>3, <2>6, ToldTail
    <3> QED
      BY <2>3, <3>1
  <2> QED
    BY <1>2, <2>2, <2>3, <2>4, <2>5, <2>6 DEF Listing
<1> QED
  BY <1>1, <1>2

\* A peer that is told that the list of entities is over has got all of them,
\* for every number of entities and places of a queue, however often its
\* listing waited or was asked for again.
THEOREM ListsAreComplete == Spec => []ListIsComplete
<1>1. Init => ListInv
  <2> SUFFICES ASSUME Init, NEW c \in Clients
               PROVE  Listing(listed[c], net[c], clients[c])
    BY DEF ListInv
  <2>1. net[c] = <<>> /\ clients[c] = Free
    BY DEF Init
  <2>2. Free.tx = <<>> /\ ~Free.listing
    BY DEF Free
  <2> QED
    BY <2>1, <2>2, NothingSent
<1>2. TypeOK /\ ListInv /\ [Next]_vars => ListInv'
  <2> SUFFICES ASSUME TypeOK, ListInv, [Next]_vars
               PROVE  ListInv'
    OBVIOUS
  <2>1. ASSUME UNCHANGED <<clients, net, listed>>
        PROVE  ListInv'
    BY <2>1 DEF ListInv
  <2>2. CASE Tell \/ \E e \in Changing : Commit(e)
    BY <2>1, <2>2 DEF Tell, Commit, world
  <2>3. ASSUME NEW c \in Clients,
               \/ \E f \in Openings \cup Requests : PeerSends(c, f)
               \/ PeerShakesHands(c)
               \/ \E to \in {"gone", "mute"} : PeerTurns(c, to)
        PROVE  ListInv'
    BY <2>1, <2>3 DEF PeerSends, PeerShakesHands, PeerTurns
  <2>4. CASE UNCHANGED vars
    BY <2>1, <2>4 DEF vars
  <2> QED
    BY <2>2, <2>3, <2>4, ServerList, ReadsList DEF Next
<1>3. TypeOK /\ ListInv => ListIsComplete
  <2> SUFFICES ASSUME TypeOK, ListInv, NEW c \in Clients, net[c] # <<>>,
                      Head(net[c]).kind = "done"
               PROVE  listed[c] = Entities
    BY DEF ListIsComplete
  <2> DEFINE s == net[c] \o clients[c].tx
  <2>1. net[c] \in Seq(Messages) /\ clients[c].tx \in Seq(Messages)
    BY DEF TypeOK, Sessions
  <2>2. Len(net[c]) \in Nat /\ Len(net[c]) > 0 /\ Len(clients[c].tx) \in Nat
    BY <2>1, EmptySeq, LenProperties
  <2>3. 1 \in 1 .. Len(s) /\ s[1].kind = "done"
    <3> HIDE DEF s
    <3>1. s \in Seq(Messages) /\ s # <<>> /\ Head(s) = Head(net[c])
      BY <2>1, TailConcat DEF s
    <3> QED
      BY <3>1, EmptySeq, LenProperties
  <2>4. Complete(listed[c], s)
    BY DEF ListInv, Listing
  <2> HIDE DEF s
  <2>5. \A e \in Entities : Told(listed[c], s, 0, e)
    BY <2>3, <2>4 DEF Complete
  <2>6. Entities \subseteq listed[c]
    BY <2>5 DEF Told
  <2> QED
    BY <2>6 DEF TypeOK
<1> QED
  BY <1>1, <1>2, <1>3, TypeCorrect, PTL DEF Spec

-----------------------------------------------------------------------------
(* Farewells.  A client that closes has its farewell at the end of its      *)
(* queue, and only a peer that breaks the protocol or is gone makes the     *)
(* server drop it before that is written.                                   *)

\* A client closes out of a data session or after a failed handshake.
Phases(cl) ==
  /\ cl.closing => cl.phase \in {"data", "failed"}
  /\ ~noise => cl.phase = "data"

ByeInv == \A c \in Clients :
  /\ Says(clients[c]) /\ Phases(clients[c])
  /\ clients[c].closing /\ clients[c].remove => peer[c] \in {"gone", "rude"}

\* What tells in the inbox of a client that its peer is gone or rude; the next
\* step of a handshake is the first frame there, and the handshake is not over.
InboxInv == \A c \in Clients : \A i \in 1 .. Len(inbox[c]) :
  /\ inbox[c][i] \in {"bad", "garbled"} => peer[c] = "rude"
  /\ inbox[c][i] = "fin" => peer[c] = "gone"
  /\ inbox[c][i] = "noise" =>
       i = 1 /\ clients[c].phase \in {"clientHello", "handshake"}

LEMMA HandleFrameCloses ==
  ASSUME NEW cl \in Sessions, NEW f
  PROVE  LET new == HandleFrame(cl, f)
         IN  /\ new.phase = cl.phase
             /\ new.closing /\ new.remove => cl.closing /\ cl.remove
<1> DEFINE heard == [cl EXCEPT !.ping = FALSE]
           hello == [heard EXCEPT !.hello = TRUE]
           bye   == Reply(heard, "farewell")
<1>1. CASE cl.remove \/ cl.closing
  BY <1>1 DEF HandleFrame
<1>2. CASE ~cl.remove /\ ~cl.closing
  <2>1. /\ heard \in Sessions /\ hello \in Sessions
        /\ heard.phase = cl.phase /\ hello.phase = cl.phase
        /\ ~heard.closing /\ ~hello.closing
    BY <1>2, Zenon DEF Sessions
  <2> HIDE DEF heard, hello
  <2>2. /\ ~Reply(heard, "reply").closing /\ ~Reply(hello, "reply").closing
        /\ bye \in Sessions
    BY <2>1, ReplyAnswers DEF Answers
  <2>3. /\ Reply(heard, "reply").phase = cl.phase
        /\ Reply(hello, "reply").phase = cl.phase
        /\ bye.phase = cl.phase
    BY <2>1, Zenon DEF Reply, Queue, Sessions
  <2> HIDE DEF bye
  <2>4. /\ [bye EXCEPT !.closing = ~bye.remove].phase = cl.phase
        /\ [bye EXCEPT !.closing = ~bye.remove].closing = ~bye.remove
        /\ [bye EXCEPT !.closing = ~bye.remove].remove = bye.remove
    BY <2>2, <2>3, Zenon DEF Sessions
  <2>5. \A new \in {[heard EXCEPT !.remove = TRUE],
                    [heard EXCEPT !.listing = TRUE, !.next = 0],
                    [heard EXCEPT !.subscribed = TRUE, !.dirty = Entities]} :
          new.phase = cl.phase /\ ~new.closing
    BY <2>1, Zenon DEF Sessions
  <2>6. \/ HandleFrame(cl, f) \in
             {heard, Reply(heard, "reply"), Reply(hello, "reply"),
              [heard EXCEPT !.remove = TRUE],
              [heard EXCEPT !.listing = TRUE, !.next = 0],
              [heard EXCEPT !.subscribed = TRUE, !.dirty = Entities]}
        \/ HandleFrame(cl, f) = [bye EXCEPT !.closing = ~bye.remove]
    BY <1>2, SMT DEF HandleFrame, heard, hello, bye
  <2>7. CASE HandleFrame(cl, f) = [bye EXCEPT !.closing = ~bye.remove]
    BY <2>4, <2>7, Zenon
  <2> QED
    BY <2>1, <2>2, <2>3, <2>5, <2>6, <2>7, Zenon
<1> QED
  BY <1>1, <1>2

LEMMA RejectCloses ==
  ASSUME NEW cl \in Sessions
  PROVE  LET new == Reject(cl)
         IN  /\ new.phase = "failed"
             /\ new.closing /\ new.remove => cl.closing
             /\ new.remove => cl.remove \/ ~Room(cl, TRUE)
<1>1. CASE Room(cl, TRUE)
  <2> DEFINE q == Queue(cl, Control("farewell"))
  <2>1. q \in Sessions /\ q = [cl EXCEPT !.tx = Append(cl.tx, Control("farewell"))]
        /\ Reject(cl) = [q EXCEPT !.closing = TRUE, !.phase = "failed"]
        /\ ~cl.remove
    BY <1>1, QueueTypes, ControlTypes DEF Bounded, Reject
  <2>2. q.remove = cl.remove
    BY <2>1, Zenon DEF Sessions
  <2> HIDE DEF q
  <2>3. Reject(cl).phase = "failed" /\ Reject(cl).remove = cl.remove
    BY <2>1, <2>2, Zenon DEF Sessions
  <2> QED
    BY <2>1, <2>3
<1>2. CASE ~Room(cl, TRUE)
  <2>1. Reject(cl) = [cl EXCEPT !.remove = TRUE, !.phase = "failed"]
    BY <1>2 DEF Reject
  <2>2. Reject(cl).phase = "failed" /\ Reject(cl).closing = cl.closing
    BY <2>1, Zenon DEF Sessions
  <2> QED
    BY <1>2, <2>2
<1> QED
  BY <1>1, <1>2

\* What a frame makes of the phase, and which frames end a session that closes.
Closes(old, f, new) ==
  /\ Phases(new)
  /\ new.closing /\ new.remove =>
       /\ old.closing
       /\ \/ old.remove
          \/ f \in {"fin", "bad", "garbled"}
          \/ f = "noise" /\ old.phase = "data"

LEMMA HandleNoiseCloses ==
  ASSUME NEW cl \in Sessions, NEW f, Phases(cl), noise
  PROVE  Closes(cl, f, HandleNoise(cl, f))
<1> DEFINE heard == [cl EXCEPT !.ping = FALSE]
           r     == Reply(heard, "noise")
           new   == HandleNoise(cl, f)
<1>1. /\ heard \in Sessions /\ heard.phase = cl.phase
      /\ heard.closing = cl.closing /\ heard.remove = cl.remove
  BY Zenon DEF Sessions
<1> HIDE DEF heard
<1>2. r \in Sessions /\ r.closing = cl.closing
  BY <1>1, ReplyAnswers DEF Answers
<1> HIDE DEF r
<1>3. CASE cl.phase \in {"clientHello", "handshake"}
  <2>1. ~cl.closing
    BY <1>3 DEF Phases
  <2>2. /\ [r EXCEPT !.phase = "handshake"].closing = r.closing
        /\ [r EXCEPT !.phase = "data"].closing = r.closing
    BY <1>2, Zenon DEF Sessions
  <2>3. \/ new = [r EXCEPT !.phase = "handshake"]
        \/ new = [r EXCEPT !.phase = "data"]
        \/ new = Reject(heard)
    BY <1>3 DEF HandleNoise, heard, r
  <2>4. CASE new = Reject(heard)
    <3>1. new.phase = "failed" /\ ~(new.closing /\ new.remove)
      BY <1>1, <2>1, <2>4, RejectCloses
    <3> QED
      BY <3>1 DEF Closes, Phases
  <2>5. CASE ~new.closing
    BY <2>5 DEF Closes, Phases
  <2> QED
    BY <1>2, <2>1, <2>2, <2>3, <2>4, <2>5, Zenon
<1>4. CASE cl.phase = "data"
  <2>1. CASE f \in {"noise", "garbled"}
    <3>1. new = [heard EXCEPT !.remove = TRUE, !.phase = "failed"]
      BY <1>4, <2>1 DEF HandleNoise, heard
    <3>2. new.phase = "failed" /\ new.closing = cl.closing
      BY <1>1, <3>1, Zenon DEF Sessions
    <3> QED
      BY <1>4, <2>1, <3>2 DEF Closes, Phases
  <2>2. CASE f \notin {"noise", "garbled"}
    <3>1. new = HandleFrame(heard, f)
      BY <1>4, <2>2 DEF HandleNoise, heard
    <3>2. /\ new.phase = "data"
          /\ new.closing /\ new.remove => cl.closing /\ cl.remove
      BY <1>1, <1>4, <3>1, HandleFrameCloses
    <3> QED
      BY <3>2 DEF Closes, Phases
  <2> QED
    BY <2>1, <2>2
<1>5. CASE cl.phase = "failed"
  <2>1. new = cl
    BY <1>5 DEF HandleNoise
  <2> QED
    BY <2>1 DEF Closes
<1> QED
  BY <1>3, <1>4, <1>5 DEF Sessions

LEMMA HandleCloses ==
  ASSUME NEW cl \in Sessions, NEW f, Phases(cl)
  PROVE  Closes(cl, f, Handle(cl, f))
<1> DEFINE removed == [cl EXCEPT !.remove = TRUE]
<1>1. removed.phase = cl.phase /\ removed.closing = cl.closing
  BY Zenon DEF Sessions
<1> HIDE DEF removed
<1>2. CASE f = "fin" \/ f = "bad"
  <2>1. Handle(cl, f) \in {cl, removed} \/ (noise /\ Handle(cl, f) = Reject(cl))
    BY <1>2 DEF Handle, HandleBad, removed
  <2>2. CASE Handle(cl, f) \in {cl, removed}
    BY <1>1, <1>2, <2>2 DEF Closes, Phases
  <2>3. CASE noise /\ Handle(cl, f) = Reject(cl)
    BY <1>2, <2>3, RejectCloses DEF Closes, Phases
  <2> QED
    BY <2>1, <2>2, <2>3
<1>3. CASE f # "fin" /\ f # "bad" /\ noise
  BY <1>3, HandleNoiseCloses DEF Handle
<1>4. CASE f # "fin" /\ f # "bad" /\ ~noise
  <2>1. Handle(cl, f) = HandleFrame(cl, f) /\ cl.phase = "data"
    BY <1>4 DEF Handle, Phases
  <2> QED
    BY <2>1, HandleFrameCloses DEF Closes, Phases
<1> QED
  BY <1>2, <1>3, <1>4

LEMMA LastOfConcat ==
  ASSUME NEW s \in Seq(Messages), NEW t \in Seq(Messages), t # <<>>
  PROVE  /\ s \o t # <<>>
         /\ (s \o t)[Len(s \o t)] = t[Len(t)]
<1>1. Len(s) \in Nat /\ Len(t) \in Nat /\ Len(t) > 0
  BY EmptySeq, LenProperties
<1> DEFINE u == s \o t
<1>2. /\ u \in Seq(Messages) /\ Len(u) = Len(s) + Len(t)
      /\ \A i \in 1 .. Len(s) + Len(t) :
           u[i] = IF i <= Len(s) THEN s[i] ELSE t[i - Len(s)]
  BY ConcatProperties
<1> HIDE DEF u
<1>3. u[Len(u)] = t[Len(u) - Len(s)] /\ Len(u) - Len(s) = Len(t)
  BY <1>1, <1>2
<1> QED
  BY <1>1, <1>2, <1>3 DEF u

\* The operators of a turn keep the phase, and a client that closes as it is.
Steady(old, new) ==
  /\ new.phase = old.phase /\ new.closing = old.closing
  /\ old.closing => new = old

LEMMA ProduceListingSteady ==
  ASSUME NEW cl \in Bounded
  PROVE  Steady(cl, ProduceListing(cl))
<1>0. cl \in Sessions /\ cl.next \in 0 .. NumEntities
  BY Zenon DEF Bounded, Sessions
<1>1. CASE ProduceListing(cl) = cl
  BY <1>1 DEF Steady
<1>2. ASSUME NEW m \in Messages, Room(cl, FALSE), ~cl.closing,
             \/ ProduceListing(cl) = [Queue(cl, m) EXCEPT !.next = @ + 1]
             \/ ProduceListing(cl) = [Queue(cl, m) EXCEPT !.listing = FALSE]
      PROVE  Steady(cl, ProduceListing(cl))
  <2> DEFINE q == Queue(cl, m)
  <2>1. q \in Sessions /\ q = [cl EXCEPT !.tx = Append(cl.tx, m)]
    BY <1>0, <1>2, QueueTypes DEF Bounded
  <2>2. q.phase = cl.phase /\ q.closing = cl.closing
    BY <1>0, <2>1, Zenon DEF Sessions
  <2> HIDE DEF q
  <2>3. /\ ProduceListing(cl).phase = cl.phase
        /\ ProduceListing(cl).closing = cl.closing
    BY <1>2, <2>1, <2>2, Zenon DEF Sessions, q
  <2> QED
    BY <1>2, <2>3 DEF Steady
<1>3. \/ ProduceListing(cl) = cl
      \/ /\ Room(cl, FALSE) /\ ~cl.closing
         /\ \/ /\ cl.next < NumEntities
               /\ ProduceListing(cl) =
                    [Queue(cl, Message("entity", cl.next)) EXCEPT !.next = @ + 1]
            \/ ProduceListing(cl) =
                 [Queue(cl, Control("done")) EXCEPT !.listing = FALSE]
  BY Zenon DEF ProduceListing, Producing
<1>4. cl.next < NumEntities => Message("entity", cl.next) \in Messages
  BY <1>0, MessageTypes, SessionAssumptions DEF Entities
<1> QED
  BY <1>1, <1>2, <1>3, <1>4, ControlTypes, Zenon

LEMMA ProduceStateSteady ==
  ASSUME NEW cl \in Bounded
  PROVE  Steady(cl, ProduceState(cl))
<1>0. cl \in Sessions /\ cl.dirty \subseteq Entities
  BY Zenon DEF Bounded, Sessions
<1>1. CASE SendsState(cl)
  <2> DEFINE e == Least(cl.dirty)
             q == Queue(cl, Message("state", e))
  <2>1. e \in Entities /\ ~cl.closing
    BY <1>0, <1>1, LeastOf DEF SendsState, Producing
  <2>2. q \in Sessions /\ q = [cl EXCEPT !.tx = Append(cl.tx, Message("state", e))]
    BY <1>0, <1>1, <2>1, MessageTypes, QueueTypes DEF SendsState, Bounded
  <2>3. q.phase = cl.phase /\ q.closing = cl.closing
    BY <1>0, <2>2, Zenon DEF Sessions
  <2>4. ProduceState(cl) = [q EXCEPT !.dirty = @ \ {e}]
    BY <1>1 DEF ProduceState
  <2> HIDE DEF q, e
  <2>5. /\ ProduceState(cl).phase = cl.phase
        /\ ProduceState(cl).closing = cl.closing
    BY <2>2, <2>3, <2>4, Zenon DEF Sessions
  <2> QED
    BY <2>1, <2>5 DEF Steady
<1>2. CASE ~SendsState(cl)
  BY <1>2, Zenon DEF ProduceState, Steady
<1> QED
  BY <1>1, <1>2

LEMMA KeepAliveSteady ==
  ASSUME NEW cl \in Bounded, NEW late \in BOOLEAN
  PROVE  Steady(cl, KeepAlive(cl, late))
<1>0. cl \in Sessions
  BY Zenon DEF Bounded
<1>1. CASE KeepAlive(cl, late) = cl
  BY <1>1 DEF Steady
<1>2. CASE ~cl.closing /\ KeepAlive(cl, late) = [cl EXCEPT !.remove = TRUE]
  <2>1. /\ KeepAlive(cl, late).phase = cl.phase
        /\ KeepAlive(cl, late).closing = cl.closing
    BY <1>0, <1>2, Zenon DEF Sessions
  <2> QED
    BY <1>2, <2>1 DEF Steady
<1>3. CASE /\ ~cl.closing /\ Room(cl, TRUE)
           /\ KeepAlive(cl, late) = [Queue(cl, Control("ping")) EXCEPT !.ping = TRUE]
  <2> DEFINE q == Queue(cl, Control("ping"))
  <2>1. q \in Sessions /\ q = [cl EXCEPT !.tx = Append(cl.tx, Control("ping"))]
    BY <1>0, <1>3, ControlTypes, QueueTypes DEF Bounded
  <2>2. q.phase = cl.phase /\ q.closing = cl.closing
    BY <1>0, <2>1, Zenon DEF Sessions
  <2> HIDE DEF q
  <2>3. /\ KeepAlive(cl, late).phase = cl.phase
        /\ KeepAlive(cl, late).closing = cl.closing
    BY <1>3, <2>1, <2>2, Zenon DEF Sessions, q
  <2> QED
    BY <1>3, <2>3 DEF Steady
<1> QED
  BY <1>1, <1>2, <1>3, Zenon DEF KeepAlive, Producing

LEMMA FlushSays ==
  ASSUME NEW c \in Clients, NEW cl \in Bounded, Says(cl),
         net \in [Clients -> Seq(Messages)],
         \A d \in Clients : Len(net[d]) <= NetCapacity
  PROVE  Says(Flush(cl, c))
<1> DEFINE new == Flush(cl, c)
           out == Flushed(cl, c)[c]
<1>1. /\ out \o new.tx = net[c] \o cl.tx /\ new.closing = cl.closing
      /\ \/ new = cl
         \/ ~cl.remove /\ new.remove = (cl.closing /\ new.tx = <<>>)
  BY FlushMoves
<1>2. /\ new.tx \in Seq(Messages) /\ out \in Seq(Messages)
      /\ net[c] \in Seq(Messages) /\ cl.tx \in Seq(Messages)
  <2>1. new \in Bounded /\ out \in Seq(Messages)
    BY FlushKeeps DEF Keeps
  <2> HIDE DEF new, out
  <2> QED
    BY <2>1, Zenon DEF Bounded, Sessions
<1> HIDE DEF new, out
<1>3. ASSUME new.closing, ~new.remove, new # cl
      PROVE  new.tx # <<>> /\ new.tx[Len(new.tx)].kind = "farewell"
  <2>1. new.tx # <<>> /\ cl.tx # <<>> /\ cl.tx[Len(cl.tx)].kind = "farewell"
    BY <1>1, <1>3 DEF Says
  <2>2. /\ (net[c] \o cl.tx)[Len(net[c] \o cl.tx)] = cl.tx[Len(cl.tx)]
        /\ (out \o new.tx)[Len(out \o new.tx)] = new.tx[Len(new.tx)]
    BY <1>2, <2>1, LastOfConcat
  <2> QED
    BY <1>1, <2>1, <2>2
<1> QED
  BY <1>3 DEF Says, new

\* One turn of the first loop, before the client is left.
LEMMA TurnSays ==
  ASSUME TypeOK, NEW late \in BOOLEAN, Says(clients[at])
  PROVE  LET flushed == Flush(clients[at], at)
             cl      == KeepAlive(ProduceState(ProduceListing(flushed)), late)
         IN  /\ cl \in Sessions /\ Says(cl)
             /\ cl.phase = clients[at].phase /\ cl.closing = clients[at].closing
             /\ clients[at].closing => cl = flushed
<1> DEFINE flushed == Flush(clients[at], at)
           listing == ProduceListing(flushed)
           stated  == ProduceState(listing)
           cl      == KeepAlive(stated, late)
<1>1. /\ clients[at] \in Bounded /\ at \in Clients
      /\ net \in [Clients -> Seq(Messages)]
      /\ \A d \in Clients : Len(net[d]) <= NetCapacity
  BY TypeClients DEF TypeOK
<1>2. /\ flushed \in Bounded /\ Says(flushed)
      /\ flushed.phase = clients[at].phase
      /\ flushed.closing = clients[at].closing
  BY <1>1, FlushKeeps, FlushMoves, FlushSays DEF Keeps
<1> HIDE DEF flushed
<1>3. listing \in Bounded /\ Steady(flushed, listing) /\ Says(listing)
  <2>1. listing \in Bounded /\ Steady(flushed, listing)
    BY <1>2, ProduceListingKeeps, ProduceListingSteady DEF Keeps
  <2> QED
    BY <1>2, <2>1 DEF Steady, Says
<1> HIDE DEF listing
<1>4. stated \in Bounded /\ Steady(listing, stated) /\ Says(stated)
  <2>1. stated \in Bounded /\ Steady(listing, stated)
    BY <1>3, ProduceStateOwes, ProduceStateSteady DEF Owes
  <2> QED
    BY <1>3, <2>1 DEF Steady, Says
<1> HIDE DEF stated
<1>5. cl \in Sessions /\ Steady(stated, cl) /\ Says(cl)
  <2>1. cl \in Sessions /\ Steady(stated, cl)
    BY <1>4, KeepAliveAnswers, KeepAliveSteady DEF Answers
  <2> QED
    BY <1>4, <2>1 DEF Steady, Says
<1> HIDE DEF cl
<1> QED
  BY <1>2, <1>3, <1>4, <1>5 DEF Steady, cl, stated, listing, flushed

LEMMA LeaveBye ==
  ASSUME TypeOK, ByeInv, InboxInv, NEW cl \in Sessions, NEW states,
         Leave(cl, states), noise' = noise, Says(cl),
         cl.phase = clients[at].phase, cl.closing = clients[at].closing
  PROVE  ByeInv' /\ InboxInv'
<1>1. /\ clients' = [clients EXCEPT ![at] = IF cl.remove THEN Free ELSE cl]
      /\ inbox' = IF cl.remove THEN [inbox EXCEPT ![at] = <<>>] ELSE inbox
      /\ peer' = IF cl.remove THEN [peer EXCEPT ![at] = "none"] ELSE peer
      /\ at \in Clients
  BY DEF Leave, TypeOK
<1>2. ASSUME NEW c \in Clients, c # at
      PROVE  /\ clients'[c] = clients[c] /\ inbox'[c] = inbox[c]
             /\ peer'[c] = peer[c]
  BY <1>1, <1>2 DEF TypeOK
<1>3. CASE cl.remove
  <2>1. clients'[at] = Free /\ inbox'[at] = <<>>
    BY <1>1, <1>3 DEF TypeOK
  <2>2. Says(Free) /\ Phases(Free)' /\ ~Free.closing /\ Len(<<>>) = 0
    BY DEF Free, Says, Phases
  <2>3. ByeInv'
    BY <1>2, <2>1, <2>2 DEF ByeInv, Phases
  <2>4. InboxInv'
    <3> SUFFICES ASSUME NEW c \in Clients, NEW i \in 1 .. Len(inbox'[c])
                 PROVE  /\ inbox'[c][i] \in {"bad", "garbled"} => peer'[c] = "rude"
                        /\ inbox'[c][i] = "fin" => peer'[c] = "gone"
                        /\ inbox'[c][i] = "noise" =>
                             i = 1 /\ clients'[c].phase \in {"clientHello", "handshake"}
      BY DEF InboxInv
    <3>1. c # at
      BY <2>1, <2>2
    <3> QED
      BY <1>2, <3>1 DEF InboxInv
  <2> QED
    BY <2>3, <2>4
<1>4. CASE ~cl.remove
  <2>1. clients'[at] = cl /\ inbox' = inbox /\ peer' = peer
    BY <1>1, <1>4 DEF TypeOK
  <2>2. Phases(cl)'
    BY <1>1 DEF ByeInv, Phases
  <2>3. ByeInv'
    BY <1>2, <1>4, <2>1, <2>2 DEF ByeInv, Phases
  <2>4. InboxInv'
    BY <1>2, <2>1 DEF InboxInv
  <2> QED
    BY <2>3, <2>4
<1> QED
  BY <1>3, <1>4

LEMMA ReadFrameBye ==
  ASSUME TypeOK, ByeInv, InboxInv, ReadFrame
  PROVE  ByeInv' /\ InboxInv'
<1>0. PICK f, old, new : /\ f = Head(inbox[at]) /\ old = clients[at]
                         /\ new = Handle(old, f)
  OBVIOUS
<1>1. /\ at \in Clients /\ old \in Sessions /\ inbox[at] # <<>>
      /\ inbox[at] \in Seq(Frames \cup {"pong", "fin"})
      /\ clients' = [clients EXCEPT ![at] = new]
      /\ inbox' = [inbox EXCEPT ![at] = Tail(inbox[at])]
      /\ UNCHANGED <<noise, peer>>
  BY <1>0 DEF TypeOK, ReadFrame
<1>2. /\ f = inbox[at][1] /\ 1 \in 1 .. Len(inbox[at])
      /\ Len(Tail(inbox[at])) = Len(inbox[at]) - 1 /\ Len(inbox[at]) \in Nat
      /\ \A i \in 1 .. Len(Tail(inbox[at])) : Tail(inbox[at])[i] = inbox[at][i + 1]
  BY <1>0, <1>1, HeadTailProperties, EmptySeq, LenProperties
<1>3. /\ f \in {"bad", "garbled"} => peer[at] = "rude"
      /\ f = "fin" => peer[at] = "gone"
      /\ f = "noise" => old.phase \in {"clientHello", "handshake"}
  BY <1>0, <1>1, <1>2 DEF InboxInv
<1>4. /\ Says(old) /\ Phases(old)
      /\ old.closing /\ old.remove => peer[at] \in {"gone", "rude"}
  BY <1>0, <1>1 DEF ByeInv
<1>5. Closes(old, f, new) /\ Says(new)
  BY <1>0, <1>1, <1>4, HandleCloses, HandleAnswers, AnswersSays
<1>6. new.closing /\ new.remove => peer[at] \in {"gone", "rude"}
  BY <1>3, <1>4, <1>5 DEF Closes
<1>7. ASSUME NEW c \in Clients, c # at
      PROVE  clients'[c] = clients[c] /\ inbox'[c] = inbox[c]
  BY <1>1, <1>7 DEF TypeOK
<1>8. clients'[at] = new /\ inbox'[at] = Tail(inbox[at])
  BY <1>1 DEF TypeOK
<1>9. Phases(new)'
  BY <1>1, <1>5 DEF Closes, Phases
<1>10. ByeInv'
  BY <1>1, <1>5, <1>6, <1>7, <1>8, <1>9 DEF ByeInv, Phases
<1>11. InboxInv'
  <2> SUFFICES ASSUME NEW c \in Clients, NEW i \in 1 .. Len(inbox'[c])
               PROVE  /\ inbox'[c][i] \in {"bad", "garbled"} => peer[c] = "rude"
                      /\ inbox'[c][i] = "fin" => peer[c] = "gone"
                      /\ inbox'[c][i] = "noise" =>
                           i = 1 /\ clients'[c].phase \in {"clientHello", "handshake"}
    BY <1>1 DEF InboxInv
  <2>1. CASE c # at
    BY <1>7, <2>1 DEF InboxInv
  <2>2. CASE c = at
    <3>1. i \in 1 .. Len(Tail(inbox[at])) /\ inbox'[c][i] = Tail(inbox[at])[i]
      BY <1>8, <2>2
    <3>2. i + 1 \in 1 .. Len(inbox[at]) /\ i + 1 # 1
      BY <1>2, <3>1
    <3>3. inbox'[c][i] = inbox[at][i + 1]
      BY <1>2, <3>1
    <3> QED
      BY <1>1, <2>2, <3>2, <3>3 DEF InboxInv
  <2> QED
    BY <2>1, <2>2
<1> QED
  BY <1>10, <1>11

LEMMA PeersBye ==
  ASSUME TypeOK, ByeInv, InboxInv, NEW c \in Clients,
         \/ \E f \in Openings \cup Requests : PeerSends(c, f)
         \/ PeerShakesHands(c)
         \/ \E to \in {"gone", "mute"} : PeerTurns(c, to)
         \/ PeerReads(c)
  PROVE  ByeInv' /\ InboxInv'
<1> DEFINE S == Frames \cup {"pong", "fin"}
<1>0. /\ inbox \in [Clients -> Seq(S)] /\ peer \in [Clients -> {"none", "polite", "rude", "mute", "gone"}]
      /\ UNCHANGED <<clients, noise>>
  BY DEF TypeOK, PeerSends, PeerShakesHands, PeerTurns, PeerReads
\* One more frame, and a peer that fits it.
<1>1. ASSUME NEW f \in S, f # "noise",
             inbox' = [inbox EXCEPT ![c] = Append(@, f)],
             \/ peer' = peer
             \/ /\ peer[c] = "polite"
                /\ peer'[c] \in {"rude", "mute", "gone"}
                /\ \A d \in Clients : d # c => peer'[d] = peer[d],
             f \in {"bad", "garbled"} => peer'[c] = "rude",
             f = "fin" => peer'[c] = "gone"
      PROVE  ByeInv' /\ InboxInv'
  <2>1. ByeInv'
    BY <1>0, <1>1 DEF ByeInv, Phases
  <2>2. InboxInv'
    <3> SUFFICES ASSUME NEW d \in Clients, NEW i \in 1 .. Len(inbox'[d])
                 PROVE  /\ inbox'[d][i] \in {"bad", "garbled"} => peer'[d] = "rude"
                        /\ inbox'[d][i] = "fin" => peer'[d] = "gone"
                        /\ inbox'[d][i] = "noise" =>
                             i = 1 /\ clients[d].phase \in {"clientHello", "handshake"}
      BY <1>0 DEF InboxInv
    <3>1. CASE d # c
      <4>1. inbox'[d] = inbox[d] /\ peer'[d] = peer[d]
        BY <1>0, <1>1, <3>1
      <4> QED
        BY <4>1 DEF InboxInv
    <3>2. CASE d = c
      <4>1. /\ inbox'[d] = Append(inbox[d], f)
            /\ inbox[d] \in Seq(S)
        BY <1>0, <1>1, <3>2
      <4>2. /\ Len(inbox[d]) \in Nat
            /\ Len(inbox'[d]) = Len(inbox[d]) + 1
            /\ \A k \in 1 .. Len(inbox[d]) : inbox'[d][k] = inbox[d][k]
            /\ inbox'[d][Len(inbox[d]) + 1] = f
        BY <4>1, AppendProperties, LenProperties
      <4>3. CASE i = Len(inbox[d]) + 1
        BY <1>1, <3>2, <4>2, <4>3
      <4>4. CASE i \in 1 .. Len(inbox[d])
        BY <1>1, <3>2, <4>2, <4>4 DEF InboxInv
      <4> QED
        BY <4>2, <4>3, <4>4
    <3> QED
      BY <3>1, <3>2
  <2> QED
    BY <2>1, <2>2
<1>2. ASSUME NEW f \in Openings \cup Requests, PeerSends(c, f)
      PROVE  ByeInv' /\ InboxInv'
  <2>1. f \in S /\ f # "noise" /\ f # "fin"
    BY SessionAssumptions DEF Frames
  <2>2. /\ inbox' = [inbox EXCEPT ![c] = Append(@, f)]
        /\ peer[c] \in {"polite", "rude"}
        /\ peer' = [peer EXCEPT ![c] = IF f \in {"garbled", "bad"} THEN "rude" ELSE @]
    BY <1>2 DEF PeerSends
  <2>3. CASE peer[c] = "rude" \/ f \notin {"garbled", "bad"}
    <3>1. peer' = peer
      BY <1>0, <2>2, <2>3
    <3>2. f \in {"bad", "garbled"} => peer'[c] = "rude"
      BY <2>3, <3>1
    <3> QED
      BY <1>1, <2>1, <2>2, <3>1, <3>2
  <2>4. CASE peer[c] = "polite" /\ f \in {"garbled", "bad"}
    <3>1. peer'[c] = "rude" /\ \A d \in Clients : d # c => peer'[d] = peer[d]
      BY <1>0, <2>2, <2>4
    <3> QED
      BY <1>1, <2>1, <2>2, <2>4, <3>1
  <2> QED
    BY <2>2, <2>3, <2>4
<1>3. CASE PeerShakesHands(c)
  <2>1. /\ inbox' = [inbox EXCEPT ![c] = <<"noise">>] /\ UNCHANGED peer
        /\ clients[c].phase \in {"clientHello", "handshake"}
    BY <1>3 DEF PeerShakesHands
  <2>2. ByeInv'
    BY <1>0, <2>1 DEF ByeInv, Phases
  <2>3. InboxInv'
    <3> SUFFICES ASSUME NEW d \in Clients, NEW i \in 1 .. Len(inbox'[d])
                 PROVE  /\ inbox'[d][i] \in {"bad", "garbled"} => peer[d] = "rude"
                        /\ inbox'[d][i] = "fin" => peer[d] = "gone"
                        /\ inbox'[d][i] = "noise" =>
                             i = 1 /\ clients[d].phase \in {"clientHello", "handshake"}
      BY <1>0, <2>1 DEF InboxInv
    <3>1. CASE d # c
      <4>1. inbox'[d] = inbox[d]
        BY <1>0, <2>1, <3>1
      <4> QED
        BY <4>1 DEF InboxInv
    <3>2. CASE d = c
      <4>1. inbox'[d] = <<"noise">>
        BY <1>0, <2>1, <3>2
      <4>2. Len(<<"noise">>) = 1 /\ <<"noise">>[1] = "noise"
        OBVIOUS
      <4>3. i = 1 /\ inbox'[d][i] = "noise"
        BY <4>1, <4>2
      <4> QED
        BY <2>1, <3>2, <4>3
    <3> QED
      BY <3>1, <3>2
  <2> QED
    BY <2>2, <2>3
<1>4. ASSUME NEW to \in {"gone", "mute"}, PeerTurns(c, to)
      PROVE  ByeInv' /\ InboxInv'
  <2>1. /\ peer[c] = "polite" /\ peer'[c] = to
        /\ \A d \in Clients : d # c => peer'[d] = peer[d]
    BY <1>0, <1>4 DEF PeerTurns
  <2>2. CASE to = "gone"
    <3>1. inbox' = [inbox EXCEPT ![c] = Append(@, "fin")]
      BY <1>4, <2>2 DEF PeerTurns
    <3> QED
      BY <1>1, <2>1, <2>2, <3>1
  <2>3. CASE to = "mute"
    <3>1. inbox' = inbox
      BY <1>4, <2>3 DEF PeerTurns
    <3>2. ByeInv'
      BY <1>0, <2>1 DEF ByeInv, Phases
    <3>3. InboxInv'
      BY <1>0, <2>1, <3>1 DEF InboxInv
    <3> QED
      BY <3>2, <3>3
  <2> QED
    BY <2>2, <2>3
<1>5. CASE PeerReads(c)
  <2>1. /\ UNCHANGED peer
        /\ \/ inbox' = inbox
           \/ inbox' = [inbox EXCEPT ![c] = Append(@, "pong")]
    BY <1>5 DEF PeerReads
  <2>2. CASE inbox' = inbox
    BY <1>0, <2>1, <2>2 DEF ByeInv, InboxInv, Phases
  <2>3. CASE inbox' = [inbox EXCEPT ![c] = Append(@, "pong")]
    BY <1>1, <2>1, <2>3
  <2> QED
    BY <2>1, <2>2, <2>3
<1> QED
  BY <1>2, <1>3, <1>4, <1>5

LEMMA RestBye ==
  ASSUME TypeOK, ByeInv, InboxInv,
         \/ Distribute \/ (\E n \in 0 .. MaxConnections : Accept(n))
         \/ SendFails \/ Restart
  PROVE  ByeInv' /\ InboxInv'
<1>0. Says(Free) /\ Free.phase = "data" /\ ~Free.closing /\ Len(<<>>) = 0
  BY DEF Free, Says
<1>1. CASE Distribute
  <2>1. /\ UNCHANGED <<inbox, peer, noise>>
        /\ \A c \in Clients : /\ clients'[c].tx = clients[c].tx
                              /\ clients'[c].closing = clients[c].closing
                              /\ clients'[c].remove = clients[c].remove
                              /\ clients'[c].phase = clients[c].phase
    BY <1>1 DEF Distribute, world, TypeOK, Sessions
  <2>2. ByeInv'
    BY <2>1 DEF ByeInv, Says, Phases
  <2>3. InboxInv'
    BY <2>1 DEF InboxInv
  <2> QED
    BY <2>2, <2>3
<1>2. ASSUME NEW n \in 0 .. MaxConnections, Accept(n)
      PROVE  ByeInv' /\ InboxInv'
  <2>0. /\ Says(Accepted) /\ ~Accepted.closing
        /\ ~noise => Accepted.phase = "data"
    BY DEF Accepted, Free, Says
  <2>1. /\ noise' = noise
        /\ \A c \in Clients :
             IF c \in Taken(n)
               THEN clients'[c] = Accepted /\ inbox'[c] = <<>>
               ELSE /\ clients'[c] = clients[c] /\ inbox'[c] = inbox[c]
                    /\ peer'[c] = peer[c]
    BY <1>2 DEF Accept
  <2> HIDE DEF Accepted
  <2>2. ByeInv'
    BY <2>0, <2>1 DEF ByeInv, Phases
  <2>3. InboxInv'
    <3> SUFFICES ASSUME NEW c \in Clients, NEW i \in 1 .. Len(inbox'[c])
                 PROVE  /\ inbox'[c][i] \in {"bad", "garbled"} => peer'[c] = "rude"
                        /\ inbox'[c][i] = "fin" => peer'[c] = "gone"
                        /\ inbox'[c][i] = "noise" =>
                             i = 1 /\ clients'[c].phase \in {"clientHello", "handshake"}
      BY DEF InboxInv
    <3>1. c \notin Taken(n)
      BY <1>0, <2>1
    <3> QED
      BY <2>1, <3>1 DEF InboxInv
  <2> QED
    BY <2>2, <2>3
<1>3. CASE SendFails
  <2>1. /\ UNCHANGED <<inbox, peer, noise>> /\ peer[at] = "gone" /\ at \in Clients
        /\ clients' = [clients EXCEPT ![at] = [clients[at] EXCEPT !.remove = TRUE]]
    BY <1>3 DEF SendFails, world, TypeOK
  <2>2. \A c \in Clients : clients[c] \in Sessions
    BY DEF TypeOK
  <2>3. \A c \in Clients : c # at => clients'[c] = clients[c]
    BY <2>1 DEF TypeOK
  <2>4. /\ clients'[at].remove
        /\ clients'[at].closing = clients[at].closing
        /\ clients'[at].phase = clients[at].phase
    <3>1. clients'[at] = [clients[at] EXCEPT !.remove = TRUE]
      BY <2>1 DEF TypeOK
    <3> QED
      BY <2>1, <2>2, <3>1 DEF Sessions
  <2>5. ByeInv'
    BY <2>1, <2>3, <2>4 DEF ByeInv, Says, Phases
  <2>6. InboxInv'
    BY <2>1, <2>3, <2>4 DEF InboxInv
  <2> QED
    BY <2>5, <2>6
<1>4. CASE Restart
  <2>1. \A c \in Clients : clients'[c] = Free /\ inbox'[c] = <<>>
    BY <1>4 DEF Restart
  <2>2. ByeInv'
    BY <1>0, <2>1 DEF ByeInv, Phases
  <2>3. InboxInv'
    BY <1>0, <2>1 DEF InboxInv
  <2> QED
    BY <2>2, <2>3
<1> QED
  BY <1>1, <1>2, <1>3, <1>4

LEMMA TurnBye ==
  ASSUME TypeOK, ByeInv, InboxInv,
         FinishClient \/ \E late \in BOOLEAN : Service(late)
  PROVE  ByeInv' /\ InboxInv'
<1>1. /\ at \in Clients /\ clients[at] \in Bounded /\ Says(clients[at])
      /\ net \in [Clients -> Seq(Messages)]
      /\ \A d \in Clients : Len(net[d]) <= NetCapacity
  BY TypeClients DEF TypeOK, ByeInv
<1>2. ASSUME NEW late \in BOOLEAN, Service(late)
      PROVE  ByeInv' /\ InboxInv'
  <2>1. PICK cl :
          /\ cl = KeepAlive(ProduceState(ProduceListing(Flush(clients[at], at))), late)
          /\ \E states : Leave(cl, states)
          /\ noise' = noise
    BY <1>2 DEF Service
  <2>2. /\ cl \in Sessions /\ Says(cl)
        /\ cl.phase = clients[at].phase /\ cl.closing = clients[at].closing
    BY <1>1, <2>1, TurnSays
  <2> QED
    BY <2>1, <2>2, LeaveBye
<1>3. CASE FinishClient
  <2>1. PICK cl : /\ cl = Flush(clients[at], at)
                  /\ \E states : Leave(cl, states)
                  /\ noise' = noise
    BY <1>3 DEF FinishClient
  <2>2. /\ cl \in Sessions /\ Says(cl)
        /\ cl.phase = clients[at].phase /\ cl.closing = clients[at].closing
    BY <1>1, <2>1, FlushSays, FlushKeeps, FlushMoves DEF Keeps, Bounded
  <2> QED
    BY <2>1, <2>2, LeaveBye
<1> QED
  BY <1>2, <1>3

LEMMA NextBye == TypeOK /\ ByeInv /\ InboxInv /\ [Next]_vars => ByeInv' /\ InboxInv'
<1> SUFFICES ASSUME TypeOK, ByeInv, InboxInv, [Next]_vars
             PROVE  ByeInv' /\ InboxInv'
  OBVIOUS
<1>1. ASSUME UNCHANGED <<clients, noise, inbox, peer>>
      PROVE  ByeInv' /\ InboxInv'
  BY <1>1 DEF ByeInv, InboxInv, Phases
<1>2. CASE UNCHANGED vars
  BY <1>1, <1>2 DEF vars
<1>3. CASE Tell \/ \E e \in Changing : Commit(e)
  BY <1>1, <1>3 DEF Tell, Commit, world
<1> QED
  BY <1>2, <1>3, RestBye, TurnBye, ReadFrameBye, PeersBye DEF Next, Server

\* A client that is closed although its peer is there is left by a flush that
\* emptied its queue, and the end of its queue was the farewell.
LEMMA ClosedAfterFarewell ==
  ASSUME TypeOK, ByeInv, NEW c \in Clients,
         clients[c].open, clients[c].closing, ~clients[c].remove, at = c,
         NEW cl, NEW states, Leave(cl, states), ~clients'[c].open,
         cl = Flush(clients[c], c), net' = Flushed(clients[c], c)
  PROVE  net'[c] # <<>> /\ net'[c][Len(net'[c])].kind = "farewell"
<1> DEFINE old == clients[c]
<1>1. /\ old \in Bounded /\ Says(old) /\ old.tx \in Seq(Messages)
      /\ net \in [Clients -> Seq(Messages)] /\ net[c] \in Seq(Messages)
      /\ \A d \in Clients : Len(net[d]) <= NetCapacity
  BY TypeClients DEF TypeOK, ByeInv, Sessions
<1>2. /\ Keeps(old, cl) /\ Flushed(old, c)[c] \in Seq(Messages)
      /\ Flushed(old, c)[c] \o cl.tx = net[c] \o old.tx
      /\ cl.remove = (old.closing /\ cl.tx = <<>>)
  BY <1>1, FlushKeeps, FlushMoves
<1>3. cl.remove
  <2>1. clients'[c] = IF cl.remove THEN Free ELSE cl
    BY DEF Leave, TypeOK
  <2> QED
    BY <1>2, <2>1 DEF Keeps
<1>4. net'[c] = net[c] \o old.tx
  <2>1. cl.tx = <<>> /\ net'[c] \in Seq(Messages)
    BY <1>2, <1>3
  <2>2. net'[c] \o <<>> = net'[c]
    BY <2>1, ConcatEmptySeq
  <2> QED
    BY <1>2, <2>1, <2>2
<1>5. old.tx # <<>> /\ old.tx[Len(old.tx)].kind = "farewell"
  BY <1>1 DEF Says
<1> QED
  BY <1>1, <1>4, <1>5, LastOfConcat

\* A session that is closed once its answer is written has that answer as its
\* last word, for every number of clients, every capacity of a queue and of the
\* network, and whatever a polite or a silent peer does.
THEOREM FarewellsAreSent == Spec => FarewellIsSent
<1>1. Init => ByeInv /\ InboxInv
  BY DEF Init, ByeInv, InboxInv, Says, Phases, Free
<1>2. TypeOK /\ ByeInv /\ [Next]_vars =>
        [\A c \in Clients :
           /\ clients[c].open /\ clients[c].closing
           /\ ~clients[c]'.open
           /\ peer[c] \notin {"gone", "rude"}
           /\ restarts' = restarts
           => net'[c] # <<>> /\ net'[c][Len(net'[c])].kind = "farewell"]_vars
  <2> SUFFICES ASSUME TypeOK, ByeInv, Next, NEW c \in Clients,
                      clients[c].open, clients[c].closing, ~clients'[c].open,
                      peer[c] \notin {"gone", "rude"}, restarts' = restarts
               PROVE  net'[c] # <<>> /\ net'[c][Len(net'[c])].kind = "farewell"
    OBVIOUS
  <2>0. ~clients[c].remove /\ clients[c] \in Sessions /\ at \in Clients
    BY DEF ByeInv, TypeOK
  <2>1. ASSUME clients'[c].open = clients[c].open
        PROVE  FALSE
    BY <2>1
  <2>2. ASSUME NEW late \in BOOLEAN, Service(late)
        PROVE  net'[c] # <<>> /\ net'[c][Len(net'[c])].kind = "farewell"
    <3>1. at = c
      BY <2>1, <2>2 DEF Service, Leave, TypeOK
    <3>2. PICK cl, states :
            /\ cl = KeepAlive(ProduceState(ProduceListing(Flush(clients[at], at))), late)
            /\ Leave(cl, states) /\ net' = Flushed(clients[at], at)
      BY <2>2 DEF Service
    <3>3. cl = Flush(clients[c], c)
      BY <3>1, <3>2, TurnSays DEF ByeInv
    <3> QED
      BY <2>0, <3>1, <3>2, <3>3, ClosedAfterFarewell
  <2>3. CASE FinishClient
    <3>1. at = c
      BY <2>1, <2>3 DEF FinishClient, Leave, TypeOK
    <3>2. PICK cl, states : /\ cl = Flush(clients[at], at)
                            /\ Leave(cl, states) /\ net' = Flushed(clients[at], at)
      BY <2>3 DEF FinishClient
    <3> QED
      BY <2>0, <3>1, <3>2, ClosedAfterFarewell
  <2>4. CASE Distribute
    BY <2>1, <2>4 DEF Distribute, TypeOK, Sessions
  <2>5. ASSUME NEW n \in 0 .. MaxConnections, Accept(n)
        PROVE  FALSE
    BY <2>1, <2>5 DEF Accept, Taken
  <2>6. CASE ReadFrame
    <3>1. clients' = [clients EXCEPT ![at] = Handle(clients[at], Head(inbox[at]))]
      BY <2>6 DEF ReadFrame
    <3>2. CASE at = c
      <4>1. Keeps(clients[c], clients'[c])
        BY <2>6, <3>2, TypeClients, HandleKeeps DEF ReadFrame, TypeOK
      <4> QED
        BY <2>1, <4>1 DEF Keeps
    <3>3. CASE at # c
      BY <2>1, <3>1, <3>3 DEF TypeOK
    <3> QED
      BY <3>2, <3>3
  <2>7. CASE SendFails
    <3>1. clients' = [clients EXCEPT ![at] = [clients[at] EXCEPT !.remove = TRUE]]
      BY <2>7 DEF SendFails
    <3>2. /\ clients[at] \in Sessions
          /\ \/ clients'[c] = clients[c]
             \/ clients'[c] = [clients[c] EXCEPT !.remove = TRUE]
      BY <2>0, <3>1 DEF TypeOK
    <3> QED
      BY <2>0, <2>1, <3>2 DEF Sessions
  <2>8. CASE Restart
    BY <2>8 DEF Restart, TypeOK
  <2>9. ASSUME UNCHANGED clients
        PROVE  FALSE
    BY <2>1, <2>9
  <2>10. CASE Tell \/ \E e \in Changing : Commit(e)
    BY <2>9, <2>10 DEF Tell, Commit
  <2>11. ASSUME NEW d \in Clients,
                \/ \E f \in Openings \cup Requests : PeerSends(d, f)
                \/ PeerShakesHands(d)
                \/ \E to \in {"gone", "mute"} : PeerTurns(d, to)
                \/ PeerReads(d)
         PROVE  FALSE
    BY <2>9, <2>11 DEF PeerSends, PeerShakesHands, PeerTurns, PeerReads
  <2> QED
    BY <2>2, <2>3, <2>4, <2>5, <2>6, <2>7, <2>8, <2>10, <2>11 DEF Next, Server
<1> QED
  BY <1>1, <1>2, NextBye, TypeCorrect, PTL DEF Spec, FarewellIsSent
=============================================================================
