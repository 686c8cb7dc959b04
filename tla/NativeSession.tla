---------------------------- MODULE NativeSession ----------------------------
(***************************************************************************)
(* main/ha/native_api_server.c: the sessions of the Native API server.     *)
(*                                                                         *)
(* One task serves every client: it passes the entities the core reported  *)
(* on to the subscribed clients, fills their bounded transmit queues one   *)
(* entity and one state at a time, keeps them alive, accepts, reads a      *)
(* chunk of frames, and flushes.  The core's observer runs on the tasks    *)
(* that commit and shares nothing with the server but s_dirty.             *)
(*                                                                         *)
(* What a client was sent of an entity is either current or has changed in *)
(* the core since it was read.  A frame of a peer is in its inbox once the *)
(* server can read its last byte, and a message leaves a queue with its    *)
(* last byte; NetCapacity messages fit between the socket and the peer's   *)
(* application.  Time is left out: at any of its turns a client is late,   *)
(* the 30 s since its last frame or the 15 s since the ping it was sent    *)
(* being over, or it is not.  Encoding never fails, so                     *)
(* NATIVE_API_SEND_ERROR is left out; select and the setup of a socket do  *)
(* not fail either.  A Restart is what module NativeControl decides.       *)
(***************************************************************************)
EXTENDS Integers, Sequences, FiniteSets

CONSTANTS
  NumClients,     \* NATIVE_API_MAX_CLIENTS
  NumEntities,    \* ENTITY_INDEX_COUNT
  TxCapacity,     \* NATIVE_API_TX_QUEUE_CAPACITY
  NetCapacity,    \* messages the network holds towards a peer
  Modes,          \* values noise_required may take
  Openings,       \* frames a peer may begin with, until the server knows it
  Requests,       \* frames it may send after that
  Changing,       \* entities whose state changes
  MaxFrames, MaxConnections, MaxCommits    \* bounds; one restart per connection

Clients  == 0 .. NumClients - 1
Entities == 0 .. NumEntities - 1
Frames   == {"hello", "subscribe", "list", "info", "set", "ping", "disconnect",
             "disconnected", "noise", "garbled", "bad"}

ASSUME SessionAssumptions ==
  /\ NumClients \in Nat \ {0} /\ NumEntities \in Nat \ {0}
  /\ TxCapacity \in Nat \ {0} /\ NetCapacity \in Nat
  /\ Modes \subseteq BOOLEAN /\ Changing \subseteq Entities
  /\ Openings \cup Requests \subseteq Frames \ {"noise"}
  /\ {MaxFrames, MaxConnections, MaxCommits} \subseteq Nat

NoEntity == -1

VARIABLES
  current,   \* per client, entities whose state queued last is the core's
  telling,   \* the entity whose commit the observers are being told of
  dirty,     \* s_dirty
  noise,     \* s_noise_required
  clients,   \* s_clients
  pc, at,    \* where the server task is, and at which client
  readable,  \* clients whose socket select reported
  wasReady,  \* native_api_noise_is_ready before the chunk was read
  inbox,     \* per client, frames that can be read from its socket
  net,       \* per client, messages on their way to the peer
  peer,      \* per client, how its peer behaves
  listed,    \* per client, entities its peer got since the last end of list
  frames, connections, commits, restarts    \* counted for the bounds

world  == <<inbox, net, peer, listed>>
counts == <<frames, connections, commits, restarts>>
vars == <<current, telling, dirty, noise, clients, pc, at, readable, wasReady,
          inbox, net, peer, listed, frames, connections, commits,
          restarts>>

Message(kind, e) == [kind |-> kind, entity |-> e]
Control(kind)    == Message(kind, NoEntity)

\* The zeroed record of close_client.
Free == [open |-> FALSE, phase |-> "data", tx |-> <<>>, closing |-> FALSE,
         remove |-> FALSE, hello |-> FALSE, subscribed |-> FALSE,
         listing |-> FALSE, next |-> 0, dirty |-> {}, ping |-> FALSE]
Accepted == [Free EXCEPT !.open = TRUE,
                         !.phase = IF noise THEN "clientHello" ELSE "data"]

Init ==
  /\ current = [c \in Clients |-> {}]
  /\ telling = NoEntity
  /\ dirty = {}
  /\ noise \in Modes
  /\ clients = [c \in Clients |-> Free]
  /\ pc = "loop" /\ at = 0
  /\ readable = {}
  /\ wasReady = FALSE
  /\ inbox = [c \in Clients |-> <<>>]
  /\ net = [c \in Clients |-> <<>>]
  /\ peer = [c \in Clients |-> "none"]
  /\ listed = [c \in Clients |-> {}]
  /\ frames = 0 /\ connections = 0 /\ commits = 0 /\ restarts = 0

-----------------------------------------------------------------------------
(* The entity core, as module EntityCore describes it: a commit, then its  *)
(* observers, one commit at a time.                                        *)

Outdate(e) == current' = [c \in Clients |-> current[c] \ {e}]

Commit(e) ==
  /\ telling = NoEntity
  /\ commits < MaxCommits
  /\ commits' = commits + 1
  /\ Outdate(e)
  /\ telling' = e
  /\ UNCHANGED <<dirty, noise, clients, pc, at, readable, wasReady,
                 world, frames, connections, restarts>>

\* core_observer.
Tell ==
  /\ telling # NoEntity
  /\ dirty' = dirty \cup {telling}
  /\ telling' = NoEntity
  /\ UNCHANGED <<current, noise, clients, pc, at, readable, wasReady,
                 world, counts>>

-----------------------------------------------------------------------------
(* The transmit queue of a client.                                         *)

\* Mutant: the capacity is checked one slot late.
RoomForOneMore(cl, control) ==
  /\ ~cl.remove /\ ~cl.closing
  /\ Len(cl.tx) <= IF control THEN TxCapacity ELSE TxCapacity - 1

\* reserve_tx_slot: the last slot is kept for control frames.
Room(cl, control) ==
  /\ ~cl.remove /\ ~cl.closing
  /\ Len(cl.tx) < IF control THEN TxCapacity ELSE TxCapacity - 1

Queue(cl, m) == [cl EXCEPT !.tx = Append(@, m)]

\* queue_frame or queue_raw_frame, and require_control.
Reply(cl, kind) ==
  IF Room(cl, TRUE) THEN Queue(cl, Control(kind))
                    ELSE [cl EXCEPT !.remove = TRUE]

-----------------------------------------------------------------------------
(* The frames of a client.                                                 *)

\* Mutant: requests after a disconnect in the same chunk are still answered.
HandleFrameWhileClosing(cl, f) ==
  CASE f \in {"hello", "ping"} -> Reply(cl, "reply")
    [] f = "disconnect" -> LET r == Reply(cl, "farewell")
                           IN [r EXCEPT !.closing = ~r.remove]
    [] OTHER -> cl

\* handle_frame, except for the commands.
HandleFrame(cl, f) ==
  IF cl.remove \/ cl.closing THEN cl
  ELSE LET heard == [cl EXCEPT !.ping = FALSE] IN
    CASE f = "hello"        -> Reply([heard EXCEPT !.hello = TRUE], "reply")
      [] f = "ping"         -> Reply(heard, "reply")
      [] f = "disconnect"   -> LET r == Reply(heard, "farewell")
                               IN [r EXCEPT !.closing = ~r.remove]
      [] f = "disconnected" -> [heard EXCEPT !.remove = TRUE]
      [] f = "info" /\ cl.hello -> Reply(heard, "reply")
      [] f = "list" /\ cl.hello -> [heard EXCEPT !.listing = TRUE, !.next = 0]
      [] f = "subscribe" /\ cl.hello ->
           [heard EXCEPT !.subscribed = TRUE, !.dirty = Entities]
      [] OTHER -> heard

\* A response that ends the session once it is written.
Reject(cl) ==
  IF Room(cl, TRUE)
    THEN [Queue(cl, Control("farewell"))
            EXCEPT !.closing = TRUE, !.phase = "failed"]
    ELSE [cl EXCEPT !.remove = TRUE, !.phase = "failed"]

\* handle_noise_frame with native_api_noise_process_frame: any payload is a
\* client hello; a wrong handshake is rejected, wrong data drops the client.
HandleNoise(cl, f) ==
  LET heard == [cl EXCEPT !.ping = FALSE] IN
  CASE cl.phase = "clientHello" ->
         [Reply(heard, "noise") EXCEPT !.phase = "handshake"]
    [] cl.phase = "handshake" ->
         IF f = "noise" THEN [Reply(heard, "noise") EXCEPT !.phase = "data"]
                        ELSE Reject(heard)
    [] cl.phase = "data" ->
         IF f \in {"noise", "garbled"}
           THEN [heard EXCEPT !.remove = TRUE, !.phase = "failed"]
           ELSE HandleFrame(heard, f)
    [] OTHER -> cl

\* read_client after native_api_parser_feed or native_api_noise_feed failed.
HandleBad(cl) ==
  IF ~noise \/ (wasReady /\ ~cl.closing) THEN [cl EXCEPT !.remove = TRUE]
  ELSE IF cl.closing THEN cl
  ELSE Reject(cl)

Handle(cl, f) ==
  CASE f = "fin" -> [cl EXCEPT !.remove = TRUE]
    [] f = "bad" -> HandleBad(cl)
    [] OTHER -> IF noise THEN HandleNoise(cl, f) ELSE HandleFrame(cl, f)

\* The frame is a command that reaches the core.
IsCommand(cl, f) ==
  f = "set" /\ cl.phase = "data" /\ cl.hello /\ ~cl.remove /\ ~cl.closing

-----------------------------------------------------------------------------
(* Flushing, producing and keeping alive.                                  *)

Least(S) == CHOOSE x \in S : \A y \in S : x <= y
MinOf(a, b) == IF a < b THEN a ELSE b

\* What flush_client can write now.
Writable(cl, c) == MinOf(Len(cl.tx), NetCapacity - Len(net[c]))

\* flush_client: the client afterwards.
Flush(cl, c) ==
  IF ~cl.open \/ cl.remove THEN cl
  ELSE LET rest == SubSeq(cl.tx, Writable(cl, c) + 1, Len(cl.tx))
       IN [cl EXCEPT !.tx = rest, !.remove = cl.closing /\ rest = <<>>]

\* flush_client: the network afterwards.
Flushed(cl, c) ==
  IF ~cl.open \/ cl.remove THEN net
  ELSE [net EXCEPT ![c] = @ \o SubSeq(cl.tx, 1, Writable(cl, c))]

Producing(cl) == cl.open /\ ~cl.remove /\ ~cl.closing

\* Mutant: the listing goes on although the queue was full.
ProduceListingUnchecked(cl) ==
  IF ~Producing(cl) \/ ~cl.listing THEN cl
  ELSE IF cl.next < NumEntities
    THEN [(IF Room(cl, FALSE)
             THEN Queue(cl, Message("entity", cl.next)) ELSE cl)
            EXCEPT !.next = @ + 1]
  ELSE IF Room(cl, FALSE)
    THEN [Queue(cl, Control("done")) EXCEPT !.listing = FALSE]
  ELSE cl

\* produce_client, the listing: one entity, or its end.
ProduceListing(cl) ==
  IF ~Producing(cl) \/ ~cl.listing \/ ~Room(cl, FALSE) THEN cl
  ELSE IF cl.next < NumEntities
    THEN [Queue(cl, Message("entity", cl.next)) EXCEPT !.next = @ + 1]
    ELSE [Queue(cl, Control("done")) EXCEPT !.listing = FALSE]

\* produce_client sends a state: the first dirty one, as the core has it now.
SendsState(cl) ==
  Producing(cl) /\ cl.subscribed /\ cl.dirty # {} /\ Room(cl, FALSE)

\* Mutant: a state that finds the queue full is taken as sent.
ProduceStateUnchecked(cl) ==
  IF Producing(cl) /\ cl.subscribed /\ cl.dirty # {}
    THEN LET e == Least(cl.dirty) IN
         [(IF Room(cl, FALSE) THEN Queue(cl, Message("state", e)) ELSE cl)
            EXCEPT !.dirty = @ \ {e}]
    ELSE cl

ProduceState(cl) ==
  IF SendsState(cl)
    THEN LET e == Least(cl.dirty)
         IN [Queue(cl, Message("state", e)) EXCEPT !.dirty = @ \ {e}]
    ELSE cl

\* Mutant: a client that says goodbye is still timed out.
KeepAliveClosing(cl, late) ==
  IF ~cl.open \/ cl.remove \/ ~late THEN cl
  ELSE IF ~cl.hello \/ cl.ping THEN [cl EXCEPT !.remove = TRUE]
  ELSE IF Room(cl, TRUE) THEN [Queue(cl, Control("ping")) EXCEPT !.ping = TRUE]
  ELSE cl

\* Mutant: a ping that was not answered is sent again.
KeepAlivePatient(cl, late) ==
  IF ~Producing(cl) \/ ~late THEN cl
  ELSE IF ~cl.hello THEN [cl EXCEPT !.remove = TRUE]
  ELSE IF Room(cl, TRUE) THEN [Queue(cl, Control("ping")) EXCEPT !.ping = TRUE]
  ELSE cl

\* update_keepalive, for a client that is late or is not.
KeepAlive(cl, late) ==
  IF ~Producing(cl) \/ ~late THEN cl
  ELSE IF ~cl.hello \/ cl.ping THEN [cl EXCEPT !.remove = TRUE]
  ELSE IF Room(cl, TRUE) THEN [Queue(cl, Control("ping")) EXCEPT !.ping = TRUE]
  ELSE cl

\* A client is left as cl, with these states current, or closed by close_client
\* if its flag is set.
Leave(cl, states) ==
  /\ clients' = [clients EXCEPT ![at] = IF cl.remove THEN Free ELSE cl]
  /\ inbox' = IF cl.remove THEN [inbox EXCEPT ![at] = <<>>] ELSE inbox
  /\ peer' = IF cl.remove THEN [peer EXCEPT ![at] = "none"] ELSE peer
  /\ current' = [current EXCEPT ![at] = IF cl.remove THEN {} ELSE states]

-----------------------------------------------------------------------------
(* The loop of native_api_server_task.                                     *)

\* Mutant: a client whose queue is not empty is passed over.
DistributeToIdle ==
  /\ pc = "loop"
  /\ dirty' = {}
  /\ clients' = [c \in Clients |->
       LET cl == clients[c] IN
       IF cl.open /\ cl.subscribed /\ ~cl.closing /\ cl.tx = <<>>
         THEN [cl EXCEPT !.dirty = @ \cup dirty]
         ELSE cl]
  /\ pc' = "service" /\ at' = 0
  /\ UNCHANGED <<current, telling, noise, readable, wasReady, world,
                 counts>>

\* distribute_dirty.
Distribute ==
  /\ pc = "loop"
  /\ dirty' = {}
  /\ clients' = [c \in Clients |->
       LET cl == clients[c] IN
       IF cl.open /\ cl.subscribed /\ ~cl.closing
         THEN [cl EXCEPT !.dirty = @ \cup dirty]
         ELSE cl]
  /\ pc' = "service" /\ at' = 0
  /\ UNCHANGED <<current, telling, noise, readable, wasReady, world,
                 counts>>

NextClient(here, then) ==
  IF at + 1 < NumClients THEN pc' = here /\ at' = at + 1
                         ELSE pc' = then /\ at' = 0

\* One client of the first loop: flush, produce, keep alive, close.
Service(late) ==
  /\ pc = "service"
  /\ \E listing \in {ProduceListing(Flush(clients[at], at))} :
     \E cl \in {KeepAlive(ProduceState(listing), late)} :
        /\ Leave(cl, IF SendsState(listing)
                       THEN current[at] \cup {Least(listing.dirty)}
                       ELSE current[at])
        /\ net' = Flushed(clients[at], at)
  /\ NextClient("service", "select")
  /\ UNCHANGED <<telling, dirty, noise, readable, wasReady, listed, counts>>

\* The first n free slots.
Taken(n) == {c \in Clients :
               /\ ~clients[c].open
               /\ Cardinality({d \in Clients : d < c /\ ~clients[d].open}) < n}

\* select, then accept_clients for the n connections that have come in: what
\* finds no free slot is closed at once.
Accept(n) ==
  /\ pc = "select"
  /\ n <= MaxConnections - connections
  /\ connections' = connections + n
  /\ readable' = {c \in Clients : /\ clients[c].open /\ ~clients[c].closing
                                  /\ inbox[c] # <<>>}
  /\ LET new(old, fresh) ==
           [c \in Clients |-> IF c \in Taken(n) THEN fresh ELSE old[c]]
     IN /\ clients' = new(clients, Accepted)
        /\ peer' = new(peer, "polite")
        /\ inbox' = new(inbox, <<>>)
        /\ net' = new(net, <<>>)
        /\ listed' = new(listed, {})
        /\ current' = new(current, {})
  /\ pc' = "read" /\ at' = 0
  /\ UNCHANGED <<telling, dirty, noise, wasReady, frames, commits, restarts>>

\* read_client: a frame of the chunk.  A command is committed and the
\* observers are told before the next frame is looked at.
ReadFrame ==
  /\ \/ pc = "read" /\ at \in readable /\ clients[at].open
        /\ wasReady' = (clients[at].phase = "data")
     \/ pc = "chunk" /\ UNCHANGED wasReady
  /\ inbox[at] # <<>>
  /\ inbox' = [inbox EXCEPT ![at] = Tail(@)]
  /\ clients' = [clients EXCEPT ![at] = Handle(@, Head(inbox[at]))]
  /\ IF IsCommand(clients[at], Head(inbox[at]))
       THEN /\ telling = NoEntity
            /\ \E e \in Changing : Outdate(e) /\ dirty' = dirty \cup {e}
       ELSE UNCHANGED <<current, dirty>>
  /\ pc' = "chunk"
  /\ UNCHANGED <<telling, noise, at, readable, net, peer, listed,
                 counts>>

\* The second loop goes on: flush, and close the client if its flag is set.
FinishClient ==
  /\ \/ pc = "read" /\ ~(at \in readable /\ clients[at].open)
     \/ pc = "chunk"
  /\ \E cl \in {Flush(clients[at], at)} : Leave(cl, current[at])
  /\ net' = Flushed(clients[at], at)
  /\ wasReady' = FALSE
  /\ NextClient("read", "loop")
  /\ readable' = IF pc' = "loop" THEN {} ELSE readable
  /\ UNCHANGED <<telling, dirty, noise, listed, counts>>

\* A write to a peer that is gone fails.
SendFails ==
  /\ pc \in {"service", "read", "chunk"}
  /\ clients[at].open /\ clients[at].tx # <<>>
  /\ peer[at] = "gone"
  /\ clients' = [clients EXCEPT ![at].remove = TRUE]
  /\ UNCHANGED <<current, telling, dirty, noise, pc, at, readable, wasReady,
                 world, counts>>

\* stop_server and start_server, between two loops.
Restart ==
  /\ pc = "loop"
  /\ restarts < connections
  /\ restarts' = restarts + 1
  /\ clients' = [c \in Clients |-> Free]
  /\ dirty' = {}
  /\ noise' \in Modes
  /\ peer' = [c \in Clients |-> "none"]
  /\ inbox' = [c \in Clients |-> <<>>]
  /\ net' = [c \in Clients |-> <<>>]
  /\ UNCHANGED <<current, telling, pc, at, readable, wasReady, listed,
                 frames, connections, commits>>

-----------------------------------------------------------------------------
(* The peers and time.  What the peers have done by the next select is all  *)
(* the server can see, so they do it there.                                *)

\* A peer that sends what its session cannot take is rude from then on.
PeerSends(c, f) ==
  /\ pc = "select"
  /\ clients[c].open
  /\ peer[c] \in {"polite", "rude"}
  /\ f \in IF clients[c].hello \/ inbox[c] # <<>> THEN Requests ELSE Openings
  /\ f = "garbled" => noise
  /\ frames < MaxFrames
  /\ frames' = frames + 1
  /\ inbox' = [inbox EXCEPT ![c] = Append(@, f)]
  /\ peer' = [peer EXCEPT ![c] = IF f \in {"garbled", "bad"} THEN "rude" ELSE @]
  /\ UNCHANGED <<current, telling, dirty, noise, clients, pc, at, readable,
                 wasReady, net, listed, connections, commits, restarts>>

\* The next step of a Noise handshake, which waits for the answer to the last.
PeerShakesHands(c) ==
  /\ pc = "select"
  /\ clients[c].open /\ clients[c].phase \in {"clientHello", "handshake"}
  /\ peer[c] = "polite"
  /\ inbox[c] = <<>>
  /\ inbox' = [inbox EXCEPT ![c] = <<"noise">>]
  /\ UNCHANGED <<current, telling, dirty, noise, clients, pc, at, readable,
                 wasReady, net, peer, listed, counts>>

\* A peer closes its connection or falls silent.
PeerTurns(c, to) ==
  /\ pc = "select"
  /\ clients[c].open
  /\ peer[c] = "polite"
  /\ peer' = [peer EXCEPT ![c] = to]
  /\ inbox' = IF to = "gone"
                THEN [inbox EXCEPT ![c] = Append(@, "fin")] ELSE inbox
  /\ UNCHANGED <<current, telling, dirty, noise, clients, pc, at, readable,
                 wasReady, net, listed, counts>>

\* A message reaches the peer or is lost with it; a peer that still speaks
\* answers a ping.
PeerReads(c) ==
  /\ net[c] # <<>>
  /\ net' = [net EXCEPT ![c] = Tail(@)]
  /\ LET m == Head(net[c]) IN
       /\ listed' = [listed EXCEPT ![c] =
                       CASE m.kind = "entity" -> @ \cup {m.entity}
                         [] m.kind = "done"   -> {}
                         [] OTHER             -> @]
       /\ inbox' = IF m.kind = "ping" /\ clients[c].open /\ peer[c] = "polite"
                     THEN [inbox EXCEPT ![c] = Append(@, "pong")] ELSE inbox
  /\ UNCHANGED <<current, telling, dirty, noise, clients, pc, at, readable,
                 wasReady, peer, counts>>

-----------------------------------------------------------------------------
Server ==
  \/ Distribute \/ (\E late \in BOOLEAN : Service(late))
  \/ \E n \in 0 .. MaxConnections : Accept(n)
  \/ ReadFrame \/ FinishClient

Next ==
  \/ \E e \in Changing : Commit(e)
  \/ Tell
  \/ Server \/ SendFails \/ Restart
  \/ \E c \in Clients :
       \/ \E f \in Openings \cup Requests : PeerSends(c, f)
       \/ PeerShakesHands(c)
       \/ \E to \in {"gone", "mute"} : PeerTurns(c, to)
       \/ PeerReads(c)

Spec == Init /\ [][Next]_vars

\* The task runs, an observer call returns, and the network delivers to a peer
\* that reads.  Time passes: a client does not stay in time for ever.
FairSpec ==
  /\ Spec
  /\ WF_vars(Server) /\ WF_vars(Tell)
  /\ \A c \in Clients : /\ WF_vars(PeerReads(c))
                        /\ SF_vars(at = c /\ Service(TRUE))

-----------------------------------------------------------------------------
Messages == [kind : {"entity", "state"}, entity : Entities] \cup
            [kind : {"reply", "farewell", "noise", "ping", "done"},
             entity : {NoEntity}]
Sessions == [open : BOOLEAN,
             phase : {"clientHello", "handshake", "data", "failed"},
             tx : Seq(Messages), closing : BOOLEAN, remove : BOOLEAN,
             hello : BOOLEAN, subscribed : BOOLEAN, listing : BOOLEAN,
             next : 0 .. NumEntities, dirty : SUBSET Entities,
             ping : BOOLEAN]

\* Type invariant; no transmit queue and no network holds more than it has room
\* for, whichever handler, listing or ping adds to it.
TypeOK ==
  /\ current \in [Clients -> SUBSET Entities]
  /\ telling \in Entities \cup {NoEntity}
  /\ dirty \subseteq Entities
  /\ noise \in BOOLEAN /\ wasReady \in BOOLEAN
  /\ clients \in [Clients -> Sessions]
  /\ \A c \in Clients : Len(clients[c].tx) <= TxCapacity
  /\ pc \in {"loop", "service", "select", "read", "chunk"}
  /\ at \in Clients
  /\ readable \subseteq Clients
  /\ inbox \in [Clients -> Seq(Frames \cup {"pong", "fin"})]
  /\ net \in [Clients -> Seq(Messages)]
  /\ \A c \in Clients : Len(net[c]) <= NetCapacity
  /\ peer \in [Clients -> {"none", "polite", "rude", "mute", "gone"}]
  /\ listed \in [Clients -> SUBSET Entities]
  /\ frames \in Nat /\ connections \in Nat
  /\ commits \in Nat /\ restarts \in Nat

Subscribed(c) == /\ clients[c].open /\ clients[c].subscribed
                 /\ ~clients[c].closing /\ ~clients[c].remove

\* No state is forgotten on its way to a subscriber: the state queued last is
\* the core's, or the entity is still marked, for the client, for the server or
\* in an observer call under way, whatever is lost to full queues and restarts.
StatesAreCurrent ==
  \A c \in Clients, e \in Entities :
    Subscribed(c) =>
      \/ e \in current[c]
      \/ e \in clients[c].dirty \/ e \in dirty \/ telling = e

\* A peer that is told the list of entities is over has been sent all of them,
\* although the listing is spread over many loops, waits for room and may be
\* asked for again half way.
ListIsComplete ==
  \A c \in Clients :
    net[c] # <<>> /\ Head(net[c]).kind = "done" => listed[c] = Entities

\* A session that is closed once its answer is written is closed with that
\* answer as its last word, as long as its peer keeps to the protocol.
FarewellIsSent ==
  [][\A c \in Clients :
       /\ clients[c].open /\ clients[c].closing
       /\ ~clients[c]'.open
       /\ peer[c] \notin {"gone", "rude"}
       /\ restarts' = restarts
       => net'[c] # <<>> /\ net'[c][Len(net'[c])].kind = "farewell"]_vars

\* A subscriber that stays and reads ends up with the core's states, all of
\* them, and none of them still on its way.
UpToDate(c) ==
  /\ current[c] = Entities
  /\ \A i \in DOMAIN clients[c].tx : clients[c].tx[i].kind # "state"
  /\ \A i \in DOMAIN net[c] : net[c][i].kind # "state"

Delivered ==
  \A c \in Clients :
    <>[](Subscribed(c) /\ peer[c] = "polite") => <>[]UpToDate(c)

\* A peer that says nothing any more loses its slot, so that two dead peers do
\* not lock out everybody else.  It has to take what it is sent: the answer to
\* a peer that never reads is discussed in the README.
MuteIsDropped ==
  \A c \in Clients :
    (clients[c].open /\ peer[c] = "mute") ~> ~clients[c].open
=============================================================================
