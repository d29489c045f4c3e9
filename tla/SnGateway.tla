------------------------------ MODULE SnGateway ------------------------------
(***************************************************************************)
(* The MQTT-SN gateway (net/mqtt_sn.rs): one UDP receive loop that handles *)
(* a datagram at a time, a sweeper that expires silent and sleeping        *)
(* clients every few seconds, and one forwarder task per CONNECT that      *)
(* carries the messages of the session to the device.  They share the      *)
(* clients map (address -> SnClient) and the session map of the broker,    *)
(* where any MQTT connection may take the session of a client over.        *)
(*                                                                         *)
(* A DashMap access is one step.  Time is the flag late of an SnClient:    *)
(* its keep-alive (1.5 times) or its announced sleep has run out.          *)
(***************************************************************************)
EXTENDS Integers, Sequences, FiniteSets

CONSTANTS
    Peers,           \* UDP addresses of devices
    Clients,         \* client identifiers
    Topics,          \* topic names
    ShortTopics,     \* the topic names of two bytes
    ShortId,         \* the topic id that the two bytes of a short name spell
    TopicIdMax,      \* the largest topic id; the smallest is 1
    MaxConnections,  \* broker.max_connections
    Others,          \* what the other listeners may add to connections_current
    QueueCap,        \* capacity of a session's channel
    MaxEpochs,       \* bound on the registrations of sessions
    Devices,         \* the CONNECTs devices send: address, client, clean flag
    MaxInputs,       \* bound on what devices, publishers and time do
    None             \* no entry

ASSUME TopicIdMaxPositive == TopicIdMax \in Nat \ {0}
ASSUME DevicesKnown == Devices \subseteq [peer : Peers, id : Clients, clean : BOOLEAN]
ASSUME ShortTopicsKnown ==
    ShortTopics \subseteq Topics /\ ShortId \in [ShortTopics -> 1..TopicIdMax]
ASSUME OthersCounted == Others \subseteq Int
ASSUME EpochsBounded == MaxEpochs \in Nat
ASSUME NoneIsNoPeer == None \notin Peers \cup Clients \cup Topics

VARIABLES
    sessions,   \* SessionManager: client -> [epoch, connected] or None
    epoch,      \* SessionManager.epoch_counter
    subs,       \* subscriptions of each client
    clients,    \* DashMap<SocketAddr, SnClient>
    gauge,      \* what the gateway adds to Metrics.connections_current
    task,       \* what the receive loop and the sweeper are in the middle of
    expired,    \* the clients the sweeper has collected and not yet expired
    visited,    \* the addresses whose session the stopping loop has cleaned
    chan,       \* the channel of each registration: topics of messages
    fwd,        \* the forwarder of each registration
    shutdown,   \* the shutdown signal
    told,       \* the topic ids the device at an address was told
    inputs,     \* how many inputs there were so far
    drift,      \* ghost: the gauge has parted from the sessions
    orphans,    \* ghost: registrations whose SnClient another one displaced
    exhausted,  \* ghost: registrations whose table had no free id
    turned      \* ghost: registrations whose next_topic_id has begun anew

sessionVars == <<sessions, epoch, subs>>
workVars == <<task, expired, visited>>
flowVars == <<chan, fwd>>
ghosts == <<drift, orphans, exhausted, turned>>
vars == <<sessions, epoch, subs, clients, gauge, task, expired, visited, chan, fwd,
          shutdown, told, inputs, drift, orphans, exhausted, turned>>

Epochs == 1..MaxEpochs
TopicIds == 1..TopicIdMax

\* SnClient; ids and names are topic_to_id and id_to_topic (0, None: absent).
SnClient == [id : Clients, epoch : Epochs, clean : BOOLEAN,
             ids : [Topics -> 0..TopicIdMax], names : [TopicIds -> Topics \cup {None}],
             next : TopicIds, sleeping : BOOLEAN, late : BOOLEAN]

\* None is not an entry of either map.
ASSUME NoneIsNoEntry == None \notin SnClient /\ None \notin [epoch : Epochs, connected : BOOLEAN]

\* What a worker has in hand: the arguments of handle_connect after register,
\* or of cleanup_session.
Job == [pc : {"insert", "owns", "unsub", "finish"}, peer : Peers, id : Clients,
        epoch : Epochs, clean : BOOLEAN]
\* The task that runs forward_outbound, before it is spawned too.
Forwarder ==
    [pc : {"none"}] \cup [pc : {"recv", "done"}, peer : Peers, id : Clients]
        \cup [pc : {"lookup"}, peer : Peers, id : Clients, msg : Topics]

Idle == [pc |-> "idle"]
Stopped == [pc |-> "stopped"]
Workers == {"loop", "sweeper"}

Init ==
    /\ sessions = [c \in Clients |-> None]
    /\ epoch = 0
    /\ subs = [c \in Clients |-> {}]
    /\ clients = [p \in Peers |-> None]
    /\ gauge = 0
    /\ task = [w \in Workers |-> Idle]
    /\ expired = {}
    /\ visited = {}
    /\ chan = [e \in Epochs |-> <<>>]
    /\ fwd = [e \in Epochs |-> [pc |-> "none"]]
    /\ shutdown = FALSE
    /\ told = [p \in Peers |-> [t \in Topics |-> 0]]
    /\ inputs = 0
    /\ drift = FALSE
    /\ orphans = {}
    /\ exhausted = {}
    /\ turned = {}

-----------------------------------------------------------------------------
(* SessionManager, as the gateway uses it                                  *)

\* owns
Owns(c, e) == sessions[c] # None /\ sessions[c].epoch = e

\* The session is online and was registered by e.
Online(c, e) == Owns(c, e) /\ sessions[c].connected

\* register: the next epoch, and an entry that replaces any earlier one.
Registered(c) == [sessions EXCEPT ![c] = [epoch |-> epoch + 1, connected |-> TRUE]]

\* Mutant: the test of connected is inverted.
MarkedOfflineMutant(c, e) ==
    IF Owns(c, e) /\ ~sessions[c].connected
    THEN [sessions EXCEPT ![c].connected = FALSE] ELSE sessions

\* mark_offline
MarkedOffline(c, e) ==
    IF Owns(c, e) THEN [sessions EXCEPT ![c].connected = FALSE] ELSE sessions

\* deliver_or_enqueue on the way to a device: a session that is online gets
\* the message in its channel while there is room and a forwarder to read it.
Delivered(t) ==
    [e \in Epochs |->
        IF /\ \E c \in Clients : Online(c, e) /\ t \in subs[c]
           /\ Len(chan[e]) < QueueCap
           /\ fwd[e].pc # "done"
        THEN Append(chan[e], t) ELSE chan[e]]

\* A registration of the gateway, as opposed to one of an MQTT connection.
OfGateway(e) ==
    \/ fwd[e].pc # "none"
    \/ task["loop"].pc = "insert" /\ task["loop"].epoch = e

\* A registration of c displaces an online session of the gateway: the
\* gauge has counted it and nobody is left to count it down.
LeaksCount(c) ==
    sessions[c] # None /\ sessions[c].connected /\ OfGateway(sessions[c].epoch)

CountInput ==
    /\ inputs < MaxInputs
    /\ inputs' = inputs + 1

-----------------------------------------------------------------------------
(* SnClient                                                                *)

NewClient(c, e, clean) ==
    [id |-> c, epoch |-> e, clean |-> clean, ids |-> [t \in Topics |-> 0],
     names |-> [i \in TopicIds |-> None], next |-> 1, sleeping |-> FALSE, late |-> FALSE]

\* touch: last_seen does not count for a client that sleeps.
Touched(s) == IF s.sleeping THEN s ELSE [s EXCEPT !.late = FALSE]

Free(s) == {i \in TopicIds : s.names[i] = None}

Succ(i) == IF i >= TopicIdMax THEN 1 ELSE i + 1
Steps(i, j) == (j - i) % TopicIdMax

\* The first free id from next_topic_id on, round the end.
FirstFree(s) ==
    CHOOSE i \in Free(s) : \A j \in Free(s) : Steps(s.next, i) <= Steps(s.next, j)

\* Mutant: the next id is handed out without a look at whether it is taken.
AssignMutant(s, t) ==
    IF s.ids[t] # 0 THEN s
    ELSE [s EXCEPT !.ids[t] = s.next, !.names[s.next] = t, !.next = Succ(s.next)]

\* assign_topic_id.  A full table is left as it is, but the search has moved
\* next_topic_id once round and one further.
Assign(s, t) ==
    IF s.ids[t] # 0 THEN s
    ELSE IF Free(s) = {} THEN [s EXCEPT !.next = Succ(s.next)]
    ELSE LET i == FirstFree(s)
         IN  [s EXCEPT !.ids[t] = i, !.names[i] = t, !.next = Succ(i)]

\* What UNSUBSCRIBE does to the two maps.
Unassign(s, t) ==
    [s EXCEPT !.ids[t] = 0, !.names = [i \in TopicIds |-> IF i = s.ids[t] THEN None ELSE @[i]]]

\* What assign_topic_id returns: the smallest id when the table was full.
Returned(s, t) == IF s.ids[t] # 0 THEN s.ids[t] ELSE 1

\* An id was wanted for t and the table was full.
Exhausts(s, t) == s.ids[t] = 0 /\ Free(s) = {}

\* next_topic_id passes the largest id on the way to an id for t.
Turns(s, t) == s.ids[t] = 0 /\ Assign(s, t).next <= s.next

\* The topic that a PUBLISH with id i is about; short is the name its two bytes
\* spell, None if the packet is not about a short name.  The table comes first.
Meant(s, i, short) == IF s.names[i] # None THEN s.names[i] ELSE short

-----------------------------------------------------------------------------
(* The receive loop                                                        *)

Ready == task["loop"] = Idle /\ ~shutdown
Known(p) == clients[p] # None
Starts(w, pc, p, c, e, clean) ==
    task' = [task EXCEPT ![w] =
        [pc |-> pc, peer |-> p, id |-> c, epoch |-> e, clean |-> clean]]

\* connections_current, of which others are not the gateway's, has reached the
\* limit.  It is compared after a cast to usize: a negative gauge is huge.
Congested(others) == gauge + others < 0 \/ gauge + others >= MaxConnections

\* handle_connect up to the registration; messages queued for an offline
\* session are drained by register and not used.
Connect(p, c, clean) ==
    /\ Ready
    /\ \E others \in Others : ~Congested(others)
    /\ CountInput /\ epoch < MaxEpochs
    /\ epoch' = epoch + 1
    /\ sessions' = Registered(c)
    /\ drift' = (drift \/ LeaksCount(c))
    /\ Starts("loop", "insert", p, c, epoch + 1, clean)
    /\ UNCHANGED <<subs, clients, gauge, expired, visited, flowVars, shutdown, told, orphans,
                   exhausted, turned>>

\* The rest of handle_connect: count, insert (over any SnClient of the
\* address), CONNACK, spawn the forwarder.
Insert ==
    LET j == task["loop"] IN
    /\ j.pc = "insert"
    /\ gauge' = gauge + 1
    /\ clients' = [clients EXCEPT ![j.peer] = NewClient(j.id, j.epoch, j.clean)]
    /\ orphans' = orphans \cup (IF Known(j.peer) THEN {clients[j.peer].epoch} ELSE {})
    /\ told' = [told EXCEPT ![j.peer] = [t \in Topics |-> 0]]
    /\ fwd' = [fwd EXCEPT ![j.epoch] = [pc |-> "recv", peer |-> j.peer, id |-> j.id]]
    /\ task' = [task EXCEPT !["loop"] = Idle]
    /\ UNCHANGED <<sessionVars, expired, visited, chan, shutdown, inputs, drift, exhausted, turned>>

\* A packet about topic t that the table of the client at p answers: REGACK
\* or SUBACK tells the device the id.  (A device the reply does not reach asks
\* again and is told the same.)
Answer(p, t) ==
    LET s == Assign(Touched(clients[p]), t) IN
    /\ clients' = [clients EXCEPT ![p] = s]
    /\ told' = [told EXCEPT ![p][t] = Returned(s, t)]
    /\ exhausted' = IF Exhausts(clients[p], t) THEN exhausted \cup {s.epoch} ELSE exhausted
    /\ turned' = IF Turns(clients[p], t) THEN turned \cup {s.epoch} ELSE turned

\* The REGISTER arm of handle.
RegisterTopic(p, t) ==
    /\ Ready /\ Known(p) /\ CountInput
    /\ Answer(p, t)
    /\ UNCHANGED <<sessionVars, gauge, workVars, flowVars, shutdown, drift, orphans>>

\* handle_subscribe
Subscribe(p, t) ==
    /\ Ready /\ Known(p) /\ CountInput
    /\ subs' = [subs EXCEPT ![clients[p].id] = @ \cup {t}]
    /\ Answer(p, t)
    /\ UNCHANGED <<sessions, epoch, gauge, workVars, flowVars, shutdown, drift, orphans>>

\* handle_subscribe of a short topic name: SUBACK tells the device the two bytes
\* of the name as the id and the table is not asked.  (told is about the table;
\* a device knows ShortId of a short name without being told.)
SubscribeShort(p, t) ==
    /\ Ready /\ Known(p) /\ CountInput
    /\ subs' = [subs EXCEPT ![clients[p].id] = @ \cup {t}]
    /\ clients' = [clients EXCEPT ![p] = Touched(@)]
    /\ UNCHANGED <<sessions, epoch, gauge, workVars, flowVars, shutdown, told, ghosts>>

\* The UNSUBSCRIBE arm of handle; the device forgets the id when it asks.
Unsubscribe(p, t) ==
    /\ Ready /\ Known(p) /\ CountInput
    /\ subs' = [subs EXCEPT ![clients[p].id] = @ \ {t}]
    /\ clients' = [clients EXCEPT ![p] = Unassign(Touched(@), t)]
    /\ told' = [told EXCEPT ![p][t] = 0]
    /\ UNCHANGED <<sessions, epoch, gauge, workVars, flowVars, shutdown, ghosts>>

\* The PINGREQ and PUBACK arms of handle.
Ping(p) ==
    /\ Ready /\ Known(p)
    /\ clients' = [clients EXCEPT ![p] = Touched(@)]
    /\ UNCHANGED <<sessionVars, gauge, workVars, flowVars, shutdown, told, inputs, ghosts>>

\* handle_publish: an id that the table does not hold is the short topic name
\* its two bytes spell, if the packet says so; otherwise it is answered with
\* INVALID_TOPIC_ID and the message is routed nowhere.
Publish(p, i, short) ==
    LET topic == Meant(clients[p], i, short) IN
    /\ Ready /\ Known(p) /\ CountInput
    /\ clients' = [clients EXCEPT ![p] = Touched(@)]
    /\ chan' = IF topic = None THEN chan ELSE Delivered(topic)
    /\ UNCHANGED <<sessionVars, gauge, workVars, fwd, shutdown, told, ghosts>>

\* DISCONNECT with a duration: the session goes offline, the SnClient stays.
\* The gauge is counted down whether or not the session was online.
Sleep(p) ==
    /\ Ready /\ Known(p) /\ CountInput
    /\ sessions' = MarkedOffline(clients[p].id, clients[p].epoch)
    /\ clients' = [clients EXCEPT ![p] = [@ EXCEPT !.sleeping = TRUE, !.late = FALSE]]
    /\ gauge' = gauge - 1
    /\ drift' = (drift \/ ~Online(clients[p].id, clients[p].epoch))
    /\ UNCHANGED <<epoch, subs, workVars, flowVars, shutdown, told, orphans, exhausted, turned>>

\* Mutant: the SnClient goes and the session is left as it is.
DisconnectMutant(p) ==
    /\ Ready /\ Known(p)
    /\ clients' = [clients EXCEPT ![p] = None]
    /\ UNCHANGED <<sessionVars, gauge, workVars, flowVars, shutdown, told, inputs, ghosts>>

\* DISCONNECT without one: the SnClient goes, then cleanup_session.
Disconnect(p) ==
    /\ Ready /\ Known(p)
    /\ clients' = [clients EXCEPT ![p] = None]
    /\ Starts("loop", "owns", p, clients[p].id, clients[p].epoch, clients[p].clean)
    /\ UNCHANGED <<sessionVars, gauge, expired, visited, flowVars, shutdown, told, inputs,
                   ghosts>>

-----------------------------------------------------------------------------
(* cleanup_session, run by the receive loop and by the sweeper             *)

CleanupOwns(w) ==
    LET j == task[w] IN
    /\ j.pc = "owns"
    /\ task' = [task EXCEPT ![w] =
           IF ~Owns(j.id, j.epoch) THEN Idle
           ELSE [j EXCEPT !.pc = IF j.clean THEN "unsub" ELSE "finish"]]
    /\ UNCHANGED <<sessionVars, clients, gauge, expired, visited, flowVars, shutdown, told,
                   inputs, ghosts>>

\* unsubscribe_all
CleanupUnsubscribe(w) ==
    /\ task[w].pc = "unsub"
    /\ subs' = [subs EXCEPT ![task[w].id] = {}]
    /\ task' = [task EXCEPT ![w].pc = "finish"]
    /\ UNCHANGED <<sessions, epoch, clients, gauge, expired, visited, flowVars, shutdown,
                   told, inputs, ghosts>>

\* remove, which takes the session of whoever has it by now, or mark_offline;
\* then dec_connections.
CleanupFinish(w) ==
    LET j == task[w] IN
    /\ j.pc = "finish"
    /\ sessions' = IF j.clean THEN [sessions EXCEPT ![j.id] = None]
                   ELSE MarkedOffline(j.id, j.epoch)
    /\ gauge' = gauge - 1
    /\ drift' = (drift \/ ~Online(j.id, j.epoch))
    /\ task' = [task EXCEPT ![w] = Idle]
    /\ UNCHANGED <<epoch, subs, clients, expired, visited, flowVars, shutdown, told, inputs,
                   orphans, exhausted, turned>>

-----------------------------------------------------------------------------
(* The sweeper                                                             *)

\* Mutant: only sleepers expire.
OverdueMutant == {p \in Peers : Known(p) /\ clients[p].late /\ clients[p].sleeping}

\* The clients whose keep-alive or sleep has run out.
Overdue == {p \in Peers : Known(p) /\ clients[p].late}

\* A tick of the sweeper.
Scan ==
    /\ task["sweeper"] = Idle
    /\ expired = {}
    /\ ~shutdown
    /\ expired' = {[peer |-> p, id |-> clients[p].id, epoch |-> clients[p].epoch,
                    clean |-> clients[p].clean] : p \in Overdue}
    /\ expired' # {}
    /\ UNCHANGED <<sessionVars, clients, gauge, task, visited, flowVars, shutdown, told,
                   inputs, ghosts>>

\* Expire one of them: whatever SnClient the address has by now is removed.
Expire(r) ==
    /\ task["sweeper"] = Idle
    /\ r \in expired
    /\ expired' = expired \ {r}
    /\ clients' = [clients EXCEPT ![r.peer] = None]
    /\ orphans' = orphans \cup (IF Known(r.peer) THEN {clients[r.peer].epoch} \ {r.epoch} ELSE {})
    /\ Starts("sweeper", "owns", r.peer, r.id, r.epoch, r.clean)
    /\ UNCHANGED <<sessionVars, gauge, visited, flowVars, shutdown, told, inputs, drift,
                   exhausted, turned>>

-----------------------------------------------------------------------------
(* forward_outbound                                                        *)

\* The forwarder returns; its end of the channel goes with it.
Exits(e) ==
    /\ fwd' = [fwd EXCEPT ![e] = [pc |-> "done", peer |-> @.peer, id |-> @.id]]
    /\ chan' = [chan EXCEPT ![e] = <<>>]

\* recv and the check that the session is still owned.
ForwardTake(e) ==
    /\ fwd[e].pc = "recv"
    /\ chan[e] # <<>>
    /\ IF Owns(fwd[e].id, e)
       THEN /\ chan' = [chan EXCEPT ![e] = Tail(@)]
            /\ fwd' = [fwd EXCEPT ![e] =
                   [pc |-> "lookup", peer |-> @.peer, id |-> @.id, msg |-> Head(chan[e])]]
       ELSE Exits(e)
    /\ UNCHANGED <<sessionVars, clients, gauge, workVars, shutdown, told, inputs, ghosts>>

\* Mutant: the sender outlives the entry of a session that is taken over.
ClosedMutant(e) == chan[e] = <<>> /\ sessions[fwd[e].id] = None

\* recv returns None: the queue is empty and the entry that held the sender is
\* gone.
Closed(e) == chan[e] = <<>> /\ ~Owns(fwd[e].id, e)

ForwardClosed(e) ==
    /\ fwd[e].pc = "recv"
    /\ Closed(e)
    /\ Exits(e)
    /\ UNCHANGED <<sessionVars, clients, gauge, workVars, shutdown, told, inputs, ghosts>>

\* The SnClient of the address must still be of this registration; its table
\* gives the id.  A failed send ends the forwarder.
ForwardSend(e) ==
    LET f == fwd[e]
        s == clients[f.peer]
        mine == s # None /\ s.epoch = e
    IN
    /\ f.pc = "lookup"
    /\ clients' = IF mine THEN [clients EXCEPT ![f.peer] = Assign(s, f.msg)] ELSE clients
    /\ exhausted' = IF mine /\ Exhausts(s, f.msg) THEN exhausted \cup {e} ELSE exhausted
    /\ turned' = IF mine /\ Turns(s, f.msg) THEN turned \cup {e} ELSE turned
    /\ \/ mine /\ fwd' = [fwd EXCEPT ![e] = [pc |-> "recv", peer |-> f.peer, id |-> f.id]]
               /\ UNCHANGED chan
       \/ Exits(e)
    /\ UNCHANGED <<sessionVars, gauge, workVars, shutdown, told, inputs, drift, orphans>>

-----------------------------------------------------------------------------
(* The rest of the broker, time and shutdown                               *)

\* An MQTT connection registers the session of c (external to the gateway).
TakeOver(c) ==
    /\ CountInput /\ epoch < MaxEpochs
    /\ epoch' = epoch + 1
    /\ sessions' = Registered(c)
    /\ drift' = (drift \/ LeaksCount(c))
    /\ UNCHANGED <<subs, clients, gauge, workVars, flowVars, shutdown, told, orphans,
                   exhausted, turned>>

\* Some client of the broker publishes to t (external to the gateway).
BrokerPublish(t) ==
    /\ CountInput
    /\ chan' = Delivered(t)
    /\ UNCHANGED <<sessionVars, clients, gauge, workVars, fwd, shutdown, told, ghosts>>

\* The keep-alive or the sleep of the client at p runs out.
Elapse(p) ==
    /\ Known(p) /\ ~clients[p].late /\ CountInput
    /\ clients' = [clients EXCEPT ![p].late = TRUE]
    /\ UNCHANGED <<sessionVars, gauge, workVars, flowVars, shutdown, told, ghosts>>

Shutdown ==
    /\ ~shutdown
    /\ shutdown' = TRUE
    /\ UNCHANGED <<sessionVars, clients, gauge, workVars, flowVars, told, inputs, ghosts>>

\* Mutant: only clean sessions are cleaned up.
ToVisitMutant == {p \in Peers \ visited : Known(p) /\ clients[p].clean}

\* After its loop, run cleans the session of every client in the map.
ToVisit == {p \in Peers \ visited : Known(p)}

StopVisit(p) ==
    /\ shutdown /\ task["loop"] = Idle
    /\ p \in ToVisit
    /\ visited' = visited \cup {p}
    /\ Starts("loop", "owns", p, clients[p].id, clients[p].epoch, clients[p].clean)
    /\ UNCHANGED <<sessionVars, clients, gauge, expired, flowVars, shutdown, told, inputs,
                   ghosts>>

StopDone ==
    /\ shutdown /\ task["loop"] = Idle
    /\ ToVisit = {}
    /\ task' = [task EXCEPT !["loop"] = Stopped]
    /\ UNCHANGED <<sessionVars, clients, gauge, expired, visited, flowVars, shutdown, told,
                   inputs, ghosts>>

-----------------------------------------------------------------------------
Handle(p) ==
    \/ \E d \in Devices : d.peer = p /\ Connect(p, d.id, d.clean)
    \/ \E t \in Topics : RegisterTopic(p, t) \/ Subscribe(p, t) \/ Unsubscribe(p, t)
    \/ \E t \in ShortTopics : SubscribeShort(p, t)
    \/ \E i \in TopicIds : Publish(p, i, None)
    \/ \E t \in ShortTopics : Publish(p, ShortId[t], t)
    \/ Ping(p) \/ Sleep(p) \/ Disconnect(p)

Cleanup(w) == CleanupOwns(w) \/ CleanupUnsubscribe(w) \/ CleanupFinish(w)
Sweep == Scan \/ \E r \in expired : Expire(r)
Forward(e) == ForwardTake(e) \/ ForwardClosed(e) \/ ForwardSend(e)
Stop == (\E p \in Peers : StopVisit(p)) \/ StopDone

Next ==
    \/ \E p \in Peers : Handle(p) \/ Elapse(p)
    \/ Insert
    \/ \E w \in Workers : Cleanup(w)
    \/ Sweep
    \/ \E e \in Epochs : Forward(e)
    \/ \E c \in Clients : TakeOver(c)
    \/ \E t \in Topics : BrokerPublish(t)
    \/ Shutdown
    \/ Stop

\* Tasks that can run do run; devices, publishers and the clock need not.
Fairness ==
    /\ WF_vars(Insert \/ Cleanup("loop") \/ Stop)
    /\ WF_vars(Sweep \/ Cleanup("sweeper"))
    /\ \A e \in Epochs : WF_vars(Forward(e))

Spec == Init /\ [][Next]_vars /\ Fairness

-----------------------------------------------------------------------------
(* Properties                                                              *)

\* The variables have their types.
TypeOK ==
    /\ sessions \in [Clients -> [epoch : Epochs, connected : BOOLEAN] \cup {None}]
    /\ epoch \in 0..MaxEpochs
    /\ subs \in [Clients -> SUBSET Topics]
    /\ clients \in [Peers -> SnClient \cup {None}]
    /\ gauge \in Int
    /\ task \in [Workers -> Job \cup {Idle, Stopped}]
    /\ expired \subseteq [peer : Peers, id : Clients, epoch : Epochs, clean : BOOLEAN]
    /\ visited \subseteq Peers
    /\ chan \in [Epochs -> Seq(Topics)]
    /\ fwd \in [Epochs -> Forwarder]
    /\ told \in [Peers -> [Topics -> 0..TopicIdMax]]

\* The two maps are inverse to each other, and an id the device was told denotes
\* the topic it was told for.
TableHolds ==
    \A p \in Peers : Known(p) =>
        LET s == clients[p]
        IN  /\ \A t \in Topics : s.ids[t] # 0 => s.names[s.ids[t]] = t
            /\ \A i \in TopicIds : s.names[i] # None => s.ids[s.names[i]] = i
            /\ s.epoch \notin exhausted =>
                 \A t \in Topics : told[p][t] # 0 => s.names[told[p][t]] = t

\* A short name that next_topic_id has not come to denotes itself.
ShortNamesHold ==
    \A p \in Peers : Known(p) /\ clients[p].epoch \notin turned =>
        \A t \in ShortTopics :
            ShortId[t] >= clients[p].next => Meant(clients[p], ShortId[t], t) = t

\* The topic ids of every client hold.  topic_to_id and id_to_topic stay inverse
\* to each other, round the end of the ids, across UNSUBSCRIBE and with the
\* forwarder assigning ids of its own (assign_topic_id).  An id of the table
\* that REGACK or SUBACK told the device keeps denoting the same topic until
\* the device unsubscribes or connects anew, so that a PUBLISH with it is
\* routed to the topic the device means; only a table that ran out of ids is
\* exempt.  A short name shares the numbers of the table, which handle_publish
\* asks first: it is routed to itself as long as next_topic_id has not come to
\* the number its two bytes spell, and to the table's topic when the table
\* holds that number.
TopicIdsHold == TableHolds /\ ShortNamesHold

\* Until a session that is online is displaced, or one that is not is counted
\* down (a sleeper expired, a session ended twice), the gateway's share of
\* connections_current is the number of its online sessions; handle_connect
\* counts one shortly after registering it.
GaugeUnlessDrifted ==
    drift \/ gauge = Cardinality({c \in Clients : \E e \in Epochs : Online(c, e) /\ OfGateway(e)})
                     - (IF task["loop"].pc = "insert" THEN 1 ELSE 0)

\* Every online session of the gateway has an SnClient that the sweeper will
\* find, or is being inserted or ended right now, unless its SnClient was
\* displaced by another CONNECT from the same address or swept in its place.
OnlineIsWatched ==
    \A c \in Clients, e \in Epochs : (Online(c, e) /\ OfGateway(e)) =>
        \/ e \in orphans
        \/ \E p \in Peers : Known(p) /\ clients[p].epoch = e
        \/ \E w \in Workers : task[w] \in Job /\ task[w].epoch = e

\* An online session of the gateway that is not an orphan.
Serves(e) == e \notin orphans /\ OfGateway(e) /\ \E c \in Clients : Online(c, e)

\* A client that falls silent, or oversleeps, and is not heard of again is taken
\* offline by the sweeper or by the shutdown: again and again every session
\* that is online is that of an SnClient whose time has not run out.
SilentGoesOffline ==
    []<>(\A e \in Epochs : Serves(e) =>
            \E p \in Peers : Known(p) /\ clients[p].epoch = e /\ ~clients[p].late)

\* The forwarder of a session that was taken over or removed does not linger:
\* again and again there is none that still runs.
LostForwarderEnds ==
    []<>(\A e \in Epochs : fwd[e].pc \in {"recv", "lookup"} => Owns(fwd[e].id, e))

\* A shutdown leaves no session of the gateway online, orphans excepted.
ShutdownOffline == []<>(shutdown => \A e \in Epochs : ~Serves(e))
=============================================================================
