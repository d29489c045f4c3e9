--------------------------- MODULE SnGatewayProofs ---------------------------
(***************************************************************************)
(* The topic ids of the MQTT-SN gateway, who watches its online sessions   *)
(* and what its gauge counts, for any number of addresses, clients,        *)
(* topics, ids and registrations.                                          *)
(***************************************************************************)
EXTENDS SnGateway, FiniteSetTheorems, WellFoundedInduction, TLAPS

\* A non-empty set of naturals has a least element.
LEMMA LeastNatural ==
  ASSUME NEW T, T \subseteq Nat, T # {}
  PROVE  \E x \in T : \A y \in T : x <= y
  <1> DEFINE R == OpToRel(<, Nat)
  <1>1. IsWellFoundedOn(R, Nat)
    BY NatLessThanWellFounded, ZenonT(40)
  <1>2. PICK x \in T : \A y \in T : ~(<<y, x>> \in R)
    <2> HIDE DEF R
    <2>1. QED
      BY <1>1, WFMin, ZenonT(40)
  <1>3. \A y \in T : ~(y < x)
    BY <1>2, ZenonT(40) DEF OpToRel
  <1>4. QED
    BY <1>3, SMTT(40)

\* The distance between two ids is a number.
LEMMA StepsNatural ==
  ASSUME NEW i \in TopicIds, NEW j \in TopicIds
  PROVE  Steps(i, j) \in Nat
  <1>1. j - i \in Int /\ TopicIdMax \in Nat \ {0}
    BY TopicIdMaxPositive, SMTT(40) DEF TopicIds
  <1>2. (j - i) % TopicIdMax \in 0 .. TopicIdMax - 1
    BY <1>1, SMTT(40)
  <1>3. QED
    BY <1>1, <1>2, SMTT(40) DEF Steps

\* assign_topic_id finds a free id whenever there is one.
LEMMA FirstFreeIsFree ==
  ASSUME NEW s \in SnClient, Free(s) # {}
  PROVE  FirstFree(s) \in Free(s)
  <1> DEFINE T == {Steps(s.next, i) : i \in Free(s)}
  <1>1. s.next \in TopicIds /\ Free(s) \subseteq TopicIds
    BY ZenonT(40) DEF SnClient, Free
  <1>2. T \subseteq Nat /\ T # {}
    BY <1>1, StepsNatural, ZenonT(40)
  <1>3. \E x \in T : \A y \in T : x <= y
    BY <1>2, LeastNatural, ZenonT(40)
  <1>4. \E i \in Free(s) : \A j \in Free(s) : Steps(s.next, i) <= Steps(s.next, j)
    BY <1>3, ZenonT(40)
  <1>5. QED
    BY <1>4, Zenon DEF FirstFree

-----------------------------------------------------------------------------
(* The two maps of an SnClient                                             *)

\* topic_to_id and id_to_topic are inverse to each other.
TopicMapsInverse(s) ==
    /\ \A t \in Topics : s.ids[t] # 0 => s.names[s.ids[t]] = t
    /\ \A i \in TopicIds : s.names[i] # None => s.ids[s.names[i]] = i

\* Every id the device was told (d) denotes the topic it was told for.
Holds(s, d) == \A t \in Topics : d[t] # 0 => s.names[d[t]] = t

\* assign_topic_id keeps the maps inverse and every name that is in them, and
\* gives t an id unless the table is full.
LEMMA AssignKeeps ==
  ASSUME NEW s \in SnClient, NEW t \in Topics, TopicMapsInverse(s)
  PROVE  LET n == Assign(s, t)
         IN  /\ n \in SnClient
             /\ TopicMapsInverse(n)
             /\ n.epoch = s.epoch
             /\ \A i \in TopicIds : s.names[i] # None => n.names[i] = s.names[i]
             /\ n.ids[t] = 0 => Exhausts(s, t)
  <1> DEFINE n == Assign(s, t)
  <1> USE TopicIdMaxPositive, NoneIsNoPeer
  <1>1. CASE s.ids[t] # 0
    BY <1>1, ZenonT(40) DEF Assign
  <1>2. CASE s.ids[t] = 0 /\ Free(s) = {}
    <2>1. n = [s EXCEPT !.next = Succ(s.next)]
      BY <1>2, ZenonT(40) DEF Assign
    <2>2. Succ(s.next) \in TopicIds
      BY SMTT(40) DEF Succ, SnClient, TopicIds
    <2>3. n \in SnClient
      BY <2>1, <2>2, ZenonT(40) DEF SnClient
    <2>4. n.epoch = s.epoch /\ n.names = s.names /\ n.ids = s.ids
      BY <2>1, ZenonT(40) DEF SnClient
    <2>5. QED
      BY <1>2, <2>3, <2>4, ZenonT(40) DEF TopicMapsInverse, Exhausts
  <1>3. CASE s.ids[t] = 0 /\ Free(s) # {}
    <2> DEFINE i == FirstFree(s)
    <2>1. i \in TopicIds /\ s.names[i] = None
      BY <1>3, FirstFreeIsFree, ZenonT(40) DEF Free
    <2> HIDE DEF i
    <2>2. n = [s EXCEPT !.ids[t] = i, !.names[i] = t, !.next = Succ(i)]
      BY <1>3, ZenonT(40) DEF Assign, i
    <2>3. Succ(i) \in TopicIds /\ i \in 0..TopicIdMax /\ i # 0
      BY <2>1, SMTT(40) DEF Succ, TopicIds
    <2>4. /\ s.ids \in [Topics -> 0..TopicIdMax]
          /\ s.names \in [TopicIds -> Topics \cup {None}]
      BY ZenonT(40) DEF SnClient
    <2>5. /\ n.ids = [s.ids EXCEPT ![t] = i]
          /\ n.names = [s.names EXCEPT ![i] = t]
          /\ n.epoch = s.epoch
      BY <2>2, ZenonT(40) DEF SnClient
    <2>6. n \in SnClient
      <3> DEFINE ids == [s.ids EXCEPT ![t] = i]
                 names == [s.names EXCEPT ![i] = t]
                 next == Succ(i)
      <3>1. ids \in [Topics -> 0..TopicIdMax] /\ names \in [TopicIds -> Topics \cup {None}]
        BY <2>1, <2>3, <2>4, ZenonT(40)
      <3>2. n = [s EXCEPT !.ids = ids, !.names = names, !.next = next]
        BY <2>2, ZenonT(40) DEF SnClient
      <3>3. next \in TopicIds
        BY <2>3, ZenonT(40)
      <3> HIDE DEF ids, names, next, n
      <3>4. QED
        BY <3>1, <3>2, <3>3, Zenon DEF SnClient
    <2>7. \A j \in TopicIds : s.names[j] # None => n.names[j] = s.names[j]
      BY <2>1, <2>4, <2>5, ZenonT(40)
    <2>8. ASSUME NEW u \in Topics, n.ids[u] # 0 PROVE n.names[n.ids[u]] = u
      BY <2>1, <2>3, <2>4, <2>5, <2>8, SMTT(40) DEF TopicMapsInverse, TopicIds
    <2>9. ASSUME NEW j \in TopicIds, n.names[j] # None PROVE n.ids[n.names[j]] = j
      BY <1>3, <2>1, <2>3, <2>4, <2>5, <2>9, SMTT(40) DEF TopicMapsInverse, TopicIds
    <2>10. n.ids[t] # 0
      BY <2>3, <2>4, <2>5, ZenonT(40)
    <2>11. QED
      BY <2>5, <2>6, <2>7, <2>8, <2>9, <2>10, ZenonT(40) DEF TopicMapsInverse
  <1>4. QED
    BY <1>1, <1>2, <1>3, ZenonT(40)

\* touch keeps the ids and the epoch of a client.
LEMMA TouchedKeeps ==
  ASSUME NEW s \in SnClient
  PROVE  LET n == Touched(s)
         IN  n \in SnClient /\ n.ids = s.ids /\ n.names = s.names /\ n.epoch = s.epoch
  <1>1. [s EXCEPT !.late = FALSE] \in SnClient
    BY Zenon DEF SnClient
  <1>2. QED
    BY <1>1, ZenonT(40) DEF Touched, SnClient

\* UNSUBSCRIBE keeps the maps inverse and every other id the device was told.
LEMMA UnassignKeeps ==
  ASSUME NEW s \in SnClient, NEW t \in Topics, TopicMapsInverse(s)
  PROVE  LET n == Unassign(s, t)
         IN  /\ n \in SnClient
             /\ TopicMapsInverse(n)
             /\ n.epoch = s.epoch
             /\ \A d \in [Topics -> 0..TopicIdMax] :
                  Holds(s, d) => Holds(n, [d EXCEPT ![t] = 0])
  <1> DEFINE ids == [s.ids EXCEPT ![t] = 0]
             names == [i \in TopicIds |-> IF i = s.ids[t] THEN None ELSE s.names[i]]
             n == Unassign(s, t)
  <1> USE TopicIdMaxPositive, NoneIsNoPeer
  <1>1. /\ s.ids \in [Topics -> 0..TopicIdMax]
        /\ s.names \in [TopicIds -> Topics \cup {None}]
    BY ZenonT(40) DEF SnClient
  <1>2. ids \in [Topics -> 0..TopicIdMax] /\ names \in [TopicIds -> Topics \cup {None}]
    BY <1>1, SMTT(40)
  <1>3. n = [s EXCEPT !.ids = ids, !.names = names]
    BY ZenonT(40) DEF Unassign, SnClient
  <1>4. n \in SnClient
    <2> HIDE DEF ids, names, n
    <2>1. QED
      BY <1>2, <1>3, Zenon DEF SnClient
  <1>5. n.ids = ids /\ n.names = names /\ n.epoch = s.epoch
    BY <1>3, ZenonT(40) DEF SnClient
  <1>6. ASSUME NEW u \in Topics, n.ids[u] # 0 PROVE n.names[n.ids[u]] = u
    BY <1>1, <1>5, <1>6, SMTT(40) DEF TopicMapsInverse, TopicIds
  <1>7. ASSUME NEW j \in TopicIds, n.names[j] # None PROVE n.ids[n.names[j]] = j
    BY <1>1, <1>5, <1>7, SMTT(40) DEF TopicMapsInverse, TopicIds
  <1>8. ASSUME NEW d \in [Topics -> 0..TopicIdMax], Holds(s, d), NEW u \in Topics,
               [d EXCEPT ![t] = 0][u] # 0
        PROVE  n.names[[d EXCEPT ![t] = 0][u]] = u
    BY <1>1, <1>5, <1>8, SMTT(40) DEF TopicMapsInverse, Holds, TopicIds
  <1>9. QED
    BY <1>4, <1>5, <1>6, <1>7, <1>8, ZenonT(40) DEF TopicMapsInverse, Holds

\* A new SnClient has no ids.
LEMMA NewClientEmpty ==
  ASSUME NEW c \in Clients, NEW e \in Epochs, NEW clean \in BOOLEAN
  PROVE  LET n == NewClient(c, e, clean)
         IN  n \in SnClient /\ TopicMapsInverse(n) /\ Holds(n, [t \in Topics |-> 0])
  <1>1. 1 \in TopicIds /\ 0 \in 0..TopicIdMax
    BY TopicIdMaxPositive, SMTT(40) DEF TopicIds
  <1>2. QED
    BY <1>1, ZenonT(40) DEF NewClient, SnClient, TopicMapsInverse, Holds

-----------------------------------------------------------------------------
(* Types                                                                   *)

\* mark_offline keeps the session map typed.
LEMMA MarkedOfflineType ==
  ASSUME TypeOK, NEW c \in Clients, NEW e
  PROVE  MarkedOffline(c, e) \in [Clients -> [epoch : Epochs, connected : BOOLEAN] \cup {None}]
  <1>1. CASE ~Owns(c, e)
    BY <1>1, ZenonT(40) DEF MarkedOffline, TypeOK
  <1>2. CASE Owns(c, e)
    <2>1. sessions[c] \in [epoch : Epochs, connected : BOOLEAN]
      BY <1>2, ZenonT(40) DEF Owns, TypeOK
    <2>2. [sessions[c] EXCEPT !.connected = FALSE] \in [epoch : Epochs, connected : BOOLEAN]
      BY <2>1, ZenonT(40)
    <2>3. QED
      BY <1>2, <2>2, ZenonT(40) DEF MarkedOffline, TypeOK
  <1>3. QED
    BY <1>1, <1>2, ZenonT(40)

\* register keeps the session map typed and hands out the next epoch.
LEMMA RegisteredType ==
  ASSUME TypeOK, NEW c \in Clients, epoch < MaxEpochs
  PROVE  /\ Registered(c) \in [Clients -> [epoch : Epochs, connected : BOOLEAN] \cup {None}]
         /\ epoch + 1 \in Epochs
         /\ epoch + 1 \in 0..MaxEpochs
  BY EpochsBounded, SMTT(40) DEF TypeOK, Registered, Epochs

\* A delivery keeps the channels typed.
LEMMA DeliveredType ==
  ASSUME TypeOK, NEW t \in Topics
  PROVE  Delivered(t) \in [Epochs -> Seq(Topics)]
  BY SMTT(40) DEF TypeOK, Delivered

\* A worker that starts a job stays typed.
LEMMA StartsType ==
  ASSUME TypeOK, NEW w \in Workers, NEW pc \in {"insert", "owns", "unsub", "finish"},
         NEW p \in Peers, NEW c \in Clients, NEW e \in Epochs, NEW clean \in BOOLEAN,
         Starts(w, pc, p, c, e, clean)
  PROVE  task' \in [Workers -> Job \cup {Idle, Stopped}]
  <1> DEFINE j == [pc |-> pc, peer |-> p, id |-> c, epoch |-> e, clean |-> clean]
  <1>1. j \in Job
    BY ZenonT(40) DEF Job
  <1>2. task' = [task EXCEPT ![w] = j]
    BY ZenonT(40) DEF Starts
  <1> HIDE DEF j
  <1>3. QED
    BY <1>1, <1>2, ZenonT(40) DEF TypeOK

\* What a worker has in hand unless it is idle or stopped.
LEMMA JobType ==
  ASSUME TypeOK, NEW w \in Workers, task[w].pc \in {"insert", "owns", "unsub", "finish"}
  PROVE  /\ task[w] \in Job
         /\ task[w].peer \in Peers /\ task[w].id \in Clients
         /\ task[w].epoch \in Epochs /\ task[w].clean \in BOOLEAN
  BY SMTT(40) DEF TypeOK, Job, Idle, Stopped

\* An SnClient and what it names.
LEMMA ClientType ==
  ASSUME TypeOK, NEW p \in Peers, Known(p)
  PROVE  /\ clients[p] \in SnClient
         /\ clients[p].id \in Clients /\ clients[p].epoch \in Epochs
         /\ clients[p].clean \in BOOLEAN
         /\ clients[p].ids \in [Topics -> 0..TopicIdMax]
         /\ clients[p].names \in [TopicIds -> Topics \cup {None}]
  BY ZenonT(40) DEF TypeOK, Known, SnClient

\* The two topic maps of a client that is known are inverse.
LEMMA KnownInverse ==
  ASSUME TableHolds, NEW p \in Peers, Known(p)
  PROVE  TopicMapsInverse(clients[p])
  BY ZenonT(40) DEF TableHolds, TopicMapsInverse

\* What a forwarder has at each of its positions.
LEMMA FwdType ==
  ASSUME TypeOK, NEW e \in Epochs
  PROVE  /\ fwd[e].pc \in {"recv", "lookup", "done"} => fwd[e].peer \in Peers /\ fwd[e].id \in Clients
         /\ fwd[e].pc = "lookup" => fwd[e].msg \in Topics
         /\ chan[e] \in Seq(Topics)
  BY ZenonT(40) DEF TypeOK, Forwarder

\* A forwarder that ends stays typed.
LEMMA ExitsType ==
  ASSUME TypeOK, NEW e \in Epochs, fwd[e].pc \in {"recv", "lookup"}, Exits(e)
  PROVE  fwd' \in [Epochs -> Forwarder] /\ chan' \in [Epochs -> Seq(Topics)]
  <1> DEFINE f == [pc |-> "done", peer |-> fwd[e].peer, id |-> fwd[e].id]
  <1>1. f \in Forwarder
    BY FwdType, ZenonT(40) DEF Forwarder
  <1>2. fwd' = [fwd EXCEPT ![e] = f] /\ chan' = [chan EXCEPT ![e] = <<>>]
    BY ZenonT(40) DEF Exits
  <1>3. <<>> \in Seq(Topics)
    OBVIOUS
  <1> HIDE DEF f
  <1>4. QED
    BY <1>1, <1>2, <1>3, ZenonT(40) DEF TypeOK

\* The two bytes of a short name spell a topic id.
LEMMA ShortIds ==
  \A t \in ShortTopics : ShortId[t] \in TopicIds
  BY ShortTopicsKnown, ZenonT(40) DEF TopicIds

\* The receive loop.
LEMMA HandleType ==
  ASSUME TypeOK, TableHolds, NEW p \in Peers, Handle(p)
  PROVE  TypeOK'
  <1>1. ASSUME NEW d \in Devices, Connect(p, d.id, d.clean) PROVE TypeOK'
    <2>1. d.id \in Clients /\ d.clean \in BOOLEAN
      BY DevicesKnown, ZenonT(40)
    <2>2. epoch + 1 \in Epochs /\ epoch < MaxEpochs
      BY <1>1, <2>1, RegisteredType, ZenonT(40) DEF Connect
    <2>3. task' \in [Workers -> Job \cup {Idle, Stopped}]
      BY <1>1, <2>1, <2>2, StartsType, ZenonT(40) DEF Connect, Workers
    <2>4. QED
      BY <1>1, <2>1, <2>2, <2>3, RegisteredType, ZenonT(40) DEF Connect, TypeOK, flowVars
  <1>2. ASSUME NEW t \in Topics, Known(p), Answer(p, t)
        PROVE  /\ clients' \in [Peers -> SnClient \cup {None}]
               /\ told' \in [Peers -> [Topics -> 0..TopicIdMax]]
    <2> DEFINE s == Touched(clients[p])
               n == Assign(s, t)
    <2>1. clients[p] \in SnClient /\ TopicMapsInverse(clients[p])
      BY <1>2, ClientType, ZenonT(40) DEF TableHolds, TopicMapsInverse
    <2>2. s \in SnClient /\ TopicMapsInverse(s)
      BY <2>1, TouchedKeeps, ZenonT(40) DEF TopicMapsInverse
    <2>3. n \in SnClient
      <3> HIDE DEF s
      <3>1. QED
        BY <2>2, AssignKeeps, ZenonT(40)
    <2>4. Returned(n, t) \in 0..TopicIdMax
      BY <2>3, TopicIdMaxPositive, SMTT(40) DEF SnClient, Returned
    <2>5. clients' = [clients EXCEPT ![p] = n] /\ told' = [told EXCEPT ![p][t] = Returned(n, t)]
      BY <1>2, ZenonT(40) DEF Answer
    <2> HIDE DEF n
    <2>6. QED
      BY <2>3, <2>4, <2>5, ZenonT(40) DEF TypeOK
  <1>3. ASSUME NEW t \in Topics, RegisterTopic(p, t) PROVE TypeOK'
    BY <1>2, <1>3, ZenonT(40) DEF RegisterTopic, TypeOK, sessionVars, workVars, flowVars
  <1>4. ASSUME NEW t \in Topics, Subscribe(p, t) PROVE TypeOK'
    BY <1>2, <1>4, ClientType, ZenonT(40) DEF Subscribe, TypeOK, workVars, flowVars
  <1>5. ASSUME Known(p), clients' = [clients EXCEPT ![p] = Touched(clients[p])]
        PROVE  clients' \in [Peers -> SnClient \cup {None}]
    BY <1>5, ClientType, TouchedKeeps, ZenonT(40) DEF TypeOK
  <1>6. ASSUME NEW t \in ShortTopics, SubscribeShort(p, t) PROVE TypeOK'
    BY <1>5, <1>6, ClientType, ShortTopicsKnown, ZenonT(40)
    DEF SubscribeShort, TypeOK, workVars, flowVars
  <1>7. ASSUME NEW t \in Topics, Unsubscribe(p, t) PROVE TypeOK'
    <2> DEFINE s == Touched(clients[p])
               n == Unassign(s, t)
    <2>1. Known(p) /\ clients[p] \in SnClient /\ TopicMapsInverse(clients[p])
      BY <1>7, ClientType, ZenonT(40) DEF TableHolds, TopicMapsInverse, Unsubscribe
    <2>2. s \in SnClient /\ TopicMapsInverse(s)
      BY <2>1, TouchedKeeps, ZenonT(40) DEF TopicMapsInverse
    <2>3. n \in SnClient
      <3> HIDE DEF s
      <3>1. QED
        BY <2>2, UnassignKeeps, ZenonT(40)
    <2>4. clients' = [clients EXCEPT ![p] = n] /\ told' = [told EXCEPT ![p][t] = 0]
      BY <1>7, ZenonT(40) DEF Unsubscribe
    <2>5. 0 \in 0..TopicIdMax
      BY TopicIdMaxPositive, SMTT(40)
    <2> HIDE DEF n
    <2>6. QED
      BY <1>7, <2>1, <2>3, <2>4, <2>5, ClientType, SMTT(40) DEF Unsubscribe, TypeOK, workVars, flowVars
  <1>8. ASSUME Ping(p) PROVE TypeOK'
    BY <1>5, <1>8, ZenonT(40) DEF Ping, TypeOK, sessionVars, workVars, flowVars
  <1>9. ASSUME NEW j \in TopicIds, NEW t \in ShortTopics \cup {None}, Publish(p, j, t)
        PROVE  TypeOK'
    <2>1. clients[p].names[j] \in Topics \cup {None}
      BY <1>9, ClientType, ZenonT(40) DEF Publish
    <2>2. chan' \in [Epochs -> Seq(Topics)]
      BY <1>9, <2>1, DeliveredType, ShortTopicsKnown, ZenonT(40) DEF Publish, Meant, TypeOK
    <2>3. QED
      BY <1>5, <1>9, <2>2, ZenonT(40) DEF Publish, TypeOK, sessionVars, workVars
  <1>10. ASSUME Sleep(p) PROVE TypeOK'
    <2> DEFINE n == [clients[p] EXCEPT !.sleeping = TRUE, !.late = FALSE]
    <2>1. clients[p] \in SnClient /\ clients[p].id \in Clients
      BY <1>10, ClientType, ZenonT(40) DEF Sleep
    <2>2. n \in SnClient
      BY <2>1, Zenon DEF SnClient
    <2>3. clients' = [clients EXCEPT ![p] = n]
      BY <1>10, ZenonT(40) DEF Sleep
    <2>4. sessions' \in [Clients -> [epoch : Epochs, connected : BOOLEAN] \cup {None}]
      BY <1>10, <2>1, MarkedOfflineType, ZenonT(40) DEF Sleep
    <2> HIDE DEF n
    <2>5. QED
      BY <1>10, <2>2, <2>3, <2>4, SMTT(40) DEF Sleep, TypeOK, workVars, flowVars
  <1>11. ASSUME Disconnect(p) PROVE TypeOK'
    <2>1. task' \in [Workers -> Job \cup {Idle, Stopped}]
      BY <1>11, ClientType, StartsType, SMTT(40) DEF Disconnect, Workers
    <2>2. QED
      BY <1>11, <2>1, ZenonT(40) DEF Disconnect, TypeOK, sessionVars, flowVars
  <1>12. QED
    BY <1>1, <1>3, <1>4, <1>6, <1>7, <1>8, <1>9, <1>10, <1>11, ShortIds, ZenonT(40) DEF Handle

\* Everything else.
LEMMA NextType ==
  ASSUME TypeOK, TableHolds, [Next]_vars
  PROVE  TypeOK'
  <1>1. ASSUME NEW p \in Peers, Elapse(p) PROVE TypeOK'
    <2> DEFINE n == [clients[p] EXCEPT !.late = TRUE]
    <2>1. clients[p] \in SnClient
      BY <1>1, ClientType, ZenonT(40) DEF Elapse
    <2>2. n \in SnClient
      BY <2>1, Zenon DEF SnClient
    <2>3. clients' = [clients EXCEPT ![p] = n]
      BY <1>1, ZenonT(40) DEF Elapse
    <2> HIDE DEF n
    <2>4. QED
      BY <1>1, <2>2, <2>3, ZenonT(40) DEF Elapse, TypeOK, sessionVars, workVars, flowVars
  <1>2. ASSUME Insert PROVE TypeOK'
    <2> DEFINE j == task["loop"]
               n == NewClient(j.id, j.epoch, j.clean)
               f == [pc |-> "recv", peer |-> j.peer, id |-> j.id]
               none == [t \in Topics |-> 0]
    <2>1. j.peer \in Peers /\ j.id \in Clients /\ j.epoch \in Epochs /\ j.clean \in BOOLEAN
      BY <1>2, JobType, ZenonT(40) DEF Insert, Workers
    <2>2. n \in SnClient
      BY <2>1, NewClientEmpty, ZenonT(40)
    <2>3. f \in Forwarder
      BY <2>1, ZenonT(40) DEF Forwarder
    <2>4. /\ clients' = [clients EXCEPT ![j.peer] = n]
          /\ fwd' = [fwd EXCEPT ![j.epoch] = f]
          /\ told' = [told EXCEPT ![j.peer] = none]
          /\ task' = [task EXCEPT !["loop"] = Idle]
          /\ gauge' = gauge + 1
          /\ UNCHANGED <<sessionVars, expired, visited, chan>>
      BY <1>2, ZenonT(40) DEF Insert
    <2>5. none \in [Topics -> 0..TopicIdMax]
      BY TopicIdMaxPositive, SMTT(40)
    <2> HIDE DEF n, f, none, j
    <2>6. clients' \in [Peers -> SnClient \cup {None}] /\ fwd' \in [Epochs -> Forwarder]
      BY <2>1, <2>2, <2>3, <2>4, ZenonT(40) DEF TypeOK
    <2>7. told' \in [Peers -> [Topics -> 0..TopicIdMax]]
      BY <2>4, <2>5, ZenonT(40) DEF TypeOK
    <2>8. task' \in [Workers -> Job \cup {Idle, Stopped}]
      <3>1. task' = [task EXCEPT !["loop"] = Idle]
        BY <2>4, ZenonT(40)
      <3>2. QED
        BY <3>1, ZenonT(40) DEF TypeOK
    <2>9. gauge' \in Int
      <3>1. gauge' = gauge + 1
        BY <2>4, ZenonT(40)
      <3>2. QED
        BY <3>1, SMTT(40) DEF TypeOK
    <2>10. UNCHANGED <<sessions, epoch, subs, expired, visited, chan>>
      BY <2>4, ZenonT(40) DEF sessionVars
    <2>11. QED
      BY <2>6, <2>7, <2>8, <2>9, <2>10, ZenonT(40) DEF TypeOK
  <1>3. ASSUME NEW w \in Workers, CleanupOwns(w) PROVE TypeOK'
    <2> DEFINE j == task[w]
               pc == IF j.clean THEN "unsub" ELSE "finish"
    <2>1. j \in Job
      BY <1>3, JobType, ZenonT(40) DEF CleanupOwns
    <2>2. [j EXCEPT !.pc = pc] \in Job
      <3>1. pc \in {"insert", "owns", "unsub", "finish"}
        OBVIOUS
      <3> HIDE DEF pc, j
      <3>2. QED
        BY <2>1, <3>1, Zenon DEF Job
    <2>3. task' \in [Workers -> Job \cup {Idle, Stopped}]
      BY <1>3, <2>2, ZenonT(40) DEF CleanupOwns, TypeOK
    <2>4. QED
      BY <1>3, <2>3, ZenonT(40) DEF CleanupOwns, TypeOK, sessionVars, flowVars
  <1>4. ASSUME NEW w \in Workers, CleanupUnsubscribe(w) PROVE TypeOK'
    <2> DEFINE j == task[w]
               n == [j EXCEPT !.pc = "finish"]
    <2>1. j \in Job /\ j.id \in Clients
      BY <1>4, JobType, ZenonT(40) DEF CleanupUnsubscribe
    <2>2. n \in Job
      <3> HIDE DEF j
      <3>1. QED
        BY <2>1, Zenon DEF Job
    <2>3. task' = [task EXCEPT ![w] = n] /\ subs' = [subs EXCEPT ![j.id] = {}]
      BY <1>4, ZenonT(40) DEF CleanupUnsubscribe
    <2> HIDE DEF n
    <2>4. QED
      BY <1>4, <2>1, <2>2, <2>3, ZenonT(40) DEF CleanupUnsubscribe, TypeOK, flowVars
  <1>5. ASSUME NEW w \in Workers, CleanupFinish(w) PROVE TypeOK'
    <2>1. task[w].id \in Clients
      BY <1>5, JobType, ZenonT(40) DEF CleanupFinish
    <2>2. sessions' \in [Clients -> [epoch : Epochs, connected : BOOLEAN] \cup {None}]
      BY <1>5, <2>1, MarkedOfflineType, ZenonT(40) DEF CleanupFinish, TypeOK
    <2>3. QED
      BY <1>5, <2>2, SMTT(40) DEF CleanupFinish, TypeOK, flowVars
  <1>6. ASSUME Scan PROVE TypeOK'
    <2>1. expired' \subseteq [peer : Peers, id : Clients, epoch : Epochs, clean : BOOLEAN]
      BY <1>6, ClientType, SMTT(40) DEF Scan, Overdue
    <2>2. QED
      BY <1>6, <2>1, ZenonT(40) DEF Scan, TypeOK, sessionVars, flowVars
  <1>7. ASSUME NEW r \in expired, Expire(r) PROVE TypeOK'
    <2>1. r \in [peer : Peers, id : Clients, epoch : Epochs, clean : BOOLEAN]
      BY ZenonT(40) DEF TypeOK
    <2>2. task' \in [Workers -> Job \cup {Idle, Stopped}]
      BY <1>7, <2>1, StartsType, SMTT(40) DEF Expire, Workers
    <2>3. QED
      BY <1>7, <2>2, ZenonT(40) DEF Expire, TypeOK, sessionVars, flowVars
  <1>8. ASSUME NEW e \in Epochs, ForwardTake(e) PROVE TypeOK'
    <2>1. fwd[e].peer \in Peers /\ fwd[e].id \in Clients /\ chan[e] \in Seq(Topics) /\ chan[e] # <<>>
      BY <1>8, FwdType, ZenonT(40) DEF ForwardTake
    <2>2. ASSUME Owns(fwd[e].id, e)
          PROVE  fwd' \in [Epochs -> Forwarder] /\ chan' \in [Epochs -> Seq(Topics)]
      <3> DEFINE f == [pc |-> "lookup", peer |-> fwd[e].peer, id |-> fwd[e].id, msg |-> Head(chan[e])]
      <3>1. f \in Forwarder /\ Tail(chan[e]) \in Seq(Topics)
        BY <2>1, SMTT(40) DEF Forwarder
      <3>2. fwd' = [fwd EXCEPT ![e] = f] /\ chan' = [chan EXCEPT ![e] = Tail(chan[e])]
        BY <1>8, <2>2, ZenonT(40) DEF ForwardTake
      <3> HIDE DEF f
      <3>3. QED
        BY <3>1, <3>2, ZenonT(40) DEF TypeOK
    <2>3. ASSUME ~Owns(fwd[e].id, e)
          PROVE  fwd' \in [Epochs -> Forwarder] /\ chan' \in [Epochs -> Seq(Topics)]
      <3>1. fwd[e].pc = "recv" /\ Exits(e)
        BY <1>8, <2>3, ZenonT(40) DEF ForwardTake
      <3>2. QED
        BY <3>1, ExitsType, ZenonT(40)
    <2>4. QED
      BY <1>8, <2>2, <2>3, ZenonT(40) DEF ForwardTake, TypeOK, sessionVars, workVars
  <1>9. ASSUME NEW e \in Epochs, ForwardClosed(e) PROVE TypeOK'
    <2>1. fwd' \in [Epochs -> Forwarder] /\ chan' \in [Epochs -> Seq(Topics)]
      BY <1>9, ExitsType, ZenonT(40) DEF ForwardClosed
    <2>2. QED
      BY <1>9, <2>1, ZenonT(40) DEF ForwardClosed, TypeOK, sessionVars, workVars
  <1>10. ASSUME NEW e \in Epochs, ForwardSend(e) PROVE TypeOK'
    <2> DEFINE f == fwd[e]
               s == clients[f.peer]
               mine == s # None /\ s.epoch = e
               n == Assign(s, f.msg)
               g == [pc |-> "recv", peer |-> f.peer, id |-> f.id]
    <2>0. f.pc = "lookup"
      BY <1>10, ZenonT(40) DEF ForwardSend
    <2>1. f.pc = "lookup" /\ f.peer \in Peers /\ f.id \in Clients /\ f.msg \in Topics
      BY <2>0, FwdType, ZenonT(40)
    <2>2. clients' = IF mine THEN [clients EXCEPT ![f.peer] = n] ELSE clients
      BY <1>10, ZenonT(40) DEF ForwardSend
    <2>3. mine => s \in SnClient /\ TopicMapsInverse(s)
      BY <2>1, ClientType, KnownInverse, ZenonT(40) DEF Known
    <2>4. mine => n \in SnClient
      <3> HIDE DEF s, f
      <3>1. QED
        BY <2>1, <2>3, AssignKeeps, ZenonT(40)
    <2>5. clients' \in [Peers -> SnClient \cup {None}]
      <3> HIDE DEF n, mine
      <3>1. QED
        BY <2>1, <2>2, <2>4, ZenonT(40) DEF TypeOK
    <2>6. g \in Forwarder
      BY <2>1, ZenonT(40) DEF Forwarder
    <2>7. (fwd' = [fwd EXCEPT ![e] = g] /\ chan' = chan) \/ Exits(e)
      BY <1>10, ZenonT(40) DEF ForwardSend
    <2>8. fwd' \in [Epochs -> Forwarder] /\ chan' \in [Epochs -> Seq(Topics)]
      <3>1. CASE fwd' = [fwd EXCEPT ![e] = g] /\ chan' = chan
        <4> HIDE DEF g
        <4>1. QED
          BY <2>6, <3>1, ZenonT(40) DEF TypeOK
      <3>2. QED
        BY <2>1, <2>7, <3>1, ExitsType, ZenonT(40)
    <2>9. UNCHANGED <<sessionVars, gauge, workVars, told>>
      BY <1>10, ZenonT(40) DEF ForwardSend
    <2>10. QED
      BY <2>5, <2>8, <2>9, ZenonT(40) DEF TypeOK, sessionVars, workVars
  <1>11. ASSUME NEW c \in Clients, TakeOver(c) PROVE TypeOK'
    BY <1>11, RegisteredType, ZenonT(40) DEF TakeOver, TypeOK, workVars, flowVars
  <1>12. ASSUME NEW t \in Topics, BrokerPublish(t) PROVE TypeOK'
    BY <1>12, DeliveredType, ZenonT(40) DEF BrokerPublish, TypeOK, sessionVars, workVars
  <1>13. ASSUME Shutdown PROVE TypeOK'
    BY <1>13, ZenonT(40) DEF Shutdown, TypeOK, sessionVars, workVars, flowVars
  <1>14. ASSUME NEW p \in Peers, StopVisit(p) PROVE TypeOK'
    <2>1. Known(p)
      BY <1>14, ZenonT(40) DEF StopVisit, ToVisit
    <2>2. task' \in [Workers -> Job \cup {Idle, Stopped}]
      <3>1. Starts("loop", "owns", p, clients[p].id, clients[p].epoch, clients[p].clean)
        BY <1>14, ZenonT(40) DEF StopVisit
      <3>2. "loop" \in Workers
        BY ZenonT(40) DEF Workers
      <3>3. QED
        BY <2>1, <3>1, <3>2, ClientType, StartsType, SMTT(40)
    <2>3. QED
      BY <1>14, <2>2, ZenonT(40) DEF StopVisit, TypeOK, sessionVars, flowVars
  <1>15. ASSUME StopDone PROVE TypeOK'
    BY <1>15, ZenonT(40) DEF StopDone, TypeOK, sessionVars, flowVars
  <1>16. ASSUME UNCHANGED vars PROVE TypeOK'
    BY <1>16, ZenonT(40) DEF vars, TypeOK
  <1>17. QED
    BY HandleType, <1>1, <1>2, <1>3, <1>4, <1>5, <1>6, <1>7, <1>8, <1>9, <1>10, <1>11, <1>12,
       <1>13, <1>14, <1>15, <1>16, ZenonT(40) DEF Next, Cleanup, Sweep, Forward, Stop

-----------------------------------------------------------------------------
(* Topic ids                                                               *)

\* A step that changes the SnClient of one address, and tells only the device
\* there an id, keeps the ids if those of that address hold afterwards.
LEMMA OneAddress ==
  ASSUME TypeOK, TableHolds, NEW p \in Peers, NEW n,
         clients' = [clients EXCEPT ![p] = n],
         \A q \in Peers \ {p} : told'[q] = told[q],
         exhausted \subseteq exhausted',
         n # None => TopicMapsInverse(n) /\ (n.epoch \notin exhausted' => Holds(n, told'[p]))
  PROVE  TableHolds'
  <1>1. ASSUME NEW q \in Peers, clients'[q] # None
        PROVE  /\ TopicMapsInverse(clients'[q])
               /\ clients'[q].epoch \notin exhausted' => Holds(clients'[q], told'[q])
    <2>1. CASE q = p
      <3>1. clients'[q] = n
        BY <2>1, ZenonT(40) DEF TypeOK
      <3>2. QED
        BY <1>1, <2>1, <3>1, ZenonT(40)
    <2>2. CASE q # p
      <3>1. clients'[q] = clients[q] /\ told'[q] = told[q]
        BY <2>2, ZenonT(40) DEF TypeOK
      <3>2. Known(q)
        BY <1>1, <3>1, ZenonT(40) DEF Known
      <3>3. TopicMapsInverse(clients[q]) /\ (clients[q].epoch \notin exhausted => Holds(clients[q], told[q]))
        BY <3>2, ZenonT(40) DEF TableHolds, TopicMapsInverse, Holds
      <3>4. QED
        BY <3>1, <3>3, ZenonT(40)
    <2>3. QED
      BY <2>1, <2>2, ZenonT(40)
  <1>2. QED
    BY <1>1, ZenonT(40) DEF TableHolds, Known, TopicMapsInverse, Holds

\* What the invariant says of one address.
LEMMA AtAddress ==
  ASSUME TableHolds, NEW p \in Peers, Known(p)
  PROVE  /\ TopicMapsInverse(clients[p])
         /\ clients[p].epoch \notin exhausted => Holds(clients[p], told[p])
  BY ZenonT(40) DEF TableHolds, TopicMapsInverse, Holds

\* A step that leaves the two maps, the ids told and the ghost alone.
LEMMA SameTables ==
  ASSUME TypeOK, TableHolds, NEW p \in Peers, Known(p), NEW n,
         n.ids = clients[p].ids, n.names = clients[p].names, n.epoch = clients[p].epoch,
         clients' = [clients EXCEPT ![p] = n], UNCHANGED <<told, exhausted>>
  PROVE  TableHolds'
  <1>1. TopicMapsInverse(n) /\ (n.epoch \notin exhausted' => Holds(n, told'[p]))
    BY AtAddress, SMTT(40) DEF TopicMapsInverse, Holds
  <1>2. QED
    BY <1>1, OneAddress, ZenonT(40)

\* Answering with the id of a topic keeps the ids that devices know.
LEMMA AnswerHolds ==
  ASSUME TypeOK, TableHolds, NEW p \in Peers, NEW t \in Topics, Known(p), Answer(p, t)
  PROVE  TableHolds'
  <1> DEFINE s == Touched(clients[p])
             n == Assign(s, t)
  <1>1. /\ s \in SnClient /\ s.ids = clients[p].ids /\ s.names = clients[p].names
        /\ s.epoch = clients[p].epoch
    BY ClientType, TouchedKeeps, ZenonT(40)
  <1>2. TopicMapsInverse(s) /\ (s.epoch \notin exhausted => Holds(s, told[p]))
    BY <1>1, AtAddress, SMTT(40) DEF TopicMapsInverse, Holds
  <1>3. Exhausts(s, t) => Exhausts(clients[p], t)
    BY <1>1, ZenonT(40) DEF Exhausts, Free
  <1>4. /\ clients' = [clients EXCEPT ![p] = n]
        /\ told' = [told EXCEPT ![p][t] = Returned(n, t)]
        /\ exhausted' = IF Exhausts(clients[p], t) THEN exhausted \cup {n.epoch} ELSE exhausted
    BY ZenonT(40) DEF Answer
  <1>5. /\ n \in SnClient /\ TopicMapsInverse(n) /\ n.epoch = s.epoch
        /\ \A i \in TopicIds : s.names[i] # None => n.names[i] = s.names[i]
        /\ n.ids[t] = 0 => Exhausts(s, t)
    <2> HIDE DEF s
    <2>1. QED
      BY <1>1, <1>2, AssignKeeps, ZenonT(40)
  <1> HIDE DEF n, s
  <1>6. ASSUME n.epoch \notin exhausted' PROVE Holds(n, told'[p])
    <2>1. n.epoch \notin exhausted /\ n.ids[t] # 0
      BY <1>3, <1>4, <1>5, <1>6, ZenonT(40)
    <2>2. Holds(s, told[p])
      BY <1>2, <1>5, <2>1, ZenonT(40)
    <2>3. told[p] \in [Topics -> 0..TopicIdMax] /\ told'[p] = [told[p] EXCEPT ![t] = n.ids[t]]
      BY <1>4, <2>1, ZenonT(40) DEF TypeOK, Returned
    <2>4. ASSUME NEW u \in Topics, told'[p][u] # 0 PROVE n.names[told'[p][u]] = u
      <3>1. CASE u = t
        BY <1>5, <2>1, <2>3, <3>1, ZenonT(40) DEF TopicMapsInverse
      <3>2. CASE u # t
        <4>1. told'[p][u] = told[p][u] /\ told[p][u] \in TopicIds
          BY <2>3, <2>4, <3>2, SMTT(40) DEF TopicIds
        <4>2. s.names[told[p][u]] = u /\ u # None
          BY <2>2, <2>4, <4>1, NoneIsNoPeer, ZenonT(40) DEF Holds
        <4>3. QED
          BY <1>5, <4>1, <4>2, ZenonT(40)
      <3>3. QED
        BY <3>1, <3>2, ZenonT(40)
    <2>5. QED
      BY <2>4, ZenonT(40) DEF Holds
  <1>7. exhausted \subseteq exhausted' /\ \A q \in Peers \ {p} : told'[q] = told[q]
    BY <1>4, ZenonT(40) DEF TypeOK
  <1>8. QED
    BY <1>4, <1>5, <1>6, <1>7, OneAddress, ZenonT(40)

\* The receive loop.
LEMMA HandleHolds ==
  ASSUME TypeOK, TableHolds, NEW p \in Peers, Handle(p)
  PROVE  TableHolds'
  <1>1. ASSUME NEW d \in Devices, Connect(p, d.id, d.clean) PROVE TableHolds'
    BY <1>1, ZenonT(40) DEF Connect, TableHolds, Known
  <1>2. ASSUME NEW t \in Topics, RegisterTopic(p, t) \/ Subscribe(p, t) PROVE TableHolds'
    BY <1>2, AnswerHolds, ZenonT(40) DEF RegisterTopic, Subscribe
  <1>3. ASSUME NEW t \in Topics, Unsubscribe(p, t) PROVE TableHolds'
    <2> DEFINE s == Touched(clients[p])
               n == Unassign(s, t)
    <2>1. /\ Known(p) /\ clients' = [clients EXCEPT ![p] = n]
          /\ told' = [told EXCEPT ![p][t] = 0] /\ exhausted' = exhausted
      BY <1>3, ZenonT(40) DEF Unsubscribe, ghosts
    <2>2. /\ s \in SnClient /\ s.ids = clients[p].ids /\ s.names = clients[p].names
          /\ s.epoch = clients[p].epoch
      BY <2>1, ClientType, TouchedKeeps, ZenonT(40)
    <2>3. TopicMapsInverse(s) /\ (s.epoch \notin exhausted => Holds(s, told[p]))
      BY <2>1, <2>2, AtAddress, SMTT(40) DEF TopicMapsInverse, Holds
    <2>4. told[p] \in [Topics -> 0..TopicIdMax] /\ told'[p] = [told[p] EXCEPT ![t] = 0]
      BY <2>1, ZenonT(40) DEF TypeOK
    <2>5. TopicMapsInverse(n) /\ n.epoch = s.epoch /\ (Holds(s, told[p]) => Holds(n, told'[p]))
      <3> HIDE DEF s
      <3>1. QED
        BY <2>2, <2>3, <2>4, UnassignKeeps, SMTT(40)
    <2>6. \A q \in Peers \ {p} : told'[q] = told[q]
      BY <2>1, ZenonT(40) DEF TypeOK
    <2> HIDE DEF n, s
    <2>7. QED
      BY <2>1, <2>3, <2>5, <2>6, OneAddress, ZenonT(40)
  <1>4. ASSUME Known(p), clients' = [clients EXCEPT ![p] = Touched(@)],
               UNCHANGED <<told, exhausted>>
        PROVE  TableHolds'
    <2> DEFINE n == Touched(clients[p])
    <2>1. n.ids = clients[p].ids /\ n.names = clients[p].names /\ n.epoch = clients[p].epoch
      BY <1>4, ClientType, TouchedKeeps, ZenonT(40)
    <2>2. clients' = [clients EXCEPT ![p] = n]
      BY <1>4, ZenonT(40)
    <2> HIDE DEF n
    <2>3. QED
      BY <1>4, <2>1, <2>2, SameTables, ZenonT(40)
  <1>5. ASSUME Sleep(p) PROVE TableHolds'
    <2> DEFINE n == [clients[p] EXCEPT !.sleeping = TRUE, !.late = FALSE]
    <2>1. Known(p) /\ clients' = [clients EXCEPT ![p] = n] /\ UNCHANGED <<told, exhausted>>
      BY <1>5, ZenonT(40) DEF Sleep
    <2>2. n.ids = clients[p].ids /\ n.names = clients[p].names /\ n.epoch = clients[p].epoch
      BY <2>1, ClientType, ZenonT(40) DEF SnClient
    <2> HIDE DEF n
    <2>3. QED
      BY <2>1, <2>2, SameTables, ZenonT(40)
  <1>6. ASSUME Disconnect(p) PROVE TableHolds'
    BY <1>6, OneAddress, ZenonT(40) DEF Disconnect, ghosts
  <1>7. QED
    BY <1>1, <1>2, <1>3, <1>4, <1>5, <1>6, ZenonT(40)
       DEF Handle, SubscribeShort, Publish, Ping, ghosts

\* Inserting a new SnClient keeps the ids that devices know.
LEMMA InsertHolds ==
  ASSUME TypeOK, TableHolds, Insert
  PROVE  TableHolds'
  <1> DEFINE j == task["loop"]
             n == NewClient(j.id, j.epoch, j.clean)
  <1>1. j.peer \in Peers /\ j.id \in Clients /\ j.epoch \in Epochs /\ j.clean \in BOOLEAN
    BY JobType, ZenonT(40) DEF Insert, Workers
  <1>2. TopicMapsInverse(n) /\ Holds(n, [t \in Topics |-> 0])
    BY <1>1, NewClientEmpty, ZenonT(40)
  <1>3. /\ clients' = [clients EXCEPT ![j.peer] = n] /\ exhausted' = exhausted
        /\ told' = [told EXCEPT ![j.peer] = [t \in Topics |-> 0]]
    BY ZenonT(40) DEF Insert
  <1> HIDE DEF n, j
  <1>4. /\ told'[j.peer] = [t \in Topics |-> 0]
        /\ \A q \in Peers \ {j.peer} : told'[q] = told[q]
    BY <1>1, <1>3, ZenonT(40) DEF TypeOK
  <1>5. QED
    BY <1>1, <1>2, <1>3, <1>4, OneAddress, ZenonT(40)

\* The forwarder assigns an id that the device has not been told.
LEMMA ForwardHolds ==
  ASSUME TypeOK, TableHolds, NEW e \in Epochs, ForwardSend(e)
  PROVE  TableHolds'
  <1> DEFINE p == fwd[e].peer
             t == fwd[e].msg
             s == clients[p]
             n == Assign(s, t)
  <1>1. p \in Peers /\ t \in Topics /\ told' = told
    BY FwdType, ZenonT(40) DEF ForwardSend
  <1>2. CASE s # None /\ s.epoch = e
    <2>1. Known(p)
      BY <1>2, ZenonT(40) DEF Known
    <2>2. /\ clients' = [clients EXCEPT ![p] = n]
          /\ exhausted' = IF Exhausts(s, t) THEN exhausted \cup {e} ELSE exhausted
      BY <1>2, ZenonT(40) DEF ForwardSend
    <2>3. s \in SnClient /\ TopicMapsInverse(s) /\ (s.epoch \notin exhausted => Holds(s, told[p]))
      BY <1>1, <2>1, ClientType, AtAddress, ZenonT(40)
    <2>4. /\ TopicMapsInverse(n) /\ n.epoch = s.epoch
          /\ \A i \in TopicIds : s.names[i] # None => n.names[i] = s.names[i]
      <3> HIDE DEF s
      <3>1. QED
        BY <1>1, <2>3, AssignKeeps, ZenonT(40)
    <2>5. told[p] \in [Topics -> 0..TopicIdMax]
      BY <1>1, ZenonT(40) DEF TypeOK
    <2> HIDE DEF n, s, t, p
    <2>6. Holds(s, told[p]) => Holds(n, told[p])
      BY <2>4, <2>5, NoneIsNoPeer, SMTT(40) DEF Holds, TopicIds
    <2>7. exhausted \subseteq exhausted'
      BY <2>2, ZenonT(40)
    <2>8. QED
      BY <1>1, <2>2, <2>3, <2>4, <2>6, <2>7, OneAddress, ZenonT(40)
  <1>3. CASE ~(s # None /\ s.epoch = e)
    <2>1. UNCHANGED <<clients, told, exhausted>>
      BY <1>3, ZenonT(40) DEF ForwardSend
    <2>2. QED
      BY <2>1, ZenonT(40) DEF TableHolds, Known
  <1>4. QED
    BY <1>2, <1>3, ZenonT(40)

\* Every step of the gateway and of the broker around it.
LEMMA NextHolds ==
  ASSUME TypeOK, TableHolds, [Next]_vars
  PROVE  TableHolds'
  <1>1. ASSUME NEW p \in Peers, Elapse(p) PROVE TableHolds'
    <2> DEFINE n == [clients[p] EXCEPT !.late = TRUE]
    <2>1. Known(p) /\ clients' = [clients EXCEPT ![p] = n] /\ UNCHANGED <<told, exhausted>>
      BY <1>1, ZenonT(40) DEF Elapse, ghosts
    <2>2. n.ids = clients[p].ids /\ n.names = clients[p].names /\ n.epoch = clients[p].epoch
      BY <2>1, ClientType, ZenonT(40) DEF SnClient
    <2> HIDE DEF n
    <2>3. QED
      BY <2>1, <2>2, SameTables, ZenonT(40)
  <1>2. ASSUME NEW r \in expired, Expire(r) PROVE TableHolds'
    <2>1. r.peer \in Peers
      BY <1>2, ZenonT(40) DEF TypeOK
    <2>2. QED
      BY <1>2, <2>1, OneAddress, ZenonT(40) DEF Expire
  <1>3. ASSUME UNCHANGED <<clients, told, exhausted>> PROVE TableHolds'
    BY <1>3, ZenonT(40) DEF TableHolds, Known
  <1>4. ASSUME NEW w \in Workers, Cleanup(w) PROVE TableHolds'
    BY <1>3, <1>4, ZenonT(40) DEF Cleanup, CleanupOwns, CleanupUnsubscribe, CleanupFinish, ghosts
  <1>5. ASSUME Scan \/ Shutdown \/ Stop PROVE TableHolds'
    BY <1>3, <1>5, ZenonT(40) DEF Scan, Shutdown, Stop, StopVisit, StopDone, ghosts
  <1>6. ASSUME NEW e \in Epochs, ForwardTake(e) \/ ForwardClosed(e) PROVE TableHolds'
    BY <1>3, <1>6, ZenonT(40) DEF ForwardTake, ForwardClosed, ghosts
  <1>7. ASSUME NEW c \in Clients, TakeOver(c) PROVE TableHolds'
    BY <1>3, <1>7, ZenonT(40) DEF TakeOver
  <1>8. ASSUME NEW t \in Topics, BrokerPublish(t) PROVE TableHolds'
    BY <1>3, <1>8, ZenonT(40) DEF BrokerPublish, ghosts
  <1>9. ASSUME UNCHANGED vars PROVE TableHolds'
    BY <1>3, <1>9, ZenonT(40) DEF vars
  <1>10. QED
    BY HandleHolds, InsertHolds, ForwardHolds, <1>1, <1>2, <1>4, <1>5, <1>6, <1>7, <1>8, <1>9, ZenonT(40)
       DEF Next, Sweep, Forward

\* At the start no device knows an id.
LEMMA InitHolds ==
  ASSUME Init
  PROVE  TypeOK /\ TableHolds
  <1>1. TableHolds
    BY ZenonT(40) DEF Init, TableHolds, Known
  <1>2. TypeOK
    <2>1. 0 \in 0..TopicIdMax /\ 0 \in 0..MaxEpochs
      BY TopicIdMaxPositive, EpochsBounded, SMTT(40)
    <2>2. [pc |-> "none"] \in Forwarder
      BY ZenonT(40) DEF Forwarder
    <2>3. QED
      BY <2>1, <2>2, SMTT(40) DEF Init, TypeOK
  <1>3. QED
    BY <1>1, <1>2, ZenonT(40)

\* Until next_topic_id begins anew, the ids from it on are free.
Fresh(s) == \A i \in TopicIds : i >= s.next => s.names[i] = None
FreshInv == \A p \in Peers : Known(p) /\ clients[p].epoch \notin turned => Fresh(clients[p])

\* assign_topic_id takes the id before the new next_topic_id, at least the old
\* one unless it went round.
LEMMA AssignFresh ==
  ASSUME NEW s \in SnClient, NEW t \in Topics, Fresh(s), ~Turns(s, t)
  PROVE  Fresh(Assign(s, t))
  <1> USE TopicIdMaxPositive
  <1>0. s.next \in TopicIds /\ s.names \in [TopicIds -> Topics \cup {None}]
    BY ZenonT(40) DEF SnClient
  <1>1. CASE s.ids[t] # 0
    BY <1>1, ZenonT(40) DEF Assign
  <1>2. CASE s.ids[t] = 0
    <2>1. s.next \in Free(s)
      <3>1. s.next >= s.next
        BY <1>0, SMTT(40) DEF TopicIds
      <3>2. QED
        BY <1>0, <3>1, ZenonT(40) DEF Fresh, Free
    <2>2. PICK i \in Free(s) : i = FirstFree(s)
      BY <2>1, FirstFreeIsFree, ZenonT(40)
    <2>3. Assign(s, t) = [s EXCEPT !.ids[t] = i, !.names[i] = t, !.next = Succ(i)]
      BY <1>2, <2>1, <2>2, ZenonT(40) DEF Assign
    <2>4. PICK n : n = Assign(s, t)
      BY ZenonT(40)
    <2>5. n.next = Succ(i) /\ n.names = [s.names EXCEPT ![i] = t]
      BY <2>3, <2>4, ZenonT(40) DEF SnClient
    <2>6. i \in TopicIds /\ ~(Succ(i) <= s.next)
      BY <1>2, <2>2, <2>4, <2>5, ZenonT(40) DEF Turns, Free
    <2>7. i >= s.next /\ Succ(i) = i + 1
      BY <1>0, <2>6, SMTT(40) DEF Succ, TopicIds
    <2>8. ASSUME NEW j \in TopicIds, j >= n.next PROVE n.names[j] = None
      <3>1. j >= s.next /\ j # i
        BY <1>0, <2>5, <2>6, <2>7, <2>8, SMTT(40) DEF TopicIds
      <3>2. n.names[j] = s.names[j]
        BY <1>0, <2>5, <3>1, ZenonT(40)
      <3>3. QED
        BY <3>1, <3>2, ZenonT(40) DEF Fresh
    <2>9. QED
      BY <2>4, <2>8, ZenonT(40) DEF Fresh
  <1>3. QED
    BY <1>1, <1>2, ZenonT(40)

\* A step that changes the SnClient of one address.
LEMMA FreshAddress ==
  ASSUME TypeOK, FreshInv, NEW p \in Peers, NEW n, clients' = [clients EXCEPT ![p] = n],
         turned \subseteq turned', n # None /\ n.epoch \notin turned' => Fresh(n)
  PROVE  FreshInv'
  <1>1. ASSUME NEW q \in Peers, clients'[q] # None, clients'[q].epoch \notin turned'
        PROVE  Fresh(clients'[q])
    <2>1. CASE q = p
      <3>1. clients'[q] = n
        BY <2>1, ZenonT(40) DEF TypeOK
      <3>2. QED
        BY <1>1, <3>1, ZenonT(40)
    <2>2. CASE q # p
      <3>1. clients'[q] = clients[q]
        BY <2>2, ZenonT(40) DEF TypeOK
      <3>2. QED
        BY <1>1, <3>1, ZenonT(40) DEF FreshInv, Known
    <2>3. QED
      BY <2>1, <2>2, ZenonT(40)
  <1>2. QED
    BY <1>1, ZenonT(40) DEF FreshInv, Fresh, Known

\* One that frees ids at most.
LEMMA FreshThinner ==
  ASSUME TypeOK, FreshInv, NEW p \in Peers, Known(p), NEW n,
         n.next = clients[p].next, n.epoch = clients[p].epoch,
         \A i \in TopicIds : n.names[i] \in {clients[p].names[i], None},
         clients' = [clients EXCEPT ![p] = n], turned' = turned
  PROVE  FreshInv'
  <1>1. n.epoch \notin turned' => Fresh(n)
    BY ZenonT(40) DEF FreshInv, Fresh
  <1>2. QED
    BY <1>1, FreshAddress, ZenonT(40)

\* A packet of a device that leaves the ids as they are.
LEMMA TouchedFresh ==
  ASSUME NEW s \in SnClient
  PROVE  /\ Touched(s) \in SnClient /\ Touched(s).next = s.next /\ Touched(s).names = s.names
         /\ Touched(s).ids = s.ids /\ Touched(s).epoch = s.epoch
  BY ZenonT(40) DEF Touched, SnClient

\* assign_topic_id on behalf of the client at an address.
LEMMA AssignedFresh ==
  ASSUME TypeOK, FreshInv, NEW p \in Peers, Known(p), NEW t \in Topics, NEW s \in SnClient,
         s.next = clients[p].next, s.names = clients[p].names, s.ids = clients[p].ids,
         s.epoch = clients[p].epoch, clients' = [clients EXCEPT ![p] = Assign(s, t)],
         turned' = IF Turns(clients[p], t) THEN turned \cup {s.epoch} ELSE turned
  PROVE  FreshInv'
  <1>0. clients[p] \in SnClient
    BY ClientType, ZenonT(40)
  <1>1. PICK n : n = Assign(s, t)
    BY ZenonT(40)
  <1>2. n.epoch = s.epoch
    BY <1>1, ZenonT(40) DEF Assign, SnClient
  <1>3. Assign(s, t).next = Assign(clients[p], t).next
    <2>1. Free(s) = Free(clients[p])
      BY ZenonT(40) DEF Free
    <2>2. FirstFree(s) = FirstFree(clients[p])
      BY <2>1, ZenonT(40) DEF FirstFree
    <2>3. CASE s.ids[t] # 0
      BY <2>3, ZenonT(40) DEF Assign
    <2>4. CASE s.ids[t] = 0 /\ Free(s) = {}
      BY <1>0, <2>1, <2>4, ZenonT(40) DEF Assign, SnClient
    <2>5. CASE s.ids[t] = 0 /\ Free(s) # {}
      BY <1>0, <2>1, <2>2, <2>5, ZenonT(40) DEF Assign, SnClient
    <2>6. QED
      BY <2>3, <2>4, <2>5, ZenonT(40)
  <1>4. Turns(s, t) <=> Turns(clients[p], t)
    BY <1>3, ZenonT(40) DEF Turns
  <1>5. ASSUME n.epoch \notin turned' PROVE Fresh(n)
    <2>1. ~Turns(s, t) /\ s.epoch \notin turned
      BY <1>2, <1>4, <1>5, ZenonT(40)
    <2>2. Fresh(s)
      BY <2>1, ZenonT(40) DEF FreshInv, Fresh
    <2>3. QED
      BY <1>1, <2>1, <2>2, AssignFresh, ZenonT(40)
  <1>6. turned \subseteq turned'
    BY ZenonT(40)
  <1>7. QED
    BY <1>1, <1>5, <1>6, FreshAddress, ZenonT(40)

\* Every step of the gateway and of the broker around it.
LEMMA NextFresh ==
  ASSUME TypeOK, FreshInv, [Next]_vars
  PROVE  FreshInv'
  <1>1. ASSUME UNCHANGED <<clients, turned>> PROVE FreshInv'
    BY <1>1, ZenonT(40) DEF FreshInv, Fresh, Known
  <1>2. ASSUME NEW p \in Peers, NEW t \in Topics, Known(p), Answer(p, t) PROVE FreshInv'
    <2>1. PICK s \in SnClient : s = Touched(clients[p])
      BY <1>2, ClientType, TouchedFresh, ZenonT(40)
    <2>2. /\ s.next = clients[p].next /\ s.names = clients[p].names /\ s.ids = clients[p].ids
          /\ s.epoch = clients[p].epoch
      BY <1>2, <2>1, ClientType, TouchedFresh, ZenonT(40)
    <2>3. /\ clients' = [clients EXCEPT ![p] = Assign(s, t)]
          /\ turned' = IF Turns(clients[p], t) THEN turned \cup {Assign(s, t).epoch} ELSE turned
      BY <1>2, <2>1, ZenonT(40) DEF Answer
    <2>4. Assign(s, t).epoch = s.epoch
      BY ZenonT(40) DEF Assign, SnClient
    <2>5. QED
      BY <1>2, <2>2, <2>3, <2>4, AssignedFresh, ZenonT(40)
  <1>3. ASSUME NEW p \in Peers, Known(p), clients' = [clients EXCEPT ![p] = Touched(@)],
               turned' = turned
        PROVE  FreshInv'
    <2>1. PICK n : n = Touched(clients[p])
      BY ZenonT(40)
    <2>2. n.next = clients[p].next /\ n.names = clients[p].names /\ n.epoch = clients[p].epoch
      BY <1>3, <2>1, ClientType, TouchedFresh, ZenonT(40)
    <2>3. clients' = [clients EXCEPT ![p] = n]
      BY <1>3, <2>1, ZenonT(40)
    <2>4. QED
      BY <1>3, <2>2, <2>3, FreshThinner, ZenonT(40)
  <1>4. ASSUME NEW p \in Peers, NEW t \in Topics, Unsubscribe(p, t) PROVE FreshInv'
    <2>1. Known(p) /\ turned' = turned
      BY <1>4, ZenonT(40) DEF Unsubscribe, ghosts
    <2>2. PICK s \in SnClient : s = Touched(clients[p])
      BY <2>1, ClientType, TouchedFresh, ZenonT(40)
    <2>3. s.next = clients[p].next /\ s.names = clients[p].names /\ s.epoch = clients[p].epoch
      BY <2>1, <2>2, ClientType, TouchedFresh, ZenonT(40)
    <2>4. PICK n : n = Unassign(s, t)
      BY ZenonT(40)
    <2>5. /\ n.next = s.next /\ n.epoch = s.epoch
          /\ n.names = [i \in TopicIds |-> IF i = s.ids[t] THEN None ELSE s.names[i]]
      BY <2>4, ZenonT(40) DEF Unassign, SnClient
    <2>6. \A i \in TopicIds : n.names[i] \in {clients[p].names[i], None}
      BY <2>3, <2>5, ZenonT(40)
    <2>7. clients' = [clients EXCEPT ![p] = n]
      BY <1>4, <2>2, <2>4, ZenonT(40) DEF Unsubscribe
    <2>8. n.next = clients[p].next /\ n.epoch = clients[p].epoch
      BY <2>3, <2>5, ZenonT(40)
    <2>9. QED
      BY <2>1, <2>6, <2>7, <2>8, FreshThinner, ZenonT(40)
  <1>5. ASSUME NEW p \in Peers, Sleep(p) \/ Elapse(p) PROVE FreshInv'
    <2>1. Known(p) /\ turned' = turned
      BY <1>5, ZenonT(40) DEF Sleep, Elapse, ghosts
    <2>2. clients[p] \in SnClient
      BY <2>1, ClientType, ZenonT(40)
    <2>3. PICK n : /\ clients' = [clients EXCEPT ![p] = n]
                   /\ \/ n = [clients[p] EXCEPT !.sleeping = TRUE, !.late = FALSE]
                      \/ n = [clients[p] EXCEPT !.late = TRUE]
      BY <1>5, ZenonT(40) DEF Sleep, Elapse
    <2>4. n.next = clients[p].next /\ n.names = clients[p].names /\ n.epoch = clients[p].epoch
      BY <2>2, <2>3, ZenonT(40) DEF SnClient
    <2>5. QED
      BY <2>1, <2>3, <2>4, FreshThinner, ZenonT(40)
  <1>6. ASSUME NEW p \in Peers, clients' = [clients EXCEPT ![p] = None], turned' = turned
        PROVE  FreshInv'
    BY <1>6, FreshAddress, ZenonT(40)
  <1>7. ASSUME NEW p \in Peers, Handle(p) PROVE FreshInv'
    <2>1. ASSUME NEW d \in Devices, Connect(p, d.id, d.clean) PROVE FreshInv'
      BY <1>1, <2>1, ZenonT(40) DEF Connect
    <2>2. ASSUME NEW t \in Topics, RegisterTopic(p, t) \/ Subscribe(p, t) PROVE FreshInv'
      BY <1>2, <2>2, ZenonT(40) DEF RegisterTopic, Subscribe
    <2>3. ASSUME Disconnect(p) PROVE FreshInv'
      BY <1>6, <2>3, ZenonT(40) DEF Disconnect, ghosts
    <2>4. QED
      BY <1>3, <1>4, <1>5, <1>7, <2>1, <2>2, <2>3, ZenonT(40)
         DEF Handle, SubscribeShort, Publish, Ping, ghosts
  <1>8. ASSUME Insert PROVE FreshInv'
    <2>1. PICK j : j = task["loop"]
      BY ZenonT(40)
    <2>2. j.peer \in Peers
      BY <1>8, <2>1, JobType, ZenonT(40) DEF Insert, Workers
    <2>3. PICK n : n = NewClient(j.id, j.epoch, j.clean)
      BY ZenonT(40)
    <2>4. Fresh(n)
      BY <2>3, ZenonT(40) DEF NewClient, Fresh
    <2>5. clients' = [clients EXCEPT ![j.peer] = n] /\ turned' = turned
      BY <1>8, <2>1, <2>3, ZenonT(40) DEF Insert
    <2>6. QED
      BY <2>2, <2>4, <2>5, FreshAddress, ZenonT(40)
  <1>9. ASSUME NEW e \in Epochs, ForwardSend(e) PROVE FreshInv'
    <2>1. PICK p \in Peers, t \in Topics : p = fwd[e].peer /\ t = fwd[e].msg
      BY <1>9, FwdType, ZenonT(40) DEF ForwardSend
    <2>2. CASE clients[p] # None /\ clients[p].epoch = e
      <3>1. Known(p) /\ clients[p] \in SnClient
        BY <2>2, ClientType, ZenonT(40) DEF Known
      <3>2. /\ clients' = [clients EXCEPT ![p] = Assign(clients[p], t)]
            /\ turned' = IF Turns(clients[p], t) THEN turned \cup {clients[p].epoch} ELSE turned
        BY <1>9, <2>1, <2>2, ZenonT(40) DEF ForwardSend
      <3>3. QED
        BY <3>1, <3>2, AssignedFresh, ZenonT(40)
    <2>3. CASE ~(clients[p] # None /\ clients[p].epoch = e)
      BY <1>1, <1>9, <2>1, <2>3, ZenonT(40) DEF ForwardSend
    <2>4. QED
      BY <2>2, <2>3, ZenonT(40)
  <1>10. ASSUME NEW r \in expired, Expire(r) PROVE FreshInv'
    <2>1. r.peer \in Peers
      BY <1>10, ZenonT(40) DEF TypeOK
    <2>2. QED
      BY <1>6, <1>10, <2>1, ZenonT(40) DEF Expire
  <1>11. ASSUME NEW w \in Workers, Cleanup(w) PROVE FreshInv'
    BY <1>1, <1>11, ZenonT(40) DEF Cleanup, CleanupOwns, CleanupUnsubscribe, CleanupFinish, ghosts
  <1>12. ASSUME Scan \/ Shutdown \/ Stop PROVE FreshInv'
    BY <1>1, <1>12, ZenonT(40) DEF Scan, Shutdown, Stop, StopVisit, StopDone, ghosts
  <1>13. ASSUME NEW e \in Epochs, ForwardTake(e) \/ ForwardClosed(e) PROVE FreshInv'
    BY <1>1, <1>13, ZenonT(40) DEF ForwardTake, ForwardClosed, ghosts
  <1>14. ASSUME NEW c \in Clients, TakeOver(c) PROVE FreshInv'
    BY <1>1, <1>14, ZenonT(40) DEF TakeOver
  <1>15. ASSUME NEW t \in Topics, BrokerPublish(t) PROVE FreshInv'
    BY <1>1, <1>15, ZenonT(40) DEF BrokerPublish, ghosts
  <1>16. ASSUME UNCHANGED vars PROVE FreshInv'
    BY <1>1, <1>16, ZenonT(40) DEF vars
  <1>17. QED
    BY <1>5, <1>7, <1>8, <1>9, <1>10, <1>11, <1>12, <1>13, <1>14, <1>15, <1>16, ZenonT(40)
       DEF Next, Sweep, Forward

\* An id that is still free leaves the short name its meaning.
LEMMA FreshShort ==
  ASSUME FreshInv
  PROVE  ShortNamesHold
  <1>1. \A t \in ShortTopics : ShortId[t] \in TopicIds
    BY ShortIds
  <1>2. QED
    BY <1>1, ZenonT(40) DEF FreshInv, Fresh, ShortNamesHold, Meant

\* For every number of devices, topics and ids, whatever the sweeper, the
\* forwarders and other connections do in between: the variables of the gateway
\* keep their types; an id of the table that REGACK or SUBACK told a device
\* denotes the topic the device means until it unsubscribes or connects anew,
\* unless the table of the client ran out of ids; and a short topic name denotes
\* itself until next_topic_id has come to its number (assign_topic_id, handle,
\* handle_publish, sweeper and forward_outbound of net/mqtt_sn.rs).
THEOREM TopicIdsCorrect == Spec => [](TypeOK /\ TopicIdsHold)
  <1>1. Init => TypeOK /\ TableHolds /\ FreshInv
    <2>1. Init => FreshInv
      BY ZenonT(40) DEF Init, FreshInv, Known
    <2>2. QED
      BY <2>1, InitHolds, ZenonT(40)
  <1>2. TypeOK /\ TableHolds /\ FreshInv /\ [Next]_vars => (TypeOK /\ TableHolds /\ FreshInv)'
    BY NextType, NextHolds, NextFresh, ZenonT(40)
  <1>3. TypeOK /\ TableHolds /\ FreshInv => TypeOK /\ TopicIdsHold
    BY FreshShort, ZenonT(40) DEF TopicIdsHold
  <1>4. QED
    BY <1>1, <1>2, <1>3, PTL DEF Spec

-----------------------------------------------------------------------------
(* The sessions of the gateway                                             *)

Forwarded(e) == fwd[e].pc # "none"
Inserting(i, e) ==
    task["loop"].pc = "insert" /\ task["loop"].id = i /\ task["loop"].epoch = e

\* Somebody in the gateway keeps the identity of a registration that is past
\* handle_connect: the clients map, the list of the sweeper, or a cleanup.
Kept(i, e) ==
    \/ \E p \in Peers : Known(p) /\ clients[p].id = i /\ clients[p].epoch = e
    \/ \E r \in expired : r.id = i /\ r.epoch = e
    \/ \E w \in Workers : task[w].pc \in {"owns", "unsub", "finish"}
                          /\ task[w].id = i /\ task[w].epoch = e

\* An epoch was given out, to client i if to one that has it now.
Given(i, e) == e <= epoch /\ \A c \in Clients : Owns(c, e) => c = i

\* Epochs are given out once: what the gateway remembers of a registration is
\* right as long as the registration stands.
RecordInv ==
    /\ \A c \in Clients, e \in Epochs : Owns(c, e) => e <= epoch
    /\ \A e \in Epochs : Forwarded(e) => e <= epoch
    /\ \A i \in Clients, e \in Epochs : Kept(i, e) => Given(i, e) /\ Forwarded(e)
    /\ \A i \in Clients, e \in Epochs : Inserting(i, e) => Given(i, e)
    /\ task["sweeper"].pc # "insert"

\* Somebody will end the registration, or its SnClient was displaced.
Watched(e) ==
    \/ e \in orphans
    \/ \E p \in Peers : Known(p) /\ clients[p].epoch = e
    \/ \E w \in Workers : task[w].pc \in {"insert", "owns", "unsub", "finish"}
                          /\ task[w].epoch = e
WatchInv == \A c \in Clients, e \in Epochs : Online(c, e) /\ OfGateway(e) => Watched(e)

\* The sessions the gauge stands for.
Serving == {c \in Clients : \E e \in Epochs : Online(c, e) /\ OfGateway(e)}
GaugeInv ==
    drift \/ /\ IsFiniteSet(Serving)
             /\ gauge = Cardinality(Serving) - (IF task["loop"].pc = "insert" THEN 1 ELSE 0)

GatewayInv == TypeOK /\ TableHolds /\ RecordInv /\ WatchInv /\ GaugeInv

\* The two workers insert nothing new and drop no registration.
SameInsert ==
    /\ task'["loop"].pc = "insert" <=> task["loop"].pc = "insert"
    /\ task["loop"].pc = "insert" => task'["loop"] = task["loop"]
    /\ task'["sweeper"].pc # "insert"

\* A step that leaves the sessions and the gauge alone and loses track of none.
Quiet ==
    /\ sessions' = sessions /\ epoch' = epoch /\ gauge' = gauge /\ drift' = drift
    /\ SameInsert
    /\ \A i \in Clients, e \in Epochs : Kept(i, e)' => Kept(i, e)
    /\ \A e \in Epochs : Forwarded(e)' <=> Forwarded(e)
    /\ \A c \in Clients, e \in Epochs : Online(c, e) /\ Watched(e) => Watched(e)'

\* Who belongs to the gateway stays while its forwarders and inserts do.
LEMMA SameGateway ==
  ASSUME SameInsert, \A e \in Epochs : Forwarded(e)' <=> Forwarded(e)
  PROVE  /\ \A e \in Epochs : OfGateway(e)' <=> OfGateway(e)
         /\ \A i \in Clients, e \in Epochs : Inserting(i, e)' => Inserting(i, e)
  <1>1. \A e \in Epochs : OfGateway(e)' <=> OfGateway(e)
    <2>1. CASE task["loop"].pc = "insert"
      BY <2>1, ZenonT(40) DEF OfGateway, Forwarded, SameInsert
    <2>2. CASE task["loop"].pc # "insert"
      BY <2>2, ZenonT(40) DEF OfGateway, Forwarded, SameInsert
    <2>3. QED
      BY <2>1, <2>2, ZenonT(40)
  <1>2. \A i \in Clients, e \in Epochs : Inserting(i, e)' => Inserting(i, e)
    BY ZenonT(40) DEF Inserting, SameInsert
  <1>3. QED
    BY <1>1, <1>2, ZenonT(40)

\* A quiet step keeps the three invariants.
LEMMA QuietKeeps ==
  ASSUME RecordInv, WatchInv, GaugeInv, Quiet
  PROVE  RecordInv' /\ WatchInv' /\ GaugeInv'
  <1>1. /\ \A e \in Epochs : OfGateway(e)' <=> OfGateway(e)
        /\ \A i \in Clients, e \in Epochs : Inserting(i, e)' => Inserting(i, e)
    BY SameGateway, ZenonT(40) DEF Quiet
  <1>2. /\ \A c \in Clients, e \in Epochs : Owns(c, e)' <=> Owns(c, e)
        /\ \A c \in Clients, e \in Epochs : Online(c, e)' <=> Online(c, e)
    BY ZenonT(40) DEF Quiet, Owns, Online
  <1>3. \A i \in Clients, e \in Epochs : Given(i, e) => Given(i, e)'
    BY <1>2, ZenonT(40) DEF Quiet, Given
  <1>4. RecordInv'
    <2>1. \A c \in Clients, e \in Epochs : Owns(c, e)' => e <= epoch'
      BY <1>2, ZenonT(40) DEF RecordInv, Quiet
    <2>2. \A e \in Epochs : Forwarded(e)' => e <= epoch'
      BY ZenonT(40) DEF RecordInv, Quiet
    <2>3. \A i \in Clients, e \in Epochs : Kept(i, e)' => Given(i, e)' /\ Forwarded(e)'
      BY <1>3, ZenonT(40) DEF RecordInv, Quiet
    <2>4. \A i \in Clients, e \in Epochs : Inserting(i, e)' => Given(i, e)'
      BY <1>1, <1>3, ZenonT(40) DEF RecordInv
    <2>5. task'["sweeper"].pc # "insert"
      BY ZenonT(40) DEF Quiet, SameInsert
    <2>6. QED
      BY <2>1, <2>2, <2>3, <2>4, <2>5, ZenonT(40) DEF RecordInv, Epochs
  <1>5. WatchInv'
    BY <1>1, <1>2, ZenonT(40) DEF WatchInv, Quiet, Epochs
  <1>6. Serving' = Serving
    BY <1>1, <1>2, ZenonT(40) DEF Serving, Epochs
  <1>7. GaugeInv'
    <2>1. task'["loop"].pc = "insert" <=> task["loop"].pc = "insert"
      BY ZenonT(40) DEF Quiet, SameInsert
    <2>2. gauge' = gauge /\ drift' = drift
      BY ZenonT(40) DEF Quiet
    <2>3. CASE task["loop"].pc = "insert"
      BY <1>6, <2>1, <2>2, <2>3, ZenonT(40) DEF GaugeInv
    <2>4. CASE task["loop"].pc # "insert"
      BY <1>6, <2>1, <2>2, <2>4, ZenonT(40) DEF GaugeInv
    <2>5. QED
      BY <2>3, <2>4, ZenonT(40)
  <1>8. QED
    BY <1>4, <1>5, <1>7, ZenonT(40)

\* The entries of the clients map keep their identity.
SameClients ==
    \A p \in Peers : /\ Known(p)' <=> Known(p)
                     /\ Known(p) => clients'[p].id = clients[p].id
                                    /\ clients'[p].epoch = clients[p].epoch

\* A step that changes no session, epoch or job is quiet.
LEMMA SameClientsQuiet ==
  ASSUME RecordInv, SameClients,
         sessions' = sessions, epoch' = epoch, gauge' = gauge, drift' = drift,
         task' = task, expired' = expired, orphans' = orphans,
         \A e \in Epochs : Forwarded(e)' <=> Forwarded(e)
  PROVE  Quiet
  <1>1. SameInsert
    BY ZenonT(40) DEF SameInsert, RecordInv
  <1>2. \A i \in Clients, e \in Epochs : Kept(i, e)' => Kept(i, e)
    <2> SUFFICES ASSUME NEW i \in Clients, NEW e \in Epochs, Kept(i, e)' PROVE Kept(i, e)
      BY ZenonT(40)
    <2>1. CASE \E p \in Peers : Known(p)' /\ clients'[p].id = i /\ clients'[p].epoch = e
      BY <2>1, ZenonT(40) DEF Kept, SameClients
    <2>2. CASE \E r \in expired' : r.id = i /\ r.epoch = e
      BY <2>2, ZenonT(40) DEF Kept
    <2>3. CASE \E w \in Workers : task'[w].pc \in {"owns", "unsub", "finish"}
                                  /\ task'[w].id = i /\ task'[w].epoch = e
      BY <2>3, ZenonT(40) DEF Kept
    <2>4. QED
      BY <2>1, <2>2, <2>3, ZenonT(40) DEF Kept
  <1>3. \A e \in Epochs : Watched(e) => Watched(e)'
    BY ZenonT(40) DEF Watched, SameClients
  <1>4. QED
    BY <1>1, <1>2, <1>3, ZenonT(40) DEF Quiet

\* Changing one SnClient but not its id and epoch changes no client.
LEMMA OneClient ==
  ASSUME TypeOK, NEW p \in Peers, Known(p), NEW n \in SnClient,
         clients' = [clients EXCEPT ![p] = n],
         n.id = clients[p].id, n.epoch = clients[p].epoch
  PROVE  SameClients
  <1>1. \A q \in Peers : clients'[q] = IF q = p THEN n ELSE clients[q]
    BY ZenonT(40) DEF TypeOK
  <1>2. n # None
    BY NoneIsNoEntry, ZenonT(40)
  <1>3. QED
    BY <1>1, <1>2, ZenonT(40) DEF SameClients, Known

\* Topic ids and touch leave id and epoch of a client alone.
LEMMA SameIdentity ==
  ASSUME NEW s \in SnClient, NEW t
  PROVE  /\ Assign(s, t).id = s.id /\ Assign(s, t).epoch = s.epoch
         /\ Unassign(s, t).id = s.id /\ Unassign(s, t).epoch = s.epoch
         /\ Touched(s).id = s.id /\ Touched(s).epoch = s.epoch
  <1>1. Assign(s, t).id = s.id /\ Assign(s, t).epoch = s.epoch
    <2>1. CASE s.ids[t] # 0
      BY <2>1, ZenonT(40) DEF Assign
    <2>2. CASE s.ids[t] = 0 /\ Free(s) = {}
      BY <2>2, ZenonT(40) DEF Assign, SnClient
    <2>3. CASE s.ids[t] = 0 /\ Free(s) # {}
      BY <2>3, ZenonT(40) DEF Assign, SnClient
    <2>4. QED
      BY <2>1, <2>2, <2>3, ZenonT(40)
  <1>2. Unassign(s, t).id = s.id /\ Unassign(s, t).epoch = s.epoch
    BY ZenonT(40) DEF Unassign, SnClient
  <1>3. Touched(s).id = s.id /\ Touched(s).epoch = s.epoch
    BY ZenonT(40) DEF Touched, SnClient
  <1>4. QED
    BY <1>1, <1>2, <1>3, ZenonT(40)

\* The packets that only touch the SnClient and its table.
LEMMA TableQuiet ==
  ASSUME TypeOK, TableHolds, NEW p \in Peers, Known(p),
         \/ clients' = [clients EXCEPT ![p] = Touched(clients[p])]
         \/ \E t \in Topics : clients' = [clients EXCEPT ![p] = Assign(Touched(clients[p]), t)]
         \/ \E t \in Topics : clients' = [clients EXCEPT ![p] = Unassign(Touched(clients[p]), t)]
  PROVE  SameClients
  <1>1. PICK s : s = Touched(clients[p])
    BY ZenonT(40)
  <1>2. clients[p] \in SnClient /\ TopicMapsInverse(clients[p])
    BY ClientType, KnownInverse, ZenonT(40)
  <1>3. s \in SnClient /\ s.ids = clients[p].ids /\ s.names = clients[p].names
    BY <1>1, <1>2, TouchedKeeps, ZenonT(40)
  <1>4. s.id = clients[p].id /\ s.epoch = clients[p].epoch
    BY <1>1, <1>2, SameIdentity, ZenonT(40)
  <1>5. TopicMapsInverse(s)
    BY <1>2, <1>3, SMTT(40) DEF TopicMapsInverse
  <1>6. CASE clients' = [clients EXCEPT ![p] = s]
    BY <1>3, <1>4, <1>6, OneClient, ZenonT(40)
  <1>7. ASSUME NEW t \in Topics, clients' = [clients EXCEPT ![p] = Assign(s, t)]
        PROVE  SameClients
    <2>1. PICK n : n = Assign(s, t)
      BY ZenonT(40)
    <2>2. n \in SnClient
      BY <1>3, <1>5, <2>1, AssignKeeps, ZenonT(40)
    <2>3. n.id = clients[p].id /\ n.epoch = clients[p].epoch
      BY <1>3, <1>4, <2>1, SameIdentity, ZenonT(40)
    <2>4. clients' = [clients EXCEPT ![p] = n]
      BY <1>7, <2>1, ZenonT(40)
    <2>5. QED
      BY <2>2, <2>3, <2>4, OneClient, ZenonT(40)
  <1>8. ASSUME NEW t \in Topics, clients' = [clients EXCEPT ![p] = Unassign(s, t)]
        PROVE  SameClients
    <2>1. PICK n : n = Unassign(s, t)
      BY ZenonT(40)
    <2>2. n \in SnClient
      BY <1>3, <1>5, <2>1, UnassignKeeps, ZenonT(40)
    <2>3. n.id = clients[p].id /\ n.epoch = clients[p].epoch
      BY <1>3, <1>4, <2>1, SameIdentity, ZenonT(40)
    <2>4. clients' = [clients EXCEPT ![p] = n]
      BY <1>8, <2>1, ZenonT(40)
    <2>5. QED
      BY <2>2, <2>3, <2>4, OneClient, ZenonT(40)
  <1>9. QED
    <2>1. CASE clients' = [clients EXCEPT ![p] = Touched(clients[p])]
      BY <1>1, <1>6, <2>1, ZenonT(40)
    <2>2. CASE \E t \in Topics : clients' = [clients EXCEPT ![p] = Assign(Touched(clients[p]), t)]
      <3>1. PICK t \in Topics : clients' = [clients EXCEPT ![p] = Assign(Touched(clients[p]), t)]
        BY <2>2, ZenonT(40)
      <3>2. clients' = [clients EXCEPT ![p] = Assign(s, t)]
        BY <1>1, <3>1, ZenonT(40)
      <3>3. QED
        BY <1>7, <3>2, ZenonT(40)
    <2>3. CASE \E t \in Topics : clients' = [clients EXCEPT ![p] = Unassign(Touched(clients[p]), t)]
      <3>1. PICK t \in Topics : clients' = [clients EXCEPT ![p] = Unassign(Touched(clients[p]), t)]
        BY <2>3, ZenonT(40)
      <3>2. clients' = [clients EXCEPT ![p] = Unassign(s, t)]
        BY <1>1, <3>1, ZenonT(40)
      <3>3. QED
        BY <1>8, <3>2, ZenonT(40)
    <2>4. QED
      BY <2>1, <2>2, <2>3, ZenonT(40)

\* Packets about topics, PUBLISH and PINGREQ are quiet.
LEMMA PacketQuiet ==
  ASSUME TypeOK, TableHolds, RecordInv, NEW p \in Peers,
         \/ \E t \in Topics : RegisterTopic(p, t) \/ Subscribe(p, t) \/ Unsubscribe(p, t)
         \/ \E t \in ShortTopics : SubscribeShort(p, t)
         \/ \E i \in TopicIds, t \in ShortTopics \cup {None} : Publish(p, i, t)
         \/ Ping(p)
  PROVE  Quiet
  <1>1. SUFFICES /\ SameClients /\ fwd' = fwd
                 /\ sessions' = sessions /\ epoch' = epoch /\ gauge' = gauge /\ drift' = drift
                 /\ task' = task /\ expired' = expired /\ orphans' = orphans
    BY SameClientsQuiet, ZenonT(40) DEF Forwarded
  <1>2. ASSUME NEW t \in Topics, RegisterTopic(p, t) \/ Subscribe(p, t)
        PROVE  /\ SameClients /\ fwd' = fwd
               /\ sessions' = sessions /\ epoch' = epoch /\ gauge' = gauge /\ drift' = drift
               /\ task' = task /\ expired' = expired /\ orphans' = orphans
    <2>1. Known(p) /\ clients' = [clients EXCEPT ![p] = Assign(Touched(clients[p]), t)]
      BY <1>2, ZenonT(40) DEF RegisterTopic, Subscribe, Answer
    <2>2. SameClients
      BY <2>1, TableQuiet, ZenonT(40)
    <2>3. QED
      BY <1>2, <2>2, ZenonT(40) DEF RegisterTopic, Subscribe, sessionVars, workVars, flowVars
  <1>3. ASSUME NEW t \in Topics, Unsubscribe(p, t)
        PROVE  /\ SameClients /\ fwd' = fwd
               /\ sessions' = sessions /\ epoch' = epoch /\ gauge' = gauge /\ drift' = drift
               /\ task' = task /\ expired' = expired /\ orphans' = orphans
    <2>1. Known(p) /\ clients' = [clients EXCEPT ![p] = Unassign(Touched(clients[p]), t)]
      BY <1>3, ZenonT(40) DEF Unsubscribe
    <2>2. SameClients
      BY <2>1, TableQuiet, ZenonT(40)
    <2>3. QED
      BY <1>3, <2>2, ZenonT(40) DEF Unsubscribe, workVars, flowVars, ghosts
  <1>4. ASSUME \/ Ping(p)
               \/ \E t \in ShortTopics : SubscribeShort(p, t)
               \/ \E i \in TopicIds, t \in ShortTopics \cup {None} : Publish(p, i, t)
        PROVE  /\ SameClients /\ fwd' = fwd
               /\ sessions' = sessions /\ epoch' = epoch /\ gauge' = gauge /\ drift' = drift
               /\ task' = task /\ expired' = expired /\ orphans' = orphans
    <2>1. Known(p) /\ clients' = [clients EXCEPT ![p] = Touched(clients[p])]
      BY <1>4, ZenonT(40) DEF Ping, SubscribeShort, Publish
    <2>2. SameClients
      BY <2>1, TableQuiet, ZenonT(40)
    <2>3. QED
      BY <1>4, <2>2, ZenonT(40)
      DEF Ping, SubscribeShort, Publish, sessionVars, workVars, flowVars, ghosts
  <1>5. QED
    BY <1>2, <1>3, <1>4, ZenonT(40)

\* The passing of time is quiet.
LEMMA ElapseQuiet ==
  ASSUME TypeOK, RecordInv, NEW p \in Peers, Elapse(p)
  PROVE  Quiet
  <1>1. PICK n : n = [clients[p] EXCEPT !.late = TRUE]
    BY ZenonT(40)
  <1>2. Known(p) /\ clients[p] \in SnClient
    BY ClientType, ZenonT(40) DEF Elapse
  <1>3. n \in SnClient
    BY <1>1, <1>2, Zenon DEF SnClient
  <1>4. n.id = clients[p].id /\ n.epoch = clients[p].epoch
    BY <1>1, <1>2, ZenonT(40) DEF SnClient
  <1>5. clients' = [clients EXCEPT ![p] = n]
    BY <1>1, ZenonT(40) DEF Elapse
  <1>6. SameClients
    BY <1>2, <1>3, <1>4, <1>5, OneClient, ZenonT(40)
  <1>7. QED
    BY <1>6, SameClientsQuiet, ZenonT(40)
    DEF Elapse, sessionVars, workVars, flowVars, ghosts, Forwarded

\* The shutdown signal and a message of the broker are quiet.
LEMMA OtherQuiet ==
  ASSUME TypeOK, RecordInv,
         Shutdown \/ (\E t \in Topics : BrokerPublish(t)) \/ UNCHANGED vars
  PROVE  Quiet
  <1>1. /\ clients' = clients /\ fwd' = fwd
        /\ sessions' = sessions /\ epoch' = epoch /\ gauge' = gauge /\ drift' = drift
        /\ task' = task /\ expired' = expired /\ orphans' = orphans
    BY ZenonT(40) DEF Shutdown, BrokerPublish, vars, sessionVars, workVars, flowVars, ghosts
  <1>2. SameClients
    BY <1>1, ZenonT(40) DEF SameClients, Known
  <1>3. QED
    BY <1>1, <1>2, SameClientsQuiet, ZenonT(40) DEF Forwarded

\* A forwarder that was spawned stays one.
LEMMA OneForwarder ==
  ASSUME TypeOK, NEW e \in Epochs, Forwarded(e), NEW f, f.pc # "none",
         fwd' = [fwd EXCEPT ![e] = f]
  PROVE  \A d \in Epochs : Forwarded(d)' <=> Forwarded(d)
  <1>1. \A d \in Epochs : fwd'[d] = IF d = e THEN f ELSE fwd[d]
    BY ZenonT(40) DEF TypeOK
  <1>2. QED
    BY <1>1, ZenonT(40) DEF Forwarded

\* A forwarder that ends still counts as that of its session.
LEMMA ExitsForwarded ==
  ASSUME TypeOK, NEW e \in Epochs, Forwarded(e), Exits(e)
  PROVE  \A d \in Epochs : Forwarded(d)' <=> Forwarded(d)
  <1>1. PICK f : f = [pc |-> "done", peer |-> fwd[e].peer, id |-> fwd[e].id]
    BY ZenonT(40)
  <1>2. f.pc = "done"
    BY <1>1, ZenonT(40)
  <1>3. f.pc # "none"
    BY <1>2, SMTT(40)
  <1>4. fwd' = [fwd EXCEPT ![e] = f]
    BY <1>1, ZenonT(40) DEF Exits
  <1>5. QED
    BY <1>3, <1>4, OneForwarder, ZenonT(40)

\* The steps of a forwarder are quiet.
LEMMA ForwardQuiet ==
  ASSUME TypeOK, TableHolds, RecordInv, NEW e \in Epochs, Forward(e)
  PROVE  Quiet
  <1>1. CASE ForwardTake(e)
    <2>1. Forwarded(e)
      <3>1. fwd[e].pc = "recv"
        BY <1>1, ZenonT(40) DEF ForwardTake
      <3>2. QED
        BY <3>1, SMTT(40) DEF Forwarded
    <2>2. CASE Owns(fwd[e].id, e)
      <3>1. PICK f : f = [pc |-> "lookup", peer |-> fwd[e].peer, id |-> fwd[e].id, msg |-> Head(chan[e])]
        BY ZenonT(40)
      <3>2. f.pc = "lookup"
        BY <3>1, ZenonT(40)
      <3>3. f.pc # "none"
        BY <3>2, SMTT(40)
      <3>4. fwd' = [fwd EXCEPT ![e] = f]
        BY <1>1, <2>2, <3>1, ZenonT(40) DEF ForwardTake
      <3>5. \A d \in Epochs : Forwarded(d)' <=> Forwarded(d)
        BY <2>1, <3>3, <3>4, OneForwarder, ZenonT(40)
      <3>6. SameClients
        BY <1>1, ZenonT(40) DEF ForwardTake, SameClients, Known
      <3>7. QED
        BY <1>1, <3>5, <3>6, SameClientsQuiet, ZenonT(40)
        DEF ForwardTake, sessionVars, workVars, ghosts
    <2>3. CASE ~Owns(fwd[e].id, e)
      <3>1. Exits(e)
        BY <1>1, <2>3, ZenonT(40) DEF ForwardTake
      <3>2. \A d \in Epochs : Forwarded(d)' <=> Forwarded(d)
        BY <2>1, <3>1, ExitsForwarded, ZenonT(40)
      <3>3. SameClients
        BY <1>1, ZenonT(40) DEF ForwardTake, SameClients, Known
      <3>4. QED
        BY <1>1, <3>2, <3>3, SameClientsQuiet, ZenonT(40)
        DEF ForwardTake, sessionVars, workVars, ghosts
    <2>4. QED
      BY <2>2, <2>3, ZenonT(40)
  <1>2. CASE ForwardClosed(e)
    <2>1. Forwarded(e)
      <3>1. fwd[e].pc = "recv"
        BY <1>2, ZenonT(40) DEF ForwardClosed
      <3>2. QED
        BY <3>1, SMTT(40) DEF Forwarded
    <2>2. \A d \in Epochs : Forwarded(d)' <=> Forwarded(d)
      BY <1>2, <2>1, ExitsForwarded, ZenonT(40) DEF ForwardClosed
    <2>3. SameClients
      BY <1>2, ZenonT(40) DEF ForwardClosed, SameClients, Known
    <2>4. QED
      BY <1>2, <2>2, <2>3, SameClientsQuiet, ZenonT(40)
      DEF ForwardClosed, sessionVars, workVars, ghosts
  <1>3. CASE ForwardSend(e)
    <2>0. fwd[e].pc = "lookup"
      BY <1>3, ZenonT(40) DEF ForwardSend
    <2>1. Forwarded(e)
      BY <2>0, SMTT(40) DEF Forwarded
    <2>2. fwd[e].peer \in Peers /\ fwd[e].msg \in Topics
      BY <2>0, FwdType, ZenonT(40)
    <2>3. PICK p, t : p = fwd[e].peer /\ t = fwd[e].msg
      BY ZenonT(40)
    <2>4. p \in Peers /\ t \in Topics
      BY <2>2, <2>3, ZenonT(40)
    <2>5. SameClients
      <3>1. CASE clients[p] # None /\ clients[p].epoch = e
        <4>1. clients' = [clients EXCEPT ![p] = Assign(clients[p], t)]
          BY <1>3, <2>3, <3>1, ZenonT(40) DEF ForwardSend
        <4>2. Known(p) /\ clients[p] \in SnClient /\ TopicMapsInverse(clients[p])
          BY <2>4, <3>1, ClientType, KnownInverse, ZenonT(40) DEF Known
        <4>3. PICK n : n = Assign(clients[p], t)
          BY ZenonT(40)
        <4>4. n \in SnClient
          BY <2>4, <4>2, <4>3, AssignKeeps, ZenonT(40)
        <4>5. n.id = clients[p].id /\ n.epoch = clients[p].epoch
          BY <4>2, <4>3, SameIdentity, ZenonT(40)
        <4>6. clients' = [clients EXCEPT ![p] = n]
          BY <4>1, <4>3, ZenonT(40)
        <4>7. QED
          BY <2>4, <4>2, <4>4, <4>5, <4>6, OneClient, ZenonT(40)
      <3>2. CASE ~(clients[p] # None /\ clients[p].epoch = e)
        <4>1. clients' = clients
          BY <1>3, <2>3, <3>2, ZenonT(40) DEF ForwardSend
        <4>2. QED
          BY <4>1, ZenonT(40) DEF SameClients, Known
      <3>3. QED
        BY <3>1, <3>2, ZenonT(40)
    <2>6. PICK g : g = [pc |-> "recv", peer |-> fwd[e].peer, id |-> fwd[e].id]
      BY ZenonT(40)
    <2>7. g.pc = "recv"
      BY <2>6, ZenonT(40)
    <2>8. g.pc # "none"
      BY <2>7, SMTT(40)
    <2>9. fwd' = [fwd EXCEPT ![e] = g] \/ Exits(e)
      BY <1>3, <2>6, ZenonT(40) DEF ForwardSend
    <2>10. \A d \in Epochs : Forwarded(d)' <=> Forwarded(d)
      <3>1. CASE fwd' = [fwd EXCEPT ![e] = g]
        BY <2>1, <2>8, <3>1, OneForwarder, ZenonT(40)
      <3>2. CASE Exits(e)
        BY <2>1, <3>2, ExitsForwarded, ZenonT(40)
      <3>3. QED
        BY <2>9, <3>1, <3>2, ZenonT(40)
    <2>11. /\ sessions' = sessions /\ epoch' = epoch /\ gauge' = gauge /\ drift' = drift
           /\ task' = task /\ expired' = expired /\ orphans' = orphans
      BY <1>3, ZenonT(40) DEF ForwardSend, sessionVars, workVars
    <2>12. QED
      BY <2>5, <2>10, <2>11, SameClientsQuiet, ZenonT(40)
  <1>4. QED
    BY <1>1, <1>2, <1>3, ZenonT(40) DEF Forward

\* A change of one job outside the insert keeps the insert.
LEMMA OneTask ==
  ASSUME TypeOK, RecordInv, NEW w \in Workers, NEW n, task' = [task EXCEPT ![w] = n],
         task[w].pc # "insert", n.pc # "insert"
  PROVE  SameInsert /\ \A v \in Workers : task'[v] = IF v = w THEN n ELSE task[v]
  <1>1. \A v \in Workers : task'[v] = IF v = w THEN n ELSE task[v]
    BY ZenonT(40) DEF TypeOK
  <1>2. "loop" \in Workers /\ "sweeper" \in Workers
    BY ZenonT(40) DEF Workers
  <1>3. QED
    BY <1>1, <1>2, ZenonT(40) DEF SameInsert, RecordInv

\* An idle worker is at none of the positions of a job.
LEMMA IdleTask ==
  ASSUME NEW x, x = Idle
  PROVE  x.pc \notin {"insert", "owns", "unsub", "finish"} /\ x.pc # "insert"
  BY SMTT(40) DEF Idle

\* A cleanup that starts is about the client and epoch it was started with.
LEMMA StartsTask ==
  ASSUME TypeOK, RecordInv, NEW w \in Workers, task[w] = Idle,
         NEW p, NEW i, NEW e, NEW clean, Starts(w, "owns", p, i, e, clean)
  PROVE  /\ SameInsert
         /\ task'[w].pc = "owns" /\ task'[w].id = i /\ task'[w].epoch = e
         /\ \A v \in Workers : v # w => task'[v] = task[v]
  <1>1. PICK j : j = [pc |-> "owns", peer |-> p, id |-> i, epoch |-> e, clean |-> clean]
    BY ZenonT(40)
  <1>2. j.pc = "owns" /\ j.id = i /\ j.epoch = e
    BY <1>1, ZenonT(40)
  <1>3. j.pc # "insert"
    BY <1>2, SMTT(40)
  <1>4. task' = [task EXCEPT ![w] = j]
    BY <1>1, ZenonT(40) DEF Starts
  <1>5. task[w].pc # "insert"
    BY IdleTask, ZenonT(40)
  <1>6. SameInsert /\ \A v \in Workers : task'[v] = IF v = w THEN j ELSE task[v]
    BY <1>3, <1>4, <1>5, OneTask, ZenonT(40)
  <1>7. QED
    BY <1>2, <1>6, ZenonT(40)

\* A cleanup starts of a registration that somebody keeps, and takes over what
\* is removed from the clients map.
LEMMA StartsQuiet ==
  ASSUME TypeOK, RecordInv, NEW w \in Workers, task[w] = Idle,
         NEW p \in Peers, NEW i \in Clients, NEW e \in Epochs, NEW clean \in BOOLEAN,
         Starts(w, "owns", p, i, e, clean), Kept(i, e),
         sessions' = sessions, epoch' = epoch, gauge' = gauge, drift' = drift, fwd' = fwd,
         expired' \subseteq expired, orphans \subseteq orphans',
         \A q \in Peers : Known(q)' => Known(q) /\ clients'[q] = clients[q],
         \A q \in Peers : Known(q) /\ ~Known(q)' => clients[q].epoch \in orphans' \cup {e}
  PROVE  Quiet
  <1>3. task[w].pc \notin {"insert", "owns", "unsub", "finish"}
    BY IdleTask, ZenonT(40)
  <1>5. /\ SameInsert
        /\ task'[w].pc = "owns" /\ task'[w].id = i /\ task'[w].epoch = e
        /\ \A v \in Workers : v # w => task'[v] = task[v]
    BY StartsTask, ZenonT(40)
  <1>6. ASSUME NEW k \in Clients, NEW d \in Epochs, Kept(k, d)' PROVE Kept(k, d)
    <2>1. CASE \E q \in Peers : Known(q)' /\ clients'[q].id = k /\ clients'[q].epoch = d
      <3>1. PICK q \in Peers : Known(q)' /\ clients'[q].id = k /\ clients'[q].epoch = d
        BY <2>1, ZenonT(40)
      <3>2. Known(q) /\ clients'[q] = clients[q]
        BY <3>1, ZenonT(40)
      <3>3. Known(q) /\ clients[q].id = k /\ clients[q].epoch = d
        BY <3>1, <3>2, ZenonT(40)
      <3>4. QED
        BY <3>3, ZenonT(40) DEF Kept
    <2>2. CASE \E r \in expired' : r.id = k /\ r.epoch = d
      BY <2>2, ZenonT(40) DEF Kept
    <2>3. CASE \E v \in Workers : task'[v].pc \in {"owns", "unsub", "finish"}
                                  /\ task'[v].id = k /\ task'[v].epoch = d
      <3>1. PICK v \in Workers : task'[v].pc \in {"owns", "unsub", "finish"}
                                 /\ task'[v].id = k /\ task'[v].epoch = d
        BY <2>3, ZenonT(40)
      <3>2. CASE v = w
        <4>1. k = i /\ d = e
          BY <1>5, <3>1, <3>2, ZenonT(40)
        <4>2. QED
          BY <4>1, ZenonT(40)
      <3>3. CASE v # w
        <4>1. task'[v] = task[v]
          BY <1>5, <3>3, ZenonT(40)
        <4>2. task[v].pc \in {"owns", "unsub", "finish"} /\ task[v].id = k /\ task[v].epoch = d
          BY <3>1, <4>1, ZenonT(40)
        <4>3. QED
          BY <4>2, ZenonT(40) DEF Kept
      <3>4. QED
        BY <3>2, <3>3, ZenonT(40)
    <2>4. QED
      BY <1>6, <2>1, <2>2, <2>3, ZenonT(40) DEF Kept
  <1>7. Watched(e)'
    <2>1. task'[w].pc \in {"insert", "owns", "unsub", "finish"} /\ task'[w].epoch = e
      BY <1>5, ZenonT(40)
    <2>2. QED
      BY <2>1, ZenonT(40) DEF Watched
  <1>8. ASSUME NEW d \in Epochs, Watched(d) PROVE Watched(d)'
    <2>1. CASE d \in orphans
      BY <2>1, ZenonT(40) DEF Watched
    <2>2. CASE \E q \in Peers : Known(q) /\ clients[q].epoch = d
      <3>1. PICK q \in Peers : Known(q) /\ clients[q].epoch = d
        BY <2>2, ZenonT(40)
      <3>2. CASE Known(q)'
        <4>1. clients'[q].epoch = d
          BY <3>1, <3>2, ZenonT(40)
        <4>2. QED
          BY <3>2, <4>1, ZenonT(40) DEF Watched
      <3>3. CASE ~Known(q)'
        <4>1. d \in orphans' \/ d = e
          BY <3>1, <3>3, ZenonT(40)
        <4>2. QED
          BY <1>7, <4>1, ZenonT(40) DEF Watched
      <3>4. QED
        BY <3>2, <3>3, ZenonT(40)
    <2>3. CASE \E v \in Workers : task[v].pc \in {"insert", "owns", "unsub", "finish"}
                                  /\ task[v].epoch = d
      <3>1. PICK v \in Workers : task[v].pc \in {"insert", "owns", "unsub", "finish"}
                                 /\ task[v].epoch = d
        BY <2>3, ZenonT(40)
      <3>2. v # w
        BY <1>3, <3>1, ZenonT(40)
      <3>3. task'[v] = task[v]
        BY <1>5, <3>2, ZenonT(40)
      <3>4. task'[v].pc \in {"insert", "owns", "unsub", "finish"} /\ task'[v].epoch = d
        BY <3>1, <3>3, ZenonT(40)
      <3>5. QED
        BY <3>4, ZenonT(40) DEF Watched
    <2>4. QED
      BY <1>8, <2>1, <2>2, <2>3, ZenonT(40) DEF Watched
  <1>9. \A d \in Epochs : Forwarded(d)' <=> Forwarded(d)
    BY ZenonT(40) DEF Forwarded
  <1>10. QED
    BY <1>5, <1>6, <1>8, <1>9, ZenonT(40) DEF Quiet

\* The gateway keeps the client and epoch of a known SnClient.
LEMMA KnownKept ==
  ASSUME NEW p \in Peers, Known(p)
  PROVE  Kept(clients[p].id, clients[p].epoch)
  BY ZenonT(40) DEF Kept

\* A DISCONNECT is quiet: the cleanup it starts follows.
LEMMA DisconnectQuiet ==
  ASSUME TypeOK, RecordInv, NEW p \in Peers, Disconnect(p)
  PROVE  Quiet
  <1>1. /\ Known(p) /\ task["loop"] = Idle /\ clients' = [clients EXCEPT ![p] = None]
        /\ Starts("loop", "owns", p, clients[p].id, clients[p].epoch, clients[p].clean)
        /\ sessions' = sessions /\ epoch' = epoch /\ gauge' = gauge /\ drift' = drift /\ fwd' = fwd
        /\ expired' = expired /\ orphans' = orphans
    BY ZenonT(40) DEF Disconnect, Ready, sessionVars, flowVars, ghosts
  <1>2. /\ clients[p].id \in Clients /\ clients[p].epoch \in Epochs /\ clients[p].clean \in BOOLEAN
        /\ Kept(clients[p].id, clients[p].epoch)
    BY <1>1, ClientType, KnownKept, ZenonT(40)
  <1>3. \A q \in Peers : clients'[q] = IF q = p THEN None ELSE clients[q]
    BY <1>1, ZenonT(40) DEF TypeOK
  <1>4. \A q \in Peers : Known(q)' => Known(q) /\ clients'[q] = clients[q]
    BY <1>3, ZenonT(40) DEF Known
  <1>5. \A q \in Peers : Known(q) /\ ~Known(q)' => q = p
    BY <1>3, ZenonT(40) DEF Known
  <1>6. "loop" \in Workers
    BY ZenonT(40) DEF Workers
  <1>7. PICK i, e, clean : i = clients[p].id /\ e = clients[p].epoch /\ clean = clients[p].clean
    BY ZenonT(40)
  <1>8. i \in Clients /\ e \in Epochs /\ clean \in BOOLEAN /\ Kept(i, e)
    BY <1>2, <1>7, ZenonT(40)
  <1>9. Starts("loop", "owns", p, i, e, clean)
    BY <1>1, <1>7, ZenonT(40)
  <1>10. \A q \in Peers : Known(q) /\ ~Known(q)' => clients[q].epoch \in orphans' \cup {e}
    BY <1>5, <1>7, ZenonT(40)
  <1>11. expired' \subseteq expired /\ orphans \subseteq orphans'
    BY <1>1, ZenonT(40)
  <1>12. QED
    BY <1>1, <1>4, <1>6, <1>8, <1>9, <1>10, <1>11, StartsQuiet, ZenonT(40)

\* Visiting a client at the shutdown is quiet.
LEMMA StopVisitQuiet ==
  ASSUME TypeOK, RecordInv, NEW p \in Peers, StopVisit(p)
  PROVE  Quiet
  <1>1. /\ Known(p) /\ task["loop"] = Idle /\ clients' = clients
        /\ Starts("loop", "owns", p, clients[p].id, clients[p].epoch, clients[p].clean)
        /\ sessions' = sessions /\ epoch' = epoch /\ gauge' = gauge /\ drift' = drift /\ fwd' = fwd
        /\ expired' = expired /\ orphans' = orphans
    BY ZenonT(40) DEF StopVisit, ToVisit, sessionVars, flowVars, ghosts
  <1>2. /\ clients[p].id \in Clients /\ clients[p].epoch \in Epochs /\ clients[p].clean \in BOOLEAN
        /\ Kept(clients[p].id, clients[p].epoch)
    BY <1>1, ClientType, KnownKept, ZenonT(40)
  <1>4. \A q \in Peers : Known(q)' => Known(q) /\ clients'[q] = clients[q]
    BY <1>1, ZenonT(40) DEF Known
  <1>6. "loop" \in Workers
    BY ZenonT(40) DEF Workers
  <1>7. PICK i, e, clean : i = clients[p].id /\ e = clients[p].epoch /\ clean = clients[p].clean
    BY ZenonT(40)
  <1>8. i \in Clients /\ e \in Epochs /\ clean \in BOOLEAN /\ Kept(i, e)
    BY <1>2, <1>7, ZenonT(40)
  <1>9. Starts("loop", "owns", p, i, e, clean)
    BY <1>1, <1>7, ZenonT(40)
  <1>10. \A q \in Peers : Known(q) /\ ~Known(q)' => clients[q].epoch \in orphans' \cup {e}
    BY <1>1, ZenonT(40) DEF Known
  <1>11. expired' \subseteq expired /\ orphans \subseteq orphans'
    BY <1>1, ZenonT(40)
  <1>12. QED
    BY <1>1, <1>4, <1>6, <1>8, <1>9, <1>10, <1>11, StartsQuiet, ZenonT(40)

\* Starting the cleanup of an expired client is quiet.
LEMMA ExpireQuiet ==
  ASSUME TypeOK, RecordInv, NEW r \in expired, Expire(r)
  PROVE  Quiet
  <1>1. /\ task["sweeper"] = Idle /\ clients' = [clients EXCEPT ![r.peer] = None]
        /\ Starts("sweeper", "owns", r.peer, r.id, r.epoch, r.clean)
        /\ sessions' = sessions /\ epoch' = epoch /\ gauge' = gauge /\ drift' = drift /\ fwd' = fwd
        /\ expired' = expired \ {r}
        /\ orphans' = orphans \cup (IF Known(r.peer) THEN {clients[r.peer].epoch} \ {r.epoch} ELSE {})
    BY ZenonT(40) DEF Expire, sessionVars, flowVars
  <1>2. r.peer \in Peers /\ r.id \in Clients /\ r.epoch \in Epochs /\ r.clean \in BOOLEAN
    BY SMTT(40) DEF TypeOK
  <1>3. PICK p, i, e, clean : p = r.peer /\ i = r.id /\ e = r.epoch /\ clean = r.clean
    BY ZenonT(40)
  <1>4. p \in Peers /\ i \in Clients /\ e \in Epochs /\ clean \in BOOLEAN
    BY <1>2, <1>3, ZenonT(40)
  <1>5. Kept(i, e)
    BY <1>3, ZenonT(40) DEF Kept
  <1>6. Starts("sweeper", "owns", p, i, e, clean)
    BY <1>1, <1>3, ZenonT(40)
  <1>7. \A q \in Peers : clients'[q] = IF q = p THEN None ELSE clients[q]
    BY <1>1, <1>3, ZenonT(40) DEF TypeOK
  <1>8. \A q \in Peers : Known(q)' => Known(q) /\ clients'[q] = clients[q]
    BY <1>7, ZenonT(40) DEF Known
  <1>9. \A q \in Peers : Known(q) /\ ~Known(q)' => q = p
    BY <1>7, ZenonT(40) DEF Known
  <1>10. Known(p) => clients[p].epoch \in orphans' \cup {e}
    BY <1>1, <1>3, ZenonT(40)
  <1>11. \A q \in Peers : Known(q) /\ ~Known(q)' => clients[q].epoch \in orphans' \cup {e}
    BY <1>9, <1>10, ZenonT(40)
  <1>12. expired' \subseteq expired /\ orphans \subseteq orphans' /\ "sweeper" \in Workers
    BY <1>1, ZenonT(40) DEF Workers
  <1>13. /\ sessions' = sessions /\ epoch' = epoch /\ gauge' = gauge /\ drift' = drift /\ fwd' = fwd
         /\ task["sweeper"] = Idle
    BY <1>1, ZenonT(40)
  <1>14. QED
    BY <1>4, <1>5, <1>6, <1>8, <1>11, <1>12, <1>13, StartsQuiet, ZenonT(40)

\* Collecting the expired clients is quiet.
LEMMA ScanQuiet ==
  ASSUME TypeOK, RecordInv, Scan
  PROVE  Quiet
  <1>1. /\ clients' = clients /\ task' = task /\ fwd' = fwd /\ orphans' = orphans
        /\ sessions' = sessions /\ epoch' = epoch /\ gauge' = gauge /\ drift' = drift
        /\ expired' = {[peer |-> p, id |-> clients[p].id, epoch |-> clients[p].epoch,
                        clean |-> clients[p].clean] : p \in Overdue}
    BY ZenonT(40) DEF Scan, sessionVars, flowVars, ghosts
  <1>2. SameInsert
    BY <1>1, ZenonT(40) DEF SameInsert, RecordInv
  <1>3. ASSUME NEW i \in Clients, NEW e \in Epochs, Kept(i, e)' PROVE Kept(i, e)
    <2>1. CASE \E p \in Peers : Known(p)' /\ clients'[p].id = i /\ clients'[p].epoch = e
      BY <1>1, <2>1, ZenonT(40) DEF Kept, Known
    <2>2. CASE \E r \in expired' : r.id = i /\ r.epoch = e
      <3>1. PICK r \in expired' : r.id = i /\ r.epoch = e
        BY <2>2, ZenonT(40)
      <3>2. PICK p \in Overdue : r = [peer |-> p, id |-> clients[p].id, epoch |-> clients[p].epoch,
                                      clean |-> clients[p].clean]
        BY <1>1, <3>1, ZenonT(40)
      <3>3. p \in Peers /\ Known(p)
        BY ZenonT(40) DEF Overdue
      <3>4. r.id = clients[p].id /\ r.epoch = clients[p].epoch
        BY <3>2, ZenonT(40)
      <3>5. clients[p].id = i /\ clients[p].epoch = e
        BY <3>1, <3>4, ZenonT(40)
      <3>6. QED
        BY <3>3, <3>5, ZenonT(40) DEF Kept
    <2>3. CASE \E w \in Workers : task'[w].pc \in {"owns", "unsub", "finish"}
                                  /\ task'[w].id = i /\ task'[w].epoch = e
      BY <1>1, <2>3, ZenonT(40) DEF Kept
    <2>4. QED
      BY <1>3, <2>1, <2>2, <2>3, ZenonT(40) DEF Kept
  <1>4. \A e \in Epochs : (Watched(e) => Watched(e)') /\ (Forwarded(e)' <=> Forwarded(e))
    BY <1>1, ZenonT(40) DEF Watched, Known, Forwarded
  <1>5. QED
    BY <1>1, <1>2, <1>3, <1>4, ZenonT(40) DEF Quiet

\* A worker goes on with the registration it has in hand, or leaves one that
\* nobody has any more.
LEMMA WorkQuiet ==
  ASSUME TypeOK, RecordInv, NEW w \in Workers, NEW n, task' = [task EXCEPT ![w] = n],
         task[w].pc # "insert", n.pc # "insert",
         n.pc \in {"owns", "unsub", "finish"} => Kept(n.id, n.epoch),
         \A c \in Clients, e \in Epochs :
            Online(c, e) /\ task[w].pc \in {"owns", "unsub", "finish"} /\ task[w].epoch = e
                => n.pc \in {"owns", "unsub", "finish"} /\ n.epoch = e,
         sessions' = sessions, epoch' = epoch, gauge' = gauge, drift' = drift, fwd' = fwd,
         clients' = clients, expired' = expired, orphans' = orphans
  PROVE  Quiet
  <1>1. SameInsert /\ \A v \in Workers : task'[v] = IF v = w THEN n ELSE task[v]
    BY OneTask, ZenonT(40)
  <1>2. ASSUME NEW k \in Clients, NEW d \in Epochs, Kept(k, d)' PROVE Kept(k, d)
    <2>1. CASE \E q \in Peers : Known(q)' /\ clients'[q].id = k /\ clients'[q].epoch = d
      BY <2>1, ZenonT(40) DEF Kept, Known
    <2>2. CASE \E r \in expired' : r.id = k /\ r.epoch = d
      BY <2>2, ZenonT(40) DEF Kept
    <2>3. CASE \E v \in Workers : task'[v].pc \in {"owns", "unsub", "finish"}
                                  /\ task'[v].id = k /\ task'[v].epoch = d
      <3>1. PICK v \in Workers : task'[v].pc \in {"owns", "unsub", "finish"}
                                 /\ task'[v].id = k /\ task'[v].epoch = d
        BY <2>3, ZenonT(40)
      <3>2. CASE v = w
        <4>1. task'[v] = n
          BY <1>1, <3>2, ZenonT(40)
        <4>2. n.pc \in {"owns", "unsub", "finish"} /\ n.id = k /\ n.epoch = d
          BY <3>1, <4>1, ZenonT(40)
        <4>3. QED
          BY <4>2, ZenonT(40)
      <3>3. CASE v # w
        <4>1. task'[v] = task[v]
          BY <1>1, <3>3, ZenonT(40)
        <4>2. task[v].pc \in {"owns", "unsub", "finish"} /\ task[v].id = k /\ task[v].epoch = d
          BY <3>1, <4>1, ZenonT(40)
        <4>3. QED
          BY <4>2, ZenonT(40) DEF Kept
      <3>4. QED
        BY <3>2, <3>3, ZenonT(40)
    <2>4. QED
      BY <1>2, <2>1, <2>2, <2>3, ZenonT(40) DEF Kept
  <1>3. ASSUME NEW c \in Clients, NEW d \in Epochs, Online(c, d), Watched(d) PROVE Watched(d)'
    <2>1. CASE d \in orphans
      BY <2>1, ZenonT(40) DEF Watched
    <2>2. CASE \E q \in Peers : Known(q) /\ clients[q].epoch = d
      BY <2>2, ZenonT(40) DEF Watched, Known
    <2>3. CASE \E v \in Workers : task[v].pc \in {"insert", "owns", "unsub", "finish"}
                                  /\ task[v].epoch = d
      <3>1. PICK v \in Workers : task[v].pc \in {"insert", "owns", "unsub", "finish"}
                                 /\ task[v].epoch = d
        BY <2>3, ZenonT(40)
      <3>2. CASE v = w
        <4>1. task[w].pc \in {"owns", "unsub", "finish"} /\ task[w].epoch = d
          BY <3>1, <3>2, ZenonT(40)
        <4>2. n.pc \in {"owns", "unsub", "finish"} /\ n.epoch = d
          BY <1>3, <4>1, ZenonT(40)
        <4>3. task'[w] = n
          BY <1>1, ZenonT(40)
        <4>4. task'[w].pc \in {"insert", "owns", "unsub", "finish"} /\ task'[w].epoch = d
          BY <4>2, <4>3, ZenonT(40)
        <4>5. QED
          BY <4>4, ZenonT(40) DEF Watched
      <3>3. CASE v # w
        <4>1. task'[v] = task[v]
          BY <1>1, <3>3, ZenonT(40)
        <4>2. task'[v].pc \in {"insert", "owns", "unsub", "finish"} /\ task'[v].epoch = d
          BY <3>1, <4>1, ZenonT(40)
        <4>3. QED
          BY <4>2, ZenonT(40) DEF Watched
      <3>4. QED
        BY <3>2, <3>3, ZenonT(40)
    <2>4. QED
      BY <1>3, <2>1, <2>2, <2>3, ZenonT(40) DEF Watched
  <1>4. \A d \in Epochs : Forwarded(d)' <=> Forwarded(d)
    BY ZenonT(40) DEF Forwarded
  <1>5. QED
    BY <1>1, <1>2, <1>3, <1>4, ZenonT(40) DEF Quiet

\* The end of the shutdown is quiet.
LEMMA StopDoneQuiet ==
  ASSUME TypeOK, RecordInv, StopDone
  PROVE  Quiet
  <1>1. /\ task["loop"] = Idle /\ task' = [task EXCEPT !["loop"] = Stopped] /\ clients' = clients
        /\ sessions' = sessions /\ epoch' = epoch /\ gauge' = gauge /\ drift' = drift /\ fwd' = fwd
        /\ expired' = expired /\ orphans' = orphans
    BY ZenonT(40) DEF StopDone, sessionVars, flowVars, ghosts
  <1>2. task["loop"].pc # "insert" /\ task["loop"].pc \notin {"owns", "unsub", "finish"}
    BY <1>1, IdleTask, ZenonT(40)
  <1>3. PICK n : n = Stopped
    BY ZenonT(40)
  <1>4. n.pc # "insert" /\ n.pc \notin {"owns", "unsub", "finish"}
    BY <1>3, SMTT(40) DEF Stopped
  <1>5. "loop" \in Workers /\ task' = [task EXCEPT !["loop"] = n]
    BY <1>1, <1>3, ZenonT(40) DEF Workers
  <1>6. QED
    BY <1>1, <1>2, <1>4, <1>5, WorkQuiet, ZenonT(40)

\* The gateway keeps the client and epoch of a job under way.
LEMMA TaskKept ==
  ASSUME NEW w \in Workers, task[w].pc \in {"owns", "unsub", "finish"}
  PROVE  Kept(task[w].id, task[w].epoch)
  BY ZenonT(40) DEF Kept

\* The unsubscription in a cleanup is quiet.
LEMMA CleanupUnsubscribeQuiet ==
  ASSUME TypeOK, RecordInv, NEW w \in Workers, CleanupUnsubscribe(w)
  PROVE  Quiet
  <1>1. /\ task[w].pc = "unsub" /\ task' = [task EXCEPT ![w].pc = "finish"] /\ clients' = clients
        /\ sessions' = sessions /\ epoch' = epoch /\ gauge' = gauge /\ drift' = drift /\ fwd' = fwd
        /\ expired' = expired /\ orphans' = orphans
    BY ZenonT(40) DEF CleanupUnsubscribe, flowVars, ghosts
  <1>2. task[w].pc # "insert" /\ task[w].pc \in {"owns", "unsub", "finish"}
    BY <1>1, SMTT(40)
  <1>3. task[w] \in Job /\ Kept(task[w].id, task[w].epoch)
    BY <1>2, JobType, TaskKept, ZenonT(40)
  <1>4. PICK n : n = [task[w] EXCEPT !.pc = "finish"]
    BY ZenonT(40)
  <1>5. n.pc = "finish" /\ n.id = task[w].id /\ n.epoch = task[w].epoch
    BY <1>3, <1>4, ZenonT(40) DEF Job
  <1>6. n.pc # "insert" /\ n.pc \in {"owns", "unsub", "finish"}
    BY <1>5, SMTT(40)
  <1>7. task' = [task EXCEPT ![w] = n] /\ Kept(n.id, n.epoch)
    BY <1>1, <1>3, <1>4, <1>5, ZenonT(40)
  <1>8. \A c \in Clients, e \in Epochs :
            Online(c, e) /\ task[w].pc \in {"owns", "unsub", "finish"} /\ task[w].epoch = e
                => n.pc \in {"owns", "unsub", "finish"} /\ n.epoch = e
    BY <1>5, <1>6, ZenonT(40)
  <1>9. QED
    BY <1>1, <1>2, <1>6, <1>7, <1>8, WorkQuiet, ZenonT(40)

\* cleanup_session leaves a registration that its client has no more.
LEMMA CleanupOwnsQuiet ==
  ASSUME TypeOK, RecordInv, NEW w \in Workers, CleanupOwns(w)
  PROVE  Quiet
  <1>0. PICK j : j = task[w]
    BY ZenonT(40)
  <1>1. /\ j.pc = "owns" /\ clients' = clients
        /\ sessions' = sessions /\ epoch' = epoch /\ gauge' = gauge /\ drift' = drift /\ fwd' = fwd
        /\ expired' = expired /\ orphans' = orphans
    BY <1>0, ZenonT(40) DEF CleanupOwns, sessionVars, flowVars, ghosts
  <1>2. j.pc # "insert" /\ j.pc \in {"owns", "unsub", "finish"}
    BY <1>1, SMTT(40)
  <1>3. j \in Job /\ j.id \in Clients /\ j.epoch \in Epochs /\ Kept(j.id, j.epoch)
    BY <1>0, <1>2, JobType, TaskKept, ZenonT(40)
  <1>4. CASE ~Owns(j.id, j.epoch)
    <2>1. PICK n : n = Idle
      BY ZenonT(40)
    <2>2. n.pc # "insert" /\ n.pc \notin {"owns", "unsub", "finish"}
      BY <2>1, IdleTask, ZenonT(40)
    <2>3. task' = [task EXCEPT ![w] = n]
      BY <1>0, <1>4, <2>1, ZenonT(40) DEF CleanupOwns
    <2>4. \A c \in Clients : ~Owns(c, j.epoch)
      <3>1. Given(j.id, j.epoch)
        BY <1>3, ZenonT(40) DEF RecordInv
      <3>2. QED
        BY <1>4, <3>1, ZenonT(40) DEF Given
    <2>5. \A c \in Clients, e \in Epochs : ~(Online(c, e) /\ task[w].epoch = e)
      BY <1>0, <2>4, ZenonT(40) DEF Online
    <2>6. QED
      BY <1>0, <1>1, <1>2, <2>2, <2>3, <2>5, WorkQuiet, ZenonT(40)
  <1>5. CASE Owns(j.id, j.epoch)
    <2>1. PICK pc : pc = (IF j.clean THEN "unsub" ELSE "finish")
      BY ZenonT(40)
    <2>2. pc \in {"unsub", "finish"}
      BY <2>1, ZenonT(40)
    <2>3. PICK n : n = [j EXCEPT !.pc = pc]
      BY ZenonT(40)
    <2>4. n.pc = pc /\ n.id = j.id /\ n.epoch = j.epoch
      BY <1>3, <2>3, ZenonT(40) DEF Job
    <2>5. n.pc # "insert" /\ n.pc \in {"owns", "unsub", "finish"}
      BY <2>2, <2>4, SMTT(40)
    <2>6. task' = [task EXCEPT ![w] = n]
      BY <1>0, <1>5, <2>1, <2>3, ZenonT(40) DEF CleanupOwns
    <2>7. Kept(n.id, n.epoch)
      BY <1>3, <2>4, ZenonT(40)
    <2>8. \A c \in Clients, e \in Epochs :
            Online(c, e) /\ task[w].pc \in {"owns", "unsub", "finish"} /\ task[w].epoch = e
                => n.pc \in {"owns", "unsub", "finish"} /\ n.epoch = e
      BY <1>0, <2>4, <2>5, ZenonT(40)
    <2>9. QED
      BY <1>0, <1>1, <1>2, <2>5, <2>6, <2>7, <2>8, WorkQuiet, ZenonT(40)
  <1>6. QED
    BY <1>4, <1>5, ZenonT(40)

\* A new member makes a finite set one larger.
LEMMA CardAdd ==
  ASSUME NEW S, NEW T, NEW x, IsFiniteSet(S), x \notin S, T = S \cup {x}
  PROVE  IsFiniteSet(T) /\ Cardinality(T) = Cardinality(S) + 1 /\ Cardinality(S) \in Nat
  BY FS_AddElement, FS_CardinalityType, ZenonT(40)

\* Without one of its members a finite set is one smaller.
LEMMA CardRemove ==
  ASSUME NEW S, NEW T, NEW x, IsFiniteSet(S), x \in S, T = S \ {x}
  PROVE  IsFiniteSet(T) /\ Cardinality(T) = Cardinality(S) - 1 /\ Cardinality(S) \in Nat
  BY FS_RemoveElement, FS_CardinalityType, ZenonT(40)

\* A session ends or goes to sleep and is counted down.
LEMMA EndsKeeps ==
  ASSUME TypeOK, RecordInv, WatchInv, GaugeInv, NEW i \in Clients, NEW e \in Epochs, Kept(i, e),
         epoch' = epoch, SameInsert, \A d \in Epochs : Forwarded(d)' <=> Forwarded(d),
         \A k \in Clients, d \in Epochs : Kept(k, d)' => Kept(k, d),
         \A d \in Epochs : d # e /\ Watched(d) => Watched(d)',
         \A c \in Clients : c # i => sessions'[c] = sessions[c],
         \A d \in Epochs : Owns(i, d)' => Owns(i, d),
         \A d \in Epochs : Online(i, d)' => Online(i, d) /\ d # e,
         Online(i, e) => \A d \in Epochs : ~Online(i, d)',
         gauge' = gauge - 1, drift' = (drift \/ ~Online(i, e))
  PROVE  RecordInv' /\ WatchInv' /\ GaugeInv'
  <1>1. Given(i, e) /\ Forwarded(e)
    BY ZenonT(40) DEF RecordInv
  <1>2. /\ \A d \in Epochs : OfGateway(d)' <=> OfGateway(d)
        /\ \A k \in Clients, d \in Epochs : Inserting(k, d)' => Inserting(k, d)
    BY SameGateway, ZenonT(40)
  <1>3. \A c \in Clients, d \in Epochs : Owns(c, d)' => Owns(c, d)
    BY ZenonT(40) DEF Owns
  <1>4. \A c \in Clients, d \in Epochs : c # i => (Online(c, d)' <=> Online(c, d))
    BY ZenonT(40) DEF Online, Owns
  <1>5. \A k \in Clients, d \in Epochs : Given(k, d) => Given(k, d)'
    BY <1>3, ZenonT(40) DEF Given
  <1>6. RecordInv'
    <2>1. \A c \in Clients, d \in Epochs : Owns(c, d)' => d <= epoch'
      BY <1>3, ZenonT(40) DEF RecordInv
    <2>2. \A d \in Epochs : Forwarded(d)' => d <= epoch'
      BY ZenonT(40) DEF RecordInv
    <2>3. \A k \in Clients, d \in Epochs : Kept(k, d)' => Given(k, d)' /\ Forwarded(d)'
      BY <1>5, ZenonT(40) DEF RecordInv
    <2>4. \A k \in Clients, d \in Epochs : Inserting(k, d)' => Given(k, d)'
      BY <1>2, <1>5, ZenonT(40) DEF RecordInv
    <2>5. task'["sweeper"].pc # "insert"
      BY ZenonT(40) DEF SameInsert
    <2>6. QED
      BY <2>1, <2>2, <2>3, <2>4, <2>5, ZenonT(40) DEF RecordInv, Epochs
  <1>7. WatchInv'
    <2>1. ASSUME NEW c \in Clients, NEW d \in Epochs, Online(c, d)', OfGateway(d)'
          PROVE  Watched(d)'
      <3>1. Online(c, d) /\ OfGateway(d)
        BY <1>2, <1>4, <2>1, ZenonT(40)
      <3>2. Watched(d)
        BY <3>1, ZenonT(40) DEF WatchInv
      <3>3. d # e
        <4>1. CASE c = i
          BY <2>1, <4>1, ZenonT(40)
        <4>2. CASE c # i
          BY <1>1, <3>1, <4>2, ZenonT(40) DEF Given, Online
        <4>3. QED
          BY <4>1, <4>2, ZenonT(40)
      <3>4. QED
        BY <3>2, <3>3, ZenonT(40)
    <2>2. QED
      BY <2>1, ZenonT(40) DEF WatchInv, Epochs
  <1>8. GaugeInv'
    <2> SUFFICES ASSUME ~drift'
                 PROVE  /\ IsFiniteSet(Serving')
                        /\ gauge' = Cardinality(Serving') - (IF task'["loop"].pc = "insert" THEN 1 ELSE 0)
      BY ZenonT(40) DEF GaugeInv
    <2>1. ~drift /\ Online(i, e)
      BY ZenonT(40)
    <2>2. i \in Serving
      BY <1>1, <2>1, ZenonT(40) DEF Serving, OfGateway, Forwarded
    <2>3. Serving' = Serving \ {i}
      <3>1. i \notin Serving'
        BY <2>1, ZenonT(40) DEF Serving, Epochs
      <3>2. \A c \in Clients : c # i => (c \in Serving' <=> c \in Serving)
        BY <1>2, <1>4, ZenonT(40) DEF Serving, Epochs
      <3>3. Serving \subseteq Clients /\ Serving' \subseteq Clients
        BY ZenonT(40) DEF Serving
      <3>4. QED
        BY <3>1, <3>2, <3>3, ZenonT(40)
    <2>4. /\ IsFiniteSet(Serving)
          /\ gauge = Cardinality(Serving) - (IF task["loop"].pc = "insert" THEN 1 ELSE 0)
      BY <2>1, ZenonT(40) DEF GaugeInv
    <2>5. /\ IsFiniteSet(Serving') /\ Cardinality(Serving') = Cardinality(Serving) - 1
          /\ Cardinality(Serving) \in Nat
      BY <2>2, <2>3, <2>4, CardRemove, ZenonT(40)
    <2>6. PICK m, n : m = Cardinality(Serving) /\ n = Cardinality(Serving')
      BY ZenonT(40)
    <2>7. PICK x : x = (IF task["loop"].pc = "insert" THEN 1 ELSE 0)
      BY ZenonT(40)
    <2>8. x \in Int
      BY <2>7, SMTT(40)
    <2>9. x = (IF task'["loop"].pc = "insert" THEN 1 ELSE 0)
      BY <2>7, ZenonT(40) DEF SameInsert
    <2>10. gauge = m - x /\ n = m - 1 /\ m \in Nat
      BY <2>4, <2>5, <2>6, <2>7, ZenonT(40)
    <2>11. gauge' = n - x
      BY <2>8, <2>10, SMTT(40)
    <2>12. QED
      BY <2>5, <2>6, <2>9, <2>11, ZenonT(40)
  <1>9. QED
    BY <1>6, <1>7, <1>8, ZenonT(40)

\* mark_offline takes only the registration it names offline.
LEMMA MarkedOfflineEnds ==
  ASSUME TypeOK, NEW i \in Clients, NEW e \in Epochs, sessions' = MarkedOffline(i, e)
  PROVE  /\ \A c \in Clients : c # i => sessions'[c] = sessions[c]
         /\ \A d \in Epochs : Owns(i, d)' => Owns(i, d)
         /\ \A d \in Epochs : Online(i, d)' => Online(i, d) /\ d # e
         /\ Online(i, e) => \A d \in Epochs : ~Online(i, d)'
  <1>1. CASE Owns(i, e)
    <2>1. sessions[i] \in [epoch : Epochs, connected : BOOLEAN]
      BY <1>1, ZenonT(40) DEF Owns, TypeOK
    <2>2. PICK n : n = [sessions[i] EXCEPT !.connected = FALSE]
      BY ZenonT(40)
    <2>3. n.epoch = sessions[i].epoch /\ n.connected = FALSE
      BY <2>1, <2>2, ZenonT(40)
    <2>4. sessions' = [sessions EXCEPT ![i] = n]
      BY <1>1, <2>2, ZenonT(40) DEF MarkedOffline
    <2>5. \A c \in Clients : sessions'[c] = IF c = i THEN n ELSE sessions[c]
      BY <2>4, ZenonT(40) DEF TypeOK
    <2>6. sessions'[i] = n
      BY <2>5, ZenonT(40)
    <2>7. \A d \in Epochs : ~Online(i, d)'
      BY <2>3, <2>6, ZenonT(40) DEF Online
    <2>8. \A d \in Epochs : Owns(i, d)' => Owns(i, d)
      BY <1>1, <2>3, <2>6, ZenonT(40) DEF Owns
    <2>9. QED
      BY <2>5, <2>7, <2>8, ZenonT(40)
  <1>2. CASE ~Owns(i, e)
    <2>1. sessions' = sessions
      BY <1>2, ZenonT(40) DEF MarkedOffline
    <2>2. \A d \in Epochs : /\ Owns(i, d)' <=> Owns(i, d)
                            /\ Online(i, d)' <=> Online(i, d)
      BY <2>1, ZenonT(40) DEF Online, Owns
    <2>3. ~Online(i, e)
      BY <1>2, ZenonT(40) DEF Online
    <2>4. QED
      BY <2>1, <2>2, <2>3, ZenonT(40)
  <1>3. QED
    BY <1>1, <1>2, ZenonT(40)

\* A device that goes to sleep keeps the three invariants.
LEMMA SleepStep ==
  ASSUME TypeOK, RecordInv, WatchInv, GaugeInv, NEW p \in Peers, Sleep(p)
  PROVE  RecordInv' /\ WatchInv' /\ GaugeInv'
  <1>1. PICK i, e, n : /\ i = clients[p].id /\ e = clients[p].epoch
                       /\ n = [clients[p] EXCEPT !.sleeping = TRUE, !.late = FALSE]
    BY ZenonT(40)
  <1>2. /\ Known(p) /\ sessions' = MarkedOffline(i, e) /\ clients' = [clients EXCEPT ![p] = n]
        /\ gauge' = gauge - 1 /\ drift' = (drift \/ ~Online(i, e))
        /\ epoch' = epoch /\ task' = task /\ expired' = expired /\ fwd' = fwd /\ orphans' = orphans
    BY <1>1, ZenonT(40) DEF Sleep, workVars, flowVars
  <1>3. clients[p] \in SnClient /\ i \in Clients /\ e \in Epochs /\ Kept(i, e)
    BY <1>1, <1>2, ClientType, KnownKept, ZenonT(40)
  <1>4. n \in SnClient
    BY <1>1, <1>3, Zenon DEF SnClient
  <1>5. n.id = clients[p].id /\ n.epoch = clients[p].epoch
    BY <1>1, <1>3, ZenonT(40) DEF SnClient
  <1>6. SameClients
    BY <1>2, <1>4, <1>5, OneClient, ZenonT(40)
  <1>7. SameInsert
    BY <1>2, ZenonT(40) DEF SameInsert, RecordInv
  <1>8. \A k \in Clients, d \in Epochs : Kept(k, d)' => Kept(k, d)
    <2> SUFFICES ASSUME NEW k \in Clients, NEW d \in Epochs, Kept(k, d)' PROVE Kept(k, d)
      BY ZenonT(40)
    <2>1. CASE \E q \in Peers : Known(q)' /\ clients'[q].id = k /\ clients'[q].epoch = d
      BY <1>6, <2>1, ZenonT(40) DEF Kept, SameClients
    <2>2. CASE \E r \in expired' : r.id = k /\ r.epoch = d
      BY <1>2, <2>2, ZenonT(40) DEF Kept
    <2>3. CASE \E w \in Workers : task'[w].pc \in {"owns", "unsub", "finish"}
                                  /\ task'[w].id = k /\ task'[w].epoch = d
      BY <1>2, <2>3, ZenonT(40) DEF Kept
    <2>4. QED
      BY <2>1, <2>2, <2>3, ZenonT(40) DEF Kept
  <1>9. \A d \in Epochs : d # e /\ Watched(d) => Watched(d)'
    BY <1>2, <1>6, ZenonT(40) DEF Watched, SameClients
  <1>10. \A d \in Epochs : Forwarded(d)' <=> Forwarded(d)
    BY <1>2, ZenonT(40) DEF Forwarded
  <1>11. /\ \A c \in Clients : c # i => sessions'[c] = sessions[c]
         /\ \A d \in Epochs : Owns(i, d)' => Owns(i, d)
         /\ \A d \in Epochs : Online(i, d)' => Online(i, d) /\ d # e
         /\ Online(i, e) => \A d \in Epochs : ~Online(i, d)'
    BY <1>2, <1>3, MarkedOfflineEnds, ZenonT(40)
  <1>12. QED
    BY <1>2, <1>3, <1>7, <1>8, <1>9, <1>10, <1>11, EndsKeeps, ZenonT(40)

\* The last step of cleanup_session.
LEMMA CleanupFinishStep ==
  ASSUME TypeOK, RecordInv, WatchInv, GaugeInv, NEW w \in Workers, CleanupFinish(w)
  PROVE  RecordInv' /\ WatchInv' /\ GaugeInv'
  <1>1. PICK j : j = task[w]
    BY ZenonT(40)
  <1>2. PICK i, e : i = j.id /\ e = j.epoch
    BY ZenonT(40)
  <1>3. /\ j.pc = "finish" /\ task' = [task EXCEPT ![w] = Idle] /\ gauge' = gauge - 1
        /\ drift' = (drift \/ ~Online(i, e))
        /\ epoch' = epoch /\ clients' = clients /\ expired' = expired /\ fwd' = fwd
        /\ orphans' = orphans
    BY <1>1, <1>2, ZenonT(40) DEF CleanupFinish, flowVars
  <1>4. j.pc # "insert" /\ j.pc \in {"insert", "owns", "unsub", "finish"}
        /\ j.pc \in {"owns", "unsub", "finish"}
    BY <1>3, SMTT(40)
  <1>5. i \in Clients /\ e \in Epochs /\ Kept(i, e)
    BY <1>1, <1>2, <1>4, JobType, TaskKept, ZenonT(40)
  <1>6. PICK n : n = Idle
    BY ZenonT(40)
  <1>7. n.pc \notin {"insert", "owns", "unsub", "finish"} /\ n.pc # "insert"
    BY <1>6, IdleTask, ZenonT(40)
  <1>8. SameInsert /\ \A v \in Workers : task'[v] = IF v = w THEN n ELSE task[v]
    <2>1. task[w].pc # "insert"
      BY <1>1, <1>4, ZenonT(40)
    <2>2. task' = [task EXCEPT ![w] = n]
      BY <1>3, <1>6, ZenonT(40)
    <2>3. QED
      BY <1>7, <2>1, <2>2, OneTask, ZenonT(40)
  <1>9. \A k \in Clients, d \in Epochs : Kept(k, d)' => Kept(k, d)
    <2> SUFFICES ASSUME NEW k \in Clients, NEW d \in Epochs, Kept(k, d)' PROVE Kept(k, d)
      BY ZenonT(40)
    <2>1. CASE \E q \in Peers : Known(q)' /\ clients'[q].id = k /\ clients'[q].epoch = d
      BY <1>3, <2>1, ZenonT(40) DEF Kept, Known
    <2>2. CASE \E r \in expired' : r.id = k /\ r.epoch = d
      BY <1>3, <2>2, ZenonT(40) DEF Kept
    <2>3. CASE \E v \in Workers : task'[v].pc \in {"owns", "unsub", "finish"}
                                  /\ task'[v].id = k /\ task'[v].epoch = d
      <3>1. PICK v \in Workers : task'[v].pc \in {"owns", "unsub", "finish"}
                                 /\ task'[v].id = k /\ task'[v].epoch = d
        BY <2>3, ZenonT(40)
      <3>2. v # w
        BY <1>7, <1>8, <3>1, ZenonT(40)
      <3>3. task'[v] = task[v]
        BY <1>8, <3>2, ZenonT(40)
      <3>4. task[v].pc \in {"owns", "unsub", "finish"} /\ task[v].id = k /\ task[v].epoch = d
        BY <3>1, <3>3, ZenonT(40)
      <3>5. QED
        BY <3>4, ZenonT(40) DEF Kept
    <2>4. QED
      BY <2>1, <2>2, <2>3, ZenonT(40) DEF Kept
  <1>10. ASSUME NEW d \in Epochs, d # e, Watched(d) PROVE Watched(d)'
    <2>1. CASE d \in orphans
      BY <1>3, <2>1, ZenonT(40) DEF Watched
    <2>2. CASE \E q \in Peers : Known(q) /\ clients[q].epoch = d
      BY <1>3, <2>2, ZenonT(40) DEF Watched, Known
    <2>3. CASE \E v \in Workers : task[v].pc \in {"insert", "owns", "unsub", "finish"}
                                  /\ task[v].epoch = d
      <3>1. PICK v \in Workers : task[v].pc \in {"insert", "owns", "unsub", "finish"}
                                 /\ task[v].epoch = d
        BY <2>3, ZenonT(40)
      <3>2. v # w
        BY <1>1, <1>2, <1>10, <3>1, ZenonT(40)
      <3>3. task'[v] = task[v]
        BY <1>8, <3>2, ZenonT(40)
      <3>4. task'[v].pc \in {"insert", "owns", "unsub", "finish"} /\ task'[v].epoch = d
        BY <3>1, <3>3, ZenonT(40)
      <3>5. QED
        BY <3>4, ZenonT(40) DEF Watched
    <2>4. QED
      BY <1>10, <2>1, <2>2, <2>3, ZenonT(40) DEF Watched
  <1>11. \A d \in Epochs : Forwarded(d)' <=> Forwarded(d)
    BY <1>3, ZenonT(40) DEF Forwarded
  <1>12. /\ \A c \in Clients : c # i => sessions'[c] = sessions[c]
         /\ \A d \in Epochs : Owns(i, d)' => Owns(i, d)
         /\ \A d \in Epochs : Online(i, d)' => Online(i, d) /\ d # e
         /\ Online(i, e) => \A d \in Epochs : ~Online(i, d)'
    <2>1. CASE j.clean
      <3>1. sessions' = [sessions EXCEPT ![i] = None]
        BY <1>1, <1>2, <2>1, ZenonT(40) DEF CleanupFinish
      <3>2. \A c \in Clients : sessions'[c] = IF c = i THEN None ELSE sessions[c]
        BY <3>1, ZenonT(40) DEF TypeOK
      <3>3. sessions'[i] = None
        BY <1>5, <3>2, ZenonT(40)
      <3>4. \A d \in Epochs : ~Owns(i, d)' /\ ~Online(i, d)'
        BY <3>3, ZenonT(40) DEF Owns, Online
      <3>5. QED
        BY <3>2, <3>4, ZenonT(40)
    <2>2. CASE ~j.clean
      <3>1. sessions' = MarkedOffline(i, e)
        BY <1>1, <1>2, <2>2, ZenonT(40) DEF CleanupFinish
      <3>2. QED
        BY <1>5, <3>1, MarkedOfflineEnds, ZenonT(40)
    <2>3. QED
      BY <2>1, <2>2, ZenonT(40)
  <1>13. QED
    BY <1>3, <1>5, <1>8, <1>9, <1>10, <1>11, <1>12, EndsKeeps, ZenonT(40)

\* The next epoch is nobody's yet.
LEMMA FreshEpoch ==
  ASSUME TypeOK, epoch < MaxEpochs
  PROVE  /\ epoch + 1 \in Epochs /\ epoch + 1 <= epoch + 1
         /\ \A e \in Epochs : e <= epoch => e # epoch + 1 /\ e <= epoch + 1
  BY EpochsBounded, SMTT(40) DEF TypeOK, Epochs

\* The gateway knows only epochs that were handed out.
LEMMA GatewayEpochs ==
  ASSUME TypeOK, RecordInv, NEW e \in Epochs, OfGateway(e)
  PROVE  e <= epoch
  <1>1. CASE Forwarded(e)
    BY <1>1, ZenonT(40) DEF RecordInv
  <1>2. CASE task["loop"].pc = "insert" /\ task["loop"].epoch = e
    <2>1. "loop" \in Workers /\ task["loop"].pc \in {"insert", "owns", "unsub", "finish"}
      BY <1>2, ZenonT(40) DEF Workers
    <2>2. task["loop"].id \in Clients
      BY <2>1, JobType, ZenonT(40)
    <2>3. Given(task["loop"].id, e)
      BY <1>2, <2>2, ZenonT(40) DEF RecordInv, Inserting
    <2>4. QED
      BY <2>3, ZenonT(40) DEF Given
  <1>3. QED
    BY <1>1, <1>2, ZenonT(40) DEF OfGateway, Forwarded

\* What register does to the ownership of sessions.
LEMMA RegisteredOwns ==
  ASSUME TypeOK, NEW i \in Clients, epoch < MaxEpochs, sessions' = Registered(i)
  PROVE  /\ \A d \in Epochs : Owns(i, d)' <=> d = epoch + 1
         /\ \A d \in Epochs : Online(i, d)' <=> d = epoch + 1
         /\ \A c \in Clients, d \in Epochs : c # i => (Owns(c, d)' <=> Owns(c, d))
         /\ \A c \in Clients, d \in Epochs : c # i => (Online(c, d)' <=> Online(c, d))
  <1>1. PICK n : n = [epoch |-> epoch + 1, connected |-> TRUE]
    BY ZenonT(40)
  <1>2. n.epoch = epoch + 1 /\ n.connected
    BY <1>1, ZenonT(40)
  <1>3. n \in [epoch : Epochs, connected : BOOLEAN]
    BY <1>1, FreshEpoch, ZenonT(40)
  <1>4. n # None
    BY <1>3, NoneIsNoEntry, ZenonT(40)
  <1>5. sessions' = [sessions EXCEPT ![i] = n]
    BY <1>1, ZenonT(40) DEF Registered
  <1>6. \A c \in Clients : sessions'[c] = IF c = i THEN n ELSE sessions[c]
    BY <1>5, ZenonT(40) DEF TypeOK
  <1>7. sessions'[i] = n /\ \A c \in Clients : c # i => sessions'[c] = sessions[c]
    BY <1>6, ZenonT(40)
  <1>8. \A d \in Epochs : (Owns(i, d)' <=> d = epoch + 1) /\ (Online(i, d)' <=> d = epoch + 1)
    BY <1>2, <1>4, <1>7, SMTT(40) DEF Owns, Online
  <1>9. \A c \in Clients, d \in Epochs : c # i => (Owns(c, d)' <=> Owns(c, d))
    BY <1>7, ZenonT(40) DEF Owns
  <1>10. \A c \in Clients, d \in Epochs : c # i => (Online(c, d)' <=> Online(c, d))
    BY <1>7, <1>9, ZenonT(40) DEF Online
  <1>11. QED
    BY <1>8, <1>9, <1>10, ZenonT(40)

\* What was given out stays given out.
LEMMA RegisteredGiven ==
  ASSUME TypeOK, NEW i \in Clients, epoch < MaxEpochs, sessions' = Registered(i),
         epoch' = epoch + 1, NEW k \in Clients, NEW e \in Epochs, Given(k, e)
  PROVE  Given(k, e)'
  <1>1. e <= epoch
    BY ZenonT(40) DEF Given
  <1>2. e # epoch + 1 /\ e <= epoch'
    BY <1>1, FreshEpoch, ZenonT(40)
  <1>3. ASSUME NEW c \in Clients, Owns(c, e)' PROVE c = k
    <2>1. c # i
      BY <1>2, <1>3, RegisteredOwns, ZenonT(40)
    <2>2. Owns(c, e)
      BY <1>3, <2>1, RegisteredOwns, ZenonT(40)
    <2>3. QED
      BY <2>2, ZenonT(40) DEF Given
  <1>4. QED
    BY <1>2, <1>3, ZenonT(40) DEF Given

\* A client whose count does not leak is not being served.
LEMMA NotServing ==
  ASSUME TypeOK, NEW i \in Clients, ~LeaksCount(i)
  PROVE  i \notin Serving
  <1> SUFFICES ASSUME i \in Serving PROVE FALSE
    BY ZenonT(40)
  <1>1. PICK e \in Epochs : Online(i, e) /\ OfGateway(e)
    BY ZenonT(40) DEF Serving
  <1>2. sessions[i] # None /\ sessions[i].epoch = e /\ sessions[i].connected
    BY <1>1, ZenonT(40) DEF Online, Owns
  <1>3. OfGateway(sessions[i].epoch)
    BY <1>1, <1>2, ZenonT(40)
  <1>4. QED
    BY <1>2, <1>3, ZenonT(40) DEF LeaksCount

\* A takeover through MQTT keeps the three invariants.
LEMMA TakeOverStep ==
  ASSUME TypeOK, RecordInv, WatchInv, GaugeInv, NEW i \in Clients, TakeOver(i)
  PROVE  RecordInv' /\ WatchInv' /\ GaugeInv'
  <1>1. /\ epoch < MaxEpochs /\ epoch' = epoch + 1 /\ sessions' = Registered(i)
        /\ drift' = (drift \/ LeaksCount(i))
        /\ clients' = clients /\ gauge' = gauge /\ task' = task /\ expired' = expired
        /\ fwd' = fwd /\ orphans' = orphans
    BY ZenonT(40) DEF TakeOver, workVars, flowVars
  <1>2. \A k \in Clients, e \in Epochs : /\ Kept(k, e)' <=> Kept(k, e)
                                         /\ Inserting(k, e)' <=> Inserting(k, e)
    BY <1>1, ZenonT(40) DEF Kept, Inserting, Known
  <1>3. \A e \in Epochs : /\ Forwarded(e)' <=> Forwarded(e)
                          /\ OfGateway(e)' <=> OfGateway(e)
                          /\ Watched(e)' <=> Watched(e)
    BY <1>1, ZenonT(40) DEF Forwarded, OfGateway, Watched, Known
  <1>4. \A k \in Clients, e \in Epochs : Given(k, e) => Given(k, e)'
    BY <1>1, RegisteredGiven, ZenonT(40)
  <1>5. /\ epoch + 1 <= epoch'
        /\ \A e \in Epochs : e <= epoch => e # epoch + 1 /\ e <= epoch'
    BY <1>1, FreshEpoch, ZenonT(40)
  <1>6. /\ \A d \in Epochs : Owns(i, d)' <=> d = epoch + 1
        /\ \A d \in Epochs : Online(i, d)' <=> d = epoch + 1
        /\ \A c \in Clients, d \in Epochs : c # i => (Owns(c, d)' <=> Owns(c, d))
        /\ \A c \in Clients, d \in Epochs : c # i => (Online(c, d)' <=> Online(c, d))
    BY <1>1, RegisteredOwns, ZenonT(40)
  <1>7. \A e \in Epochs : OfGateway(e) => e # epoch + 1
    BY <1>5, GatewayEpochs, ZenonT(40)
  <1>8. RecordInv'
    <2>1. \A c \in Clients, e \in Epochs : Owns(c, e)' => e <= epoch'
      BY <1>5, <1>6, ZenonT(40) DEF RecordInv
    <2>2. \A e \in Epochs : Forwarded(e)' => e <= epoch'
      BY <1>3, <1>5, ZenonT(40) DEF RecordInv
    <2>3. \A k \in Clients, e \in Epochs : Kept(k, e)' => Given(k, e)' /\ Forwarded(e)'
      BY <1>2, <1>3, <1>4, ZenonT(40) DEF RecordInv
    <2>4. \A k \in Clients, e \in Epochs : Inserting(k, e)' => Given(k, e)'
      BY <1>2, <1>4, ZenonT(40) DEF RecordInv
    <2>5. task'["sweeper"].pc # "insert"
      BY <1>1, ZenonT(40) DEF RecordInv
    <2>6. QED
      BY <2>1, <2>2, <2>3, <2>4, <2>5, ZenonT(40) DEF RecordInv, Epochs
  <1>9. \A c \in Clients, e \in Epochs :
          Online(c, e)' /\ OfGateway(e)' => c # i /\ Online(c, e) /\ OfGateway(e)
    BY <1>3, <1>6, <1>7, ZenonT(40)
  <1>10. WatchInv'
    BY <1>3, <1>9, ZenonT(40) DEF WatchInv, Epochs
  <1>11. GaugeInv'
    <2> SUFFICES ASSUME ~drift' PROVE GaugeInv'
      BY ZenonT(40) DEF GaugeInv
    <2>1. ~drift /\ i \notin Serving
      BY <1>1, NotServing, ZenonT(40)
    <2>2. \A c \in Clients : c # i => (c \in Serving' <=> c \in Serving)
      BY <1>3, <1>6, ZenonT(40) DEF Serving, Epochs
    <2>3. i \notin Serving'
      BY <1>9, ZenonT(40) DEF Serving, Epochs
    <2>4. Serving \subseteq Clients /\ Serving' \subseteq Clients
      BY ZenonT(40) DEF Serving
    <2>5. Serving' = Serving
      <3>1. \A c : c \in Serving' <=> c \in Serving
        BY <2>1, <2>2, <2>3, <2>4, ZenonT(40)
      <3>2. QED
        BY <3>1, ZenonT(40)
    <2>6. QED
      BY <1>1, <2>1, <2>5, ZenonT(40) DEF GaugeInv
  <1>12. QED
    BY <1>8, <1>10, <1>11, ZenonT(40)

\* handle_connect registers and goes on to insert.
LEMMA ConnectStep ==
  ASSUME TypeOK, RecordInv, WatchInv, GaugeInv, NEW p \in Peers, NEW i \in Clients,
         NEW clean \in BOOLEAN, Connect(p, i, clean)
  PROVE  RecordInv' /\ WatchInv' /\ GaugeInv'
  <1>1. /\ epoch < MaxEpochs /\ epoch' = epoch + 1 /\ sessions' = Registered(i)
        /\ drift' = (drift \/ LeaksCount(i)) /\ task["loop"] = Idle
        /\ Starts("loop", "insert", p, i, epoch + 1, clean)
        /\ clients' = clients /\ gauge' = gauge /\ expired' = expired
        /\ fwd' = fwd /\ orphans' = orphans
    BY ZenonT(40) DEF Connect, Ready, flowVars
  <1>2. PICK j : j = [pc |-> "insert", peer |-> p, id |-> i, epoch |-> epoch + 1, clean |-> clean]
    BY ZenonT(40)
  <1>3. j.pc = "insert" /\ j.id = i /\ j.epoch = epoch + 1
    BY <1>2, ZenonT(40)
  <1>4. task' = [task EXCEPT !["loop"] = j]
    BY <1>1, <1>2, ZenonT(40) DEF Starts
  <1>5. "loop" \in Workers /\ "sweeper" \in Workers /\ "sweeper" # "loop"
        /\ \A v \in Workers : v = "loop" \/ v = "sweeper"
    BY SMTT(40) DEF Workers
  <1>6. task'["loop"] = j /\ task'["sweeper"] = task["sweeper"]
    <2>1. \A v \in Workers : task'[v] = IF v = "loop" THEN j ELSE task[v]
      BY <1>4, ZenonT(40) DEF TypeOK
    <2>2. QED
      BY <1>5, <2>1, ZenonT(40)
  <1>7. task["loop"].pc \notin {"insert", "owns", "unsub", "finish"} /\ task["loop"].pc # "insert"
    BY <1>1, IdleTask, ZenonT(40)
  <1>8. j.pc \notin {"owns", "unsub", "finish"} /\ j.pc \in {"insert", "owns", "unsub", "finish"}
    BY <1>3, SMTT(40)
  <1>9. \A k \in Clients, e \in Epochs : Kept(k, e)' => Kept(k, e)
    <2> SUFFICES ASSUME NEW k \in Clients, NEW d \in Epochs, Kept(k, d)' PROVE Kept(k, d)
      BY ZenonT(40)
    <2>1. CASE \E q \in Peers : Known(q)' /\ clients'[q].id = k /\ clients'[q].epoch = d
      BY <1>1, <2>1, ZenonT(40) DEF Kept, Known
    <2>2. CASE \E r \in expired' : r.id = k /\ r.epoch = d
      BY <1>1, <2>2, ZenonT(40) DEF Kept
    <2>3. CASE \E v \in Workers : task'[v].pc \in {"owns", "unsub", "finish"}
                                  /\ task'[v].id = k /\ task'[v].epoch = d
      <3>1. PICK v \in Workers : task'[v].pc \in {"owns", "unsub", "finish"}
                                 /\ task'[v].id = k /\ task'[v].epoch = d
        BY <2>3, ZenonT(40)
      <3>2. v = "sweeper"
        BY <1>5, <1>6, <1>8, <3>1, ZenonT(40)
      <3>3. task'[v] = task[v]
        BY <1>6, <3>2, ZenonT(40)
      <3>4. task[v].pc \in {"owns", "unsub", "finish"} /\ task[v].id = k /\ task[v].epoch = d
        BY <3>1, <3>3, ZenonT(40)
      <3>5. QED
        BY <3>4, ZenonT(40) DEF Kept
    <2>4. QED
      BY <2>1, <2>2, <2>3, ZenonT(40) DEF Kept
  <1>10. \A e \in Epochs : Forwarded(e)' <=> Forwarded(e)
    BY <1>1, ZenonT(40) DEF Forwarded
  <1>11. \A e \in Epochs : OfGateway(e)' <=> Forwarded(e) \/ e = epoch + 1
    BY <1>3, <1>6, <1>10, ZenonT(40) DEF OfGateway, Forwarded
  <1>12. \A e \in Epochs : OfGateway(e) <=> Forwarded(e)
    BY <1>7, ZenonT(40) DEF OfGateway, Forwarded
  <1>13. \A k \in Clients, e \in Epochs : Given(k, e) => Given(k, e)'
    BY <1>1, RegisteredGiven, ZenonT(40)
  <1>14. /\ epoch + 1 <= epoch' /\ epoch + 1 \in Epochs
         /\ \A e \in Epochs : e <= epoch => e # epoch + 1 /\ e <= epoch'
    BY <1>1, FreshEpoch, ZenonT(40)
  <1>15. /\ \A d \in Epochs : Owns(i, d)' <=> d = epoch + 1
         /\ \A d \in Epochs : Online(i, d)' <=> d = epoch + 1
         /\ \A c \in Clients, d \in Epochs : c # i => (Owns(c, d)' <=> Owns(c, d))
         /\ \A c \in Clients, d \in Epochs : c # i => (Online(c, d)' <=> Online(c, d))
    BY <1>1, RegisteredOwns, ZenonT(40)
  <1>16. \A c \in Clients, d \in Epochs : Owns(c, d) => d # epoch + 1
    BY <1>14, ZenonT(40) DEF RecordInv
  <1>f. PICK n \in Epochs : n = epoch + 1
    BY <1>14, ZenonT(40)
  <1>17. Given(i, n)'
    BY <1>f, <1>14, <1>15, <1>16, ZenonT(40) DEF Given
  <1>18. RecordInv'
    <2>1. \A c \in Clients, e \in Epochs : Owns(c, e)' => e <= epoch'
      BY <1>14, <1>15, ZenonT(40) DEF RecordInv
    <2>2. \A e \in Epochs : Forwarded(e)' => e <= epoch'
      BY <1>10, <1>14, ZenonT(40) DEF RecordInv
    <2>3. \A k \in Clients, e \in Epochs : Kept(k, e)' => Given(k, e)' /\ Forwarded(e)'
      BY <1>9, <1>10, <1>13, ZenonT(40) DEF RecordInv
    <2>4. \A k \in Clients, e \in Epochs : Inserting(k, e)' => k = i /\ e = n
      BY <1>f, <1>3, <1>6, ZenonT(40) DEF Inserting
    <2>5. \A k \in Clients, e \in Epochs : Inserting(k, e)' => Given(k, e)'
      BY <1>17, <2>4, ZenonT(40)
    <2>6. task'["sweeper"].pc # "insert"
      BY <1>6, ZenonT(40) DEF RecordInv
    <2>7. QED
      BY <2>1, <2>2, <2>3, <2>5, <2>6, ZenonT(40) DEF RecordInv, Epochs
  <1>19. \A e \in Epochs : Watched(e) => Watched(e)'
    <2> SUFFICES ASSUME NEW d \in Epochs, Watched(d) PROVE Watched(d)'
      BY ZenonT(40)
    <2>1. CASE d \in orphans
      BY <1>1, <2>1, ZenonT(40) DEF Watched
    <2>2. CASE \E q \in Peers : Known(q) /\ clients[q].epoch = d
      BY <1>1, <2>2, ZenonT(40) DEF Watched, Known
    <2>3. CASE \E v \in Workers : task[v].pc \in {"insert", "owns", "unsub", "finish"}
                                  /\ task[v].epoch = d
      <3>1. PICK v \in Workers : task[v].pc \in {"insert", "owns", "unsub", "finish"}
                                 /\ task[v].epoch = d
        BY <2>3, ZenonT(40)
      <3>2. v = "sweeper"
        BY <1>5, <1>7, <3>1, ZenonT(40)
      <3>3. task'[v] = task[v]
        BY <1>6, <3>2, ZenonT(40)
      <3>4. task'[v].pc \in {"insert", "owns", "unsub", "finish"} /\ task'[v].epoch = d
        BY <3>1, <3>3, ZenonT(40)
      <3>5. QED
        BY <3>4, ZenonT(40) DEF Watched
    <2>4. QED
      BY <2>1, <2>2, <2>3, ZenonT(40) DEF Watched
  <1>20. Watched(n)'
    <2>1. task'["loop"].pc \in {"insert", "owns", "unsub", "finish"} /\ task'["loop"].epoch = n
      BY <1>f, <1>3, <1>6, <1>8, ZenonT(40)
    <2>2. QED
      BY <1>5, <2>1, ZenonT(40) DEF Watched
  <1>21. WatchInv'
    <2>1. ASSUME NEW c \in Clients, NEW d \in Epochs, Online(c, d)', OfGateway(d)'
          PROVE  Watched(d)'
      <3>1. CASE d = n
        BY <1>20, <3>1, ZenonT(40)
      <3>2. CASE d # n
        <4>1. Online(c, d) /\ OfGateway(d)
          BY <1>f, <1>11, <1>12, <1>15, <2>1, <3>2, ZenonT(40)
        <4>2. QED
          BY <1>19, <4>1, ZenonT(40) DEF WatchInv
      <3>3. QED
        BY <3>1, <3>2, ZenonT(40)
    <2>2. QED
      BY <2>1, ZenonT(40) DEF WatchInv, Epochs
  <1>22. GaugeInv'
    <2> SUFFICES ASSUME ~drift'
                 PROVE  IsFiniteSet(Serving') /\ gauge' = Cardinality(Serving') - 1
      BY <1>3, <1>6, ZenonT(40) DEF GaugeInv
    <2>1. ~drift /\ i \notin Serving
      BY <1>1, NotServing, ZenonT(40)
    <2>2. \A c \in Clients, d \in Epochs :
            c # i => (Online(c, d)' /\ OfGateway(d)' <=> Online(c, d) /\ OfGateway(d))
      BY <1>11, <1>12, <1>15, <1>16, ZenonT(40) DEF Online
    <2>3. \A c \in Clients : c # i => (c \in Serving' <=> c \in Serving)
      BY <2>2, ZenonT(40) DEF Serving, Epochs
    <2>4. i \in Serving'
      <3>1. Online(i, n)' /\ OfGateway(n)'
        BY <1>f, <1>11, <1>14, <1>15, ZenonT(40)
      <3>2. QED
        BY <3>1, ZenonT(40) DEF Serving, Epochs
    <2>5. Serving \subseteq Clients /\ Serving' \subseteq Clients
      BY ZenonT(40) DEF Serving
    <2>6. Serving' = Serving \cup {i}
      BY <2>3, <2>4, <2>5, ZenonT(40)
    <2>7. IsFiniteSet(Serving) /\ gauge = Cardinality(Serving) - 0
      BY <1>7, <2>1, ZenonT(40) DEF GaugeInv
    <2>8. /\ IsFiniteSet(Serving') /\ Cardinality(Serving') = Cardinality(Serving) + 1
          /\ Cardinality(Serving) \in Nat
      BY <2>1, <2>6, <2>7, CardAdd, ZenonT(40)
    <2>9. PICK m, l : m = Cardinality(Serving) /\ l = Cardinality(Serving')
      BY ZenonT(40)
    <2>10. gauge' = m - 0 /\ l = m + 1 /\ m \in Nat
      BY <1>1, <2>7, <2>8, <2>9, ZenonT(40)
    <2>11. gauge' = l - 1
      BY <2>10, SMTT(40)
    <2>12. QED
      BY <2>8, <2>9, <2>11, ZenonT(40)
  <1>23. QED
    BY <1>18, <1>21, <1>22, ZenonT(40)

\* The rest of handle_connect: the session passes from the loop's own hands to
\* the clients map, and is counted.
LEMMA InsertStep ==
  ASSUME TypeOK, RecordInv, WatchInv, GaugeInv, Insert
  PROVE  RecordInv' /\ WatchInv' /\ GaugeInv'
  <1>1. PICK j : j = task["loop"]
    BY ZenonT(40)
  <1>2. PICK n : n = NewClient(j.id, j.epoch, j.clean)
    BY ZenonT(40)
  <1>3. PICK f : f = [pc |-> "recv", peer |-> j.peer, id |-> j.id]
    BY ZenonT(40)
  <1>4. /\ j.pc = "insert" /\ gauge' = gauge + 1
        /\ clients' = [clients EXCEPT ![j.peer] = n]
        /\ orphans' = orphans \cup (IF Known(j.peer) THEN {clients[j.peer].epoch} ELSE {})
        /\ fwd' = [fwd EXCEPT ![j.epoch] = f] /\ task' = [task EXCEPT !["loop"] = Idle]
        /\ sessions' = sessions /\ epoch' = epoch /\ expired' = expired /\ drift' = drift
    BY <1>1, <1>2, <1>3, ZenonT(40) DEF Insert, sessionVars
  <1>5. "loop" \in Workers /\ "sweeper" \in Workers /\ "sweeper" # "loop"
        /\ \A v \in Workers : v = "loop" \/ v = "sweeper"
    BY SMTT(40) DEF Workers
  <1>6. j.peer \in Peers /\ j.id \in Clients /\ j.epoch \in Epochs /\ j.clean \in BOOLEAN
    BY <1>1, <1>4, <1>5, JobType, ZenonT(40)
  <1>7. n \in SnClient /\ n # None /\ n.id = j.id /\ n.epoch = j.epoch
    <2>1. n \in SnClient
      BY <1>2, <1>6, NewClientEmpty, ZenonT(40)
    <2>2. n.id = j.id /\ n.epoch = j.epoch
      BY <1>2, ZenonT(40) DEF NewClient
    <2>3. QED
      BY <2>1, <2>2, NoneIsNoEntry, ZenonT(40)
  <1>8. f.pc # "none"
    <2>1. f.pc = "recv"
      BY <1>3, ZenonT(40)
    <2>2. QED
      BY <2>1, SMTT(40)
  <1>9. /\ clients'[j.peer] = n
        /\ \A q \in Peers : q # j.peer => clients'[q] = clients[q]
    BY <1>4, <1>6, ZenonT(40) DEF TypeOK
  <1>10. /\ fwd'[j.epoch] = f
         /\ \A e \in Epochs : e # j.epoch => fwd'[e] = fwd[e]
    BY <1>4, <1>6, ZenonT(40) DEF TypeOK
  <1>11. task'["loop"] = Idle /\ task'["sweeper"] = task["sweeper"]
    <2>1. \A v \in Workers : task'[v] = IF v = "loop" THEN Idle ELSE task[v]
      BY <1>4, ZenonT(40) DEF TypeOK
    <2>2. QED
      BY <1>5, <2>1, ZenonT(40)
  <1>12. task'["loop"].pc \notin {"insert", "owns", "unsub", "finish"} /\ task'["loop"].pc # "insert"
    BY <1>11, IdleTask, ZenonT(40)
  <1>13. \A e \in Epochs : Forwarded(e)' <=> Forwarded(e) \/ e = j.epoch
    BY <1>8, <1>10, ZenonT(40) DEF Forwarded
  <1>14. \A e \in Epochs : OfGateway(e)' <=> OfGateway(e)
    <2>1. \A e \in Epochs : OfGateway(e)' <=> Forwarded(e)'
      BY <1>12, ZenonT(40) DEF OfGateway, Forwarded
    <2>2. \A e \in Epochs : OfGateway(e) <=> Forwarded(e) \/ e = j.epoch
      BY <1>1, <1>4, ZenonT(40) DEF OfGateway, Forwarded
    <2>3. QED
      BY <1>13, <2>1, <2>2, ZenonT(40)
  <1>15. /\ \A c \in Clients, e \in Epochs : Owns(c, e)' <=> Owns(c, e)
         /\ \A c \in Clients, e \in Epochs : Online(c, e)' <=> Online(c, e)
         /\ \A c \in Clients, e \in Epochs : Given(c, e) => Given(c, e)'
    BY <1>4, ZenonT(40) DEF Owns, Online, Given
  <1>16. Given(j.id, j.epoch) /\ j.epoch <= epoch
    <2>1. Inserting(j.id, j.epoch)
      BY <1>1, <1>4, ZenonT(40) DEF Inserting
    <2>2. QED
      BY <1>6, <2>1, ZenonT(40) DEF RecordInv, Given
  <1>17. \A k \in Clients, e \in Epochs : Kept(k, e)' => Kept(k, e) \/ (k = j.id /\ e = j.epoch)
    <2> SUFFICES ASSUME NEW k \in Clients, NEW d \in Epochs, Kept(k, d)'
                 PROVE  Kept(k, d) \/ (k = j.id /\ d = j.epoch)
      BY ZenonT(40)
    <2>1. CASE \E q \in Peers : Known(q)' /\ clients'[q].id = k /\ clients'[q].epoch = d
      <3>1. PICK q \in Peers : Known(q)' /\ clients'[q].id = k /\ clients'[q].epoch = d
        BY <2>1, ZenonT(40)
      <3>2. CASE q = j.peer
        BY <1>7, <1>9, <3>1, <3>2, ZenonT(40)
      <3>3. CASE q # j.peer
        BY <1>9, <3>1, <3>3, ZenonT(40) DEF Kept, Known
      <3>4. QED
        BY <3>2, <3>3, ZenonT(40)
    <2>2. CASE \E r \in expired' : r.id = k /\ r.epoch = d
      BY <1>4, <2>2, ZenonT(40) DEF Kept
    <2>3. CASE \E v \in Workers : task'[v].pc \in {"owns", "unsub", "finish"}
                                  /\ task'[v].id = k /\ task'[v].epoch = d
      <3>1. PICK v \in Workers : task'[v].pc \in {"owns", "unsub", "finish"}
                                 /\ task'[v].id = k /\ task'[v].epoch = d
        BY <2>3, ZenonT(40)
      <3>2. v = "sweeper"
        BY <1>5, <1>12, <3>1, ZenonT(40)
      <3>3. task'[v] = task[v]
        BY <1>11, <3>2, ZenonT(40)
      <3>4. task[v].pc \in {"owns", "unsub", "finish"} /\ task[v].id = k /\ task[v].epoch = d
        BY <3>1, <3>3, ZenonT(40)
      <3>5. QED
        BY <3>4, ZenonT(40) DEF Kept
    <2>4. QED
      BY <2>1, <2>2, <2>3, ZenonT(40) DEF Kept
  <1>18. RecordInv'
    <2>1. \A c \in Clients, e \in Epochs : Owns(c, e)' => e <= epoch'
      BY <1>4, <1>15, ZenonT(40) DEF RecordInv
    <2>2. \A e \in Epochs : Forwarded(e)' => e <= epoch'
      BY <1>4, <1>13, <1>16, ZenonT(40) DEF RecordInv
    <2>3. \A k \in Clients, e \in Epochs : Kept(k, e)' => Given(k, e)' /\ Forwarded(e)'
      <3>1. \A k \in Clients, e \in Epochs : Kept(k, e) => Given(k, e) /\ Forwarded(e)
        BY ZenonT(40) DEF RecordInv
      <3>2. \A k \in Clients, e \in Epochs : Kept(k, e)' => Given(k, e) /\ Forwarded(e)'
        BY <1>13, <1>16, <1>17, <3>1, ZenonT(40)
      <3>3. QED
        BY <1>15, <3>2, ZenonT(40)
    <2>4. \A k \in Clients, e \in Epochs : ~Inserting(k, e)'
      BY <1>12, ZenonT(40) DEF Inserting
    <2>5. task'["sweeper"].pc # "insert"
      BY <1>11, ZenonT(40) DEF RecordInv
    <2>6. QED
      BY <2>1, <2>2, <2>3, <2>4, <2>5, ZenonT(40) DEF RecordInv, Epochs
  <1>19. \A e \in Epochs : Watched(e) => Watched(e)'
    <2> SUFFICES ASSUME NEW d \in Epochs, Watched(d) PROVE Watched(d)'
      BY ZenonT(40)
    <2>1. CASE d \in orphans
      BY <1>4, <2>1, ZenonT(40) DEF Watched
    <2>2. CASE \E q \in Peers : Known(q) /\ clients[q].epoch = d
      <3>1. PICK q \in Peers : Known(q) /\ clients[q].epoch = d
        BY <2>2, ZenonT(40)
      <3>2. CASE q = j.peer
        BY <1>4, <3>1, <3>2, ZenonT(40) DEF Watched
      <3>3. CASE q # j.peer
        BY <1>9, <3>1, <3>3, ZenonT(40) DEF Watched, Known
      <3>4. QED
        BY <3>2, <3>3, ZenonT(40)
    <2>3. CASE \E v \in Workers : task[v].pc \in {"insert", "owns", "unsub", "finish"}
                                  /\ task[v].epoch = d
      <3>1. PICK v \in Workers : task[v].pc \in {"insert", "owns", "unsub", "finish"}
                                 /\ task[v].epoch = d
        BY <2>3, ZenonT(40)
      <3>2. CASE v = "loop"
        <4>1. clients'[j.peer] # None /\ clients'[j.peer].epoch = d
          BY <1>1, <1>7, <1>9, <3>1, <3>2, ZenonT(40)
        <4>2. \E q \in Peers : clients'[q] # None /\ clients'[q].epoch = d
          BY <1>6, <4>1, ZenonT(40)
        <4>3. QED
          BY <4>2, ZenonT(40) DEF Watched, Known
      <3>3. CASE v = "sweeper"
        <4>1. task'[v] = task[v]
          BY <1>11, <3>3, ZenonT(40)
        <4>2. task'[v].pc \in {"insert", "owns", "unsub", "finish"} /\ task'[v].epoch = d
          BY <3>1, <4>1, ZenonT(40)
        <4>3. QED
          BY <4>2, ZenonT(40) DEF Watched
      <3>4. QED
        BY <1>5, <3>2, <3>3, ZenonT(40)
    <2>4. QED
      BY <2>1, <2>2, <2>3, ZenonT(40) DEF Watched
  <1>20. WatchInv'
    BY <1>14, <1>15, <1>19, ZenonT(40) DEF WatchInv, Epochs
  <1>21. GaugeInv'
    <2> SUFFICES ASSUME ~drift'
                 PROVE  IsFiniteSet(Serving') /\ gauge' = Cardinality(Serving') - 0
      BY <1>12, ZenonT(40) DEF GaugeInv
    <2>1. Serving' = Serving
      <3>1. Serving \subseteq Clients /\ Serving' \subseteq Clients
        BY ZenonT(40) DEF Serving
      <3>2. \A c \in Clients : c \in Serving' <=> c \in Serving
        BY <1>14, <1>15, ZenonT(40) DEF Serving, Epochs
      <3>3. QED
        BY <3>1, <3>2, ZenonT(40)
    <2>2. IsFiniteSet(Serving) /\ gauge = Cardinality(Serving) - 1
      BY <1>1, <1>4, ZenonT(40) DEF GaugeInv
    <2>3. PICK m \in Nat : m = Cardinality(Serving)
      BY <2>2, FS_CardinalityType, ZenonT(40)
    <2>4. gauge' = (m - 1) + 1
      BY <1>4, <2>2, <2>3, ZenonT(40)
    <2>5. gauge' = m - 0
      BY <2>4, SMTT(40)
    <2>6. QED
      BY <2>1, <2>2, <2>3, <2>5, ZenonT(40)
  <1>22. QED
    BY <1>18, <1>20, <1>21, ZenonT(40)

\* Every packet of a device keeps the three invariants.
LEMMA HandleStep ==
  ASSUME GatewayInv, NEW p \in Peers, Handle(p)
  PROVE  RecordInv' /\ WatchInv' /\ GaugeInv'
  <1> USE DEF GatewayInv
  <1>1. CASE \E d \in Devices : d.peer = p /\ Connect(p, d.id, d.clean)
    <2>1. PICK d \in Devices : Connect(p, d.id, d.clean)
      BY <1>1, ZenonT(40)
    <2>2. d.id \in Clients /\ d.clean \in BOOLEAN
      BY DevicesKnown, ZenonT(40)
    <2>3. QED
      BY <2>1, <2>2, ConnectStep, ZenonT(40)
  <1>2. CASE \/ \E t \in Topics : RegisterTopic(p, t) \/ Subscribe(p, t) \/ Unsubscribe(p, t)
             \/ \E t \in ShortTopics : SubscribeShort(p, t)
             \/ \E i \in TopicIds, t \in ShortTopics \cup {None} : Publish(p, i, t)
             \/ Ping(p)
    <2>1. Quiet
      BY <1>2, PacketQuiet, ZenonT(40)
    <2>2. QED
      BY <2>1, QuietKeeps, ZenonT(40)
  <1>3. CASE Sleep(p)
    BY <1>3, SleepStep, ZenonT(40)
  <1>4. CASE Disconnect(p)
    BY <1>4, DisconnectQuiet, QuietKeeps, ZenonT(40)
  <1>5. QED
    BY <1>1, <1>2, <1>3, <1>4, ShortIds, ZenonT(40) DEF Handle

\* Every step keeps the three invariants.
LEMMA GatewayStep ==
  ASSUME GatewayInv, [Next]_vars
  PROVE  RecordInv' /\ WatchInv' /\ GaugeInv'
  <1> USE DEF GatewayInv
  <1>1. CASE \E p \in Peers : Handle(p)
    BY <1>1, HandleStep, ZenonT(40)
  <1>2. CASE \E p \in Peers : Elapse(p)
    BY <1>2, ElapseQuiet, QuietKeeps, ZenonT(40)
  <1>3. CASE Insert
    BY <1>3, InsertStep, ZenonT(40)
  <1>4. CASE \E w \in Workers : Cleanup(w)
    <2>1. PICK w \in Workers : Cleanup(w)
      BY <1>4, ZenonT(40)
    <2>2. CASE CleanupOwns(w)
      BY <2>2, CleanupOwnsQuiet, QuietKeeps, ZenonT(40)
    <2>3. CASE CleanupUnsubscribe(w)
      BY <2>3, CleanupUnsubscribeQuiet, QuietKeeps, ZenonT(40)
    <2>4. CASE CleanupFinish(w)
      BY <2>4, CleanupFinishStep, ZenonT(40)
    <2>5. QED
      BY <2>1, <2>2, <2>3, <2>4, ZenonT(40) DEF Cleanup
  <1>5. CASE Sweep
    <2>1. CASE Scan
      BY <2>1, ScanQuiet, QuietKeeps, ZenonT(40)
    <2>2. CASE \E r \in expired : Expire(r)
      BY <2>2, ExpireQuiet, QuietKeeps, ZenonT(40)
    <2>3. QED
      BY <1>5, <2>1, <2>2, ZenonT(40) DEF Sweep
  <1>6. CASE \E e \in Epochs : Forward(e)
    BY <1>6, ForwardQuiet, QuietKeeps, ZenonT(40)
  <1>7. CASE \E c \in Clients : TakeOver(c)
    BY <1>7, TakeOverStep, ZenonT(40)
  <1>8. CASE Shutdown \/ (\E t \in Topics : BrokerPublish(t)) \/ UNCHANGED vars
    <2>1. Quiet
      BY <1>8, OtherQuiet, ZenonT(40)
    <2>2. QED
      BY <2>1, QuietKeeps, ZenonT(40)
  <1>9. CASE Stop
    <2>1. CASE \E p \in Peers : StopVisit(p)
      BY <2>1, StopVisitQuiet, QuietKeeps, ZenonT(40)
    <2>2. CASE StopDone
      BY <2>2, StopDoneQuiet, QuietKeeps, ZenonT(40)
    <2>3. QED
      BY <1>9, <2>1, <2>2, ZenonT(40) DEF Stop
  <1>10. QED
    BY <1>1, <1>2, <1>3, <1>4, <1>5, <1>6, <1>7, <1>8, <1>9, ZenonT(40) DEF Next

\* The invariant holds at the start.
LEMMA GatewayInit ==
  ASSUME Init
  PROVE  GatewayInv
  <1>1. TypeOK /\ TableHolds
    BY InitHolds, ZenonT(40)
  <1>2. /\ \A c \in Clients : sessions[c] = None
        /\ \A p \in Peers : ~Known(p)
        /\ \A w \in Workers : task[w] = Idle
        /\ expired = {} /\ gauge = 0
        /\ \A e \in Epochs : fwd[e] = [pc |-> "none"]
    BY ZenonT(40) DEF Init, Known
  <1>3. \A w \in Workers : task[w].pc \notin {"insert", "owns", "unsub", "finish"}
                           /\ task[w].pc # "insert"
    BY <1>2, IdleTask, ZenonT(40)
  <1>4. \A w \in Workers : task[w].pc \notin {"owns", "unsub", "finish"}
    BY <1>3, ZenonT(40)
  <1>5. "loop" \in Workers /\ "sweeper" \in Workers
    BY SMTT(40) DEF Workers
  <1>6. \A c \in Clients, e \in Epochs : ~Owns(c, e) /\ ~Online(c, e)
    BY <1>2, ZenonT(40) DEF Owns, Online
  <1>7. \A e \in Epochs : ~Forwarded(e)
    <2>1. \A e \in Epochs : fwd[e].pc = "none"
      BY <1>2, SMTT(40)
    <2>2. QED
      BY <2>1, ZenonT(40) DEF Forwarded
  <1>8. \A i \in Clients, e \in Epochs : ~Kept(i, e) /\ ~Inserting(i, e)
    <2>1. \A r : r \notin expired
      BY <1>2, ZenonT(40)
    <2>2. QED
      BY <1>2, <1>3, <1>4, <1>5, <2>1, ZenonT(40) DEF Kept, Inserting
  <1>9. RecordInv
    BY <1>3, <1>5, <1>6, <1>7, <1>8, ZenonT(40) DEF RecordInv
  <1>10. WatchInv
    BY <1>6, ZenonT(40) DEF WatchInv
  <1>11. GaugeInv
    <2>1. Serving = {}
      BY <1>6, ZenonT(40) DEF Serving
    <2>2. IsFiniteSet(Serving) /\ Cardinality(Serving) = 0
      BY <2>1, FS_EmptySet, ZenonT(40)
    <2>3. 0 = 0 - 0
      BY SMTT(40)
    <2>4. gauge = Cardinality(Serving) - 0
      BY <1>2, <2>2, <2>3, ZenonT(40)
    <2>5. QED
      BY <1>3, <1>5, <2>2, <2>4, ZenonT(40) DEF GaugeInv
  <1>12. QED
    BY <1>1, <1>9, <1>10, <1>11, ZenonT(40) DEF GatewayInv

\* The inductive invariant of the gateway's sessions: every identity the
\* clients map, the sweeper's list or a cleanup holds is that of its epoch, every
\* online session has somebody to end it, and the gauge counts them.
THEOREM GatewayInvariant == Spec => []GatewayInv
  <1>1. Init => GatewayInv
    BY GatewayInit, ZenonT(40)
  <1>2. GatewayInv /\ [Next]_vars => GatewayInv'
    <2> SUFFICES ASSUME GatewayInv, [Next]_vars PROVE GatewayInv'
      BY ZenonT(40)
    <2>1. TypeOK /\ TableHolds
      BY ZenonT(40) DEF GatewayInv
    <2>2. TypeOK' /\ TableHolds'
      BY <2>1, NextType, NextHolds, ZenonT(40)
    <2>3. RecordInv' /\ WatchInv' /\ GaugeInv'
      BY GatewayStep, ZenonT(40)
    <2>4. QED
      BY <2>2, <2>3, ZenonT(40) DEF GatewayInv
  <1>3. QED
    BY <1>1, <1>2, PTL DEF Spec

\* No session of the gateway is online with nobody to end it, displaced ones
\* excepted: between handle_connect, the sweeper, DISCONNECT and a shutdown the
\* epoch is always in the clients map or in the hands of a task.
THEOREM OnlineSessionsWatched == Spec => []OnlineIsWatched
  <1>1. GatewayInv => OnlineIsWatched
    <2> SUFFICES ASSUME GatewayInv, NEW c \in Clients, NEW e \in Epochs, Online(c, e), OfGateway(e)
                 PROVE  \/ e \in orphans
                        \/ \E p \in Peers : Known(p) /\ clients[p].epoch = e
                        \/ \E w \in Workers : task[w] \in Job /\ task[w].epoch = e
      BY ZenonT(40) DEF OnlineIsWatched
    <2>1. Watched(e)
      BY ZenonT(40) DEF GatewayInv, WatchInv
    <2>2. \A w \in Workers : task[w].pc \in {"insert", "owns", "unsub", "finish"} => task[w] \in Job
      BY JobType, ZenonT(40) DEF GatewayInv
    <2>3. QED
      BY <2>1, <2>2, ZenonT(40) DEF Watched
  <1>2. QED
    BY <1>1, GatewayInvariant, PTL

\* The gauge counts the online sessions, the one handle_connect is about to
\* count excepted, until a take-over or a second end makes it drift.
THEOREM GaugeCorrect == Spec => []GaugeUnlessDrifted
  <1>1. GatewayInv => GaugeUnlessDrifted
    BY ZenonT(40) DEF GatewayInv, GaugeInv, Serving, GaugeUnlessDrifted
  <1>2. QED
    BY <1>1, GatewayInvariant, PTL
=============================================================================
