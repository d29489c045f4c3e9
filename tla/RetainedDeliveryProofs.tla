----------------------- MODULE RetainedDeliveryProofs -----------------------
(***************************************************************************)
(* What RetainedDelivery promises a subscriber, proved for any clients,    *)
(* messages and channel size.  The inductive invariant says where the      *)
(* retained message in force is on its way to each subscriber, and in      *)
(* which order the messages of one publisher are under way.                *)
(***************************************************************************)
EXTENDS RetainedDelivery, TLAPS

Contains(s, a) == \E i \in 1 .. Len(s) : s[i] = a

\* a stands in s at a place before b.
Before(s, a, b) == \E i, j \in 1 .. Len(s) : i < j /\ s[i] = a /\ s[j] = b

Deliveries == [msg : Message, retain : BOOLEAN]

TypeOK ==
    /\ map \in Message \cup {NoMessage} /\ disk \in Message \cup {NoMessage}
    /\ durable \in Message \cup {NoMessage} /\ current \in Message \cup {NoMessage}
    /\ online \subseteq Clients /\ subscribed \subseteq online
    /\ task \in [Clients -> {Idle} \cup [pc : {"scan"}]
                            \cup [pc : {"match", "send"}, msg : Message]
                            \cup [pc : {"deliver"}, msg : Message, to : SUBSET Clients]]
    /\ channel \in [Clients -> Seq(Message)]
    /\ received \in [Clients -> Seq(Deliveries)]
    /\ dropped \in [Clients -> SUBSET Message]
    /\ published \in Nat
    /\ subscribes \in [Clients -> Nat]

\* The store holds what the last accepted message left there.
StoreInv ==
    /\ map = disk
    /\ current = NoMessage => map = NoMessage
    /\ current # NoMessage => map = Stored(current)
    /\ durable # NoMessage => durable.kind # "clear"

Matching(q, m) == task[q].pc = "match" /\ task[q].msg = m
Delivering(q, m, c) == task[q].pc = "deliver" /\ task[q].msg = m /\ c \in task[q].to
Working(q) == task[q].pc \in {"match", "deliver"}

\* A task routes its own client's message, and sends the scan's copy first.
TaskInv ==
    \A c \in Clients :
        /\ Working(c) => task[c].msg.by = c
        /\ task[c].pc \in {"scan", "send"} => received[c] = <<>>

\* The message in force is on its way to c through the router.
Pending(c) ==
    \/ \E q \in Clients : Matching(q, current) \/ Delivering(q, current, c)
    \/ Contains(channel[c], current)

\* c should hear of the message in force.
Concerned(c) == c \in subscribed /\ current # NoMessage /\ current.by # c

\* c has no value from the scan that the message in force would clear.
NothingToClear(c) ==
    /\ current.kind = "clear"
    /\ task[c].pc # "send"
    /\ \A m \in Message : ~Contains(received[c], Sent(m, TRUE))

Covered(c) ==
    \/ Pending(c)
    \/ task[c].pc = "scan"
    \/ task[c].pc = "send" /\ task[c].msg = current
    \/ \E flag \in BOOLEAN : Contains(received[c], Sent(current, flag))
    \/ current \in dropped[c]
    \/ NothingToClear(c)

\* Every subscriber has the message in force, will get it, or has no need of it.
CoverInv == \A c \in Clients : Concerned(c) => Covered(c)

RetainInv == TypeOK /\ StoreInv /\ TaskInv /\ CoverInv

\* Messages are numbered in the order of their publication.
NumberInv ==
    /\ current # NoMessage => current.id <= published
    /\ durable # NoMessage => durable.id <= published
    /\ \A c \in Clients : Working(c) => task[c].msg.id <= published
    /\ \A c \in Clients, m \in Message : Contains(channel[c], m) => m.id <= published

\* What a publisher is routing is its latest message.
LatestInv ==
    \A q \in Clients : Working(q) =>
        /\ current # NoMessage /\ current.by = q => current.id <= task[q].msg.id
        /\ \A c \in Clients, m \in Message : Contains(channel[c], m) /\ m.by = q =>
              /\ m.id <= task[q].msg.id
              /\ task[q].pc = "match" \/ c \in task[q].to => m.id < task[q].msg.id

\* A channel keeps the order of each publisher.
OrderedInv ==
    \A c \in Clients : \A a, b \in Message :
        Before(channel[c], a, b) /\ a.by = b.by => a.id < b.id

\* Before its first SUBSCRIBE a client is sent nothing.
FirstInv ==
    \A c \in Clients : subscribes[c] = 0 =>
        /\ c \notin subscribed /\ channel[c] = <<>>
        /\ \A q \in Clients : task[q].pc = "deliver" => c \notin task[q].to

\* A subscriber that lost nothing, in its first subscription.
Faithful(c) == Concerned(c) /\ subscribes[c] = 1 /\ dropped[c] = {}

\* Once the message in force is no longer on its way, nothing older from the
\* same publisher follows it, and nothing older was sent last.
Late(c) ==
    Faithful(c) /\ ~Pending(c) =>
        /\ \A m \in Message : Contains(channel[c], m) /\ m.by = current.by => m.id >= current.id
        /\ task[c].pc = "send" => task[c].msg = current
        /\ received[c] # <<>> /\ LastSent(c).msg.by = current.by =>
              LastSent(c).msg.id >= current.id

LateInv == \A c \in Clients : Late(c)

OrderInv == NumberInv /\ LatestInv /\ OrderedInv /\ FirstInv /\ LateInv

-----------------------------------------------------------------------------
(***************************************************************************)
(* Sequences, tasks and types.                                             *)
(***************************************************************************)

\* Taking the first element: what remains was there, behind it.
LEMMA TailFacts ==
    ASSUME NEW S, NEW s \in Seq(S), s # <<>>
    PROVE  /\ Tail(s) \in Seq(S) /\ Head(s) \in S
           /\ Contains(s, Head(s))
           /\ \A a : Contains(Tail(s), a) => Contains(s, a) /\ Before(s, Head(s), a)
           /\ \A a, b : Before(Tail(s), a, b) => Before(s, a, b)
           /\ \A a : Contains(s, a) => a = Head(s) \/ Contains(Tail(s), a)
<1>1. Tail(s) \in Seq(S) /\ Head(s) \in S /\ Head(s) = s[1] /\ Len(s) \in Nat /\ Len(s) >= 1
  BY SMTT(40)
<1>2. Len(Tail(s)) = Len(s) - 1 /\ \A i \in 1 .. Len(Tail(s)) : Tail(s)[i] = s[i + 1]
  BY SMTT(40)
<1>3. Contains(s, Head(s))
  BY <1>1, SMTT(40) DEF Contains
<1>4. ASSUME NEW a, Contains(Tail(s), a) PROVE Contains(s, a) /\ Before(s, Head(s), a)
  <2>1. PICK i \in 1 .. Len(Tail(s)) : Tail(s)[i] = a
    BY <1>4 DEF Contains
  <2>2. i + 1 \in 1 .. Len(s) /\ 1 \in 1 .. Len(s) /\ 1 < i + 1 /\ s[i + 1] = a
    BY <1>1, <1>2, <2>1, SMTT(40)
  <2> QED BY <1>1, <2>2, ZenonT(40) DEF Contains, Before
<1>5. ASSUME NEW a, NEW b, Before(Tail(s), a, b) PROVE Before(s, a, b)
  <2>1. PICK i, j \in 1 .. Len(Tail(s)) : i < j /\ Tail(s)[i] = a /\ Tail(s)[j] = b
    BY <1>5 DEF Before
  <2>2. /\ i + 1 \in 1 .. Len(s) /\ j + 1 \in 1 .. Len(s) /\ i + 1 < j + 1
        /\ s[i + 1] = a /\ s[j + 1] = b
    BY <1>1, <1>2, <2>1, SMTT(40)
  <2> QED BY <2>2, ZenonT(40) DEF Before
<1>6. ASSUME NEW a, Contains(s, a) PROVE a = Head(s) \/ Contains(Tail(s), a)
  <2>1. PICK i \in 1 .. Len(s) : s[i] = a
    BY <1>6 DEF Contains
  <2>2. CASE i = 1
    BY <1>1, <2>1, <2>2, ZenonT(40)
  <2>3. CASE i # 1
    <3>1. i - 1 \in 1 .. Len(Tail(s)) /\ Tail(s)[i - 1] = s[i]
      BY <1>1, <1>2, <2>1, <2>3, SMTT(40)
    <3> QED BY <2>1, <3>1, ZenonT(40) DEF Contains
  <2> QED BY <2>2, <2>3
<1> QED BY <1>1, <1>3, <1>4, <1>5, <1>6, ZenonT(40)

\* Adding an element: what is there was there before or is the new last one.
LEMMA AppendFacts ==
    ASSUME NEW S, NEW s \in Seq(S), NEW x \in S
    PROVE  /\ Append(s, x) \in Seq(S)
           /\ Append(s, x) # <<>> /\ Append(s, x)[Len(Append(s, x))] = x
           /\ \A a : Contains(Append(s, x), a) <=> Contains(s, a) \/ a = x
           /\ \A a, b : Before(Append(s, x), a, b) => Before(s, a, b) \/ (Contains(s, a) /\ b = x)
<1>1. Append(s, x) \in Seq(S) /\ Len(s) \in Nat /\ Len(Append(s, x)) = Len(s) + 1
  BY SMTT(40)
<1>2. /\ \A i \in 1 .. Len(s) : Append(s, x)[i] = s[i]
      /\ Append(s, x)[Len(s) + 1] = x
  BY SMTT(40)
<1>0. Append(s, x) # <<>> /\ Append(s, x)[Len(Append(s, x))] = x
  BY <1>1, <1>2, SMTT(40)
<1>3. ASSUME NEW a PROVE Contains(Append(s, x), a) <=> Contains(s, a) \/ a = x
  <2>1. ASSUME Contains(Append(s, x), a) PROVE Contains(s, a) \/ a = x
    BY <1>1, <1>2, <2>1, SMTT(40) DEF Contains
  <2>2. ASSUME Contains(s, a) PROVE Contains(Append(s, x), a)
    BY <1>1, <1>2, <2>2, SMTT(40) DEF Contains
  <2>3. Contains(Append(s, x), x)
    <3>1. Len(s) + 1 \in 1 .. Len(Append(s, x))
      BY <1>1, SMTT(40)
    <3> QED BY <1>2, <3>1, ZenonT(40) DEF Contains
  <2> QED BY <2>1, <2>2, <2>3, ZenonT(40)
<1>4. ASSUME NEW a, NEW b, Before(Append(s, x), a, b)
      PROVE  Before(s, a, b) \/ (Contains(s, a) /\ b = x)
  <2>1. PICK i, j \in 1 .. Len(s) + 1 : i < j /\ Append(s, x)[i] = a /\ Append(s, x)[j] = b
    BY <1>1, <1>4 DEF Before
  <2>2. i \in 1 .. Len(s) /\ s[i] = a
    BY <1>1, <1>2, <2>1, SMTT(40)
  <2>3. CASE j = Len(s) + 1
    BY <1>2, <2>1, <2>2, <2>3, ZenonT(40) DEF Contains
  <2>4. CASE j # Len(s) + 1
    <3>1. j \in 1 .. Len(s) /\ s[j] = b
      BY <1>1, <1>2, <2>1, <2>4, SMTT(40)
    <3> QED BY <2>1, <2>2, <3>1, ZenonT(40) DEF Before
  <2> QED BY <2>3, <2>4
<1> QED BY <1>0, <1>1, <1>3, <1>4, ZenonT(40)

\* A sequence stays typed when an element is appended.
LEMMA AppendType ==
    ASSUME NEW S, NEW s \in Seq(S), NEW x \in S
    PROVE  Append(s, x) \in Seq(S)
  BY SMTT(40)

\* Nothing is in an empty sequence.
LEMMA EmptyFacts ==
    /\ \A a : ~Contains(<<>>, a)
    /\ \A a, b : ~Before(<<>>, a, b)
  BY SMTT(40) DEF Contains, Before

\* What a connection task holds at each point of its handler.
LEMMA TaskTypes ==
    ASSUME TypeOK, NEW c \in Clients
    PROVE  /\ task[c].pc \in {"idle", "scan", "match", "deliver", "send"}
           /\ task[c] = Idle <=> task[c].pc = "idle"
           /\ task[c].pc \in {"match", "deliver", "send"} => task[c].msg \in Message
           /\ task[c].pc = "deliver" =>
                 task[c] = [pc |-> "deliver", msg |-> task[c].msg, to |-> task[c].to]
           /\ task[c].pc = "deliver" => task[c].to \in SUBSET Clients
<1>1. task[c] \in {Idle} \cup [pc : {"scan"}]
                   \cup [pc : {"match", "send"}, msg : Message]
                   \cup [pc : {"deliver"}, msg : Message, to : SUBSET Clients]
  BY ZenonT(40) DEF TypeOK
<1>2. CASE task[c] = Idle
  BY <1>2, SMTT(40) DEF Idle
<1>3. CASE task[c] \in [pc : {"scan"}]
  BY <1>3, SMTT(40) DEF Idle
<1>4. CASE task[c] \in [pc : {"match", "send"}, msg : Message]
  BY <1>4, SMTT(40) DEF Idle
<1>5. CASE task[c] \in [pc : {"deliver"}, msg : Message, to : SUBSET Clients]
  BY <1>5, SMTT(40) DEF Idle
<1> QED BY <1>1, <1>2, <1>3, <1>4, <1>5, ZenonT(40)

\* One task moves.
LEMMA TaskMoves ==
    ASSUME TypeOK, NEW c \in Clients, NEW r, task' = [task EXCEPT ![c] = r]
    PROVE  task'[c] = r /\ \A q \in Clients : q # c => task'[q] = task[q]
  BY ZenonT(40) DEF TypeOK

\* The positions of an idle task and of one that is about to scan.
LEMMA TaskValues == Idle.pc = "idle" /\ [pc |-> "scan"].pc = "scan"
  BY SMTT(40) DEF Idle

\* NoMessage is no message, and a new message carries the next number.
LEMMA MessageFacts ==
    /\ NoMessage \notin Message
    /\ TypeOK => \A c \in Publishers, k \in Kinds :
         published < MaxPublishes =>
            /\ NewMessage(c, k) \in Message
            /\ NewMessage(c, k).id = published + 1
            /\ NewMessage(c, k).by = c /\ NewMessage(c, k).kind = k
    /\ \A m \in Message : m.id \in Nat
    /\ \A m \in Message : Stored(m) \in Message \cup {NoMessage}
<1>1. NoMessage \notin Message
  BY NoMessageIsFresh, BoundsAreNumbers, SMTT(40) DEF Message
<1>2. ASSUME TypeOK, NEW c \in Publishers, NEW k \in Kinds, published < MaxPublishes
      PROVE  /\ NewMessage(c, k) \in Message
             /\ NewMessage(c, k).id = published + 1
             /\ NewMessage(c, k).by = c /\ NewMessage(c, k).kind = k
  <2>1. published \in Nat
    BY <1>2 DEF TypeOK
  <2>2. published + 1 \in 1 .. MaxPublishes
    BY <1>2, <2>1, BoundsAreNumbers, SMTT(40)
  <2> QED BY <2>2, SMTT(40) DEF NewMessage, Message
<1>3. \A m \in Message : m.id \in Nat
  BY BoundsAreNumbers, SMTT(40) DEF Message
<1>4. \A m \in Message : Stored(m) \in Message \cup {NoMessage}
  BY ZenonT(40) DEF Stored
<1> QED BY <1>1, <1>2, <1>3, <1>4, ZenonT(40)

\* A delivered message is of a client's deliveries.
LEMMA SentFacts ==
    /\ \A m \in Message, flag \in BOOLEAN :
         Sent(m, flag) \in Deliveries /\ Sent(m, flag).msg = m /\ Sent(m, flag).retain = flag
    /\ \A m, n, f, g : Sent(m, f) = Sent(n, g) => m = n /\ f = g
  BY SMTT(40) DEF Sent, Deliveries

\* The first step of a publish keeps the types.
LEMMA StoreType ==
    ASSUME TypeOK, NEW c \in Clients, StoreMessage(c)
    PROVE  TypeOK'
<1>1. PICK k \in Kinds :
        /\ c \in Publishers /\ published < MaxPublishes
        /\ IF k = "plain" THEN UNCHANGED storeVars ELSE SetRetained(NewMessage(c, k))
        /\ task' = [task EXCEPT ![c] = [pc |-> "match", msg |-> NewMessage(c, k)]]
        /\ published' = published + 1
        /\ UNCHANGED <<clientVars, outVars, durable>>
  BY ZenonT(40) DEF StoreMessage
<1>2. NewMessage(c, k) \in Message /\ Stored(NewMessage(c, k)) \in Message \cup {NoMessage}
  BY <1>1, MessageFacts, ZenonT(40)
<1>3. /\ map' \in Message \cup {NoMessage} /\ disk' \in Message \cup {NoMessage}
      /\ current' \in Message \cup {NoMessage}
  BY <1>1, <1>2, ZenonT(40) DEF SetRetained, storeVars, TypeOK
<1>4. [pc |-> "match", msg |-> NewMessage(c, k)] \in [pc : {"match", "send"}, msg : Message]
  BY <1>2, SMTT(40)
<1>5. published' \in Nat
  BY <1>1, SMTT(40) DEF TypeOK
<1> QED BY <1>1, <1>3, <1>4, <1>5, ZenonT(40) DEF TypeOK, clientVars, outVars

\* The other steps of a publish keep the types.
LEMMA PublishType ==
    ASSUME TypeOK, NEW c \in Clients,
           MatchSubscribers(c) \/ (\E d \in Clients : DeliverOne(c, d)) \/ PublishDone(c)
    PROVE  TypeOK'
<1>1. CASE MatchSubscribers(c)
  <2>1. /\ task[c].pc = "match"
        /\ task' = [task EXCEPT ![c] =
                      [pc |-> "deliver", msg |-> task[c].msg, to |-> subscribed \ {c}]]
        /\ UNCHANGED <<storeVars, clientVars, outVars, durable, published>>
    BY <1>1 DEF MatchSubscribers
  <2>2. task[c].msg \in Message
    BY <2>1, TaskTypes, ZenonT(40)
  <2>3. subscribed \ {c} \in SUBSET Clients
    BY ZenonT(40) DEF TypeOK
  <2>4. [pc |-> "deliver", msg |-> task[c].msg, to |-> subscribed \ {c}]
          \in [pc : {"deliver"}, msg : Message, to : SUBSET Clients]
    BY <2>2, <2>3, SMTT(40)
  <2> QED BY <2>1, <2>4, ZenonT(40) DEF TypeOK, storeVars, clientVars, outVars
<1>2. ASSUME NEW d \in Clients, DeliverOne(c, d) PROVE TypeOK'
  <2>1. /\ task[c].pc = "deliver"
        /\ \/ channel' = [channel EXCEPT ![d] = Append(@, task[c].msg)] /\ dropped' = dropped
           \/ dropped' = [dropped EXCEPT ![d] = @ \cup {task[c].msg}] /\ channel' = channel
           \/ dropped' = dropped /\ channel' = channel
        /\ task' = [task EXCEPT ![c].to = @ \ {d}]
        /\ UNCHANGED <<storeVars, clientVars, durable, received, published>>
    BY <1>2, ZenonT(40) DEF DeliverOne
  <2>2. task[c].msg \in Message /\ task[c].to \in SUBSET Clients
        /\ task[c] = [pc |-> "deliver", msg |-> task[c].msg, to |-> task[c].to]
    BY <2>1, TaskTypes, ZenonT(40)
  <2>3. channel' \in [Clients -> Seq(Message)] /\ dropped' \in [Clients -> SUBSET Message]
    <3>1. channel[d] \in Seq(Message) /\ Append(channel[d], task[c].msg) \in Seq(Message)
      BY <2>2, AppendFacts, ZenonT(40) DEF TypeOK
    <3>2. dropped[d] \cup {task[c].msg} \in SUBSET Message
      BY <2>2, ZenonT(40) DEF TypeOK
    <3> QED BY <2>1, <3>1, <3>2, ZenonT(40) DEF TypeOK
  <2>4. [task[c] EXCEPT !.to = @ \ {d}] \in [pc : {"deliver"}, msg : Message, to : SUBSET Clients]
    <3>1. task[c] \in [pc : {"deliver"}, msg : Message, to : SUBSET Clients]
      BY <2>1, <2>2, SMTT(40)
    <3> QED BY <3>1, SMTT(40)
  <2>5. task' \in [Clients -> {Idle} \cup [pc : {"scan"}]
                            \cup [pc : {"match", "send"}, msg : Message]
                            \cup [pc : {"deliver"}, msg : Message, to : SUBSET Clients]]
    BY <2>1, <2>4, ZenonT(40) DEF TypeOK
  <2> QED BY <2>1, <2>3, <2>5, ZenonT(40) DEF TypeOK, storeVars, clientVars
<1>3. CASE PublishDone(c)
  BY <1>3, ZenonT(40) DEF TypeOK, PublishDone, storeVars, clientVars, outVars
<1> QED BY <1>1, <1>2, <1>3

\* The steps of a subscribe keep the types.
LEMMA SubscribeType ==
    ASSUME TypeOK, NEW c \in Clients, Subscribe(c)
    PROVE  TypeOK'
<1>1. CASE RegisterFilter(c)
  <2>1. <<>> \in Seq(Deliveries) /\ [pc |-> "scan"] \in [pc : {"scan"}]
    BY SMTT(40)
  <2>2. /\ c \in online /\ subscribed' = subscribed \cup {c} /\ online' = online
        /\ subscribes' = [subscribes EXCEPT ![c] = @ + 1]
        /\ received' = [received EXCEPT ![c] = <<>>] /\ dropped' = [dropped EXCEPT ![c] = {}]
        /\ task' = [task EXCEPT ![c] = [pc |-> "scan"]]
        /\ UNCHANGED <<storeVars, durable, channel, published>>
    BY <1>1, ZenonT(40) DEF RegisterFilter
  <2>3. subscribes' \in [Clients -> Nat]
    BY <2>2, SMTT(40) DEF TypeOK
  <2>4. dropped' \in [Clients -> SUBSET Message] /\ subscribed' \subseteq online'
    BY <2>2, ZenonT(40) DEF TypeOK
  <2> QED BY <2>1, <2>2, <2>3, <2>4, ZenonT(40) DEF TypeOK, storeVars
<1>2. CASE ScanRetained(c)
  <2>1. map # NoMessage => [pc |-> "send", msg |-> map] \in [pc : {"match", "send"}, msg : Message]
    <3>1. map # NoMessage => map \in Message
      BY ZenonT(40) DEF TypeOK
    <3> QED BY <3>1, SMTT(40)
  <2>2. /\ task' = [task EXCEPT ![c] = IF map = NoMessage THEN Idle
                                                          ELSE [pc |-> "send", msg |-> map]]
        /\ UNCHANGED <<storeVars, clientVars, outVars, durable, published>>
    BY <1>2 DEF ScanRetained
  <2> QED BY <2>1, <2>2, ZenonT(40) DEF TypeOK, storeVars, clientVars, outVars
<1>3. CASE SendRetained(c)
  <2>1. /\ task[c].pc = "send"
        /\ \/ received' = [received EXCEPT ![c] = Append(@, Sent(task[c].msg, TRUE))] /\ dropped' = dropped
           \/ dropped' = [dropped EXCEPT ![c] = @ \cup {task[c].msg}] /\ received' = received
        /\ task' = [task EXCEPT ![c] = Idle]
        /\ UNCHANGED <<storeVars, clientVars, durable, channel, published>>
    BY <1>3, ZenonT(40) DEF SendRetained
  <2>2. task[c].msg \in Message /\ Sent(task[c].msg, TRUE) \in Deliveries
    BY <2>1, TaskTypes, SentFacts, ZenonT(40)
  <2>3. received[c] \in Seq(Deliveries)
    BY ZenonT(40) DEF TypeOK
  <2>4. PICK x \in Deliveries : x = Sent(task[c].msg, TRUE)
    BY <2>2, ZenonT(40)
  <2>8. Append(received[c], x) \in Seq(Deliveries)
    BY <2>3, AppendType, ZenonT(40)
  <2>9. \/ received' = [received EXCEPT ![c] = Append(received[c], x)] /\ dropped' = dropped
        \/ dropped' = [dropped EXCEPT ![c] = @ \cup {task[c].msg}] /\ received' = received
    BY <2>1, <2>4, ZenonT(40)
  <2>5. received' \in [Clients -> Seq(Deliveries)] /\ dropped' \in [Clients -> SUBSET Message]
    <3>1. dropped[c] \cup {task[c].msg} \in SUBSET Message
      BY <2>2, ZenonT(40) DEF TypeOK
    <3> QED BY <2>8, <2>9, <3>1, ZenonT(40) DEF TypeOK
  <2>6. task' \in [Clients -> {Idle} \cup [pc : {"scan"}]
                            \cup [pc : {"match", "send"}, msg : Message]
                            \cup [pc : {"deliver"}, msg : Message, to : SUBSET Clients]]
    BY <2>1, ZenonT(40) DEF TypeOK
  <2>7. UNCHANGED <<storeVars, clientVars, durable, channel, published>>
    BY <2>1
  <2> QED BY <2>5, <2>6, <2>7, ZenonT(40) DEF TypeOK, storeVars, clientVars
<1> QED BY <1>1, <1>2, <1>3 DEF Subscribe

\* Connecting, leaving, sending, flushing and restarting keep the types.
LEMMA RestType ==
    ASSUME TypeOK
    PROVE  /\ \A c \in Clients : SendLive(c) \/ Unsubscribe(c) \/ Connect(c) \/ Disconnect(c) => TypeOK'
           /\ Flush \/ Restart => TypeOK'
<1>1. ASSUME NEW c \in Clients, SendLive(c) PROVE TypeOK'
  <2>1. /\ channel[c] # <<>> /\ channel' = [channel EXCEPT ![c] = Tail(@)]
        /\ \/ received' = [received EXCEPT ![c] = Append(@, Sent(Head(channel[c]), FALSE))]
              /\ dropped' = dropped
           \/ dropped' = [dropped EXCEPT ![c] = @ \cup {Head(channel[c])}] /\ received' = received
        /\ UNCHANGED <<storeVars, clientVars, durable, task, published>>
    BY <1>1, ZenonT(40) DEF SendLive
  <2>2. channel[c] \in Seq(Message) /\ received[c] \in Seq(Deliveries)
    BY ZenonT(40) DEF TypeOK
  <2>3. Tail(channel[c]) \in Seq(Message) /\ Head(channel[c]) \in Message
    BY <2>1, <2>2, TailFacts, ZenonT(40)
  <2>4. PICK x \in Deliveries : x = Sent(Head(channel[c]), FALSE)
    BY <2>3, SentFacts, ZenonT(40)
  <2>5. Append(received[c], x) \in Seq(Deliveries)
    BY <2>2, AppendType, ZenonT(40)
  <2>9. \/ received' = [received EXCEPT ![c] = Append(received[c], x)] /\ dropped' = dropped
        \/ dropped' = [dropped EXCEPT ![c] = @ \cup {Head(channel[c])}] /\ received' = received
    BY <2>1, <2>4, ZenonT(40)
  <2>6. received' \in [Clients -> Seq(Deliveries)] /\ dropped' \in [Clients -> SUBSET Message]
    <3>1. dropped[c] \cup {Head(channel[c])} \in SUBSET Message
      BY <2>3, ZenonT(40) DEF TypeOK
    <3> QED BY <2>5, <2>9, <3>1, ZenonT(40) DEF TypeOK
  <2>7. channel' \in [Clients -> Seq(Message)]
    BY <2>1, <2>3, ZenonT(40) DEF TypeOK
  <2>8. UNCHANGED <<storeVars, clientVars, durable, task, published>>
    BY <2>1
  <2> QED BY <2>6, <2>7, <2>8, ZenonT(40) DEF TypeOK, storeVars, clientVars
<1>2. ASSUME NEW c \in Clients, Unsubscribe(c) PROVE TypeOK'
  BY <1>2, ZenonT(40) DEF TypeOK, Unsubscribe, storeVars, outVars
<1>3. ASSUME NEW c \in Clients, Connect(c) PROVE TypeOK'
  BY <1>3, ZenonT(40) DEF TypeOK, Connect, storeVars, outVars
<1>4. ASSUME NEW c \in Clients, Disconnect(c) PROVE TypeOK'
  <2>1. <<>> \in Seq(Message)
    BY SMTT(40)
  <2> QED BY <1>4, <2>1, ZenonT(40) DEF TypeOK, Disconnect, storeVars
<1>5. CASE Flush
  BY <1>5, ZenonT(40) DEF TypeOK, Flush, storeVars, clientVars, outVars
<1>6. CASE Restart
  <2>1. <<>> \in Seq(Message) /\ <<>> \in Seq(Deliveries)
    BY SMTT(40)
  <2> QED BY <1>6, <2>1, ZenonT(40) DEF TypeOK, Restart
<1> QED BY <1>1, <1>2, <1>3, <1>4, <1>5, <1>6

-----------------------------------------------------------------------------
(***************************************************************************)
(* What each step does, client by client.                                  *)
(***************************************************************************)

StoreEffect(c, n) ==
    /\ task[c].pc = "idle"
    /\ n \in Message /\ n.by = c /\ n.id = published + 1 /\ published' = published + 1
    /\ task'[c].pc = "match" /\ task'[c].msg = n
    /\ \A q \in Clients : q # c => task'[q] = task[q]
    /\ \/ map' = map /\ disk' = disk /\ current' = current
       \/ map' = Stored(n) /\ disk' = Stored(n) /\ current' = n
    /\ UNCHANGED <<online, subscribed, subscribes, channel, received, dropped, durable>>

\* What the first step of a publish does to each variable.
LEMMA StoreMessageEffect ==
    ASSUME TypeOK, NEW c \in Clients, StoreMessage(c)
    PROVE  \E n \in Message : StoreEffect(c, n)
<1>1. PICK k \in Kinds :
        /\ c \in Publishers /\ published < MaxPublishes /\ task[c] = Idle
        /\ IF k = "plain" THEN UNCHANGED storeVars ELSE SetRetained(NewMessage(c, k))
        /\ task' = [task EXCEPT ![c] = [pc |-> "match", msg |-> NewMessage(c, k)]]
        /\ published' = published + 1
        /\ UNCHANGED <<clientVars, outVars, durable>>
  BY ZenonT(40) DEF StoreMessage
<1>2. PICK n \in Message : n = NewMessage(c, k)
  BY <1>1, MessageFacts, ZenonT(40)
<1>3. n.by = c /\ n.id = published + 1
  BY <1>1, <1>2, MessageFacts, ZenonT(40)
<1>4. task' = [task EXCEPT ![c] = [pc |-> "match", msg |-> n]]
  BY <1>1, <1>2, ZenonT(40)
<1>5. task'[c].pc = "match" /\ task'[c].msg = n /\ \A q \in Clients : q # c => task'[q] = task[q]
  <2>1. task'[c] = [pc |-> "match", msg |-> n] /\ \A q \in Clients : q # c => task'[q] = task[q]
    BY <1>4, TaskMoves, ZenonT(40)
  <2>2. task'[c].pc = "match" /\ task'[c].msg = n
    BY <2>1, SMTT(40)
  <2> QED BY <2>1, <2>2
<1>6. \/ map' = map /\ disk' = disk /\ current' = current
      \/ map' = Stored(n) /\ disk' = Stored(n) /\ current' = n
  BY <1>1, <1>2, ZenonT(40) DEF SetRetained, storeVars
<1>7. UNCHANGED <<online, subscribed, subscribes, channel, received, dropped, durable>>
  BY <1>1 DEF clientVars, outVars
<1>8. task[c].pc = "idle"
  BY <1>1, TaskValues, ZenonT(40)
<1> QED BY <1>1, <1>3, <1>5, <1>6, <1>7, <1>8, ZenonT(40) DEF StoreEffect

\* Only the task of c moves.
OnlyTask(c) ==
    /\ \A q \in Clients : q # c => task'[q] = task[q]
    /\ UNCHANGED <<map, disk, current, online, subscribed, subscribes, channel, received,
                   dropped, durable, published>>

\* What the steps do that change only the task of one client.
LEMMA TaskEffects ==
    ASSUME TypeOK, NEW c \in Clients
    PROVE  /\ MatchSubscribers(c) =>
                /\ task[c].pc = "match" /\ task'[c].pc = "deliver" /\ task'[c].msg = task[c].msg
                /\ task'[c].to = subscribed \ {c} /\ OnlyTask(c)
           /\ PublishDone(c) =>
                task[c].pc = "deliver" /\ task[c].to = {} /\ task'[c].pc = "idle" /\ OnlyTask(c)
           /\ ScanRetained(c) =>
                /\ task[c].pc = "scan" /\ OnlyTask(c)
                /\ \/ map = NoMessage /\ task'[c].pc = "idle"
                   \/ map # NoMessage /\ task'[c].pc = "send" /\ task'[c].msg = map
<1>1. ASSUME MatchSubscribers(c)
      PROVE  /\ task[c].pc = "match" /\ task'[c].pc = "deliver" /\ task'[c].msg = task[c].msg
             /\ task'[c].to = subscribed \ {c} /\ OnlyTask(c)
  <2>1. PICK m, to : m = task[c].msg /\ to = subscribed \ {c}
    BY ZenonT(40)
  <2>2. /\ task[c].pc = "match"
        /\ task' = [task EXCEPT ![c] = [pc |-> "deliver", msg |-> m, to |-> to]]
        /\ UNCHANGED <<storeVars, clientVars, outVars, durable, published>>
    BY <1>1, <2>1, ZenonT(40) DEF MatchSubscribers
  <2>3. task'[c] = [pc |-> "deliver", msg |-> m, to |-> to] /\ \A q \in Clients : q # c => task'[q] = task[q]
    BY <2>2, TaskMoves, ZenonT(40)
  <2>4. task'[c].pc = "deliver" /\ task'[c].msg = m /\ task'[c].to = to
    BY <2>3, SMTT(40)
  <2> QED BY <2>1, <2>2, <2>3, <2>4, ZenonT(40) DEF OnlyTask, storeVars, clientVars, outVars
<1>2. ASSUME PublishDone(c)
      PROVE  task[c].pc = "deliver" /\ task[c].to = {} /\ task'[c].pc = "idle" /\ OnlyTask(c)
  <2>1. /\ task[c].pc = "deliver" /\ task[c].to = {} /\ task' = [task EXCEPT ![c] = Idle]
        /\ UNCHANGED <<storeVars, clientVars, outVars, durable, published>>
    BY <1>2 DEF PublishDone
  <2>2. task'[c].pc = "idle" /\ \A q \in Clients : q # c => task'[q] = task[q]
    BY <2>1, TaskMoves, TaskValues, ZenonT(40)
  <2> QED BY <2>1, <2>2, ZenonT(40) DEF OnlyTask, storeVars, clientVars, outVars
<1>3. ASSUME ScanRetained(c)
      PROVE  /\ task[c].pc = "scan" /\ OnlyTask(c)
             /\ \/ map = NoMessage /\ task'[c].pc = "idle"
                \/ map # NoMessage /\ task'[c].pc = "send" /\ task'[c].msg = map
  <2>1. /\ task[c].pc = "scan"
        /\ UNCHANGED <<storeVars, clientVars, outVars, durable, published>>
    BY <1>3 DEF ScanRetained
  <2>2. CASE map = NoMessage
    <3>1. task' = [task EXCEPT ![c] = Idle]
      BY <1>3, <2>2, ZenonT(40) DEF ScanRetained
    <3>2. task'[c].pc = "idle" /\ \A q \in Clients : q # c => task'[q] = task[q]
      BY <3>1, TaskMoves, TaskValues, ZenonT(40)
    <3> QED BY <2>1, <2>2, <3>2, ZenonT(40) DEF OnlyTask, storeVars, clientVars, outVars
  <2>3. CASE map # NoMessage
    <3>1. task' = [task EXCEPT ![c] = [pc |-> "send", msg |-> map]]
      BY <1>3, <2>3, ZenonT(40) DEF ScanRetained
    <3>2. task'[c] = [pc |-> "send", msg |-> map] /\ \A q \in Clients : q # c => task'[q] = task[q]
      BY <3>1, TaskMoves, ZenonT(40)
    <3>3. task'[c].pc = "send" /\ task'[c].msg = map
      BY <3>2, SMTT(40)
    <3> QED BY <2>1, <2>3, <3>2, <3>3, ZenonT(40) DEF OnlyTask, storeVars, clientVars, outVars
  <2> QED BY <2>2, <2>3
<1> QED BY <1>1, <1>2, <1>3

DeliverEffect(c, d, m) ==
    /\ task[c].pc = "deliver" /\ task[c].msg = m /\ m \in Message /\ d \in task[c].to
    /\ task'[c].pc = "deliver" /\ task'[c].msg = m /\ task'[c].to = task[c].to \ {d}
    /\ \A q \in Clients : q # c => task'[q] = task[q]
    /\ \A e \in Clients : e # d => channel'[e] = channel[e] /\ dropped'[e] = dropped[e]
    /\ \/ d \in online /\ channel'[d] = Append(channel[d], m) /\ dropped'[d] = dropped[d]
       \/ d \in online /\ channel'[d] = channel[d] /\ dropped'[d] = dropped[d] \cup {m}
       \/ d \notin online /\ channel'[d] = channel[d] /\ dropped'[d] = dropped[d]
    /\ UNCHANGED <<map, disk, current, online, subscribed, subscribes, received, durable, published>>

\* What delivering to one subscriber does to each variable.
LEMMA DeliverOneEffect ==
    ASSUME TypeOK, NEW c \in Clients, NEW d \in Clients, DeliverOne(c, d)
    PROVE  \E m \in Message : DeliverEffect(c, d, m)
<1>1. task[c].pc = "deliver" /\ d \in task[c].to
  BY DEF DeliverOne
<1>2. PICK m \in Message : m = task[c].msg
  BY <1>1, TaskTypes, ZenonT(40)
<1>3. /\ \/ /\ d \in online /\ channel' = [channel EXCEPT ![d] = Append(channel[d], m)]
            /\ dropped' = dropped
         \/ /\ d \in online /\ dropped' = [dropped EXCEPT ![d] = dropped[d] \cup {m}]
            /\ channel' = channel
         \/ d \notin online /\ channel' = channel /\ dropped' = dropped
      /\ task' = [task EXCEPT ![c].to = @ \ {d}]
      /\ UNCHANGED <<storeVars, clientVars, durable, received, published>>
  BY <1>2, ZenonT(40) DEF DeliverOne
<1>4. PICK to \in SUBSET Clients : to = task[c].to
  BY <1>1, TaskTypes, ZenonT(40)
<1>5. task[c] = [pc |-> "deliver", msg |-> m, to |-> to]
  BY <1>1, <1>2, <1>4, TaskTypes, ZenonT(40)
<1>6. PICK r : r = [task[c] EXCEPT !.to = @ \ {d}]
  BY ZenonT(40)
<1>7. r.pc = "deliver" /\ r.msg = m /\ r.to = to \ {d}
  BY <1>5, <1>6, SMTT(40)
<1>8. task' = [task EXCEPT ![c] = r]
  BY <1>3, <1>6, ZenonT(40)
<1>9. task'[c] = r /\ \A q \in Clients : q # c => task'[q] = task[q]
  BY <1>8, TaskMoves, ZenonT(40)
<1>10. /\ \A e \in Clients : e # d => channel'[e] = channel[e] /\ dropped'[e] = dropped[e]
       /\ \/ d \in online /\ channel'[d] = Append(channel[d], m) /\ dropped'[d] = dropped[d]
          \/ d \in online /\ channel'[d] = channel[d] /\ dropped'[d] = dropped[d] \cup {m}
          \/ d \notin online /\ channel'[d] = channel[d] /\ dropped'[d] = dropped[d]
  BY <1>3, ZenonT(40) DEF TypeOK
<1>11. UNCHANGED <<map, disk, current, online, subscribed, subscribes, received, durable, published>>
  BY <1>3 DEF storeVars, clientVars
<1> QED BY <1>1, <1>2, <1>4, <1>7, <1>9, <1>10, <1>11, ZenonT(40) DEF DeliverEffect

RegisterEffect(c) ==
    /\ task[c].pc = "idle" /\ c \in online /\ task'[c].pc = "scan"
    /\ \A q \in Clients : q # c => task'[q] = task[q]
    /\ subscribed' = subscribed \cup {c}
    /\ received'[c] = <<>> /\ dropped'[c] = {} /\ subscribes'[c] = subscribes[c] + 1
    /\ \A e \in Clients : e # c => /\ received'[e] = received[e] /\ dropped'[e] = dropped[e]
                                   /\ subscribes'[e] = subscribes[e]
    /\ UNCHANGED <<map, disk, current, online, channel, durable, published>>

\* One message leaves the hands of the broker: the client is sent x or loses m.
SendEffect(c, m, x) ==
    /\ \A e \in Clients : e # c => received'[e] = received[e] /\ dropped'[e] = dropped[e]
    /\ \/ received'[c] = Append(received[c], x) /\ dropped'[c] = dropped[c]
       \/ received'[c] = received[c] /\ dropped'[c] = dropped[c] \cup {m}

SendRetainedEffect(c, m, x) ==
    /\ x \in Deliveries /\ x = Sent(m, TRUE)
    /\ task[c].pc = "send" /\ task[c].msg = m /\ m \in Message /\ task'[c].pc = "idle"
    /\ \A q \in Clients : q # c => task'[q] = task[q]
    /\ SendEffect(c, m, x)
    /\ UNCHANGED <<map, disk, current, online, subscribed, subscribes, channel, durable, published>>

SendLiveEffect(c, m, x) ==
    /\ x \in Deliveries /\ x = Sent(m, FALSE)
    /\ task[c].pc = "idle" /\ channel[c] # <<>> /\ m = Head(channel[c]) /\ m \in Message
    /\ channel'[c] = Tail(channel[c])
    /\ \A e \in Clients : e # c => channel'[e] = channel[e]
    /\ SendEffect(c, m, x)
    /\ UNCHANGED <<map, disk, current, online, subscribed, subscribes, task, durable, published>>

\* What the steps of a subscribe and of the channel do to each variable.
LEMMA SubscribeEffects ==
    ASSUME TypeOK, NEW c \in Clients
    PROVE  /\ RegisterFilter(c) => RegisterEffect(c)
           /\ SendRetained(c) => \E m \in Message, x \in Deliveries : SendRetainedEffect(c, m, x)
           /\ SendLive(c) => \E m \in Message, x \in Deliveries : SendLiveEffect(c, m, x)
<1>1. ASSUME RegisterFilter(c) PROVE RegisterEffect(c)
  <2>1. /\ task[c] = Idle /\ c \in online /\ subscribed' = subscribed \cup {c}
        /\ subscribes' = [subscribes EXCEPT ![c] = @ + 1]
        /\ received' = [received EXCEPT ![c] = <<>>] /\ dropped' = [dropped EXCEPT ![c] = {}]
        /\ task' = [task EXCEPT ![c] = [pc |-> "scan"]]
        /\ UNCHANGED <<storeVars, online, durable, channel, published>>
    BY <1>1, ZenonT(40) DEF RegisterFilter
  <2>2. task'[c].pc = "scan" /\ task[c].pc = "idle" /\ \A q \in Clients : q # c => task'[q] = task[q]
    BY <2>1, TaskMoves, TaskValues, ZenonT(40)
  <2>3. /\ received'[c] = <<>> /\ dropped'[c] = {} /\ subscribes'[c] = subscribes[c] + 1
        /\ \A e \in Clients : e # c => /\ received'[e] = received[e] /\ dropped'[e] = dropped[e]
                                       /\ subscribes'[e] = subscribes[e]
    BY <2>1, ZenonT(40) DEF TypeOK
  <2> QED BY <2>1, <2>2, <2>3, ZenonT(40) DEF RegisterEffect, storeVars
<1>2. ASSUME SendRetained(c)
      PROVE  \E m \in Message, x \in Deliveries : SendRetainedEffect(c, m, x)
  <2>1. task[c].pc = "send" /\ task' = [task EXCEPT ![c] = Idle]
        /\ UNCHANGED <<storeVars, clientVars, durable, channel, published>>
    BY <1>2 DEF SendRetained
  <2>2. PICK m \in Message : m = task[c].msg
    BY <2>1, TaskTypes, ZenonT(40)
  <2>3. PICK x \in Deliveries : x = Sent(m, TRUE)
    BY SentFacts, ZenonT(40)
  <2>4. \/ received' = [received EXCEPT ![c] = Append(received[c], x)] /\ dropped' = dropped
        \/ dropped' = [dropped EXCEPT ![c] = dropped[c] \cup {m}] /\ received' = received
    BY <1>2, <2>2, <2>3, ZenonT(40) DEF SendRetained
  <2>5. SendEffect(c, m, x)
    BY <2>4, ZenonT(40) DEF SendEffect, TypeOK
  <2>6. task'[c].pc = "idle" /\ \A q \in Clients : q # c => task'[q] = task[q]
    BY <2>1, TaskMoves, TaskValues, ZenonT(40)
  <2> QED BY <2>1, <2>2, <2>3, <2>5, <2>6, ZenonT(40) DEF SendRetainedEffect, storeVars, clientVars
<1>3. ASSUME SendLive(c)
      PROVE  \E m \in Message, x \in Deliveries : SendLiveEffect(c, m, x)
  <2>1. /\ task[c] = Idle /\ channel[c] # <<>> /\ channel' = [channel EXCEPT ![c] = Tail(channel[c])]
        /\ UNCHANGED <<storeVars, clientVars, durable, task, published>>
    BY <1>3 DEF SendLive
  <2>2. PICK m \in Message : m = Head(channel[c])
    <3>1. channel[c] \in Seq(Message)
      BY ZenonT(40) DEF TypeOK
    <3> QED BY <2>1, <3>1, TailFacts, ZenonT(40)
  <2>3. PICK x \in Deliveries : x = Sent(m, FALSE)
    BY SentFacts, ZenonT(40)
  <2>4. \/ received' = [received EXCEPT ![c] = Append(received[c], x)] /\ dropped' = dropped
        \/ dropped' = [dropped EXCEPT ![c] = dropped[c] \cup {m}] /\ received' = received
    BY <1>3, <2>2, <2>3, ZenonT(40) DEF SendLive
  <2>5. SendEffect(c, m, x)
    BY <2>4, ZenonT(40) DEF SendEffect, TypeOK
  <2>6. /\ task[c].pc = "idle" /\ channel'[c] = Tail(channel[c])
        /\ \A e \in Clients : e # c => channel'[e] = channel[e]
    BY <2>1, TaskValues, ZenonT(40) DEF TypeOK
  <2> QED BY <2>1, <2>2, <2>3, <2>5, <2>6, ZenonT(40) DEF SendLiveEffect, storeVars, clientVars
<1> QED BY <1>1, <1>2, <1>3

DisconnectEffect(c) ==
    /\ c \in subscribed /\ ~Working(c) /\ task'[c].pc = "idle" /\ channel'[c] = <<>>
    /\ \A q \in Clients : q # c => task'[q] = task[q] /\ channel'[q] = channel[q]
    /\ subscribed' = subscribed \ {c} /\ online' = online \ {c}
    /\ UNCHANGED <<map, disk, current, subscribes, received, dropped, durable, published>>

\* What the end of a connection does to each variable.
LEMMA DisconnectEffects ==
    ASSUME TypeOK, NEW c \in Clients, Disconnect(c)
    PROVE  DisconnectEffect(c)
<1>1. /\ c \in subscribed /\ task[c].pc \in {"idle", "scan", "send"}
      /\ online' = online \ {c} /\ subscribed' = subscribed \ {c}
      /\ task' = [task EXCEPT ![c] = Idle] /\ channel' = [channel EXCEPT ![c] = <<>>]
      /\ UNCHANGED <<storeVars, durable, received, dropped, published, subscribes>>
  BY DEF Disconnect
<1>2. task'[c].pc = "idle" /\ \A q \in Clients : q # c => task'[q] = task[q]
  BY <1>1, TaskMoves, TaskValues, ZenonT(40)
<1>3. channel'[c] = <<>> /\ \A q \in Clients : q # c => channel'[q] = channel[q]
  BY <1>1, ZenonT(40) DEF TypeOK
<1>4. ~Working(c)
  BY <1>1, SMTT(40) DEF Working
<1> QED BY <1>1, <1>2, <1>3, <1>4, ZenonT(40) DEF DisconnectEffect, storeVars

-----------------------------------------------------------------------------
(***************************************************************************)
(* Every subscriber is covered.                                            *)
(***************************************************************************)

\* A client whose subscription is not in the hands of this step stays covered.
LEMMA KeepCover ==
    ASSUME NEW e \in Clients, Concerned(e) => Covered(e), current' = current,
           Concerned(e)' => Concerned(e),
           task[e].pc \in {"scan", "send"} => task'[e] = task[e],
           task'[e].pc = "send" => task[e].pc = "send",
           received'[e] = received[e], dropped[e] \subseteq dropped'[e],
           Concerned(e) /\ Pending(e) => Covered(e)'
    PROVE  Concerned(e)' => Covered(e)'
<1>1. task[e].pc = "scan" => Covered(e)'
  BY ZenonT(40) DEF Covered
<1>2. task[e].pc = "send" /\ task[e].msg = current => Covered(e)'
  BY ZenonT(40) DEF Covered
<1>3. (\E flag \in BOOLEAN : Contains(received[e], Sent(current, flag))) => Covered(e)'
  BY ZenonT(40) DEF Covered
<1>4. current \in dropped[e] => Covered(e)'
  BY ZenonT(40) DEF Covered
<1>5. NothingToClear(e) => Covered(e)'
  <2>1. NothingToClear(e) => NothingToClear(e)'
    BY ZenonT(40) DEF NothingToClear
  <2> QED BY <2>1, ZenonT(40) DEF Covered
<1> QED BY <1>1, <1>2, <1>3, <1>4, <1>5, ZenonT(40) DEF Covered

\* A task that is not routing to e takes nothing away from e.
LEMMA KeepPending ==
    ASSUME NEW c \in Clients, NEW e \in Clients,
           ~Working(c) \/ (task[c].pc = "deliver" /\ e \notin task[c].to),
           \A q \in Clients : q # c => task'[q] = task[q],
           current' = current, Contains(channel[e], current) => Contains(channel'[e], current)
    PROVE  Pending(e) => Pending(e)'
<1>1. ~Matching(c, current) /\ ~Delivering(c, current, e)
  BY SMTT(40) DEF Matching, Delivering, Working
<1>2. \A q \in Clients : q # c => /\ Matching(q, current) => Matching(q, current)'
                                  /\ Delivering(q, current, e) => Delivering(q, current, e)'
  BY ZenonT(40) DEF Matching, Delivering
<1> QED BY <1>1, <1>2, ZenonT(40) DEF Pending

\* A new retained message is with the task that will match subscribers.
LEMMA StoreCover ==
    ASSUME RetainInv, NEW c \in Clients, NEW n \in Message, StoreEffect(c, n)
    PROVE  StoreInv' /\ TaskInv' /\ CoverInv'
<1>a. TypeOK /\ StoreInv /\ TaskInv /\ CoverInv
  BY DEF RetainInv
<1>b. /\ task[c].pc = "idle" /\ n.by = c
      /\ task'[c].pc = "match" /\ task'[c].msg = n
      /\ \A q \in Clients : q # c => task'[q] = task[q]
      /\ \/ map' = map /\ disk' = disk /\ current' = current
         \/ map' = Stored(n) /\ disk' = Stored(n) /\ current' = n
      /\ subscribed' = subscribed /\ channel' = channel /\ received' = received
      /\ dropped' = dropped /\ durable' = durable
  BY ZenonT(40) DEF StoreEffect
<1>1. StoreInv'
  <2>1. n # NoMessage
    BY MessageFacts, ZenonT(40)
  <2> QED BY <1>a, <1>b, <2>1, ZenonT(40) DEF StoreInv
<1>2. TaskInv'
  <2> SUFFICES ASSUME NEW q \in Clients
               PROVE  /\ Working(q)' => task'[q].msg.by = q
                      /\ task'[q].pc \in {"scan", "send"} => received'[q] = <<>>
    BY DEF TaskInv
  <2>1. CASE q = c
    BY <1>b, <2>1, SMTT(40)
  <2>2. CASE q # c
    BY <1>a, <1>b, <2>2, ZenonT(40) DEF TaskInv, Working
  <2> QED BY <2>1, <2>2
<1>3. CASE current' = n
  <2>1. \A e \in Clients : Pending(e)'
    BY <1>b, <1>3, ZenonT(40) DEF Pending, Matching
  <2> QED BY <1>1, <1>2, <2>1, ZenonT(40) DEF CoverInv, Covered
<1>4. CASE current' = current
  <2> SUFFICES ASSUME NEW e \in Clients PROVE Concerned(e)' => Covered(e)'
    BY <1>1, <1>2 DEF CoverInv
  <2>1. Concerned(e) => Covered(e)
    BY <1>a DEF CoverInv
  <2>2. Pending(e) => Pending(e)'
    <3>1. ~Working(c)
      BY <1>b, SMTT(40) DEF Working
    <3> QED BY <1>b, <1>4, <3>1, KeepPending, ZenonT(40)
  <2>3. Concerned(e)' => Concerned(e)
    BY <1>b, <1>4, ZenonT(40) DEF Concerned
  <2>4. /\ task[e].pc \in {"scan", "send"} => task'[e] = task[e]
        /\ task'[e].pc = "send" => task[e].pc = "send"
    BY <1>b, SMTT(40)
  <2>5. Pending(e) => Covered(e)'
    BY <2>2, ZenonT(40) DEF Covered
  <2> QED BY <1>b, <1>4, <2>1, <2>3, <2>4, <2>5, KeepCover, ZenonT(40)
<1> QED BY <1>b, <1>3, <1>4

\* The router passes the message on: from the store to the subscribers it finds.
LEMMA MatchPending ==
    ASSUME TaskInv, NEW c \in Clients, NEW e \in Clients, OnlyTask(c), Concerned(e),
           task[c].pc = "match", task'[c].pc = "deliver", task'[c].msg = task[c].msg,
           task'[c].to = subscribed \ {c}, Pending(e)
    PROVE  Pending(e)'
<1>b. /\ \A q \in Clients : q # c => task'[q] = task[q]
      /\ current' = current /\ channel' = channel
  BY DEF OnlyTask
<1>1. ASSUME Matching(c, current) PROVE Delivering(c, current, e)'
  <2>1. task[c].msg = current /\ Working(c)
    BY <1>1, ZenonT(40) DEF Matching, Working
  <2>2. current.by = c
    BY <2>1, ZenonT(40) DEF TaskInv
  <2>3. e \in subscribed /\ e # c
    BY <2>2, ZenonT(40) DEF Concerned
  <2> QED BY <1>b, <2>1, <2>3, ZenonT(40) DEF Delivering
<1>2. \A q \in Clients : q # c => /\ Matching(q, current) => Matching(q, current)'
                                  /\ Delivering(q, current, e) => Delivering(q, current, e)'
  BY <1>b, ZenonT(40) DEF Matching, Delivering
<1>3. ~Delivering(c, current, e)
  BY SMTT(40) DEF Delivering
<1> QED BY <1>b, <1>1, <1>2, <1>3, ZenonT(40) DEF Pending

\* ... and from the task to the channel, unless that is full.
LEMMA DeliverPending ==
    ASSUME TypeOK, NEW c \in Clients, NEW d \in Clients, NEW m \in Message, DeliverEffect(c, d, m),
           NEW e \in Clients, Concerned(e), Pending(e)
    PROVE  Pending(e)' \/ current' \in dropped'[e]
<1>b. /\ task[c].pc = "deliver" /\ task[c].msg = m /\ d \in task[c].to
      /\ task'[c].pc = "deliver" /\ task'[c].msg = m /\ task'[c].to = task[c].to \ {d}
      /\ \A q \in Clients : q # c => task'[q] = task[q]
      /\ \A f \in Clients : f # d => channel'[f] = channel[f] /\ dropped'[f] = dropped[f]
      /\ \/ d \in online /\ channel'[d] = Append(channel[d], m) /\ dropped'[d] = dropped[d]
         \/ d \in online /\ channel'[d] = channel[d] /\ dropped'[d] = dropped[d] \cup {m}
         \/ d \notin online /\ channel'[d] = channel[d] /\ dropped'[d] = dropped[d]
      /\ current' = current
  BY ZenonT(40) DEF DeliverEffect
<1>0. \A a : /\ Contains(channel[d], a) => Contains(channel'[d], a)
             /\ channel'[d] = Append(channel[d], m) => Contains(channel'[d], m)
  <2>1. channel[d] \in Seq(Message)
    BY ZenonT(40) DEF TypeOK
  <2>2. \A a : Contains(Append(channel[d], m), a) <=> Contains(channel[d], a) \/ a = m
    BY <2>1, AppendFacts, ZenonT(40)
  <2> QED BY <1>b, <2>2, ZenonT(40)
<1>1. ASSUME Delivering(c, current, e)
      PROVE  Pending(e)' \/ current' \in dropped'[e]
  <2>1. CASE e = d
    <3>1. e \in online
      BY ZenonT(40) DEF Concerned, TypeOK
    <3>2. m = current
      BY <1>b, <1>1, ZenonT(40) DEF Delivering
    <3>3. Contains(channel'[e], current') \/ current' \in dropped'[e]
      BY <1>b, <1>0, <2>1, <3>1, <3>2, ZenonT(40)
    <3> QED BY <3>3, ZenonT(40) DEF Pending
  <2>2. CASE e # d
    <3>1. Delivering(c, current, e)'
      BY <1>b, <1>1, <2>2, ZenonT(40) DEF Delivering
    <3> QED BY <3>1, ZenonT(40) DEF Pending
  <2> QED BY <2>1, <2>2
<1>2. \A q \in Clients : q # c => /\ Matching(q, current) => Matching(q, current)'
                                  /\ Delivering(q, current, e) => Delivering(q, current, e)'
  BY <1>b, ZenonT(40) DEF Matching, Delivering
<1>3. ~Matching(c, current)
  BY <1>b, SMTT(40) DEF Matching
<1>4. Contains(channel[e], current) => Contains(channel'[e], current')
  BY <1>b, <1>0, ZenonT(40)
<1> QED BY <1>1, <1>2, <1>3, <1>4, ZenonT(40) DEF Pending

\* The match hands the message to the delivery of every subscriber.
LEMMA MatchCover ==
    ASSUME RetainInv, NEW c \in Clients, OnlyTask(c),
           task[c].pc = "match", task'[c].pc = "deliver", task'[c].msg = task[c].msg,
           task'[c].to = subscribed \ {c}
    PROVE  StoreInv' /\ TaskInv' /\ CoverInv'
<1>a. TypeOK /\ StoreInv /\ TaskInv /\ CoverInv
  BY DEF RetainInv
<1>b. /\ \A q \in Clients : q # c => task'[q] = task[q]
      /\ map' = map /\ disk' = disk /\ current' = current /\ subscribed' = subscribed
      /\ channel' = channel /\ received' = received /\ dropped' = dropped /\ durable' = durable
  BY DEF OnlyTask
<1>1. StoreInv'
  BY <1>a, <1>b, ZenonT(40) DEF StoreInv
<1>2. TaskInv'
  <2> SUFFICES ASSUME NEW q \in Clients
               PROVE  /\ Working(q)' => task'[q].msg.by = q
                      /\ task'[q].pc \in {"scan", "send"} => received'[q] = <<>>
    BY DEF TaskInv
  <2>1. CASE q = c
    <3>1. task[c].msg.by = c
      BY <1>a, SMTT(40) DEF TaskInv, Working
    <3> QED BY <2>1, <3>1, SMTT(40)
  <2>2. CASE q # c
    BY <1>a, <1>b, <2>2, ZenonT(40) DEF TaskInv, Working
  <2> QED BY <2>1, <2>2
<1>3. ASSUME NEW e \in Clients PROVE Concerned(e)' => Covered(e)'
  <2>1. Concerned(e) => Covered(e)
    BY <1>a DEF CoverInv
  <2>2. Concerned(e)' => Concerned(e)
    BY <1>b, ZenonT(40) DEF Concerned
  <2>3. Concerned(e) /\ Pending(e) => Pending(e)'
    BY <1>a, MatchPending
  <2>4. /\ task[e].pc \in {"scan", "send"} => task'[e] = task[e]
        /\ task'[e].pc = "send" => task[e].pc = "send"
    BY <1>b, SMTT(40)
  <2>5. Concerned(e) /\ Pending(e) => Covered(e)'
    BY <2>3, ZenonT(40) DEF Covered
  <2> QED BY <1>b, <2>1, <2>2, <2>4, <2>5, KeepCover, ZenonT(40)
<1> QED BY <1>1, <1>2, <1>3 DEF CoverInv

\* A delivery puts the message into the channel, or drops it.
LEMMA DeliverCover ==
    ASSUME RetainInv, NEW c \in Clients, NEW d \in Clients, NEW m \in Message, DeliverEffect(c, d, m)
    PROVE  StoreInv' /\ TaskInv' /\ CoverInv'
<1>a. TypeOK /\ StoreInv /\ TaskInv /\ CoverInv
  BY DEF RetainInv
<1>b. /\ task[c].pc = "deliver" /\ task[c].msg = m /\ d \in task[c].to
      /\ task'[c].pc = "deliver" /\ task'[c].msg = m /\ task'[c].to = task[c].to \ {d}
      /\ \A q \in Clients : q # c => task'[q] = task[q]
      /\ \A e \in Clients : e # d => channel'[e] = channel[e] /\ dropped'[e] = dropped[e]
      /\ \/ d \in online /\ channel'[d] = Append(channel[d], m) /\ dropped'[d] = dropped[d]
         \/ d \in online /\ channel'[d] = channel[d] /\ dropped'[d] = dropped[d] \cup {m}
         \/ d \notin online /\ channel'[d] = channel[d] /\ dropped'[d] = dropped[d]
      /\ map' = map /\ disk' = disk /\ current' = current /\ subscribed' = subscribed
      /\ received' = received /\ durable' = durable
  BY ZenonT(40) DEF DeliverEffect
<1>1. StoreInv'
  BY <1>a, <1>b, ZenonT(40) DEF StoreInv
<1>2. TaskInv'
  <2> SUFFICES ASSUME NEW q \in Clients
               PROVE  /\ Working(q)' => task'[q].msg.by = q
                      /\ task'[q].pc \in {"scan", "send"} => received'[q] = <<>>
    BY DEF TaskInv
  <2>1. CASE q = c
    <3>1. m.by = c
      BY <1>a, <1>b, ZenonT(40) DEF TaskInv, Working
    <3> QED BY <1>b, <2>1, <3>1, SMTT(40)
  <2>2. CASE q # c
    BY <1>a, <1>b, <2>2, ZenonT(40) DEF TaskInv, Working
  <2> QED BY <2>1, <2>2
<1>4. ASSUME NEW e \in Clients PROVE Concerned(e)' => Covered(e)'
  <2>1. Concerned(e) => Covered(e)
    BY <1>a DEF CoverInv
  <2>2. Concerned(e)' => Concerned(e)
    BY <1>b, ZenonT(40) DEF Concerned
  <2>3. Concerned(e) /\ Pending(e) => Pending(e)' \/ current' \in dropped'[e]
    BY <1>a, DeliverPending
  <2>4. /\ task[e].pc \in {"scan", "send"} => task'[e] = task[e]
        /\ task'[e].pc = "send" => task[e].pc = "send"
    BY <1>b, SMTT(40)
  <2>5. Concerned(e) /\ Pending(e) => Covered(e)'
    BY <2>3, ZenonT(40) DEF Covered
  <2>6. dropped[e] \subseteq dropped'[e]
    BY <1>b, ZenonT(40)
  <2> QED BY <1>b, <2>1, <2>2, <2>4, <2>5, <2>6, KeepCover, ZenonT(40)
<1> QED BY <1>1, <1>2, <1>4 DEF CoverInv

\* A publish ends when it has delivered to all it matched.
LEMMA DoneCover ==
    ASSUME RetainInv, NEW c \in Clients, OnlyTask(c),
           task[c].pc = "deliver", task[c].to = {}, task'[c].pc = "idle"
    PROVE  StoreInv' /\ TaskInv' /\ CoverInv'
<1>a. TypeOK /\ StoreInv /\ TaskInv /\ CoverInv
  BY DEF RetainInv
<1>b. /\ \A q \in Clients : q # c => task'[q] = task[q]
      /\ map' = map /\ disk' = disk /\ current' = current /\ subscribed' = subscribed
      /\ channel' = channel /\ received' = received /\ dropped' = dropped /\ durable' = durable
  BY DEF OnlyTask
<1>1. StoreInv'
  BY <1>a, <1>b, ZenonT(40) DEF StoreInv
<1>2. TaskInv'
  <2>1. ~Working(c)' /\ task'[c].pc \notin {"scan", "send"}
    BY SMTT(40) DEF Working
  <2> QED BY <1>a, <1>b, <2>1, ZenonT(40) DEF TaskInv, Working
<1>3. ASSUME NEW e \in Clients PROVE Concerned(e)' => Covered(e)'
  <2>1. Concerned(e) => Covered(e)
    BY <1>a DEF CoverInv
  <2>2. Concerned(e)' => Concerned(e)
    BY <1>b, ZenonT(40) DEF Concerned
  <2>3. Pending(e) => Pending(e)'
    <3>1. task[c].pc = "deliver" /\ e \notin task[c].to
      BY ZenonT(40)
    <3> QED BY <1>b, <3>1, KeepPending, ZenonT(40)
  <2>4. /\ task[e].pc \in {"scan", "send"} => task'[e] = task[e]
        /\ task'[e].pc = "send" => task[e].pc = "send"
    BY <1>b, SMTT(40)
  <2>5. Concerned(e) /\ Pending(e) => Covered(e)'
    BY <2>3, ZenonT(40) DEF Covered
  <2> QED BY <1>b, <2>1, <2>2, <2>4, <2>5, KeepCover, ZenonT(40)
<1> QED BY <1>1, <1>2, <1>3 DEF CoverInv

\* The scan starts with a clean slate and takes what the store holds.
LEMMA RegisterCover ==
    ASSUME RetainInv, NEW c \in Clients, RegisterEffect(c)
    PROVE  StoreInv' /\ TaskInv' /\ CoverInv'
<1>a. TypeOK /\ StoreInv /\ TaskInv /\ CoverInv
  BY DEF RetainInv
<1>b. /\ task[c].pc = "idle" /\ task'[c].pc = "scan" /\ received'[c] = <<>>
      /\ \A q \in Clients : q # c => task'[q] = task[q]
      /\ subscribed' = subscribed \cup {c}
      /\ \A e \in Clients : e # c => received'[e] = received[e] /\ dropped'[e] = dropped[e]
      /\ map' = map /\ disk' = disk /\ current' = current
      /\ channel' = channel /\ durable' = durable
  BY DEF RegisterEffect
<1>1. StoreInv'
  BY <1>a, <1>b, ZenonT(40) DEF StoreInv
<1>2. TaskInv'
  <2>1. ~Working(c)'
    BY <1>b, SMTT(40) DEF Working
  <2> QED BY <1>a, <1>b, <2>1, ZenonT(40) DEF TaskInv, Working
<1>3. ASSUME NEW e \in Clients PROVE Concerned(e)' => Covered(e)'
  <2>1. CASE e = c
    BY <1>b, <2>1, ZenonT(40) DEF Covered
  <2>2. CASE e # c
    <3>1. Concerned(e) => Covered(e)
      BY <1>a DEF CoverInv
    <3>2. Concerned(e)' => Concerned(e)
      BY <1>b, <2>2, ZenonT(40) DEF Concerned
    <3>3. Pending(e) => Pending(e)'
      <4>1. ~Working(c)
        BY <1>b, SMTT(40) DEF Working
      <4> QED BY <1>b, <4>1, KeepPending, ZenonT(40)
    <3>4. Concerned(e) /\ Pending(e) => Covered(e)'
      BY <3>3, ZenonT(40) DEF Covered
    <3>5. task'[e] = task[e] /\ received'[e] = received[e] /\ dropped[e] \subseteq dropped'[e]
      BY <1>b, <2>2, ZenonT(40)
    <3> QED BY <1>b, <3>1, <3>2, <3>4, <3>5, KeepCover, ZenonT(40)
  <2> QED BY <2>1, <2>2
<1> QED BY <1>1, <1>2, <1>3 DEF CoverInv

\* The scan finds the message in force, if there is one.
LEMMA ScanCover ==
    ASSUME RetainInv, NEW c \in Clients, OnlyTask(c), task[c].pc = "scan",
           \/ map = NoMessage /\ task'[c].pc = "idle"
           \/ map # NoMessage /\ task'[c].pc = "send" /\ task'[c].msg = map
    PROVE  StoreInv' /\ TaskInv' /\ CoverInv'
<1>a. TypeOK /\ StoreInv /\ TaskInv /\ CoverInv
  BY DEF RetainInv
<1>b. /\ \A q \in Clients : q # c => task'[q] = task[q]
      /\ map' = map /\ disk' = disk /\ current' = current /\ subscribed' = subscribed
      /\ channel' = channel /\ received' = received /\ dropped' = dropped /\ durable' = durable
  BY DEF OnlyTask
<1>1. StoreInv'
  BY <1>a, <1>b, ZenonT(40) DEF StoreInv
<1>c. received[c] = <<>>
  BY <1>a, ZenonT(40) DEF TaskInv
<1>2. TaskInv'
  <2>1. ~Working(c)'
    BY SMTT(40) DEF Working
  <2> QED BY <1>a, <1>b, <1>c, <2>1, ZenonT(40) DEF TaskInv, Working
<1>3. ASSUME NEW e \in Clients PROVE Concerned(e)' => Covered(e)'
  <2>1. CASE e = c
    <3>1. SUFFICES ASSUME Concerned(c)' PROVE Covered(c)'
      BY <2>1
    <3>2. current # NoMessage /\ map = Stored(current)
      BY <1>a, <1>b, <3>1, ZenonT(40) DEF StoreInv, Concerned
    <3>3. CASE map = NoMessage
      <4>1. current.kind = "clear" /\ task'[c].pc # "send"
        BY <3>2, <3>3, SMTT(40) DEF Stored
      <4>2. \A m \in Message : ~Contains(received'[c], Sent(m, TRUE))
        BY <1>b, <1>c, EmptyFacts, ZenonT(40)
      <4> QED BY <1>b, <4>1, <4>2, ZenonT(40) DEF Covered, NothingToClear
    <3>4. CASE map # NoMessage
      <4>1. map = current /\ task'[c].pc = "send" /\ task'[c].msg = map
        BY <3>2, <3>4, SMTT(40) DEF Stored
      <4> QED BY <1>b, <4>1, ZenonT(40) DEF Covered
    <3> QED BY <3>3, <3>4
  <2>2. CASE e # c
    <3>1. Concerned(e) => Covered(e)
      BY <1>a DEF CoverInv
    <3>2. Concerned(e)' => Concerned(e)
      BY <1>b, ZenonT(40) DEF Concerned
    <3>3. Pending(e) => Pending(e)'
      <4>1. ~Working(c)
        BY <1>b, SMTT(40) DEF Working
      <4> QED BY <1>b, <4>1, KeepPending, ZenonT(40)
    <3>4. Concerned(e) /\ Pending(e) => Covered(e)'
      BY <3>3, ZenonT(40) DEF Covered
    <3> QED BY <1>b, <2>2, <3>1, <3>2, <3>4, KeepCover, ZenonT(40)
  <2> QED BY <2>1, <2>2
<1> QED BY <1>1, <1>2, <1>3 DEF CoverInv

\* What a send adds to the client's messages.
LEMMA SendAdds ==
    ASSUME TypeOK, NEW c \in Clients, NEW m \in Message, NEW x \in Deliveries, SendEffect(c, m, x)
    PROVE  /\ \A a : Contains(received[c], a) => Contains(received'[c], a)
           /\ \A a : Contains(received'[c], a) => Contains(received[c], a) \/ a = x
           /\ dropped[c] \subseteq dropped'[c]
           /\ Contains(received'[c], x) \/ m \in dropped'[c]
<1>1. received[c] \in Seq(Deliveries)
  BY ZenonT(40) DEF TypeOK
<1>2. \A a : Contains(Append(received[c], x), a) <=> Contains(received[c], a) \/ a = x
  BY <1>1, AppendFacts, ZenonT(40)
<1> QED BY <1>2, ZenonT(40) DEF SendEffect

\* What the scan found is received or dropped, or a newer one is under way.
LEMMA SendRetainedCover ==
    ASSUME RetainInv, NEW c \in Clients, NEW m \in Message, NEW x \in Deliveries,
           SendRetainedEffect(c, m, x)
    PROVE  StoreInv' /\ TaskInv' /\ CoverInv'
<1>a. TypeOK /\ StoreInv /\ TaskInv /\ CoverInv
  BY DEF RetainInv
<1>b. /\ x = Sent(m, TRUE) /\ task[c].pc = "send" /\ task[c].msg = m /\ task'[c].pc = "idle"
      /\ \A q \in Clients : q # c => task'[q] = task[q]
      /\ SendEffect(c, m, x)
      /\ \A e \in Clients : e # c => received'[e] = received[e] /\ dropped'[e] = dropped[e]
      /\ map' = map /\ disk' = disk /\ current' = current /\ subscribed' = subscribed
      /\ channel' = channel /\ durable' = durable
  BY ZenonT(40) DEF SendRetainedEffect, SendEffect
<1>c. /\ \A a : Contains(received[c], a) => Contains(received'[c], a)
      /\ dropped[c] \subseteq dropped'[c]
      /\ Contains(received'[c], x) \/ m \in dropped'[c]
  BY <1>a, <1>b, SendAdds, ZenonT(40)
<1>1. StoreInv'
  BY <1>a, <1>b, ZenonT(40) DEF StoreInv
<1>2. TaskInv'
  <2>1. ~Working(c)' /\ task'[c].pc \notin {"scan", "send"}
    BY <1>b, SMTT(40) DEF Working
  <2> QED BY <1>a, <1>b, <2>1, ZenonT(40) DEF TaskInv, Working
<1>3. ASSUME NEW e \in Clients PROVE Concerned(e)' => Covered(e)'
  <2>0. Concerned(e) => Covered(e)
    BY <1>a DEF CoverInv
  <2>1. Concerned(e)' => Concerned(e)
    BY <1>b, ZenonT(40) DEF Concerned
  <2>2. Pending(e) => Covered(e)'
    <3>1. ~Working(c)
      BY <1>b, SMTT(40) DEF Working
    <3>2. Pending(e) => Pending(e)'
      BY <1>b, <3>1, KeepPending, ZenonT(40)
    <3> QED BY <3>2, ZenonT(40) DEF Covered
  <2>3. CASE e = c
    <3>1. SUFFICES ASSUME Concerned(c)' PROVE Covered(c)'
      BY <2>3
    <3>2. CASE task[c].msg = current
      <4>1. x = Sent(current, TRUE) /\ m = current
        BY <1>b, <3>2
      <4>2. (\E flag \in BOOLEAN : Contains(received'[c], Sent(current', flag))) \/ current' \in dropped'[c]
        BY <1>b, <1>c, <4>1, ZenonT(40)
      <4> QED BY <4>2, ZenonT(40) DEF Covered
    <3>3. CASE task[c].msg # current
      <4>1. \/ Pending(c)
            \/ \E flag \in BOOLEAN : Contains(received[c], Sent(current, flag))
            \/ current \in dropped[c]
        <5>1. task[c].pc # "scan" /\ ~NothingToClear(c)
          BY <1>b, SMTT(40) DEF NothingToClear
        <5> QED BY <2>0, <2>1, <2>3, <3>1, <3>3, <5>1, ZenonT(40) DEF Covered
      <4>2. CASE Pending(c)
        BY <2>2, <2>3, <4>2
      <4>3. CASE ~Pending(c)
        <5>1. (\E flag \in BOOLEAN : Contains(received'[c], Sent(current', flag))) \/ current' \in dropped'[c]
          BY <1>b, <1>c, <4>1, <4>3, ZenonT(40)
        <5> QED BY <5>1, ZenonT(40) DEF Covered
      <4> QED BY <4>2, <4>3
    <3> QED BY <3>2, <3>3
  <2>4. CASE e # c
    BY <1>b, <2>0, <2>1, <2>2, <2>4, KeepCover, ZenonT(40)
  <2> QED BY <2>3, <2>4
<1> QED BY <1>1, <1>2, <1>3 DEF CoverInv

\* A message leaves the channel when it is received or dropped.
LEMMA SendLiveCover ==
    ASSUME RetainInv, NEW c \in Clients, NEW m \in Message, NEW x \in Deliveries,
           SendLiveEffect(c, m, x)
    PROVE  StoreInv' /\ TaskInv' /\ CoverInv'
<1>a. TypeOK /\ StoreInv /\ TaskInv /\ CoverInv
  BY DEF RetainInv
<1>b. /\ x = Sent(m, FALSE) /\ task[c].pc = "idle" /\ channel[c] # <<>> /\ m = Head(channel[c])
      /\ channel'[c] = Tail(channel[c])
      /\ \A e \in Clients : e # c => channel'[e] = channel[e]
      /\ SendEffect(c, m, x)
      /\ \A e \in Clients : e # c => received'[e] = received[e] /\ dropped'[e] = dropped[e]
      /\ map' = map /\ disk' = disk /\ current' = current /\ subscribed' = subscribed
      /\ task' = task /\ durable' = durable
  BY ZenonT(40) DEF SendLiveEffect, SendEffect
<1>c. /\ \A a : Contains(received[c], a) => Contains(received'[c], a)
      /\ \A a : Contains(received'[c], a) => Contains(received[c], a) \/ a = x
      /\ dropped[c] \subseteq dropped'[c]
      /\ Contains(received'[c], x) \/ m \in dropped'[c]
  BY <1>a, <1>b, SendAdds, ZenonT(40)
<1>d. \A a : Contains(channel[c], a) => a = m \/ Contains(channel'[c], a)
  <2>1. channel[c] \in Seq(Message)
    BY <1>a, ZenonT(40) DEF TypeOK
  <2>2. \A a : Contains(channel[c], a) => a = Head(channel[c]) \/ Contains(Tail(channel[c]), a)
    BY <1>b, <2>1, TailFacts, ZenonT(40)
  <2> QED BY <1>b, <2>2, ZenonT(40)
<1>1. StoreInv'
  BY <1>a, <1>b, ZenonT(40) DEF StoreInv
<1>2. TaskInv'
  <2>1. task'[c].pc \notin {"scan", "send"}
    BY <1>b, SMTT(40)
  <2> QED BY <1>a, <1>b, <2>1, ZenonT(40) DEF TaskInv, Working
<1>3. ASSUME NEW e \in Clients PROVE Concerned(e)' => Covered(e)'
  <2>0. Concerned(e) => Covered(e)
    BY <1>a DEF CoverInv
  <2>1. Concerned(e)' => Concerned(e)
    BY <1>b, ZenonT(40) DEF Concerned
  <2>2. \A q \in Clients : /\ Matching(q, current) => Matching(q, current)'
                           /\ Delivering(q, current, e) => Delivering(q, current, e)'
    BY <1>b, ZenonT(40) DEF Matching, Delivering
  <2>3. CASE e = c
    <3>1. SUFFICES ASSUME Concerned(c)' PROVE Covered(c)'
      BY <2>3
    <3>2. CASE Pending(c)
      <4>1. CASE m = current
        <5>1. (\E flag \in BOOLEAN : Contains(received'[c], Sent(current', flag))) \/ current' \in dropped'[c]
          BY <1>b, <1>c, <4>1, ZenonT(40)
        <5> QED BY <5>1, ZenonT(40) DEF Covered
      <4>2. CASE m # current
        <5>1. Pending(c)'
          BY <1>b, <1>d, <2>2, <2>3, <3>2, <4>2, ZenonT(40) DEF Pending
        <5> QED BY <5>1, ZenonT(40) DEF Covered
      <4> QED BY <4>1, <4>2
    <3>3. CASE ~Pending(c)
      <4>1. \/ \E flag \in BOOLEAN : Contains(received[c], Sent(current, flag))
            \/ current \in dropped[c]
            \/ NothingToClear(c)
        <5>1. task[c].pc # "scan" /\ task[c].pc # "send"
          BY <1>b, SMTT(40)
        <5> QED BY <2>0, <2>1, <2>3, <3>1, <3>3, <5>1, ZenonT(40) DEF Covered
      <4>2. CASE NothingToClear(c)
        <5>1. \A n : Sent(n, TRUE) # x
          <6>1. x = Sent(m, FALSE)
            BY <1>b
          <6> QED BY <6>1, SMTT(40) DEF Sent
        <5>2. NothingToClear(c)'
          BY <1>b, <1>c, <4>2, <5>1, ZenonT(40) DEF NothingToClear
        <5> QED BY <5>2, ZenonT(40) DEF Covered
      <4>3. CASE ~NothingToClear(c)
        <5>1. (\E flag \in BOOLEAN : Contains(received'[c], Sent(current', flag))) \/ current' \in dropped'[c]
          BY <1>b, <1>c, <4>1, <4>3, ZenonT(40)
        <5> QED BY <5>1, ZenonT(40) DEF Covered
      <4> QED BY <4>2, <4>3
    <3> QED BY <3>2, <3>3
  <2>4. CASE e # c
    <3>1. Pending(e) => Pending(e)'
      BY <1>b, <2>2, <2>4, ZenonT(40) DEF Pending
    <3>2. Pending(e) => Covered(e)'
      BY <3>1, ZenonT(40) DEF Covered
    <3> QED BY <1>b, <2>0, <2>1, <2>4, <3>2, KeepCover, ZenonT(40)
  <2> QED BY <2>3, <2>4
<1> QED BY <1>1, <1>2, <1>3 DEF CoverInv

\* A client that leaves need not be covered any more.
LEMMA DisconnectCover ==
    ASSUME RetainInv, NEW c \in Clients, DisconnectEffect(c)
    PROVE  StoreInv' /\ TaskInv' /\ CoverInv'
<1>a. TypeOK /\ StoreInv /\ TaskInv /\ CoverInv
  BY DEF RetainInv
<1>b. /\ ~Working(c) /\ task'[c].pc = "idle"
      /\ \A q \in Clients : q # c => task'[q] = task[q] /\ channel'[q] = channel[q]
      /\ subscribed' = subscribed \ {c}
      /\ map' = map /\ disk' = disk /\ current' = current
      /\ received' = received /\ dropped' = dropped /\ durable' = durable
  BY DEF DisconnectEffect
<1>1. StoreInv'
  BY <1>a, <1>b, ZenonT(40) DEF StoreInv
<1>2. TaskInv'
  <2>1. ~Working(c)' /\ task'[c].pc \notin {"scan", "send"}
    BY <1>b, SMTT(40) DEF Working
  <2> QED BY <1>a, <1>b, <2>1, ZenonT(40) DEF TaskInv, Working
<1>3. ASSUME NEW e \in Clients PROVE Concerned(e)' => Covered(e)'
  <2>1. Concerned(e) => Covered(e)
    BY <1>a DEF CoverInv
  <2>2. Concerned(e)' => Concerned(e) /\ e # c
    BY <1>b, ZenonT(40) DEF Concerned
  <2>3. e # c /\ Pending(e) => Pending(e)'
    BY <1>b, KeepPending, ZenonT(40)
  <2>4. e # c /\ Pending(e) => Covered(e)'
    BY <2>3, ZenonT(40) DEF Covered
  <2> QED BY <1>b, <2>1, <2>2, <2>4, KeepCover, ZenonT(40)
<1> QED BY <1>1, <1>2, <1>3 DEF CoverInv

\* Steps that leave tasks, channels and clients' messages alone.
LEMMA QuietCover ==
    ASSUME RetainInv, subscribed' \subseteq subscribed, durable' = durable \/ durable' = disk,
           UNCHANGED <<map, disk, current, task, channel, received, dropped>>
    PROVE  StoreInv' /\ TaskInv' /\ CoverInv'
<1>a. TypeOK /\ StoreInv /\ TaskInv /\ CoverInv
  BY DEF RetainInv
<1>b. /\ map' = map /\ disk' = disk /\ current' = current /\ task' = task
      /\ channel' = channel /\ received' = received /\ dropped' = dropped
  OBVIOUS
<1>1. StoreInv'
  <2>1. disk # NoMessage => disk.kind # "clear"
    <3>1. disk # NoMessage => disk = Stored(current)
      BY <1>a, ZenonT(40) DEF StoreInv
    <3> QED BY <3>1, ZenonT(40) DEF Stored
  <2> QED BY <1>a, <1>b, <2>1, ZenonT(40) DEF StoreInv
<1>2. TaskInv'
  BY <1>a, <1>b, ZenonT(40) DEF TaskInv, Working
<1>3. ASSUME NEW e \in Clients PROVE Concerned(e)' => Covered(e)'
  <2>1. Concerned(e) => Covered(e)
    BY <1>a DEF CoverInv
  <2>2. Concerned(e)' => Concerned(e)
    BY <1>b, ZenonT(40) DEF Concerned
  <2>3. Pending(e) => Pending(e)'
    BY <1>b, ZenonT(40) DEF Pending, Matching, Delivering
  <2>4. Pending(e) => Covered(e)'
    BY <2>3, ZenonT(40) DEF Covered
  <2> QED BY <1>b, <2>1, <2>2, <2>4, KeepCover, ZenonT(40)
<1> QED BY <1>1, <1>2, <1>3 DEF CoverInv

\* A restart leaves no subscriber, and a store that matches the disk.
LEMMA RestartCover ==
    ASSUME RetainInv, Restart
    PROVE  StoreInv' /\ TaskInv' /\ CoverInv'
<1>a. TypeOK /\ StoreInv
  BY DEF RetainInv
<1>b. /\ disk' = durable /\ map' = durable /\ current' = durable /\ durable' = durable
      /\ subscribed' = {} /\ task' = [c \in Clients |-> Idle]
  BY DEF Restart
<1>1. StoreInv'
  <2>1. durable # NoMessage => Stored(durable) = durable
    BY <1>a, ZenonT(40) DEF StoreInv, Stored
  <2> QED BY <1>a, <1>b, <2>1, ZenonT(40) DEF StoreInv
<1>2. TaskInv'
  <2>1. \A c \in Clients : task'[c].pc = "idle"
    BY <1>b, TaskValues, ZenonT(40)
  <2>2. \A c \in Clients : ~Working(c)' /\ task'[c].pc \notin {"scan", "send"}
    BY <2>1, SMTT(40) DEF Working
  <2> QED BY <2>2, ZenonT(40) DEF TaskInv
<1>3. CoverInv'
  BY <1>b, ZenonT(40) DEF CoverInv, Concerned
<1> QED BY <1>1, <1>2, <1>3

\* At the start nobody subscribes and nothing is retained.
LEMMA RetainInit == Init => RetainInv
<1> SUFFICES ASSUME Init PROVE RetainInv
  OBVIOUS
<1>1. /\ map = NoMessage /\ disk = NoMessage /\ durable = NoMessage /\ current = NoMessage
      /\ online = {} /\ subscribed = {} /\ task = [c \in Clients |-> Idle]
      /\ channel = [c \in Clients |-> <<>>] /\ received = [c \in Clients |-> <<>>]
      /\ dropped = [c \in Clients |-> {}] /\ published = 0
      /\ subscribes = [c \in Clients |-> 0]
  BY DEF Init
<1>2. TypeOK
  <2>1. <<>> \in Seq(Message) /\ <<>> \in Seq(Deliveries) /\ 0 \in Nat
    BY SMTT(40)
  <2>2. subscribes \in [Clients -> Nat] /\ published \in Nat
    BY <1>1, SMTT(40)
  <2> QED BY <1>1, <2>1, <2>2, ZenonT(40) DEF TypeOK
<1>3. StoreInv
  BY <1>1, ZenonT(40) DEF StoreInv
<1>4. TaskInv
  <2>1. \A c \in Clients : task[c].pc = "idle"
    BY <1>1, TaskValues, ZenonT(40)
  <2>2. \A c \in Clients : ~Working(c) /\ task[c].pc \notin {"scan", "send"}
    BY <2>1, SMTT(40) DEF Working
  <2> QED BY <2>2, ZenonT(40) DEF TaskInv
<1>5. CoverInv
  BY <1>1, ZenonT(40) DEF CoverInv, Concerned
<1> QED BY <1>2, <1>3, <1>4, <1>5 DEF RetainInv

\* Every step keeps every subscriber covered.
LEMMA RetainStep ==
    ASSUME RetainInv, [Next]_vars
    PROVE  RetainInv'
<1>a. TypeOK
  BY DEF RetainInv
<1>1. ASSUME NEW c \in Clients, StoreMessage(c) PROVE RetainInv'
  BY <1>a, <1>1, StoreType, StoreMessageEffect, StoreCover, ZenonT(40) DEF RetainInv
<1>2. ASSUME NEW c \in Clients, MatchSubscribers(c) PROVE RetainInv'
  BY <1>a, <1>2, PublishType, TaskEffects, MatchCover, ZenonT(40) DEF RetainInv
<1>3. ASSUME NEW c \in Clients, NEW d \in Clients, DeliverOne(c, d) PROVE RetainInv'
  BY <1>a, <1>3, PublishType, DeliverOneEffect, DeliverCover, ZenonT(40) DEF RetainInv
<1>4. ASSUME NEW c \in Clients, PublishDone(c) PROVE RetainInv'
  BY <1>a, <1>4, PublishType, TaskEffects, DoneCover, ZenonT(40) DEF RetainInv
<1>5. ASSUME NEW c \in Clients, RegisterFilter(c) PROVE RetainInv'
  BY <1>a, <1>5, SubscribeType, SubscribeEffects, RegisterCover, ZenonT(40) DEF RetainInv, Subscribe
<1>6. ASSUME NEW c \in Clients, ScanRetained(c) PROVE RetainInv'
  BY <1>a, <1>6, SubscribeType, TaskEffects, ScanCover, ZenonT(40) DEF RetainInv, Subscribe
<1>7. ASSUME NEW c \in Clients, SendRetained(c) PROVE RetainInv'
  BY <1>a, <1>7, SubscribeType, SubscribeEffects, SendRetainedCover, ZenonT(40)
     DEF RetainInv, Subscribe
<1>8. ASSUME NEW c \in Clients, SendLive(c) PROVE RetainInv'
  BY <1>a, <1>8, RestType, SubscribeEffects, SendLiveCover, ZenonT(40) DEF RetainInv
<1>9. ASSUME NEW c \in Clients, Unsubscribe(c) PROVE RetainInv'
  <2>1. /\ subscribed' \subseteq subscribed /\ durable' = durable
        /\ UNCHANGED <<map, disk, current, task, channel, received, dropped>>
    BY <1>9, ZenonT(40) DEF Unsubscribe, storeVars, outVars
  <2> QED BY <1>a, <1>9, <2>1, RestType, QuietCover, ZenonT(40) DEF RetainInv
<1>10. ASSUME NEW c \in Clients, Connect(c) PROVE RetainInv'
  <2>1. /\ subscribed' \subseteq subscribed /\ durable' = durable
        /\ UNCHANGED <<map, disk, current, task, channel, received, dropped>>
    BY <1>10, ZenonT(40) DEF Connect, storeVars, outVars
  <2> QED BY <1>a, <1>10, <2>1, RestType, QuietCover, ZenonT(40) DEF RetainInv
<1>11. ASSUME NEW c \in Clients, Disconnect(c) PROVE RetainInv'
  BY <1>a, <1>11, RestType, DisconnectEffects, DisconnectCover, ZenonT(40) DEF RetainInv
<1>12. CASE Flush
  <2>1. /\ subscribed' \subseteq subscribed /\ durable' = disk
        /\ UNCHANGED <<map, disk, current, task, channel, received, dropped>>
    BY <1>12, ZenonT(40) DEF Flush, storeVars, clientVars, outVars
  <2> QED BY <1>a, <1>12, <2>1, RestType, QuietCover, ZenonT(40) DEF RetainInv
<1>13. CASE Restart
  BY <1>a, <1>13, RestType, RestartCover, ZenonT(40) DEF RetainInv
<1>14. CASE UNCHANGED vars
  <2>1. /\ subscribed' \subseteq subscribed /\ durable' = durable
        /\ UNCHANGED <<map, disk, current, task, channel, received, dropped>>
    BY <1>14, ZenonT(40) DEF vars, storeVars, clientVars, outVars
  <2>2. TypeOK'
    BY <1>a, <1>14, ZenonT(40) DEF TypeOK, vars, storeVars, clientVars, outVars
  <2> QED BY <2>1, <2>2, QuietCover, ZenonT(40) DEF RetainInv
<1>15. ASSUME NEW c \in Clients, Publish(c) PROVE RetainInv'
  BY <1>1, <1>2, <1>3, <1>4, <1>15, ZenonT(40) DEF Publish
<1>16. ASSUME NEW c \in Clients, Subscribe(c) PROVE RetainInv'
  BY <1>5, <1>6, <1>7, <1>16, ZenonT(40) DEF Subscribe
<1> QED BY <1>8, <1>9, <1>10, <1>11, <1>12, <1>13, <1>14, <1>15, <1>16, ZenonT(40) DEF Next

\* The store and the way of the message in force to each subscriber.
THEOREM RetainInvariant == Spec => []RetainInv
<1>1. Init => RetainInv
  BY RetainInit
<1>2. RetainInv /\ [Next]_vars => RetainInv'
  BY RetainStep
<1> QED BY <1>1, <1>2, PTL DEF Spec

\* RetainStore::set: the map always shows what the storage holds, whatever the
\* storage refuses and whenever the process restarts.
THEOREM MapIsStorage == Spec => []MapMatchesStorage
<1>1. RetainInv => MapMatchesStorage
  BY DEF RetainInv, StoreInv, MapMatchesStorage
<1> QED BY <1>1, RetainInvariant, PTL

\* handle_subscribe and Router::publish: a subscriber that has gone quiet was
\* sent the retained message in force, for any number of publishers and
\* subscribers, in any order of their steps.
THEOREM SubscribersUpToDate == Spec => []SubscriberUpToDate
<1>1. ASSUME RetainInv PROVE SubscriberUpToDate
  <2>a. TypeOK /\ CoverInv
    BY <1>1 DEF RetainInv
  <2>1. SUFFICES ASSUME NEW c \in subscribed, Settled(c), current # NoMessage, current.by # c,
                        current.kind = "clear" => \E s \in Range(received[c]) : s.retain
                 PROVE  current \in {s.msg : s \in Range(received[c])} \cup dropped[c]
    BY ZenonT(40) DEF SubscriberUpToDate
  <2>2. c \in Clients /\ Covered(c)
    BY <2>a, <2>1, ZenonT(40) DEF TypeOK, CoverInv, Concerned
  <2>3. /\ \A d \in Clients : task[d].pc \notin {"match", "deliver"}
        /\ task[c].pc = "idle" /\ channel[c] = <<>>
    BY <2>1, TaskValues, ZenonT(40) DEF Settled
  <2>4. ~Pending(c) /\ task[c].pc # "scan" /\ task[c].pc # "send"
    <3>1. \A q \in Clients : ~Matching(q, current) /\ ~Delivering(q, current, c)
      BY <2>3, SMTT(40) DEF Matching, Delivering
    <3>2. ~Contains(channel[c], current)
      BY <2>3, EmptyFacts, ZenonT(40)
    <3>3. task[c].pc # "scan" /\ task[c].pc # "send"
      BY <2>3, SMTT(40)
    <3> QED BY <3>1, <3>2, <3>3, ZenonT(40) DEF Pending
  <2>5. received[c] \in Seq(Deliveries)
    BY <2>a, <2>2, ZenonT(40) DEF TypeOK
  <2>6. \A s : s \in Range(received[c]) <=> Contains(received[c], s)
    BY <2>5, SMTT(40) DEF Range, Contains
  <2>7. ~NothingToClear(c)
    <3>1. SUFFICES ASSUME current.kind = "clear" PROVE \E m \in Message : Contains(received[c], Sent(m, TRUE))
      BY ZenonT(40) DEF NothingToClear
    <3>2. PICK s \in Range(received[c]) : s.retain
      BY <2>1, <3>1
    <3>3. s \in Deliveries
      BY <2>5, SMTT(40) DEF Range
    <3>4. s.msg \in Message /\ s = Sent(s.msg, TRUE)
      BY <3>2, <3>3, SMTT(40) DEF Sent, Deliveries
    <3> QED BY <2>6, <3>4, ZenonT(40)
  <2>8. CASE \E flag \in BOOLEAN : Contains(received[c], Sent(current, flag))
    <3>1. PICK flag \in BOOLEAN : Contains(received[c], Sent(current, flag))
      BY <2>8
    <3>2. Sent(current, flag).msg = current
      BY SMTT(40) DEF Sent
    <3>3. \E s \in Range(received[c]) : s.msg = current
      BY <2>6, <3>1, <3>2, ZenonT(40)
    <3> QED BY <3>3, ZenonT(40)
  <2>9. CASE current \in dropped[c]
    BY <2>9, ZenonT(40)
  <2> QED BY <2>2, <2>4, <2>7, <2>8, <2>9, ZenonT(40) DEF Covered
<1> QED BY <1>1, RetainInvariant, PTL

-----------------------------------------------------------------------------
(***************************************************************************)
(* What is sent last is not older than the message in force.               *)
(***************************************************************************)

\* A client to which this step sends nothing.
LEMMA KeepLate ==
    ASSUME NEW e \in Clients, Late(e), current' = current,
           Faithful(e)' => Faithful(e),
           Faithful(e)' /\ Pending(e) => Pending(e)',
           \A m \in Message : Contains(channel'[e], m) =>
              Contains(channel[e], m) \/ (m.by = current.by => m.id >= current.id),
           task'[e].pc = "send" => task[e].pc = "send" /\ task'[e].msg = task[e].msg,
           received'[e] = received[e]
    PROVE  Late(e)'
<1>1. LastSent(e)' = LastSent(e)
  BY ZenonT(40) DEF LastSent
<1>2. SUFFICES ASSUME Faithful(e)', ~Pending(e)'
               PROVE  /\ \A m \in Message : Contains(channel'[e], m) /\ m.by = current'.by => m.id >= current'.id
                      /\ task'[e].pc = "send" => task'[e].msg = current'
                      /\ received'[e] # <<>> /\ LastSent(e)'.msg.by = current'.by =>
                            LastSent(e)'.msg.id >= current'.id
  BY ZenonT(40) DEF Late
<1>3. /\ \A m \in Message : Contains(channel[e], m) /\ m.by = current.by => m.id >= current.id
      /\ task[e].pc = "send" => task[e].msg = current
      /\ received[e] # <<>> /\ LastSent(e).msg.by = current.by => LastSent(e).msg.id >= current.id
  BY <1>2, ZenonT(40) DEF Late
<1> QED BY <1>1, <1>3, ZenonT(40)

\* A new message is newer than all of its publisher under way.
LEMMA StoreOrder ==
    ASSUME RetainInv, OrderInv, NEW c \in Clients, NEW n \in Message, StoreEffect(c, n)
    PROVE  OrderInv'
<1>a. TypeOK /\ NumberInv /\ LatestInv /\ OrderedInv /\ FirstInv /\ LateInv
  BY DEF RetainInv, OrderInv
<1>b. /\ task[c].pc = "idle" /\ n.by = c /\ n.id = published + 1 /\ published' = published + 1
      /\ task'[c].pc = "match" /\ task'[c].msg = n
      /\ \A q \in Clients : q # c => task'[q] = task[q]
      /\ current' = current \/ current' = n
      /\ subscribed' = subscribed /\ channel' = channel /\ received' = received
      /\ dropped' = dropped /\ durable' = durable /\ subscribes' = subscribes
  BY ZenonT(40) DEF StoreEffect
<1>c. published \in Nat /\ \A m \in Message : m.id \in Nat
  BY <1>a, MessageFacts, ZenonT(40) DEF TypeOK
<1>d. \A m \in Message : m.id <= published => m.id <= published' /\ m.id < n.id /\ m.id <= n.id
  BY <1>b, <1>c, SMTT(40)
<1>e. n.id <= published' /\ n.id <= n.id
  BY <1>b, <1>c, SMTT(40)
<1>f. /\ current # NoMessage => current \in Message /\ current.id <= published
      /\ durable # NoMessage => durable \in Message /\ durable.id <= published
      /\ \A q \in Clients : Working(q) => task[q].msg \in Message /\ task[q].msg.id <= published
      /\ \A e \in Clients, m \in Message : Contains(channel[e], m) => m.id <= published
  <2>1. \A q \in Clients : Working(q) => task[q].msg \in Message
    BY <1>a, TaskTypes, ZenonT(40) DEF Working
  <2> QED BY <1>a, <2>1, ZenonT(40) DEF NumberInv, TypeOK
<1>1. NumberInv'
  <2>1. ASSUME NEW q \in Clients, Working(q)' PROVE task'[q].msg.id <= published'
    <3>1. CASE q = c
      BY <1>b, <1>e, <3>1, ZenonT(40)
    <3>2. CASE q # c
      BY <1>b, <1>d, <1>f, <2>1, <3>2, ZenonT(40) DEF Working
    <3> QED BY <3>1, <3>2
  <2>2. current' # NoMessage => current'.id <= published'
    BY <1>b, <1>d, <1>e, <1>f, ZenonT(40)
  <2>3. durable' # NoMessage => durable'.id <= published'
    BY <1>b, <1>d, <1>f, ZenonT(40)
  <2>4. \A e \in Clients, m \in Message : Contains(channel'[e], m) => m.id <= published'
    BY <1>b, <1>d, <1>f, ZenonT(40)
  <2> QED BY <2>1, <2>2, <2>3, <2>4, ZenonT(40) DEF NumberInv
<1>2. LatestInv'
  <2> SUFFICES ASSUME NEW q \in Clients, Working(q)'
               PROVE  /\ current' # NoMessage /\ current'.by = q => current'.id <= task'[q].msg.id
                      /\ \A e \in Clients, m \in Message : Contains(channel'[e], m) /\ m.by = q =>
                            /\ m.id <= task'[q].msg.id
                            /\ task'[q].pc = "match" \/ e \in task'[q].to => m.id < task'[q].msg.id
    BY ZenonT(40) DEF LatestInv
  <2>1. CASE q = c
    BY <1>b, <1>d, <1>e, <1>f, <2>1, ZenonT(40)
  <2>2. CASE q # c
    <3>1. Working(q) /\ task'[q] = task[q]
      BY <1>b, <2>2, ZenonT(40) DEF Working
    <3> QED BY <1>a, <1>b, <2>2, <3>1, ZenonT(40) DEF LatestInv
  <2> QED BY <2>1, <2>2
<1>3. OrderedInv'
  BY <1>a, <1>b, ZenonT(40) DEF OrderedInv
<1>4. FirstInv'
  <2>1. task'[c].pc # "deliver"
    BY <1>b, SMTT(40)
  <2> QED BY <1>a, <1>b, <2>1, ZenonT(40) DEF FirstInv
<1>5. ASSUME NEW e \in Clients PROVE Late(e)'
  <2>1. CASE current' = n
    <3>1. Pending(e)'
      BY <1>b, <2>1, ZenonT(40) DEF Pending, Matching
    <3> QED BY <3>1, ZenonT(40) DEF Late
  <2>2. CASE current' = current
    <3>1. Late(e)
      BY <1>a DEF LateInv
    <3>2. ~Working(c)
      BY <1>b, SMTT(40) DEF Working
    <3>3. Pending(e) => Pending(e)'
      BY <1>b, <2>2, <3>2, KeepPending, ZenonT(40)
    <3>4. Faithful(e)' => Faithful(e)
      BY <1>b, <2>2, ZenonT(40) DEF Faithful, Concerned
    <3>5. task'[e].pc = "send" => task[e].pc = "send" /\ task'[e].msg = task[e].msg
      BY <1>b, SMTT(40)
    <3> QED BY <1>b, <2>2, <3>1, <3>3, <3>4, <3>5, KeepLate, ZenonT(40)
  <2> QED BY <1>b, <2>1, <2>2
<1> QED BY <1>1, <1>2, <1>3, <1>4, <1>5 DEF OrderInv, LateInv

\* A task that only turns to its next step.
LEMMA TaskOrder ==
    ASSUME OrderInv, NEW c \in Clients, OnlyTask(c),
           Working(c)' => /\ task[c].pc = "match" /\ task'[c].msg = task[c].msg
                          /\ task'[c].pc = "deliver" /\ task'[c].to = subscribed \ {c},
           ~Working(c)' => task'[c].pc # "deliver",
           \A e \in Clients : Late(e)'
    PROVE  OrderInv'
<1>a. NumberInv /\ LatestInv /\ OrderedInv /\ FirstInv
  BY DEF OrderInv
<1>b. /\ \A q \in Clients : q # c => task'[q] = task[q]
      /\ current' = current /\ subscribed' = subscribed /\ subscribes' = subscribes
      /\ channel' = channel /\ durable' = durable /\ published' = published
  BY DEF OnlyTask
<1>c. task[c].pc = "match" => Working(c)
  BY ZenonT(40) DEF Working
<1>1. ASSUME NEW q \in Clients, Working(q)' PROVE Working(q) /\ task'[q].msg = task[q].msg
  BY <1>b, <1>c, <1>1, ZenonT(40) DEF Working
<1>2. NumberInv'
  BY <1>a, <1>b, <1>1, ZenonT(40) DEF NumberInv
<1>3. LatestInv'
  <2> SUFFICES ASSUME NEW q \in Clients, Working(q)'
               PROVE  /\ current' # NoMessage /\ current'.by = q => current'.id <= task'[q].msg.id
                      /\ \A e \in Clients, m \in Message : Contains(channel'[e], m) /\ m.by = q =>
                            /\ m.id <= task'[q].msg.id
                            /\ task'[q].pc = "match" \/ e \in task'[q].to => m.id < task'[q].msg.id
    BY ZenonT(40) DEF LatestInv
  <2>1. CASE q = c
    BY <1>a, <1>b, <1>c, <2>1, ZenonT(40) DEF LatestInv
  <2>2. CASE q # c
    <3>1. Working(q) /\ task'[q] = task[q]
      BY <1>b, <2>2, ZenonT(40) DEF Working
    <3> QED BY <1>a, <1>b, <3>1, ZenonT(40) DEF LatestInv
  <2> QED BY <2>1, <2>2
<1>4. OrderedInv'
  BY <1>a, <1>b, ZenonT(40) DEF OrderedInv
<1>5. FirstInv'
  BY <1>a, <1>b, ZenonT(40) DEF FirstInv
<1> QED BY <1>2, <1>3, <1>4, <1>5 DEF OrderInv, LateInv

\* Collecting the subscribers, finishing and scanning.
LEMMA RouteOrder ==
    ASSUME RetainInv, OrderInv, NEW c \in Clients
    PROVE  MatchSubscribers(c) \/ PublishDone(c) \/ ScanRetained(c) => OrderInv'
<1>a. TypeOK /\ StoreInv /\ TaskInv /\ LateInv
  BY DEF RetainInv, OrderInv
<1>1. CASE MatchSubscribers(c)
  <2>1. /\ task[c].pc = "match" /\ task'[c].pc = "deliver" /\ task'[c].msg = task[c].msg
        /\ task'[c].to = subscribed \ {c} /\ OnlyTask(c)
    BY <1>a, <1>1, TaskEffects, ZenonT(40)
  <2>2. ASSUME NEW e \in Clients PROVE Late(e)'
    <3>1. Faithful(e)' => Faithful(e)
      BY <2>1, ZenonT(40) DEF OnlyTask, Faithful, Concerned
    <3>2. Faithful(e)' /\ Pending(e) => Pending(e)'
      BY <1>a, <2>1, <3>1, MatchPending, ZenonT(40) DEF Faithful
    <3>3. task'[e].pc = "send" => task[e].pc = "send" /\ task'[e].msg = task[e].msg
      BY <2>1, SMTT(40) DEF OnlyTask
    <3>4. Late(e) /\ current' = current /\ channel' = channel /\ received' = received
      BY <1>a, <2>1, ZenonT(40) DEF OnlyTask, LateInv
    <3> QED BY <3>1, <3>2, <3>3, <3>4, KeepLate, ZenonT(40)
  <2>3. Working(c)'
    BY <2>1, ZenonT(40) DEF Working
  <2> QED BY <2>1, <2>2, <2>3, TaskOrder, ZenonT(40)
<1>2. CASE PublishDone(c)
  <2>1. task[c].pc = "deliver" /\ task[c].to = {} /\ task'[c].pc = "idle" /\ OnlyTask(c)
    BY <1>a, <1>2, TaskEffects, ZenonT(40)
  <2>b. /\ \A q \in Clients : q # c => task'[q] = task[q]
        /\ current' = current /\ channel' = channel /\ received' = received
    BY <2>1, ZenonT(40) DEF OnlyTask
  <2>2. ASSUME NEW e \in Clients PROVE Late(e)'
    <3>1. Faithful(e)' => Faithful(e)
      BY <2>1, ZenonT(40) DEF OnlyTask, Faithful, Concerned
    <3>2. task[c].pc = "deliver" /\ e \notin task[c].to
      BY <2>1, ZenonT(40)
    <3>3. Pending(e) => Pending(e)'
      BY <2>b, <3>2, KeepPending, ZenonT(40)
    <3>4. task'[e].pc = "send" => task[e].pc = "send" /\ task'[e].msg = task[e].msg
      BY <2>1, <2>b, SMTT(40)
    <3>5. Late(e)
      BY <1>a DEF LateInv
    <3> QED BY <2>b, <3>1, <3>3, <3>4, <3>5, KeepLate, ZenonT(40)
  <2>3. ~Working(c)' /\ task'[c].pc # "deliver"
    BY <2>1, SMTT(40) DEF Working
  <2> QED BY <2>1, <2>2, <2>3, TaskOrder, ZenonT(40)
<1>3. CASE ScanRetained(c)
  <2>1. /\ task[c].pc = "scan" /\ OnlyTask(c)
        /\ \/ map = NoMessage /\ task'[c].pc = "idle"
           \/ map # NoMessage /\ task'[c].pc = "send" /\ task'[c].msg = map
    BY <1>a, <1>3, TaskEffects, ZenonT(40)
  <2>b. /\ \A q \in Clients : q # c => task'[q] = task[q]
        /\ current' = current /\ channel' = channel /\ received' = received
    BY <2>1, ZenonT(40) DEF OnlyTask
  <2>c. ~Working(c)
    BY <2>1, SMTT(40) DEF Working
  <2>2. ASSUME NEW e \in Clients PROVE Late(e)'
    <3>1. Faithful(e)' => Faithful(e)
      BY <2>1, ZenonT(40) DEF OnlyTask, Faithful, Concerned
    <3>2. Pending(e) => Pending(e)'
      BY <2>b, <2>c, KeepPending, ZenonT(40)
    <3>3. Late(e)
      BY <1>a DEF LateInv
    <3>4. CASE e # c
      BY <2>b, <3>1, <3>2, <3>3, <3>4, KeepLate, ZenonT(40)
    <3>5. CASE e = c
      <4>1. SUFFICES ASSUME Faithful(e)', ~Pending(e)'
            PROVE  /\ \A m \in Message : Contains(channel'[e], m) /\ m.by = current'.by => m.id >= current'.id
                   /\ task'[e].pc = "send" => task'[e].msg = current'
                   /\ received'[e] # <<>> /\ LastSent(e)'.msg.by = current'.by =>
                         LastSent(e)'.msg.id >= current'.id
        BY ZenonT(40) DEF Late
      <4>2. /\ \A m \in Message : Contains(channel'[e], m) /\ m.by = current'.by => m.id >= current'.id
            /\ received'[e] # <<>> /\ LastSent(e)'.msg.by = current'.by =>
                  LastSent(e)'.msg.id >= current'.id
        BY <2>b, <3>1, <3>2, <3>3, <4>1, ZenonT(40) DEF Late, LastSent
      <4>3. ASSUME task'[e].pc = "send" PROVE task'[e].msg = current'
        <5>1. map # NoMessage /\ task'[e].msg = map
          BY <2>1, <3>5, <4>3, SMTT(40)
        <5>2. map = Stored(current)
          BY <1>a, <5>1, ZenonT(40) DEF StoreInv
        <5>3. map = current
          BY <5>1, <5>2, ZenonT(40) DEF Stored
        <5> QED BY <2>b, <5>1, <5>3
      <4> QED BY <4>2, <4>3
    <3> QED BY <3>4, <3>5
  <2>3. ~Working(c)' /\ task'[c].pc # "deliver"
    BY <2>1, SMTT(40) DEF Working
  <2> QED BY <2>1, <2>2, <2>3, TaskOrder, ZenonT(40)
<1> QED BY <1>1, <1>2, <1>3

\* The message delivered is newer than all of its publisher in the channel.
LEMMA DeliverOrder ==
    ASSUME RetainInv, OrderInv, NEW c \in Clients, NEW d \in Clients, NEW m \in Message,
           DeliverEffect(c, d, m)
    PROVE  OrderInv'
<1>a. TypeOK /\ TaskInv /\ NumberInv /\ LatestInv /\ OrderedInv /\ FirstInv /\ LateInv
  BY DEF RetainInv, OrderInv
<1>b. /\ task[c].pc = "deliver" /\ task[c].msg = m /\ d \in task[c].to
      /\ task'[c].pc = "deliver" /\ task'[c].msg = m /\ task'[c].to = task[c].to \ {d}
      /\ \A q \in Clients : q # c => task'[q] = task[q]
      /\ \A f \in Clients : f # d => channel'[f] = channel[f] /\ dropped'[f] = dropped[f]
      /\ \/ channel'[d] = Append(channel[d], m) /\ dropped'[d] = dropped[d]
         \/ channel'[d] = channel[d] /\ dropped'[d] = dropped[d] \cup {m}
         \/ channel'[d] = channel[d] /\ dropped'[d] = dropped[d]
      /\ current' = current /\ published' = published /\ durable' = durable /\ received' = received
      /\ subscribed' = subscribed /\ subscribes' = subscribes
  BY ZenonT(40) DEF DeliverEffect
<1>c. /\ Working(c) /\ Working(c)' /\ m.by = c
      /\ task[c].pc # "match" /\ task'[c].pc # "match"
  <2>1. Working(c) /\ Working(c)'
    BY <1>b, ZenonT(40) DEF Working
  <2>2. m.by = c
    BY <1>a, <1>b, <2>1, ZenonT(40) DEF TaskInv
  <2> QED BY <1>b, <2>1, <2>2, SMTT(40)
<1>d. /\ \A a : Contains(channel'[d], a) => Contains(channel[d], a) \/ a = m
      /\ \A a, b : Before(channel'[d], a, b) =>
                     Before(channel[d], a, b) \/ (Contains(channel[d], a) /\ b = m)
  <2>1. channel[d] \in Seq(Message)
    BY <1>a, ZenonT(40) DEF TypeOK
  <2>2. /\ \A a : Contains(Append(channel[d], m), a) => Contains(channel[d], a) \/ a = m
        /\ \A a, b : Before(Append(channel[d], m), a, b) =>
                       Before(channel[d], a, b) \/ (Contains(channel[d], a) /\ b = m)
    BY <2>1, AppendFacts, ZenonT(40)
  <2>3. CASE channel'[d] = Append(channel[d], m)
    BY <2>2, <2>3, ZenonT(40)
  <2>4. CASE channel'[d] = channel[d]
    BY <2>4, ZenonT(40)
  <2> QED BY <1>b, <2>3, <2>4
<1>e. m.id <= published /\ m.id <= m.id
  <2>1. m.id \in Nat
    BY MessageFacts, ZenonT(40)
  <2>2. m.id <= m.id
    BY <2>1, SMTT(40)
  <2>3. task[c].msg.id <= published
    BY <1>a, <1>c, ZenonT(40) DEF NumberInv
  <2> QED BY <1>b, <2>2, <2>3, ZenonT(40)
<1>f. \A a \in Message : Contains(channel[d], a) /\ a.by = c => a.id < m.id /\ a.id <= m.id
  BY <1>a, <1>b, <1>c, ZenonT(40) DEF LatestInv
<1>1. NumberInv'
  <2>1. \A e \in Clients, a \in Message : Contains(channel'[e], a) => a.id <= published
    BY <1>a, <1>b, <1>d, <1>e, ZenonT(40) DEF NumberInv
  <2>2. \A q \in Clients : Working(q)' => task'[q].msg.id <= published
    <3>1. ASSUME NEW q \in Clients, Working(q)' PROVE task'[q].msg.id <= published
      <4>1. CASE q = c
        BY <1>b, <1>e, <4>1, ZenonT(40)
      <4>2. CASE q # c
        BY <1>a, <1>b, <3>1, <4>2, ZenonT(40) DEF NumberInv, Working
      <4> QED BY <4>1, <4>2
    <3> QED BY <3>1
  <2> QED BY <1>a, <1>b, <2>1, <2>2, ZenonT(40) DEF NumberInv
<1>2. LatestInv'
  <2> SUFFICES ASSUME NEW q \in Clients, Working(q)'
               PROVE  /\ current' # NoMessage /\ current'.by = q => current'.id <= task'[q].msg.id
                      /\ \A e \in Clients, a \in Message : Contains(channel'[e], a) /\ a.by = q =>
                            /\ a.id <= task'[q].msg.id
                            /\ task'[q].pc = "match" \/ e \in task'[q].to => a.id < task'[q].msg.id
    BY ZenonT(40) DEF LatestInv
  <2>1. CASE q = c
    <3>1. current' # NoMessage /\ current'.by = q => current'.id <= task'[q].msg.id
      BY <1>a, <1>b, <1>c, <2>1, ZenonT(40) DEF LatestInv
    <3>2. ASSUME NEW e \in Clients, NEW a \in Message, Contains(channel'[e], a), a.by = q
          PROVE  /\ a.id <= m.id
                 /\ e \in task'[c].to => a.id < m.id
      <4>1. CASE e = d
        <5>1. d \notin task'[c].to
          BY <1>b, ZenonT(40)
        <5>2. a.id <= m.id
          BY <1>d, <1>e, <1>f, <2>1, <3>2, <4>1, ZenonT(40)
        <5> QED BY <4>1, <5>1, <5>2, ZenonT(40)
      <4>2. CASE e # d
        BY <1>a, <1>b, <1>c, <2>1, <3>2, <4>2, ZenonT(40) DEF LatestInv
      <4> QED BY <4>1, <4>2
    <3> QED BY <1>b, <1>c, <2>1, <3>1, <3>2, ZenonT(40)
  <2>2. CASE q # c
    <3>1. Working(q) /\ task'[q] = task[q]
      BY <1>b, <2>2, ZenonT(40) DEF Working
    <3>2. \A e \in Clients, a \in Message : Contains(channel'[e], a) /\ a.by = q => Contains(channel[e], a)
      BY <1>b, <1>c, <1>d, <2>2, ZenonT(40)
    <3> QED BY <1>a, <1>b, <3>1, <3>2, ZenonT(40) DEF LatestInv
  <2> QED BY <2>1, <2>2
<1>3. OrderedInv'
  <2> SUFFICES ASSUME NEW e \in Clients, NEW a \in Message, NEW b \in Message,
                      Before(channel'[e], a, b), a.by = b.by
               PROVE  a.id < b.id
    BY ZenonT(40) DEF OrderedInv
  <2>1. CASE e = d
    BY <1>a, <1>c, <1>d, <1>f, <2>1, ZenonT(40) DEF OrderedInv
  <2>2. CASE e # d
    BY <1>a, <1>b, <2>2, ZenonT(40) DEF OrderedInv
  <2> QED BY <2>1, <2>2
<1>4. FirstInv'
  <2> SUFFICES ASSUME NEW e \in Clients, subscribes'[e] = 0
               PROVE  /\ e \notin subscribed' /\ channel'[e] = <<>>
                      /\ \A q \in Clients : task'[q].pc = "deliver" => e \notin task'[q].to
    BY ZenonT(40) DEF FirstInv
  <2>1. /\ e \notin subscribed /\ channel[e] = <<>>
        /\ \A q \in Clients : task[q].pc = "deliver" => e \notin task[q].to
    BY <1>a, <1>b, ZenonT(40) DEF FirstInv
  <2>2. e # d
    BY <1>b, <2>1, ZenonT(40)
  <2> QED BY <1>b, <2>1, <2>2, ZenonT(40)
<1>5. ASSUME NEW e \in Clients PROVE Late(e)'
  <2>1. Faithful(e)' => Faithful(e) /\ dropped'[e] = {}
    BY <1>b, ZenonT(40) DEF Faithful, Concerned
  <2>2. Faithful(e)' /\ Pending(e) => Pending(e)'
    BY <1>a, <2>1, DeliverPending, ZenonT(40) DEF Faithful
  <2>3. \A a \in Message : Contains(channel'[e], a) => Contains(channel[e], a) \/ a = m
    BY <1>b, <1>d, ZenonT(40)
  <2>4. current # NoMessage /\ m.by = current.by => m.id >= current.id
    <3>1. current # NoMessage => current \in Message /\ current.id \in Nat /\ m.id \in Nat
      BY <1>a, MessageFacts, ZenonT(40) DEF TypeOK
    <3>2. current # NoMessage /\ m.by = current.by => current.id <= m.id
      BY <1>a, <1>b, <1>c, ZenonT(40) DEF LatestInv
    <3> QED BY <3>1, <3>2, SMTT(40)
  <2>5. task'[e].pc = "send" => task[e].pc = "send" /\ task'[e].msg = task[e].msg
    BY <1>b, SMTT(40)
  <2>6. Late(e)
    BY <1>a DEF LateInv
  <2>7. CASE current = NoMessage
    BY <1>b, <2>7, ZenonT(40) DEF Late, Faithful, Concerned
  <2>8. CASE current # NoMessage
    BY <1>b, <2>1, <2>2, <2>3, <2>4, <2>5, <2>6, <2>8, KeepLate, ZenonT(40)
  <2> QED BY <2>7, <2>8
<1> QED BY <1>1, <1>2, <1>3, <1>4, <1>5 DEF OrderInv, LateInv

\* Registering a subscription keeps the order: its scan is still to come.
LEMMA RegisterOrder ==
    ASSUME RetainInv, OrderInv, NEW c \in Clients, RegisterEffect(c)
    PROVE  OrderInv'
<1>a. TypeOK /\ NumberInv /\ LatestInv /\ OrderedInv /\ FirstInv /\ LateInv
  BY DEF RetainInv, OrderInv
<1>b. /\ task[c].pc = "idle" /\ task'[c].pc = "scan"
      /\ \A q \in Clients : q # c => task'[q] = task[q]
      /\ subscribed' = subscribed \cup {c}
      /\ received'[c] = <<>> /\ subscribes'[c] = subscribes[c] + 1
      /\ \A e \in Clients : e # c => /\ received'[e] = received[e] /\ dropped'[e] = dropped[e]
                                     /\ subscribes'[e] = subscribes[e]
      /\ current' = current /\ channel' = channel /\ durable' = durable /\ published' = published
  BY ZenonT(40) DEF RegisterEffect
<1>c. ~Working(c) /\ ~Working(c)' /\ task'[c].pc # "deliver" /\ task'[c].pc # "send"
  BY <1>b, SMTT(40) DEF Working
<1>d. subscribes'[c] # 0 /\ (subscribes'[c] = 1 => subscribes[c] = 0)
  <2>1. subscribes[c] \in Nat
    BY <1>a, ZenonT(40) DEF TypeOK
  <2> QED BY <1>b, <2>1, SMTT(40)
<1>1. ASSUME NEW q \in Clients, Working(q)' PROVE Working(q) /\ task'[q] = task[q]
  BY <1>b, <1>c, <1>1, ZenonT(40) DEF Working
<1>2. NumberInv' /\ OrderedInv'
  BY <1>a, <1>b, <1>1, ZenonT(40) DEF NumberInv, OrderedInv
<1>3. LatestInv'
  BY <1>a, <1>b, <1>1, ZenonT(40) DEF LatestInv
<1>4. FirstInv'
  BY <1>a, <1>b, <1>c, <1>d, ZenonT(40) DEF FirstInv
<1>5. ASSUME NEW e \in Clients PROVE Late(e)'
  <2>1. CASE e = c
    <3>1. SUFFICES ASSUME Faithful(c)' PROVE Late(c)'
      BY <2>1, ZenonT(40) DEF Late
    <3>2. channel[c] = <<>>
      BY <1>a, <1>d, <3>1, ZenonT(40) DEF Faithful, FirstInv
    <3>3. \A m \in Message : ~Contains(channel'[c], m)
      BY <1>b, <3>2, EmptyFacts, ZenonT(40)
    <3> QED BY <1>b, <1>c, <3>3, ZenonT(40) DEF Late
  <2>2. CASE e # c
    <3>1. Faithful(e)' => Faithful(e)
      BY <1>b, <2>2, ZenonT(40) DEF Faithful, Concerned
    <3>2. Pending(e) => Pending(e)'
      BY <1>b, <1>c, KeepPending, ZenonT(40)
    <3>3. Late(e)
      BY <1>a DEF LateInv
    <3> QED BY <1>b, <2>2, <3>1, <3>2, <3>3, KeepLate, ZenonT(40)
  <2> QED BY <2>1, <2>2
<1> QED BY <1>2, <1>3, <1>4, <1>5 DEF OrderInv, LateInv

\* A send to a client that loses nothing is its last message.
LEMMA SendLast ==
    ASSUME TypeOK, NEW c \in Clients, NEW m \in Message, NEW x \in Deliveries, SendEffect(c, m, x),
           x.msg = m, dropped'[c] = {}
    PROVE  dropped[c] = {} /\ LastSent(c)'.msg = m
<1>1. received'[c] = Append(received[c], x) /\ dropped'[c] = dropped[c]
  BY ZenonT(40) DEF SendEffect
<1>2. received[c] \in Seq(Deliveries)
  BY ZenonT(40) DEF TypeOK
<1>3. Append(received[c], x)[Len(Append(received[c], x))] = x
  BY <1>2, SMTT(40)
<1>4. LastSent(c)' = x
  BY <1>1, <1>3, ZenonT(40) DEF LastSent
<1> QED BY <1>1, <1>4, ZenonT(40)

\* Sending what the scan found keeps the order.
LEMMA SendRetainedOrder ==
    ASSUME RetainInv, OrderInv, NEW c \in Clients, NEW m \in Message, NEW x \in Deliveries,
           SendRetainedEffect(c, m, x)
    PROVE  OrderInv'
<1>a. TypeOK /\ NumberInv /\ LatestInv /\ OrderedInv /\ FirstInv /\ LateInv
  BY DEF RetainInv, OrderInv
<1>b. /\ x = Sent(m, TRUE) /\ task[c].pc = "send" /\ task[c].msg = m /\ task'[c].pc = "idle"
      /\ \A q \in Clients : q # c => task'[q] = task[q]
      /\ SendEffect(c, m, x)
      /\ \A e \in Clients : e # c => received'[e] = received[e] /\ dropped'[e] = dropped[e]
      /\ current' = current /\ subscribed' = subscribed /\ subscribes' = subscribes
      /\ channel' = channel /\ durable' = durable /\ published' = published
  BY ZenonT(40) DEF SendRetainedEffect, SendEffect
<1>c. ~Working(c) /\ ~Working(c)' /\ task'[c].pc # "deliver" /\ task'[c].pc # "send"
  BY <1>b, SMTT(40) DEF Working
<1>1. ASSUME NEW q \in Clients, Working(q)' PROVE Working(q) /\ task'[q] = task[q]
  BY <1>b, <1>c, <1>1, ZenonT(40) DEF Working
<1>2. NumberInv' /\ OrderedInv'
  BY <1>a, <1>b, <1>1, ZenonT(40) DEF NumberInv, OrderedInv
<1>3. LatestInv'
  BY <1>a, <1>b, <1>1, ZenonT(40) DEF LatestInv
<1>4. FirstInv'
  BY <1>a, <1>b, <1>c, ZenonT(40) DEF FirstInv
<1>5. ASSUME NEW e \in Clients PROVE Late(e)'
  <2>0. Late(e)
    BY <1>a DEF LateInv
  <2>1. Pending(e) => Pending(e)'
    BY <1>b, <1>c, KeepPending, ZenonT(40)
  <2>2. CASE e = c
    <3>1. SUFFICES ASSUME Faithful(c)', ~Pending(c)' PROVE Late(c)'
      BY <2>2, ZenonT(40) DEF Late
    <3>2. dropped'[c] = {}
      BY <3>1 DEF Faithful
    <3>3. x.msg = m
      BY <1>b, SentFacts, ZenonT(40)
    <3>4. dropped[c] = {} /\ LastSent(c)'.msg = m
      BY <1>a, <1>b, <3>2, <3>3, SendLast, ZenonT(40)
    <3>5. Faithful(c)
      BY <1>b, <3>1, <3>4, ZenonT(40) DEF Faithful, Concerned
    <3>6. /\ \A a \in Message : Contains(channel[c], a) /\ a.by = current.by => a.id >= current.id
          /\ m = current
      BY <1>b, <2>0, <2>1, <2>2, <3>1, <3>5, ZenonT(40) DEF Late
    <3>7. m.id >= current.id
      <4>1. m.id \in Nat
        BY MessageFacts, ZenonT(40)
      <4> QED BY <3>6, <4>1, SMTT(40)
    <3> QED BY <1>b, <1>c, <3>4, <3>6, <3>7, ZenonT(40) DEF Late
  <2>3. CASE e # c
    <3>1. Faithful(e)' => Faithful(e)
      BY <1>b, <2>3, ZenonT(40) DEF Faithful, Concerned
    <3> QED BY <1>b, <2>0, <2>1, <2>3, <3>1, KeepLate, ZenonT(40)
  <2> QED BY <2>2, <2>3
<1> QED BY <1>2, <1>3, <1>4, <1>5 DEF OrderInv, LateInv

\* Sending the first message of the channel keeps the order.
LEMMA SendLiveOrder ==
    ASSUME RetainInv, OrderInv, NEW c \in Clients, NEW m \in Message, NEW x \in Deliveries,
           SendLiveEffect(c, m, x)
    PROVE  OrderInv'
<1>a. TypeOK /\ NumberInv /\ LatestInv /\ OrderedInv /\ FirstInv /\ LateInv
  BY DEF RetainInv, OrderInv
<1>b. /\ x = Sent(m, FALSE) /\ task[c].pc = "idle" /\ channel[c] # <<>> /\ m = Head(channel[c])
      /\ channel'[c] = Tail(channel[c])
      /\ \A e \in Clients : e # c => channel'[e] = channel[e]
      /\ SendEffect(c, m, x)
      /\ \A e \in Clients : e # c => received'[e] = received[e] /\ dropped'[e] = dropped[e]
      /\ current' = current /\ subscribed' = subscribed /\ subscribes' = subscribes
      /\ task' = task /\ durable' = durable /\ published' = published
  BY ZenonT(40) DEF SendLiveEffect, SendEffect
<1>c. /\ Contains(channel[c], m)
      /\ \A a : Contains(channel'[c], a) => Contains(channel[c], a) /\ Before(channel[c], m, a)
      /\ \A a, b : Before(channel'[c], a, b) => Before(channel[c], a, b)
      /\ \A a : Contains(channel[c], a) => a = m \/ Contains(channel'[c], a)
  <2>1. channel[c] \in Seq(Message)
    BY <1>a, ZenonT(40) DEF TypeOK
  <2>2. /\ Contains(channel[c], Head(channel[c]))
        /\ \A a : Contains(Tail(channel[c]), a) =>
                    Contains(channel[c], a) /\ Before(channel[c], Head(channel[c]), a)
        /\ \A a, b : Before(Tail(channel[c]), a, b) => Before(channel[c], a, b)
        /\ \A a : Contains(channel[c], a) => a = Head(channel[c]) \/ Contains(Tail(channel[c]), a)
    BY <1>b, <2>1, TailFacts, ZenonT(40)
  <2> QED BY <1>b, <2>2, ZenonT(40)
<1>d. /\ \A e \in Clients : \A a : Contains(channel'[e], a) => Contains(channel[e], a)
      /\ \A e \in Clients : \A a, b : Before(channel'[e], a, b) => Before(channel[e], a, b)
  BY <1>b, <1>c, ZenonT(40)
<1>1. \A q \in Clients : Working(q)' => Working(q)
  BY <1>b, ZenonT(40) DEF Working
<1>2. NumberInv' /\ OrderedInv'
  BY <1>a, <1>b, <1>d, <1>1, ZenonT(40) DEF NumberInv, OrderedInv
<1>3. LatestInv'
  BY <1>a, <1>b, <1>d, <1>1, ZenonT(40) DEF LatestInv
<1>4. FirstInv'
  BY <1>a, <1>b, ZenonT(40) DEF FirstInv
<1>5. ASSUME NEW e \in Clients PROVE Late(e)'
  <2>0. Late(e)
    BY <1>a DEF LateInv
  <2>1. \A q \in Clients : /\ Matching(q, current) => Matching(q, current)'
                           /\ Delivering(q, current, e) => Delivering(q, current, e)'
    BY <1>b, ZenonT(40) DEF Matching, Delivering
  <2>2. CASE e = c
    <3>1. SUFFICES ASSUME Faithful(c)', ~Pending(c)' PROVE Late(c)'
      BY <2>2, ZenonT(40) DEF Late
    <3>2. dropped'[c] = {}
      BY <3>1 DEF Faithful
    <3>3. x.msg = m
      BY <1>b, SentFacts, ZenonT(40)
    <3>4. dropped[c] = {} /\ LastSent(c)'.msg = m
      BY <1>a, <1>b, <3>2, <3>3, SendLast, ZenonT(40)
    <3>5. Faithful(c) /\ current \in Message
      BY <1>a, <1>b, <3>1, <3>4, ZenonT(40) DEF Faithful, Concerned, TypeOK
    <3>6. /\ \A a \in Message : Contains(channel'[c], a) /\ a.by = current.by => a.id >= current.id
          /\ m.by = current.by => m.id >= current.id
      <4>1. CASE m = current
        <5>1. \A a \in Message : Contains(channel'[c], a) /\ a.by = current.by => current.id < a.id
          BY <1>a, <1>c, <4>1, ZenonT(40) DEF OrderedInv
        <5>2. \A a \in Message : a.id \in Nat
          BY MessageFacts, ZenonT(40)
        <5>3. \A a \in Message : current.id < a.id => a.id >= current.id
          BY <3>5, <5>2, SMTT(40)
        <5>4. m.id >= current.id
          BY <3>5, <4>1, <5>2, SMTT(40)
        <5> QED BY <5>1, <5>3, <5>4, ZenonT(40)
      <4>2. CASE m # current
        <5>1. ~Pending(c)
          BY <1>b, <1>c, <2>1, <2>2, <3>1, <4>2, ZenonT(40) DEF Pending
        <5> QED BY <1>c, <2>0, <2>2, <3>5, <5>1, ZenonT(40) DEF Late
      <4> QED BY <4>1, <4>2
    <3>7. task'[c].pc # "send"
      BY <1>b, SMTT(40)
    <3> QED BY <1>b, <3>4, <3>6, <3>7, ZenonT(40) DEF Late
  <2>3. CASE e # c
    <3>1. Faithful(e)' => Faithful(e)
      BY <1>b, <2>3, ZenonT(40) DEF Faithful, Concerned
    <3>2. Pending(e) => Pending(e)'
      BY <1>b, <2>1, <2>3, ZenonT(40) DEF Pending
    <3> QED BY <1>b, <2>0, <2>3, <3>1, <3>2, KeepLate, ZenonT(40)
  <2> QED BY <2>2, <2>3
<1> QED BY <1>2, <1>3, <1>4, <1>5 DEF OrderInv, LateInv

\* A client that leaves takes its channel along.
LEMMA DisconnectOrder ==
    ASSUME RetainInv, OrderInv, NEW c \in Clients, DisconnectEffect(c)
    PROVE  OrderInv'
<1>a. TypeOK /\ NumberInv /\ LatestInv /\ OrderedInv /\ FirstInv /\ LateInv
  BY DEF RetainInv, OrderInv
<1>b. /\ ~Working(c) /\ task'[c].pc = "idle" /\ channel'[c] = <<>>
      /\ \A q \in Clients : q # c => task'[q] = task[q] /\ channel'[q] = channel[q]
      /\ subscribed' = subscribed \ {c} /\ subscribes' = subscribes
      /\ current' = current /\ received' = received /\ dropped' = dropped
      /\ durable' = durable /\ published' = published
  BY ZenonT(40) DEF DisconnectEffect
<1>c. ~Working(c)' /\ task'[c].pc # "deliver" /\ task'[c].pc # "send"
  BY <1>b, SMTT(40) DEF Working
<1>d. /\ \A e \in Clients : \A a : Contains(channel'[e], a) => Contains(channel[e], a)
      /\ \A e \in Clients : \A a, b : Before(channel'[e], a, b) => Before(channel[e], a, b)
  <2>1. \A a, b : ~Contains(channel'[c], a) /\ ~Before(channel'[c], a, b)
    BY <1>b, EmptyFacts, ZenonT(40)
  <2> QED BY <1>b, <2>1, ZenonT(40)
<1>1. ASSUME NEW q \in Clients, Working(q)' PROVE Working(q) /\ task'[q] = task[q]
  BY <1>b, <1>c, <1>1, ZenonT(40) DEF Working
<1>2. NumberInv' /\ OrderedInv'
  BY <1>a, <1>b, <1>d, <1>1, ZenonT(40) DEF NumberInv, OrderedInv
<1>3. LatestInv'
  BY <1>a, <1>b, <1>d, <1>1, ZenonT(40) DEF LatestInv
<1>4. FirstInv'
  BY <1>a, <1>b, <1>c, ZenonT(40) DEF FirstInv
<1>5. ASSUME NEW e \in Clients PROVE Late(e)'
  <2>1. CASE e = c
    BY <1>b, <2>1, ZenonT(40) DEF Late, Faithful, Concerned
  <2>2. CASE e # c
    <3>1. Faithful(e)' => Faithful(e)
      BY <1>b, ZenonT(40) DEF Faithful, Concerned
    <3>2. Pending(e) => Pending(e)'
      BY <1>b, <2>2, KeepPending, ZenonT(40)
    <3>3. Late(e)
      BY <1>a DEF LateInv
    <3> QED BY <1>b, <2>2, <3>1, <3>2, <3>3, KeepLate, ZenonT(40)
  <2> QED BY <2>1, <2>2
<1> QED BY <1>2, <1>3, <1>4, <1>5 DEF OrderInv, LateInv

\* Steps that move no message keep the order.
LEMMA QuietOrder ==
    ASSUME RetainInv, OrderInv, subscribed' \subseteq subscribed,
           durable' = durable \/ durable' = disk,
           UNCHANGED <<current, task, channel, received, dropped, published, subscribes>>
    PROVE  OrderInv'
<1>a. TypeOK /\ StoreInv /\ NumberInv /\ LatestInv /\ OrderedInv /\ FirstInv /\ LateInv
  BY DEF RetainInv, OrderInv
<1>b. /\ current' = current /\ task' = task /\ channel' = channel /\ received' = received
      /\ dropped' = dropped /\ published' = published /\ subscribes' = subscribes
  OBVIOUS
<1>c. durable' # NoMessage => durable'.id <= published
  <2>1. disk # NoMessage => current # NoMessage /\ disk = current
    BY <1>a, ZenonT(40) DEF StoreInv, Stored
  <2>2. CASE durable' = durable
    BY <1>a, <2>2, ZenonT(40) DEF NumberInv
  <2>3. CASE durable' = disk
    <3>1. disk # NoMessage => disk.id <= published
      BY <1>a, <2>1, ZenonT(40) DEF NumberInv
    <3> QED BY <2>3, <3>1, ZenonT(40)
  <2> QED BY <2>2, <2>3
<1>1. NumberInv'
  BY <1>a, <1>b, <1>c, ZenonT(40) DEF NumberInv, Working
<1>2. LatestInv'
  BY <1>a, <1>b, ZenonT(40) DEF LatestInv, Working
<1>3. OrderedInv' /\ FirstInv'
  BY <1>a, <1>b, ZenonT(40) DEF OrderedInv, FirstInv
<1>4. ASSUME NEW e \in Clients PROVE Late(e)'
  <2>1. Faithful(e)' => Faithful(e)
    BY <1>b, ZenonT(40) DEF Faithful, Concerned
  <2>2. Pending(e) => Pending(e)'
    BY <1>b, ZenonT(40) DEF Pending, Matching, Delivering
  <2>3. Late(e)
    BY <1>a DEF LateInv
  <2> QED BY <1>b, <2>1, <2>2, <2>3, KeepLate, ZenonT(40)
<1> QED BY <1>1, <1>2, <1>3, <1>4 DEF OrderInv, LateInv

\* Every task is idle, every channel empty and nobody subscribed.
Empty ==
    /\ task = [c \in Clients |-> Idle] /\ channel = [c \in Clients |-> <<>>] /\ subscribed = {}
    /\ current # NoMessage => current.id <= published
    /\ durable # NoMessage => durable.id <= published

\* Where nothing is under way all is in order.
LEMMA EmptyOrder == Empty => OrderInv
<1> SUFFICES ASSUME Empty PROVE OrderInv
  OBVIOUS
<1>0. /\ task = [c \in Clients |-> Idle] /\ channel = [c \in Clients |-> <<>>] /\ subscribed = {}
      /\ current # NoMessage => current.id <= published
      /\ durable # NoMessage => durable.id <= published
  BY DEF Empty
<1>1. \A c \in Clients : task[c].pc = "idle" /\ channel[c] = <<>>
  BY <1>0, TaskValues, ZenonT(40)
<1>2. \A c \in Clients : ~Working(c) /\ task[c].pc # "deliver"
  BY <1>1, SMTT(40) DEF Working
<1>3. \A c \in Clients : \A a, b : ~Contains(channel[c], a) /\ ~Before(channel[c], a, b)
  BY <1>1, EmptyFacts, ZenonT(40)
<1>4. NumberInv /\ LatestInv /\ OrderedInv
  BY <1>0, <1>2, <1>3, ZenonT(40) DEF NumberInv, LatestInv, OrderedInv
<1>5. FirstInv /\ LateInv
  BY <1>0, <1>1, <1>2, ZenonT(40) DEF FirstInv, LateInv, Late, Faithful, Concerned
<1> QED BY <1>4, <1>5 DEF OrderInv

\* The same in the next state.
LEMMA EmptyOrderNext == Empty' => OrderInv'
  BY EmptyOrder, PTL

\* Every step keeps the order.
LEMMA OrderStep ==
    ASSUME RetainInv, OrderInv, [Next]_vars
    PROVE  OrderInv'
<1>a. TypeOK /\ NumberInv
  BY DEF RetainInv, OrderInv
<1>1. ASSUME NEW c \in Clients, Publish(c) PROVE OrderInv'
  <2>1. CASE StoreMessage(c)
    BY <1>a, <2>1, StoreMessageEffect, StoreOrder, ZenonT(40)
  <2>2. CASE MatchSubscribers(c) \/ PublishDone(c)
    BY <2>2, RouteOrder, ZenonT(40)
  <2>3. ASSUME NEW d \in Clients, DeliverOne(c, d) PROVE OrderInv'
    BY <1>a, <2>3, DeliverOneEffect, DeliverOrder, ZenonT(40)
  <2> QED BY <1>1, <2>1, <2>2, <2>3, ZenonT(40) DEF Publish
<1>2. ASSUME NEW c \in Clients, Subscribe(c) PROVE OrderInv'
  <2>1. CASE RegisterFilter(c)
    BY <1>a, <2>1, SubscribeEffects, RegisterOrder, ZenonT(40)
  <2>2. CASE ScanRetained(c)
    BY <2>2, RouteOrder, ZenonT(40)
  <2>3. CASE SendRetained(c)
    BY <1>a, <2>3, SubscribeEffects, SendRetainedOrder, ZenonT(40)
  <2> QED BY <1>2, <2>1, <2>2, <2>3 DEF Subscribe
<1>3. ASSUME NEW c \in Clients, SendLive(c) PROVE OrderInv'
  BY <1>a, <1>3, SubscribeEffects, SendLiveOrder, ZenonT(40)
<1>4. ASSUME NEW c \in Clients, Unsubscribe(c) PROVE OrderInv'
  <2>1. /\ subscribed' \subseteq subscribed /\ durable' = durable
        /\ UNCHANGED <<current, task, channel, received, dropped, published, subscribes>>
    BY <1>4, ZenonT(40) DEF Unsubscribe, storeVars, outVars
  <2> QED BY <2>1, QuietOrder, ZenonT(40)
<1>5. ASSUME NEW c \in Clients, Connect(c) PROVE OrderInv'
  <2>1. /\ subscribed' \subseteq subscribed /\ durable' = durable
        /\ UNCHANGED <<current, task, channel, received, dropped, published, subscribes>>
    BY <1>5, ZenonT(40) DEF Connect, storeVars, outVars
  <2> QED BY <2>1, QuietOrder, ZenonT(40)
<1>6. ASSUME NEW c \in Clients, Disconnect(c) PROVE OrderInv'
  BY <1>a, <1>6, DisconnectEffects, DisconnectOrder, ZenonT(40)
<1>7. CASE Flush
  <2>1. /\ subscribed' \subseteq subscribed /\ durable' = disk
        /\ UNCHANGED <<current, task, channel, received, dropped, published, subscribes>>
    BY <1>7, ZenonT(40) DEF Flush, storeVars, clientVars, outVars
  <2> QED BY <2>1, QuietOrder, ZenonT(40)
<1>8. CASE Restart
  <2>1. /\ task' = [c \in Clients |-> Idle] /\ channel' = [c \in Clients |-> <<>>]
        /\ subscribed' = {} /\ current' = durable /\ durable' = durable /\ published' = published
    BY <1>8, ZenonT(40) DEF Restart
  <2>2. durable # NoMessage => durable.id <= published
    BY <1>a DEF NumberInv
  <2> QED BY <2>1, <2>2, EmptyOrderNext, ZenonT(40) DEF Empty
<1>9. CASE UNCHANGED vars
  <2>1. /\ subscribed' \subseteq subscribed /\ durable' = durable
        /\ UNCHANGED <<current, task, channel, received, dropped, published, subscribes>>
    BY <1>9, ZenonT(40) DEF vars, storeVars, clientVars, outVars
  <2> QED BY <2>1, QuietOrder, ZenonT(40)
<1> QED BY <1>1, <1>2, <1>3, <1>4, <1>5, <1>6, <1>7, <1>8, <1>9, ZenonT(40) DEF Next

\* The broker sends a subscriber nothing older after the message in force: the
\* scan's copy goes out before the channel is served, and the channel keeps
\* the order of each publisher.
THEOREM LastSentIsNotOlder == Spec => []LastSentNotOlder
<1>1. Init => OrderInv
  BY EmptyOrder, ZenonT(40) DEF Init, Empty
<1>2. RetainInv /\ OrderInv /\ [Next]_vars => OrderInv'
  BY OrderStep
<1>3. ASSUME RetainInv, OrderInv PROVE LastSentNotOlder
  <2>a. TypeOK /\ LateInv
    BY <1>3 DEF RetainInv, OrderInv
  <2>1. SUFFICES ASSUME NEW c \in subscribed, Settled(c), subscribes[c] = 1, received[c] # <<>>,
                        dropped[c] = {}, current # NoMessage, current.by # c,
                        current.by = LastSent(c).msg.by
                 PROVE  LastSent(c).msg.id >= current.id
    BY ZenonT(40) DEF LastSentNotOlder
  <2>2. c \in Clients /\ Faithful(c)
    BY <2>a, <2>1, ZenonT(40) DEF TypeOK, Faithful, Concerned
  <2>3. ~Pending(c)
    <3>1. \A q \in Clients : ~Matching(q, current) /\ ~Delivering(q, current, c)
      BY <2>1, SMTT(40) DEF Matching, Delivering, Settled
    <3>2. ~Contains(channel[c], current)
      BY <2>1, EmptyFacts, ZenonT(40) DEF Settled
    <3> QED BY <3>1, <3>2, ZenonT(40) DEF Pending
  <2> QED BY <2>a, <2>1, <2>2, <2>3, ZenonT(40) DEF LateInv, Late
<1> QED BY <1>1, <1>2, <1>3, RetainInvariant, PTL DEF Spec
=============================================================================
