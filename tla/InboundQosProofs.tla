-------------------------- MODULE InboundQosProofs --------------------------
(***************************************************************************)
(* Proofs about InboundQos: for any number of messages, identifiers,       *)
(* connections and retransmissions, a QoS 2 message is routed at most once *)
(* on a connection, stays refused once refused, and is not acknowledged    *)
(* without having been routed or refused.                                  *)
(*                                                                         *)
(* The tracker holds nothing but identifiers.  That an identifier in it    *)
(* means the message the publisher means rests on the order of the packets *)
(* on both ways, which HandshakeInv states.                                *)
(***************************************************************************)
EXTENDS InboundQos, TLAPS

----------------------------------------------------------------------------
(***************************************************************************)
(* The inductive invariant.                                                *)
(***************************************************************************)
Contains(s, a) == \E i \in 1 .. Len(s) : s[i] = a
Before(s, a, b) == \E i, j \in 1 .. Len(s) : i < j /\ s[i] = a /\ s[j] = b

PublishPackets ==
    {Publish(0, m) : m \in {n \in Messages : Level[n] = 0}}
    \cup {Publish(p, m) : p \in Pids, m \in {n \in Messages : Level[n] > 0}}
PubrelPackets == {Ack("PUBREL", p) : p \in Pids}
Answers == {Ack(t, p) : t \in {"PUBACK", "PUBREC", "PUBCOMP"}, p \in Pids}

TypeOK ==
    /\ up \in BOOLEAN
    /\ conns \in Nat /\ resends \in Nat
    /\ seen \subseteq Pids /\ owed \subseteq Pids
    /\ toBroker \in Seq(PublishPackets \cup PubrelPackets)
    /\ toClient \in Seq(Answers)
    /\ flight \in [Pids -> Flight \cup {Free}]
    /\ unsent \subseteq Messages /\ done \subseteq Messages
    /\ refused \subseteq Messages /\ refusedHere \subseteq Messages
    /\ routed \in [Messages -> Nat] /\ here \in [Messages -> Nat]

\* The publisher waits for PUBREC, for PUBCOMP, for PUBACK.
Awaiting(p)  == flight[p] # Free /\ flight[p].stage = "publish" /\ Level[flight[p].msg] = 2
Releasing(p) == flight[p] # Free /\ flight[p].stage = "release"
Holds(p, m)  == flight[p] # Free /\ flight[p].msg = m

\* The publisher's own records: identifiers stand for messages it has sent.
FlightInv ==
    \A p \in Pids : flight[p] # Free =>
        /\ flight[p].msg \notin unsent
        /\ Level[flight[p].msg] > 0
        /\ Releasing(p) => Level[flight[p].msg] = 2
        /\ \A q \in Pids : Holds(q, flight[p].msg) => q = p

\* Nothing is under way without a connection.
DownInv == ~up => toBroker = <<>> /\ toClient = <<>> /\ seen = {} /\ owed = {}

\* An identifier that is still to be resumed was not used on the connection.
OwedInv ==
    \A p \in owed :
        /\ flight[p] # Free /\ p \notin seen
        /\ ~Contains(toBroker, Ack("PUBREL", p))
        /\ \A m \in Messages : ~Contains(toBroker, Publish(p, m))
        /\ \A t \in {"PUBACK", "PUBREC", "PUBCOMP"} : ~Contains(toClient, Ack(t, p))

\* An identifier in the tracker is that of a QoS 2 message which was routed or
\* refused; while the publisher waits for PUBREC, no PUBREL is under way.
SeenInv ==
    \A p \in seen :
        /\ flight[p] # Free /\ Level[flight[p].msg] = 2 /\ Answered(flight[p].msg)
        /\ Awaiting(p) => ~Contains(toBroker, Ack("PUBREL", p))

\* QoS 2 packets to the broker: the publisher still holds the message; a PUBREL
\* before it is a late copy of an earlier handshake's, one after it its own.
ToBrokerInv ==
    \A p \in Pids, m \in QoS2 :
        /\ Contains(toBroker, Publish(p, m)) => Holds(p, m) /\ (Releasing(p) => p \in seen)
        /\ Before(toBroker, Ack("PUBREL", p), Publish(p, m)) => ~Releasing(p)
        /\ Before(toBroker, Publish(p, m), Ack("PUBREL", p)) => Releasing(p)

\* Packets to the publisher: PUBREC before PUBCOMP within a handshake, and after
\* the PUBCOMPs of earlier ones.
ToClientInv ==
    \A p \in Pids :
        /\ Contains(toClient, Ack("PUBREC", p)) =>
              Releasing(p) \/ (Awaiting(p) /\ p \in seen)
        /\ Before(toClient, Ack("PUBCOMP", p), Ack("PUBREC", p)) => ~Releasing(p)
        /\ Before(toClient, Ack("PUBREC", p), Ack("PUBCOMP", p)) => Releasing(p)
        /\ Contains(toClient, Ack("PUBCOMP", p)) /\ Releasing(p) =>
              p \notin seen /\ \A m \in QoS2 : ~Contains(toBroker, Publish(p, m))

\* Messages that were looked at on this connection: routed or refused, never both,
\* and while a PUBREC is awaited the identifier is in the tracker.
HereInv ==
    \A m \in QoS2 :
        /\ here[m] > 0 \/ m \in refusedHere =>
              m \notin unsent /\ \A p \in Pids : Awaiting(p) /\ Holds(p, m) => p \in seen
        /\ here[m] <= 1
        /\ m \in refusedHere => here[m] = 0

\* What the publisher was told.
ToldInv ==
    /\ \A p \in Pids : Releasing(p) => Answered(flight[p].msg)
    /\ \A m \in done : Level[m] = 2 => Answered(m)

HandshakeInv ==
    /\ TypeOK /\ FlightInv /\ DownInv /\ OwedInv /\ SeenInv
    /\ ToBrokerInv /\ ToClientInv /\ HereInv /\ ToldInv

\* QoS 1 without retransmissions: one packet, PUBLISH or PUBACK, is under way for
\* an identifier, and it belongs to the message the publisher holds.
QoS1 == {m \in Messages : Level[m] = 1}

SingleInv ==
    resends = 0 =>
        /\ \A m \in done \cap QoS1 : Answered(m)
        /\ \A p \in Pids : Contains(toClient, Ack("PUBACK", p)) =>
              /\ flight[p] # Free /\ flight[p].msg \in QoS1 /\ Answered(flight[p].msg)
              /\ \A m \in QoS1 : ~Contains(toBroker, Publish(p, m))
        /\ \A p \in Pids : ~Before(toClient, Ack("PUBACK", p), Ack("PUBACK", p))
        /\ \A p \in Pids, m \in QoS1 :
              /\ Contains(toBroker, Publish(p, m)) => Holds(p, m)
              /\ ~Before(toBroker, Publish(p, m), Publish(p, m))

----------------------------------------------------------------------------
(***************************************************************************)
(* Sequences and packets.                                                  *)
(***************************************************************************)

\* Taking the first element: what remains was there, behind it.
LEMMA TailFacts ==
    ASSUME NEW S, NEW s \in Seq(S), s # <<>>
    PROVE  /\ Tail(s) \in Seq(S) /\ Head(s) \in S
           /\ Contains(s, Head(s))
           /\ \A a : Contains(Tail(s), a) => Contains(s, a) /\ Before(s, Head(s), a)
           /\ \A a, b : Before(Tail(s), a, b) => Before(s, a, b)
<1>1. Tail(s) \in Seq(S) /\ Head(s) \in S /\ Head(s) = s[1] /\ Len(s) \in Nat /\ Len(s) >= 1
  BY SMTT(40)
<1>2. Len(Tail(s)) = Len(s) - 1 /\ \A i \in 1 .. Len(Tail(s)) : Tail(s)[i] = s[i + 1]
  BY SMTT(40)
<1>3. Contains(s, Head(s))
  BY <1>1, SMTT(40) DEF Contains
<1>4. ASSUME NEW a, Contains(Tail(s), a) PROVE Contains(s, a) /\ Before(s, Head(s), a)
  <2>1. PICK i \in 1 .. Len(Tail(s)) : Tail(s)[i] = a
    BY <1>4 DEF Contains
  <2>2. i + 1 \in 1 .. Len(s) /\ 1 \in 1 .. Len(s) /\ 1 < i + 1 /\ s[i + 1] = a
    BY <1>1, <1>2, <2>1, SMTT(40)
  <2> QED BY <1>1, <2>2, ZenonT(40) DEF Contains, Before
<1>5. ASSUME NEW a, NEW b, Before(Tail(s), a, b) PROVE Before(s, a, b)
  <2>1. PICK i, j \in 1 .. Len(Tail(s)) : i < j /\ Tail(s)[i] = a /\ Tail(s)[j] = b
    BY <1>5 DEF Before
  <2>2. /\ i + 1 \in 1 .. Len(s) /\ j + 1 \in 1 .. Len(s) /\ i + 1 < j + 1
        /\ s[i + 1] = a /\ s[j + 1] = b
    BY <1>1, <1>2, <2>1, SMTT(40)
  <2> QED BY <2>2, ZenonT(40) DEF Before
<1> QED BY <1>1, <1>3, <1>4, <1>5, ZenonT(40)

\* Adding an element: what is there was there before or is the new last one.
LEMMA AppendFacts ==
    ASSUME NEW S, NEW s \in Seq(S), NEW x \in S
    PROVE  /\ Append(s, x) \in Seq(S)
           /\ \A a : Contains(Append(s, x), a) => Contains(s, a) \/ a = x
           /\ \A a, b : Before(Append(s, x), a, b) => Before(s, a, b) \/ (Contains(s, a) /\ b = x)
<1>1. Append(s, x) \in Seq(S) /\ Len(s) \in Nat /\ Len(Append(s, x)) = Len(s) + 1
  BY SMTT(40)
<1>2. /\ \A i \in 1 .. Len(s) : Append(s, x)[i] = s[i]
      /\ Append(s, x)[Len(s) + 1] = x
  BY SMTT(40)
<1>3. ASSUME NEW a, Contains(Append(s, x), a) PROVE Contains(s, a) \/ a = x
  BY <1>1, <1>2, <1>3, SMTT(40) DEF Contains
<1>4. ASSUME NEW a, NEW b, Before(Append(s, x), a, b)
      PROVE  Before(s, a, b) \/ (Contains(s, a) /\ b = x)
  <2>1. PICK i, j \in 1 .. Len(s) + 1 : i < j /\ Append(s, x)[i] = a /\ Append(s, x)[j] = b
    BY <1>1, <1>4 DEF Before
  <2>2. i \in 1 .. Len(s) /\ s[i] = a
    BY <1>1, <1>2, <2>1, SMTT(40)
  <2>3. CASE j = Len(s) + 1
    BY <1>2, <2>1, <2>2, <2>3, ZenonT(40) DEF Contains
  <2>4. CASE j # Len(s) + 1
    <3>1. j \in 1 .. Len(s) /\ s[j] = b
      BY <1>1, <1>2, <2>1, <2>4, SMTT(40)
    <3> QED BY <2>1, <2>2, <3>1, ZenonT(40) DEF Before
  <2> QED BY <2>3, <2>4
<1> QED BY <1>1, <1>3, <1>4, ZenonT(40)

\* Nothing is in an empty sequence.
LEMMA EmptyFacts ==
    /\ \A a : ~Contains(<<>>, a)
    /\ \A a, b : ~Before(<<>>, a, b)
  BY SMTT(40) DEF Contains, Before

\* What comes before something is there.
LEMMA BeforeContains ==
    ASSUME NEW s, NEW a, NEW b, Before(s, a, b)
    PROVE  Contains(s, a) /\ Contains(s, b)
  BY ZenonT(40) DEF Before, Contains

\* What a sequence contains is of its element type.
LEMMA ContainsType ==
    ASSUME NEW S, NEW s \in Seq(S), NEW a, Contains(s, a)
    PROVE  a \in S
  BY SMTT(40) DEF Contains

\* Packets are told apart by what they carry.
LEMMA Packets ==
    /\ \A p, q, m, n : Publish(p, m) = Publish(q, n) => p = q /\ m = n
    /\ \A t, u, p, q : Ack(t, p) = Ack(u, q) => t = u /\ p = q
    /\ \A p, q, m, t : Publish(p, m) = Ack(t, q) => t = "PUBLISH"
    /\ \A p, m : Publish(p, m).type = "PUBLISH" /\ Publish(p, m).pid = p /\ Publish(p, m).msg = m
    /\ \A t, p : Ack(t, p).type = t /\ Ack(t, p).pid = p
<1>1. \A p, m : Publish(p, m).type = "PUBLISH" /\ Publish(p, m).pid = p /\ Publish(p, m).msg = m
  BY DEF Publish
<1>2. \A t, p : Ack(t, p).type = t /\ Ack(t, p).pid = p
  BY DEF Ack
<1>3. ASSUME NEW p, NEW q, NEW m, NEW n, Publish(p, m) = Publish(q, n) PROVE p = q /\ m = n
  BY <1>1, <1>3, SMTT(40)
<1>4. ASSUME NEW t, NEW u, NEW p, NEW q, Ack(t, p) = Ack(u, q) PROVE t = u /\ p = q
  BY <1>2, <1>4, SMTT(40)
<1>5. ASSUME NEW p, NEW q, NEW m, NEW t, Publish(p, m) = Ack(t, q) PROVE t = "PUBLISH"
  BY <1>1, <1>2, <1>5, SMTT(40)
<1> QED BY <1>1, <1>2, <1>3, <1>4, <1>5, ZenonT(40)

\* Which packets there are.
ValidPublish(p, m) ==
    /\ m \in Messages
    /\ (Level[m] = 0 /\ p = 0) \/ (Level[m] > 0 /\ p \in Pids)

\* What packets there are in each direction.
LEMMA PacketTypes ==
    /\ \A p, m : ValidPublish(p, m) => Publish(p, m) \in PublishPackets
    /\ \A h \in PublishPackets : \E p, m : h = Publish(p, m) /\ ValidPublish(p, m)
    /\ \A h : h \in PubrelPackets <=> \E p \in Pids : h = Ack("PUBREL", p)
    /\ \A h : h \in Answers <=>
          \E t \in {"PUBACK", "PUBREC", "PUBCOMP"}, p \in Pids : h = Ack(t, p)
<1>1. \A p, m : ValidPublish(p, m) => Publish(p, m) \in PublishPackets
  BY SMTT(40) DEF PublishPackets, ValidPublish
<1>2. \A h \in PublishPackets : \E p, m : h = Publish(p, m) /\ ValidPublish(p, m)
  BY SMTT(40) DEF PublishPackets, ValidPublish
<1>3. \A h : h \in PubrelPackets <=> \E p \in Pids : h = Ack("PUBREL", p)
  BY ZenonT(40) DEF PubrelPackets
<1>4. \A h : h \in Answers <=>
          \E t \in {"PUBACK", "PUBREC", "PUBCOMP"}, p \in Pids : h = Ack(t, p)
  BY SMTT(40) DEF Answers
<1> QED BY <1>1, <1>2, <1>3, <1>4, ZenonT(40)

\* What changes the publisher's records changes nothing else about identifiers.
LEMMA SameFlight ==
    ASSUME UNCHANGED flight
    PROVE  \A p : /\ Awaiting(p)' <=> Awaiting(p)
                  /\ Releasing(p)' <=> Releasing(p)
                  /\ \A m : Holds(p, m)' <=> Holds(p, m)
  BY ZenonT(40) DEF Awaiting, Releasing, Holds

\* The head of the queue is of one of the two types.
LEMMA HeadToBroker ==
    ASSUME TypeOK, toBroker # <<>>
    PROVE  /\ Head(toBroker).type = "PUBREL" =>
                 \E p \in Pids : Head(toBroker) = Ack("PUBREL", p)
           /\ Head(toBroker).type = "PUBLISH" =>
                 \E p, m : Head(toBroker) = Publish(p, m) /\ ValidPublish(p, m)
<1>1. toBroker \in Seq(PublishPackets \cup PubrelPackets)
  BY DEF TypeOK
<1>2. Head(toBroker) \in PublishPackets \cup PubrelPackets
  BY <1>1, TailFacts, ZenonT(40)
<1>3. CASE Head(toBroker) \in PublishPackets
  <2>1. PICK p, m : Head(toBroker) = Publish(p, m) /\ ValidPublish(p, m)
    BY <1>3, PacketTypes, ZenonT(40)
  <2>2. Head(toBroker).type = "PUBLISH"
    BY <2>1, Packets, SMTT(40)
  <2> QED BY <2>1, <2>2, ZenonT(40)
<1>4. CASE Head(toBroker) \in PubrelPackets
  <2>1. PICK p \in Pids : Head(toBroker) = Ack("PUBREL", p)
    BY <1>4, PacketTypes, ZenonT(40)
  <2>2. Head(toBroker).type = "PUBREL"
    BY <2>1, Packets, SMTT(40)
  <2> QED BY <2>1, <2>2, ZenonT(40)
<1> QED BY <1>2, <1>3, <1>4

----------------------------------------------------------------------------
(***************************************************************************)
(* The broker's steps.                                                     *)
(***************************************************************************)

\* PUBREL: if the publisher still waits for PUBREC, it is a late copy and the
\* tracker does not hold the identifier; otherwise no copy of the message follows.
LEMMA PubrelStep ==
    ASSUME HandshakeInv, HandlePubrel
    PROVE  HandshakeInv'
<1> DEFINE p == Head(toBroker).pid
<1>a. TypeOK /\ FlightInv /\ DownInv /\ OwedInv /\ SeenInv
      /\ ToBrokerInv /\ ToClientInv /\ HereInv /\ ToldInv
  BY DEF HandshakeInv
<1>b. /\ toBroker # <<>> /\ Head(toBroker).type = "PUBREL" /\ up
      /\ toBroker' = Tail(toBroker) /\ toClient' = Append(toClient, Ack("PUBCOMP", p))
      /\ seen' = seen \ {p}
      /\ up' = up /\ conns' = conns /\ routed' = routed /\ here' = here /\ refused' = refused
      /\ refusedHere' = refusedHere /\ unsent' = unsent /\ flight' = flight /\ owed' = owed
      /\ resends' = resends /\ done' = done
  BY ZenonT(40) DEF HandlePubrel, Arrived, clientVars
<1>c. p \in Pids /\ Head(toBroker) = Ack("PUBREL", p)
  BY <1>a, <1>b, HeadToBroker, Packets, SMTT(40)
<1>d. /\ toBroker \in Seq(PublishPackets \cup PubrelPackets) /\ toClient \in Seq(Answers)
      /\ Ack("PUBCOMP", p) \in Answers
  BY <1>a, <1>c, PacketTypes, ZenonT(40) DEF TypeOK
<1> HIDE DEF p
<1>1. /\ toBroker' \in Seq(PublishPackets \cup PubrelPackets)
      /\ Contains(toBroker, Ack("PUBREL", p))
      /\ \A a : Contains(toBroker', a) =>
                  Contains(toBroker, a) /\ Before(toBroker, Ack("PUBREL", p), a)
      /\ \A a, b : Before(toBroker', a, b) => Before(toBroker, a, b)
  BY <1>b, <1>c, <1>d, TailFacts, SMTT(40)
<1>2. /\ toClient' \in Seq(Answers)
      /\ \A a : Contains(toClient', a) => Contains(toClient, a) \/ a = Ack("PUBCOMP", p)
      /\ \A a, b : Before(toClient', a, b) =>
                     Before(toClient, a, b) \/ (Contains(toClient, a) /\ b = Ack("PUBCOMP", p))
  BY <1>b, <1>d, AppendFacts, ZenonT(40)
<1>3. \A q : /\ Awaiting(q)' <=> Awaiting(q)
             /\ Releasing(q)' <=> Releasing(q)
             /\ \A m : Holds(q, m)' <=> Holds(q, m)
  BY <1>b, SameFlight, ZenonT(40)
<1>4. \A m : Answered(m)' <=> Answered(m)
  BY <1>b, ZenonT(40) DEF Answered
<1>5. Awaiting(p) => p \notin seen
  BY <1>a, <1>1, ZenonT(40) DEF SeenInv
<1>6. p \notin owed
  BY <1>a, <1>1, ZenonT(40) DEF OwedInv
<1>7. TypeOK'
  BY <1>a, <1>b, <1>1, <1>2, ZenonT(40) DEF TypeOK
<1>8. FlightInv' /\ DownInv'
  BY <1>a, <1>b, <1>3, ZenonT(40) DEF FlightInv, DownInv
<1>9. OwedInv'
  <2>1. \A q, t : Contains(toClient', Ack(t, q)) => Contains(toClient, Ack(t, q)) \/ q = p
    BY <1>2, Packets, ZenonT(40)
  <2> QED BY <1>a, <1>b, <1>1, <1>6, <2>1, ZenonT(40) DEF OwedInv
<1>10. SeenInv'
  BY <1>a, <1>b, <1>1, <1>3, <1>4, ZenonT(40) DEF SeenInv
<1>11. ToBrokerInv'
  <2> SUFFICES ASSUME NEW q \in Pids, NEW m \in QoS2
               PROVE /\ Contains(toBroker', Publish(q, m)) =>
                           Holds(q, m)' /\ (Releasing(q)' => q \in seen')
                     /\ Before(toBroker', Ack("PUBREL", q), Publish(q, m)) => ~Releasing(q)'
                     /\ Before(toBroker', Publish(q, m), Ack("PUBREL", q)) => Releasing(q)'
    BY ZenonT(40) DEF ToBrokerInv, QoS2
  <2>1. Contains(toBroker', Publish(p, m)) => ~Releasing(p)
    BY <1>a, <1>c, <1>1, ZenonT(40) DEF ToBrokerInv
  <2> QED BY <1>a, <1>b, <1>1, <1>3, <2>1, ZenonT(40) DEF ToBrokerInv
<1>12. ToClientInv'
  <2> SUFFICES ASSUME NEW q \in Pids
               PROVE /\ Contains(toClient', Ack("PUBREC", q)) =>
                            Releasing(q)' \/ (Awaiting(q)' /\ q \in seen')
                     /\ Before(toClient', Ack("PUBCOMP", q), Ack("PUBREC", q)) => ~Releasing(q)'
                     /\ Before(toClient', Ack("PUBREC", q), Ack("PUBCOMP", q)) => Releasing(q)'
                     /\ Contains(toClient', Ack("PUBCOMP", q)) /\ Releasing(q)' =>
                           q \notin seen' /\ \A m \in QoS2 : ~Contains(toBroker', Publish(q, m))
    BY ZenonT(40) DEF ToClientInv, QoS2
  <2>1. /\ Contains(toClient', Ack("PUBREC", q)) => Contains(toClient, Ack("PUBREC", q))
        /\ Before(toClient', Ack("PUBCOMP", q), Ack("PUBREC", q)) =>
             Before(toClient, Ack("PUBCOMP", q), Ack("PUBREC", q))
        /\ q # p => /\ Contains(toClient', Ack("PUBCOMP", q)) => Contains(toClient, Ack("PUBCOMP", q))
                    /\ Before(toClient', Ack("PUBREC", q), Ack("PUBCOMP", q)) =>
                         Before(toClient, Ack("PUBREC", q), Ack("PUBCOMP", q))
    BY <1>2, Packets, SMTT(40)
  <2>2. CASE q # p
    BY <1>a, <1>b, <1>1, <1>3, <2>1, <2>2, ZenonT(40) DEF ToClientInv
  <2>3. CASE q = p
    <3>1. Contains(toClient, Ack("PUBREC", p)) => Releasing(p)
      BY <1>a, <1>c, <1>5, ZenonT(40) DEF ToClientInv
    <3>2. Before(toClient', Ack("PUBREC", p), Ack("PUBCOMP", p)) => Releasing(p)
      BY <1>a, <1>c, <1>2, <3>1, ZenonT(40) DEF ToClientInv
    <3>3. Releasing(p) => \A m \in QoS2 : ~Contains(toBroker', Publish(p, m))
      BY <1>a, <1>c, <1>1, ZenonT(40) DEF ToBrokerInv
    <3>4. p \notin seen'
      BY <1>b, ZenonT(40)
    <3> QED BY <1>a, <1>3, <2>1, <2>3, <3>1, <3>2, <3>3, <3>4, ZenonT(40) DEF ToClientInv
  <2> QED BY <2>2, <2>3
<1>13. HereInv'
  BY <1>a, <1>b, <1>3, <1>5, ZenonT(40) DEF HereInv, QoS2
<1>14. ToldInv'
  BY <1>a, <1>b, <1>3, <1>4, ZenonT(40) DEF ToldInv
<1> QED BY <1>7, <1>8, <1>9, <1>10, <1>11, <1>12, <1>13, <1>14 DEF HandshakeInv

\* What every PUBLISH does: it leaves the queue, its message may be counted.
PublishEffect(refuse, p, m) ==
    /\ ValidPublish(p, m)
    /\ toBroker # <<>> /\ Head(toBroker) = Publish(p, m) /\ up
    /\ toClient' = toClient \o Reply(m, p)
    /\ seen' = IF Level[m] = 2 THEN seen \cup {p} ELSE seen
    /\ routed' = IF ShouldRoute(m, p) /\ ~refuse
                 THEN [routed EXCEPT ![m] = @ + 1] ELSE routed
    /\ here' = IF ShouldRoute(m, p) /\ ~refuse THEN [here EXCEPT ![m] = @ + 1] ELSE here
    /\ refused' = IF refuse THEN refused \cup {m} ELSE refused
    /\ refusedHere' = IF refuse /\ p \notin seen THEN refusedHere \cup {m} ELSE refusedHere
    /\ up' = up /\ conns' = conns /\ unsent' = unsent /\ flight' = flight
    /\ owed' = owed /\ resends' = resends /\ done' = done
    /\ toBroker' \in Seq(PublishPackets \cup PubrelPackets)
    /\ Contains(toBroker, Publish(p, m))
    /\ \A a : Contains(toBroker', a) =>
                Contains(toBroker, a) /\ Before(toBroker, Publish(p, m), a)
    /\ \A a, b : Before(toBroker', a, b) => Before(toBroker, a, b)

\* What handling a PUBLISH does to each variable.
LEMMA PublishFacts ==
    ASSUME HandshakeInv, NEW refuse \in BOOLEAN, HandlePublish(refuse)
    PROVE  \E p, m : PublishEffect(refuse, p, m)
<1>a. TypeOK /\ toBroker \in Seq(PublishPackets \cup PubrelPackets)
  BY DEF HandshakeInv, TypeOK
<1>b. toBroker # <<>> /\ Head(toBroker).type = "PUBLISH" /\ toBroker' = Tail(toBroker) /\ up
  BY DEF HandlePublish, Arrived
<1>1. PICK p, m : Head(toBroker) = Publish(p, m) /\ ValidPublish(p, m)
  BY <1>a, <1>b, HeadToBroker, ZenonT(40)
<1>2. p = Head(toBroker).pid /\ m = Head(toBroker).msg
  BY <1>1, Packets, SMTT(40)
<1>3. /\ toBroker' \in Seq(PublishPackets \cup PubrelPackets)
      /\ Contains(toBroker, Publish(p, m))
      /\ \A a : Contains(toBroker', a) =>
                  Contains(toBroker, a) /\ Before(toBroker, Publish(p, m), a)
      /\ \A a, b : Before(toBroker', a, b) => Before(toBroker, a, b)
  BY <1>a, <1>b, <1>1, TailFacts, SMTT(40)
<1>4. /\ toClient' = toClient \o Reply(m, p)
      /\ seen' = IF Level[m] = 2 THEN seen \cup {p} ELSE seen
      /\ routed' = IF ShouldRoute(m, p) /\ ~refuse
                   THEN [routed EXCEPT ![m] = @ + 1] ELSE routed
      /\ here' = IF ShouldRoute(m, p) /\ ~refuse THEN [here EXCEPT ![m] = @ + 1] ELSE here
      /\ refused' = IF refuse THEN refused \cup {m} ELSE refused
      /\ refusedHere' = IF refuse /\ p \notin seen THEN refusedHere \cup {m} ELSE refusedHere
      /\ up' = up /\ conns' = conns /\ unsent' = unsent /\ flight' = flight
      /\ owed' = owed /\ resends' = resends /\ done' = done
  BY <1>2, ZenonT(40) DEF HandlePublish, OnPublish, clientVars
<1> QED BY <1>b, <1>1, <1>3, <1>4, ZenonT(40) DEF PublishEffect

\* The counts of other messages stay, and what was answered stays answered.
LEMMA PublishCounts ==
    ASSUME TypeOK, NEW refuse \in BOOLEAN, NEW p, NEW m \in Messages,
           routed' = (IF ShouldRoute(m, p) /\ ~refuse
                      THEN [routed EXCEPT ![m] = @ + 1] ELSE routed),
           here' = (IF ShouldRoute(m, p) /\ ~refuse
                    THEN [here EXCEPT ![m] = @ + 1] ELSE here),
           refused' = (IF refuse THEN refused \cup {m} ELSE refused),
           refusedHere' = (IF refuse /\ p \notin seen THEN refusedHere \cup {m} ELSE refusedHere)
    PROVE  /\ routed' \in [Messages -> Nat] /\ here' \in [Messages -> Nat]
           /\ refused' \subseteq Messages /\ refusedHere' \subseteq Messages
           /\ \A n \in Messages : Answered(n) => Answered(n)'
           /\ \A n \in Messages : n # m =>
                 here'[n] = here[n] /\ (n \in refusedHere' <=> n \in refusedHere)
           /\ ShouldRoute(m, p) => Answered(m)'
           /\ here'[m] = IF ShouldRoute(m, p) /\ ~refuse THEN here[m] + 1 ELSE here[m]
           /\ p \in seen => (m \in refusedHere' <=> m \in refusedHere)
<1>a. /\ routed \in [Messages -> Nat] /\ here \in [Messages -> Nat]
      /\ refused \subseteq Messages /\ refusedHere \subseteq Messages
  BY DEF TypeOK
<1>1. CASE ShouldRoute(m, p) /\ ~refuse
  BY <1>a, <1>1, SMTT(40) DEF Answered
<1>2. CASE ~(ShouldRoute(m, p) /\ ~refuse)
  BY <1>a, <1>2, SMTT(40) DEF Answered
<1> QED BY <1>1, <1>2

\* PUBACK, PUBREC or nothing is the answer.
LEMMA ReplyFacts ==
    ASSUME TypeOK, NEW p, NEW m, ValidPublish(p, m), toClient' = toClient \o Reply(m, p)
    PROVE  /\ toClient' \in Seq(Answers)
           /\ \A t, q : Contains(toClient', Ack(t, q)) =>
                 \/ Contains(toClient, Ack(t, q))
                 \/ q = p /\ t = (IF Level[m] = 2 THEN "PUBREC" ELSE "PUBACK") /\ Level[m] > 0
           /\ \A t, q, u, r : Before(toClient', Ack(t, q), Ack(u, r)) =>
                 \/ Before(toClient, Ack(t, q), Ack(u, r))
                 \/ /\ Contains(toClient, Ack(t, q))
                    /\ r = p /\ u = (IF Level[m] = 2 THEN "PUBREC" ELSE "PUBACK") /\ Level[m] > 0
<1>a. toClient \in Seq(Answers) /\ m \in Messages /\ Level[m] \in 0 .. 2
  BY InboundAssumption DEF TypeOK, ValidPublish
<1>1. CASE Level[m] = 0
  <2>1. toClient' = toClient
    BY <1>a, <1>1, SMTT(40) DEF Reply
  <2> QED BY <1>a, <2>1, ZenonT(40)
<1>2. CASE Level[m] # 0
  <2> DEFINE t0 == IF Level[m] = 2 THEN "PUBREC" ELSE "PUBACK"
  <2>1. p \in Pids /\ Level[m] > 0
    BY <1>a, <1>2, SMTT(40) DEF ValidPublish
  <2>2. Reply(m, p) = <<Ack(t0, p)>>
    BY <1>a, <1>2, SMTT(40) DEF Reply
  <2>3. t0 \in {"PUBACK", "PUBREC", "PUBCOMP"}
    BY SMTT(40)
  <2> HIDE DEF t0
  <2>4. Ack(t0, p) \in Answers
    BY <2>1, <2>3, PacketTypes, ZenonT(40)
  <2>5. toClient' = Append(toClient, Ack(t0, p))
    BY <1>a, <2>2, <2>4, SMTT(40)
  <2>6. /\ toClient' \in Seq(Answers)
        /\ \A a : Contains(toClient', a) => Contains(toClient, a) \/ a = Ack(t0, p)
        /\ \A a, b : Before(toClient', a, b) =>
                       Before(toClient, a, b) \/ (Contains(toClient, a) /\ b = Ack(t0, p))
    BY <1>a, <2>4, <2>5, AppendFacts, SMTT(40)
  <2>7. \A t, q : Ack(t, q) = Ack(t0, p) => t = t0 /\ q = p
    BY Packets, ZenonT(40)
  <2>8. \A t, q : Contains(toClient', Ack(t, q)) => Contains(toClient, Ack(t, q)) \/ (t = t0 /\ q = p)
    BY <2>6, <2>7, ZenonT(40)
  <2>9. \A t, q, u, r : Before(toClient', Ack(t, q), Ack(u, r)) =>
           Before(toClient, Ack(t, q), Ack(u, r)) \/ (Contains(toClient, Ack(t, q)) /\ u = t0 /\ r = p)
    BY <2>6, <2>7, SMTT(40)
  <2> QED BY <2>1, <2>6, <2>8, <2>9, SMTT(40) DEF t0
<1> QED BY <1>1, <1>2

\* A PUBLISH of QoS 0 or 1 does not touch what the invariant says of QoS 2.
LEMMA PublishLowStep ==
    ASSUME HandshakeInv, NEW refuse \in BOOLEAN, HandlePublish(refuse),
           Head(toBroker).msg \notin QoS2
    PROVE  HandshakeInv'
<1>a. TypeOK /\ FlightInv /\ DownInv /\ OwedInv /\ SeenInv
      /\ ToBrokerInv /\ ToClientInv /\ HereInv /\ ToldInv
  BY DEF HandshakeInv
<1>1. PICK p, m : PublishEffect(refuse, p, m)
  BY PublishFacts, ZenonT(40)
<1>2. m \in Messages /\ m \notin QoS2 /\ Level[m] # 2
  BY <1>1, Packets, SMTT(40) DEF ValidPublish, QoS2, PublishEffect
<1>3. seen' = seen
  BY <1>1, <1>2, ZenonT(40) DEF PublishEffect
<1>4. /\ routed' \in [Messages -> Nat] /\ here' \in [Messages -> Nat]
      /\ refused' \subseteq Messages /\ refusedHere' \subseteq Messages
      /\ \A n \in Messages : Answered(n) => Answered(n)'
      /\ \A n \in Messages : n # m =>
            here'[n] = here[n] /\ (n \in refusedHere' <=> n \in refusedHere)
  BY <1>a, <1>1, <1>2, PublishCounts, ZenonT(40) DEF PublishEffect
<1>5. /\ toClient' \in Seq(Answers)
      /\ \A t, q : Contains(toClient', Ack(t, q)) =>
            Contains(toClient, Ack(t, q)) \/ (q = p /\ t = "PUBACK")
      /\ \A t, q, u, r : Before(toClient', Ack(t, q), Ack(u, r)) =>
            Before(toClient, Ack(t, q), Ack(u, r)) \/ (Contains(toClient, Ack(t, q)) /\ u = "PUBACK")
  <2>1. Level[m] # 2
    BY <1>2
  <2> QED BY <1>a, <1>1, <2>1, ReplyFacts, SMTT(40) DEF PublishEffect
<1>6. \A q : /\ Awaiting(q)' <=> Awaiting(q)
             /\ Releasing(q)' <=> Releasing(q)
             /\ \A n : Holds(q, n)' <=> Holds(q, n)
  BY <1>1, SameFlight, ZenonT(40) DEF PublishEffect
<1>7. TypeOK'
  BY <1>a, <1>1, <1>3, <1>4, <1>5, ZenonT(40) DEF TypeOK, PublishEffect
<1>8. FlightInv' /\ DownInv'
  BY <1>a, <1>1, <1>3, <1>6, ZenonT(40) DEF FlightInv, DownInv, PublishEffect
<1>9. OwedInv'
  <2>1. p \notin owed
    BY <1>a, <1>1, <1>2, ZenonT(40) DEF OwedInv, PublishEffect
  <2> QED BY <1>a, <1>1, <1>3, <1>5, <2>1, ZenonT(40) DEF OwedInv, PublishEffect
<1>10. \A q \in Pids : flight[q] # Free => flight[q].msg \in Messages
  BY <1>a, ZenonT(40) DEF TypeOK, Flight
<1>11. SeenInv'
  <2>1. seen \subseteq Pids
    BY <1>a DEF TypeOK
  <2> QED BY <1>a, <1>1, <1>3, <1>4, <1>6, <1>10, <2>1, ZenonT(40) DEF SeenInv, PublishEffect
<1>12. ToBrokerInv'
  BY <1>a, <1>1, <1>3, <1>6, ZenonT(40) DEF ToBrokerInv, QoS2, PublishEffect
<1>13. ToClientInv'
  <2>1. \A q : /\ Contains(toClient', Ack("PUBREC", q)) => Contains(toClient, Ack("PUBREC", q))
               /\ Contains(toClient', Ack("PUBCOMP", q)) => Contains(toClient, Ack("PUBCOMP", q))
               /\ Before(toClient', Ack("PUBCOMP", q), Ack("PUBREC", q)) =>
                    Before(toClient, Ack("PUBCOMP", q), Ack("PUBREC", q))
               /\ Before(toClient', Ack("PUBREC", q), Ack("PUBCOMP", q)) =>
                    Before(toClient, Ack("PUBREC", q), Ack("PUBCOMP", q))
    BY <1>5, SMTT(40)
  <2> QED BY <1>a, <1>1, <1>3, <1>6, <2>1, ZenonT(40) DEF ToClientInv, QoS2, PublishEffect
<1>14. HereInv'
  <2>1. \A n \in QoS2 : n # m /\ n \in Messages
    BY <1>2, ZenonT(40) DEF QoS2
  <2> QED BY <1>a, <1>1, <1>3, <1>4, <1>6, <2>1, ZenonT(40) DEF HereInv, QoS2, PublishEffect
<1>15. ToldInv'
  <2>1. done \subseteq Messages
    BY <1>a DEF TypeOK
  <2> QED BY <1>a, <1>1, <1>4, <1>6, <1>10, <2>1, ZenonT(40) DEF ToldInv, Releasing, PublishEffect
<1> QED BY <1>7, <1>8, <1>9, <1>11, <1>12, <1>13, <1>14, <1>15 DEF HandshakeInv

\* A PUBLISH of QoS 2: routed only if its identifier is not in the tracker, which
\* it then enters, refused or not.
LEMMA PublishTwoStep ==
    ASSUME HandshakeInv, NEW refuse \in BOOLEAN, HandlePublish(refuse),
           Head(toBroker).msg \in QoS2
    PROVE  HandshakeInv'
<1>a. TypeOK /\ FlightInv /\ DownInv /\ OwedInv /\ SeenInv
      /\ ToBrokerInv /\ ToClientInv /\ HereInv /\ ToldInv
  BY DEF HandshakeInv
<1>1. PICK p, m : PublishEffect(refuse, p, m)
  BY PublishFacts, ZenonT(40)
<1>2. m \in Messages /\ m \in QoS2 /\ Level[m] = 2 /\ p \in Pids
  BY <1>1, Packets, SMTT(40) DEF ValidPublish, QoS2, PublishEffect
<1>3. seen' = seen \cup {p} /\ (ShouldRoute(m, p) <=> p \notin seen)
  BY <1>1, <1>2, ZenonT(40) DEF ShouldRoute, PublishEffect
<1>4. /\ routed' \in [Messages -> Nat] /\ here' \in [Messages -> Nat]
      /\ refused' \subseteq Messages /\ refusedHere' \subseteq Messages
      /\ \A n \in Messages : Answered(n) => Answered(n)'
      /\ \A n \in Messages : n # m =>
            here'[n] = here[n] /\ (n \in refusedHere' <=> n \in refusedHere)
      /\ p \notin seen => Answered(m)'
      /\ here'[m] = IF p \notin seen /\ ~refuse THEN here[m] + 1 ELSE here[m]
      /\ p \in seen => (m \in refusedHere' <=> m \in refusedHere)
  BY <1>a, <1>1, <1>2, <1>3, PublishCounts, ZenonT(40) DEF PublishEffect
<1>5. /\ toClient' \in Seq(Answers)
      /\ \A t, q : Contains(toClient', Ack(t, q)) =>
            Contains(toClient, Ack(t, q)) \/ (q = p /\ t = "PUBREC")
      /\ \A t, q, u, r : Before(toClient', Ack(t, q), Ack(u, r)) =>
            \/ Before(toClient, Ack(t, q), Ack(u, r))
            \/ Contains(toClient, Ack(t, q)) /\ u = "PUBREC" /\ r = p
  <2>1. Level[m] = 2
    BY <1>2
  <2> QED BY <1>a, <1>1, <2>1, ReplyFacts, SMTT(40) DEF PublishEffect
<1>6. \A q : /\ Awaiting(q)' <=> Awaiting(q)
             /\ Releasing(q)' <=> Releasing(q)
             /\ \A n : Holds(q, n)' <=> Holds(q, n)
  BY <1>1, SameFlight, ZenonT(40) DEF PublishEffect
<1>7. Holds(p, m) /\ (Releasing(p) => p \in seen)
  BY <1>a, <1>1, <1>2, ZenonT(40) DEF ToBrokerInv, PublishEffect
<1>8. /\ flight[p] # Free /\ flight[p].msg = m
      /\ Awaiting(p) \/ Releasing(p)
      /\ ~(Awaiting(p) /\ Releasing(p))
  <2>1. flight[p] # Free /\ flight[p].msg = m
    BY <1>7 DEF Holds
  <2>2. flight[p] \in Flight
    BY <1>a, <1>2, <2>1, ZenonT(40) DEF TypeOK
  <2>3. flight[p].stage = "publish" \/ flight[p].stage = "release"
    BY <2>2, SMTT(40) DEF Flight
  <2> QED BY <1>2, <2>1, <2>3, SMTT(40) DEF Awaiting, Releasing
<1>9. TypeOK'
  <2>1. seen' \subseteq Pids
    BY <1>a, <1>2, <1>3, ZenonT(40) DEF TypeOK
  <2> QED BY <1>a, <1>1, <1>4, <1>5, <2>1, ZenonT(40) DEF TypeOK, PublishEffect
<1>10. FlightInv' /\ DownInv'
  BY <1>a, <1>1, <1>6, ZenonT(40) DEF FlightInv, DownInv, PublishEffect
<1>11. OwedInv'
  <2>1. p \notin owed
    BY <1>a, <1>1, <1>2, ZenonT(40) DEF OwedInv, PublishEffect
  <2> QED BY <1>a, <1>1, <1>3, <1>5, <2>1, ZenonT(40) DEF OwedInv, PublishEffect
<1>12. \A q \in Pids : flight[q] # Free => flight[q].msg \in Messages
  BY <1>a, ZenonT(40) DEF TypeOK, Flight
<1>13. SeenInv'
  <2> SUFFICES ASSUME NEW q \in seen'
               PROVE /\ flight[q] # Free /\ Level[flight[q].msg] = 2 /\ Answered(flight[q].msg)'
                     /\ Awaiting(q) => ~Contains(toBroker', Ack("PUBREL", q))
    BY <1>1, <1>6, ZenonT(40) DEF SeenInv, PublishEffect
  <2>1. CASE q \in seen
    <3>1. q \in Pids
      BY <1>a, <2>1 DEF TypeOK
    <3> QED BY <1>a, <1>1, <1>4, <1>12, <2>1, <3>1, ZenonT(40) DEF SeenInv, PublishEffect
  <2>2. CASE q \notin seen
    <3>1. q = p
      BY <1>3, <2>2, ZenonT(40)
    <3>2. Contains(toBroker', Ack("PUBREL", p)) => Releasing(p)
      BY <1>a, <1>1, <1>2, ZenonT(40) DEF ToBrokerInv, PublishEffect
    <3>3. flight'[q] = flight[p] /\ flight'[q].msg = m
      BY <1>1, <1>8, <3>1, ZenonT(40) DEF PublishEffect
    <3>4. Answered(flight[q].msg)'
      BY <1>1, <1>3, <1>4, <2>2, <3>1, <3>3, ZenonT(40)
    <3> QED BY <1>2, <1>8, <3>1, <3>2, <3>4, ZenonT(40)
  <2> QED BY <2>1, <2>2
<1>14. ToBrokerInv'
  <2>1. \A q : q \in seen => q \in seen'
    BY <1>3, ZenonT(40)
  <2> QED BY <1>a, <1>1, <1>6, <2>1, ZenonT(40) DEF ToBrokerInv, QoS2, PublishEffect
<1>15. ToClientInv'
  <2> SUFFICES ASSUME NEW q \in Pids
               PROVE /\ Contains(toClient', Ack("PUBREC", q)) =>
                            Releasing(q) \/ (Awaiting(q) /\ q \in seen')
                     /\ Before(toClient', Ack("PUBCOMP", q), Ack("PUBREC", q)) => ~Releasing(q)
                     /\ Before(toClient', Ack("PUBREC", q), Ack("PUBCOMP", q)) => Releasing(q)
                     /\ Contains(toClient', Ack("PUBCOMP", q)) /\ Releasing(q) =>
                           q \notin seen' /\ \A n \in QoS2 : ~Contains(toBroker', Publish(q, n))
    BY <1>6, ZenonT(40) DEF ToClientInv, QoS2
  <2>1. /\ Contains(toClient', Ack("PUBREC", q)) => Contains(toClient, Ack("PUBREC", q)) \/ q = p
        /\ Contains(toClient', Ack("PUBCOMP", q)) => Contains(toClient, Ack("PUBCOMP", q))
        /\ Before(toClient', Ack("PUBCOMP", q), Ack("PUBREC", q)) =>
             \/ Before(toClient, Ack("PUBCOMP", q), Ack("PUBREC", q))
             \/ Contains(toClient, Ack("PUBCOMP", q)) /\ q = p
        /\ Before(toClient', Ack("PUBREC", q), Ack("PUBCOMP", q)) =>
             Before(toClient, Ack("PUBREC", q), Ack("PUBCOMP", q))
    BY <1>5, SMTT(40)
  <2>2. Contains(toClient, Ack("PUBCOMP", p)) => ~Releasing(p)
    BY <1>a, <1>1, <1>2, ZenonT(40) DEF ToClientInv, PublishEffect
  <2>3. \A r : r \in seen' <=> r \in seen \/ r = p
    BY <1>3, ZenonT(40)
  <2> QED BY <1>a, <1>1, <1>8, <2>1, <2>2, <2>3, ZenonT(40) DEF ToClientInv, PublishEffect
<1>16. p \notin seen => here[m] = 0 /\ m \notin refusedHere
  <2>1. here[m] \in Nat
    BY <1>a, <1>2, ZenonT(40) DEF TypeOK
  <2>2. p \notin seen => Awaiting(p)
    BY <1>7, <1>8, ZenonT(40)
  <2>3. p \notin seen => ~(here[m] > 0) /\ m \notin refusedHere
    BY <1>a, <1>2, <1>7, <2>2, ZenonT(40) DEF HereInv
  <2> QED BY <2>1, <2>3, SMTT(40)
<1>17. HereInv'
  <2> SUFFICES ASSUME NEW n \in QoS2
               PROVE /\ here'[n] > 0 \/ n \in refusedHere' =>
                          n \notin unsent /\ \A q \in Pids : Awaiting(q) /\ Holds(q, n) => q \in seen'
                     /\ here'[n] <= 1
                     /\ n \in refusedHere' => here'[n] = 0
    BY <1>1, <1>6, ZenonT(40) DEF HereInv, QoS2, PublishEffect
  <2>1. CASE n # m
    <3>1. n \in Messages /\ \A r : r \in seen => r \in seen'
      BY <1>3, ZenonT(40) DEF QoS2
    <3> QED BY <1>a, <1>4, <2>1, <3>1, ZenonT(40) DEF HereInv
  <2>2. CASE n = m
    <3>1. m \notin unsent /\ \A q \in Pids : Holds(q, m) => q = p
      BY <1>a, <1>2, <1>8, ZenonT(40) DEF FlightInv
    <3>2. p \in seen'
      BY <1>3, ZenonT(40)
    <3>3. here'[m] <= 1 /\ (m \in refusedHere' => here'[m] = 0)
      <4>1. CASE p \in seen
        <5>1. here'[m] = here[m] /\ (m \in refusedHere' <=> m \in refusedHere)
          BY <1>4, <4>1, ZenonT(40)
        <5> QED BY <1>a, <1>2, <5>1, ZenonT(40) DEF HereInv
      <4>2. CASE p \notin seen /\ refuse
        BY <1>4, <1>16, <4>2, SMTT(40)
      <4>3. CASE p \notin seen /\ ~refuse
        <5>1. here'[m] = 1 /\ refusedHere' = refusedHere
          BY <1>1, <1>4, <1>16, <4>3, SMTT(40) DEF PublishEffect
        <5> QED BY <1>16, <4>3, <5>1, SMTT(40)
      <4> QED BY <4>1, <4>2, <4>3
    <3> QED BY <2>2, <3>1, <3>2, <3>3, ZenonT(40)
  <2> QED BY <2>1, <2>2
<1>18. ToldInv'
  <2>1. done \subseteq Messages
    BY <1>a DEF TypeOK
  <2> QED BY <1>a, <1>1, <1>4, <1>6, <1>12, <2>1, ZenonT(40) DEF ToldInv, Releasing, PublishEffect
<1> QED BY <1>9, <1>10, <1>11, <1>13, <1>14, <1>15, <1>17, <1>18 DEF HandshakeInv

----------------------------------------------------------------------------
(***************************************************************************)
(* The publisher's steps.                                                  *)
(***************************************************************************)

\* A PUBLISH or a PUBREL joins the packets to the broker.
LEMMA AppendPublish ==
    ASSUME TypeOK, NEW p, NEW m, ValidPublish(p, m), toBroker' = Append(toBroker, Publish(p, m))
    PROVE  /\ toBroker' \in Seq(PublishPackets \cup PubrelPackets)
           /\ \A q, n : Contains(toBroker', Publish(q, n)) =>
                 Contains(toBroker, Publish(q, n)) \/ (q = p /\ n = m)
           /\ \A q : Contains(toBroker', Ack("PUBREL", q)) => Contains(toBroker, Ack("PUBREL", q))
           /\ \A q, n : Before(toBroker', Ack("PUBREL", q), Publish(q, n)) =>
                 Before(toBroker, Ack("PUBREL", q), Publish(q, n)) \/ (q = p /\ n = m)
           /\ \A q, n : Before(toBroker', Publish(q, n), Ack("PUBREL", q)) =>
                 Before(toBroker, Publish(q, n), Ack("PUBREL", q))
           /\ \A q, n : Before(toBroker', Publish(q, n), Publish(q, n)) =>
                 \/ Before(toBroker, Publish(q, n), Publish(q, n))
                 \/ q = p /\ n = m /\ Contains(toBroker, Publish(p, m))
<1>1. /\ toBroker \in Seq(PublishPackets \cup PubrelPackets)
      /\ Publish(p, m) \in PublishPackets \cup PubrelPackets
  BY PacketTypes, ZenonT(40) DEF TypeOK
<1>2. /\ toBroker' \in Seq(PublishPackets \cup PubrelPackets)
      /\ \A a : Contains(toBroker', a) => Contains(toBroker, a) \/ a = Publish(p, m)
      /\ \A a, b : Before(toBroker', a, b) =>
                     Before(toBroker, a, b) \/ (Contains(toBroker, a) /\ b = Publish(p, m))
  BY <1>1, AppendFacts, SMTT(40)
<1>3. /\ \A q, n : Publish(q, n) = Publish(p, m) => q = p /\ n = m
      /\ \A q : Ack("PUBREL", q) # Publish(p, m)
  BY Packets, SMTT(40)
<1>4. \A q, n : Contains(toBroker', Publish(q, n)) =>
         Contains(toBroker, Publish(q, n)) \/ (q = p /\ n = m)
  BY <1>2, <1>3, ZenonT(40)
<1>5. \A q : Contains(toBroker', Ack("PUBREL", q)) => Contains(toBroker, Ack("PUBREL", q))
  BY <1>2, <1>3, ZenonT(40)
<1>6. \A q, n : Before(toBroker', Ack("PUBREL", q), Publish(q, n)) =>
         Before(toBroker, Ack("PUBREL", q), Publish(q, n)) \/ (q = p /\ n = m)
  BY <1>2, <1>3, SMTT(40)
<1>7. \A q, n : Before(toBroker', Publish(q, n), Ack("PUBREL", q)) =>
         Before(toBroker, Publish(q, n), Ack("PUBREL", q))
  BY <1>2, <1>3, SMTT(40)
<1>8. \A q, n : Before(toBroker', Publish(q, n), Publish(q, n)) =>
         \/ Before(toBroker, Publish(q, n), Publish(q, n))
         \/ q = p /\ n = m /\ Contains(toBroker, Publish(p, m))
  BY <1>2, <1>3, ZenonT(40)
<1> QED BY <1>2, <1>4, <1>5, <1>6, <1>7, <1>8

\* A PUBREL at the end of the stream stands before nothing.
LEMMA AppendPubrel ==
    ASSUME TypeOK, NEW p \in Pids, toBroker' = Append(toBroker, Ack("PUBREL", p))
    PROVE  /\ toBroker' \in Seq(PublishPackets \cup PubrelPackets)
           /\ \A q, n : Contains(toBroker', Publish(q, n)) => Contains(toBroker, Publish(q, n))
           /\ \A q : Contains(toBroker', Ack("PUBREL", q)) =>
                 Contains(toBroker, Ack("PUBREL", q)) \/ q = p
           /\ \A q, n : Before(toBroker', Ack("PUBREL", q), Publish(q, n)) =>
                 Before(toBroker, Ack("PUBREL", q), Publish(q, n))
           /\ \A q, n : Before(toBroker', Publish(q, n), Ack("PUBREL", q)) =>
                 Before(toBroker, Publish(q, n), Ack("PUBREL", q)) \/ q = p
           /\ \A q, n : Before(toBroker', Publish(q, n), Publish(q, n)) =>
                 Before(toBroker, Publish(q, n), Publish(q, n))
<1>1. /\ toBroker \in Seq(PublishPackets \cup PubrelPackets)
      /\ Ack("PUBREL", p) \in PublishPackets \cup PubrelPackets
  BY PacketTypes, ZenonT(40) DEF TypeOK
<1>2. /\ toBroker' \in Seq(PublishPackets \cup PubrelPackets)
      /\ \A a : Contains(toBroker', a) => Contains(toBroker, a) \/ a = Ack("PUBREL", p)
      /\ \A a, b : Before(toBroker', a, b) =>
                     Before(toBroker, a, b) \/ (Contains(toBroker, a) /\ b = Ack("PUBREL", p))
  BY <1>1, AppendFacts, SMTT(40)
<1>3. /\ \A q, n : Publish(q, n) # Ack("PUBREL", p)
      /\ \A q : Ack("PUBREL", q) = Ack("PUBREL", p) => q = p
  BY Packets, SMTT(40)
<1>4. \A q, n : Contains(toBroker', Publish(q, n)) => Contains(toBroker, Publish(q, n))
  BY <1>2, <1>3, ZenonT(40)
<1>5. \A q : Contains(toBroker', Ack("PUBREL", q)) =>
         Contains(toBroker, Ack("PUBREL", q)) \/ q = p
  BY <1>2, <1>3, ZenonT(40)
<1>6. \A q, n : Before(toBroker', Ack("PUBREL", q), Publish(q, n)) =>
         Before(toBroker, Ack("PUBREL", q), Publish(q, n))
  BY <1>2, <1>3, SMTT(40)
<1>7. \A q, n : Before(toBroker', Publish(q, n), Ack("PUBREL", q)) =>
         Before(toBroker, Publish(q, n), Ack("PUBREL", q)) \/ q = p
  BY <1>2, <1>3, SMTT(40)
<1>8. \A q, n : Before(toBroker', Publish(q, n), Publish(q, n)) =>
         Before(toBroker, Publish(q, n), Publish(q, n))
  BY <1>2, <1>3, SMTT(40)
<1> QED BY <1>2, <1>4, <1>5, <1>6, <1>7, <1>8

\* Sending again what the publisher holds, as PUBLISH or as PUBREL.
LEMMA AgainStep ==
    ASSUME HandshakeInv, NEW p \in Pids, flight[p] # Free, up,
           toBroker' = Append(toBroker, Packet(p)), owed' = owed \ {p}, resends' \in Nat,
           UNCHANGED <<up, conns, toClient, brokerVars, unsent, flight, done>>
    PROVE  HandshakeInv'
<1>a. TypeOK /\ FlightInv /\ DownInv /\ OwedInv /\ SeenInv
      /\ ToBrokerInv /\ ToClientInv /\ HereInv /\ ToldInv
  BY DEF HandshakeInv
<1>b. /\ up' = up /\ conns' = conns /\ toClient' = toClient /\ seen' = seen /\ routed' = routed
      /\ here' = here /\ refused' = refused /\ refusedHere' = refusedHere /\ unsent' = unsent
      /\ flight' = flight /\ done' = done
  BY DEF brokerVars
<1>1. \A q : /\ Awaiting(q)' <=> Awaiting(q)
             /\ Releasing(q)' <=> Releasing(q)
             /\ \A m : Holds(q, m)' <=> Holds(q, m)
  BY <1>b, SameFlight, ZenonT(40)
<1>2. \A m : Answered(m)' <=> Answered(m)
  BY <1>b, ZenonT(40) DEF Answered
<1>3. /\ flight[p].msg \in Messages /\ ValidPublish(p, flight[p].msg)
      /\ flight[p].stage = "publish" \/ Releasing(p)
      /\ flight[p].stage = "publish" => ~Releasing(p)
      /\ ~(Awaiting(p) /\ Releasing(p))
  <2>1. flight[p] \in Flight
    BY <1>a, ZenonT(40) DEF TypeOK
  <2>2. flight[p].msg \in Messages /\ flight[p].stage \in {"publish", "release"}
    BY <2>1, SMTT(40) DEF Flight
  <2>3. ValidPublish(p, flight[p].msg)
    BY <1>a, <2>2, ZenonT(40) DEF FlightInv, ValidPublish
  <2> QED BY <2>2, <2>3, SMTT(40) DEF Releasing, Awaiting
<1>4. /\ toBroker' \in Seq(PublishPackets \cup PubrelPackets)
      /\ \A q, n : Contains(toBroker', Publish(q, n)) =>
            Contains(toBroker, Publish(q, n)) \/ (q = p /\ Holds(p, n) /\ ~Releasing(p))
      /\ \A q : Contains(toBroker', Ack("PUBREL", q)) =>
            Contains(toBroker, Ack("PUBREL", q)) \/ (q = p /\ Releasing(p))
      /\ \A q, n : Before(toBroker', Ack("PUBREL", q), Publish(q, n)) =>
            Before(toBroker, Ack("PUBREL", q), Publish(q, n)) \/ (q = p /\ ~Releasing(p))
      /\ \A q, n : Before(toBroker', Publish(q, n), Ack("PUBREL", q)) =>
            Before(toBroker, Publish(q, n), Ack("PUBREL", q)) \/ (q = p /\ Releasing(p))
  <2>1. CASE flight[p].stage = "publish"
    <3>1. toBroker' = Append(toBroker, Publish(p, flight[p].msg))
      BY <2>1 DEF Packet
    <3>2. Holds(p, flight[p].msg) /\ ~Releasing(p)
      BY <1>3, <2>1 DEF Holds
    <3> QED BY <1>a, <1>3, <3>1, <3>2, AppendPublish, SMTT(40)
  <2>2. CASE flight[p].stage # "publish"
    <3>1. toBroker' = Append(toBroker, Ack("PUBREL", p)) /\ Releasing(p)
      BY <1>3, <2>2 DEF Packet
    <3> QED BY <1>a, <3>1, AppendPubrel, SMTT(40)
  <2> QED BY <2>1, <2>2
<1>5. TypeOK'
  BY <1>a, <1>b, <1>4, ZenonT(40) DEF TypeOK
<1>6. FlightInv' /\ DownInv'
  <2>1. FlightInv'
    BY <1>a, <1>b, <1>1, ZenonT(40) DEF FlightInv
  <2>2. DownInv'
    BY <1>b DEF DownInv
  <2> QED BY <2>1, <2>2
<1>7. OwedInv'
  BY <1>a, <1>b, <1>4, ZenonT(40) DEF OwedInv
<1>8. SeenInv'
  BY <1>a, <1>b, <1>1, <1>2, <1>3, <1>4, ZenonT(40) DEF SeenInv
<1>9. ToBrokerInv'
  BY <1>a, <1>b, <1>1, <1>4, ZenonT(40) DEF ToBrokerInv, QoS2
<1>10. ToClientInv'
  BY <1>a, <1>b, <1>1, <1>4, ZenonT(40) DEF ToClientInv, QoS2
<1>11. HereInv'
  BY <1>a, <1>b, <1>1, ZenonT(40) DEF HereInv, QoS2
<1>12. ToldInv'
  BY <1>a, <1>b, <1>1, <1>2, ZenonT(40) DEF ToldInv
<1> QED BY <1>5, <1>6, <1>7, <1>8, <1>9, <1>10, <1>11, <1>12 DEF HandshakeInv

\* A change at one identifier leaves the others alone.
LEMMA OtherFlights ==
    ASSUME TypeOK, NEW p \in Pids, NEW r, flight' = [flight EXCEPT ![p] = r]
    PROVE  /\ flight'[p] = r
           /\ \A q \in Pids : q # p =>
                 /\ flight'[q] = flight[q]
                 /\ Awaiting(q)' <=> Awaiting(q)
                 /\ Releasing(q)' <=> Releasing(q)
                 /\ \A m : Holds(q, m)' <=> Holds(q, m)
<1>1. flight'[p] = r /\ \A q \in Pids : q # p => flight'[q] = flight[q]
  BY SMTT(40) DEF TypeOK
<1> QED BY <1>1, ZenonT(40) DEF Awaiting, Releasing, Holds

\* A QoS 0 message is sent and forgotten.
LEMMA SendZeroStep ==
    ASSUME HandshakeInv, NEW m \in Messages, Send(m), Level[m] = 0
    PROVE  HandshakeInv'
<1>a. TypeOK /\ FlightInv /\ DownInv /\ OwedInv /\ SeenInv
      /\ ToBrokerInv /\ ToClientInv /\ HereInv /\ ToldInv
  BY DEF HandshakeInv
<1>b. /\ up /\ unsent' = unsent \ {m} /\ toBroker' = Append(toBroker, Publish(0, m))
      /\ done' = done \cup {m} /\ up' = up /\ conns' = conns /\ toClient' = toClient
      /\ seen' = seen /\ routed' = routed /\ here' = here /\ refused' = refused
      /\ refusedHere' = refusedHere /\ flight' = flight /\ owed' = owed /\ resends' = resends
  BY SMTT(40) DEF Send, brokerVars
<1>1. \A q : /\ Awaiting(q)' <=> Awaiting(q)
             /\ Releasing(q)' <=> Releasing(q)
             /\ \A n : Holds(q, n)' <=> Holds(q, n)
  BY <1>b, SameFlight, ZenonT(40)
<1>2. \A n : Answered(n)' <=> Answered(n)
  BY <1>b, ZenonT(40) DEF Answered
<1>3. ValidPublish(0, m) /\ 0 \notin Pids /\ owed \subseteq Pids
  BY <1>a, InboundAssumption, SMTT(40) DEF ValidPublish, Pids, TypeOK
<1>4. /\ toBroker' \in Seq(PublishPackets \cup PubrelPackets)
      /\ \A q, n : Contains(toBroker', Publish(q, n)) => Contains(toBroker, Publish(q, n)) \/ q = 0
      /\ \A q : Contains(toBroker', Ack("PUBREL", q)) => Contains(toBroker, Ack("PUBREL", q))
      /\ \A q, n : Before(toBroker', Ack("PUBREL", q), Publish(q, n)) =>
            Before(toBroker, Ack("PUBREL", q), Publish(q, n)) \/ q = 0
      /\ \A q, n : Before(toBroker', Publish(q, n), Ack("PUBREL", q)) =>
            Before(toBroker, Publish(q, n), Ack("PUBREL", q))
  BY <1>a, <1>b, <1>3, AppendPublish, ZenonT(40)
<1>5. TypeOK'
  BY <1>a, <1>b, <1>4, ZenonT(40) DEF TypeOK
<1>6. FlightInv'
  BY <1>a, <1>b, <1>1, ZenonT(40) DEF FlightInv
<1>7. DownInv'
  BY <1>b DEF DownInv
<1>8. OwedInv'
  BY <1>a, <1>b, <1>3, <1>4, ZenonT(40) DEF OwedInv
<1>9. SeenInv'
  BY <1>a, <1>b, <1>1, <1>2, <1>4, ZenonT(40) DEF SeenInv
<1>10. ToBrokerInv'
  BY <1>a, <1>b, <1>1, <1>3, <1>4, ZenonT(40) DEF ToBrokerInv, QoS2
<1>11. ToClientInv'
  BY <1>a, <1>b, <1>1, <1>3, <1>4, ZenonT(40) DEF ToClientInv, QoS2
<1>12. HereInv'
  BY <1>a, <1>b, <1>1, ZenonT(40) DEF HereInv, QoS2
<1>13. ToldInv'
  <2>1. \A n \in done' : Level[n] = 2 => n \in done
    BY <1>b, SMTT(40)
  <2> QED BY <1>a, <1>b, <1>1, <1>2, <2>1, ZenonT(40) DEF ToldInv
<1> QED BY <1>5, <1>6, <1>7, <1>8, <1>9, <1>10, <1>11, <1>12, <1>13 DEF HandshakeInv

\* A message of QoS 1 or 2 takes an identifier the publisher does not use; nothing
\* of QoS 2 is under way for it but late PUBRELs and PUBCOMPs.
LEMMA SendStep ==
    ASSUME HandshakeInv, NEW m \in Messages, Send(m), Level[m] > 0
    PROVE  HandshakeInv'
<1>a. TypeOK /\ FlightInv /\ DownInv /\ OwedInv /\ SeenInv
      /\ ToBrokerInv /\ ToClientInv /\ HereInv /\ ToldInv
  BY DEF HandshakeInv
<1>0. Level[m] # 0
  BY SMTT(40)
<1>b. /\ up /\ m \in unsent /\ unsent' = unsent \ {m} /\ done' = done
      /\ up' = up /\ conns' = conns /\ toClient' = toClient
      /\ seen' = seen /\ routed' = routed /\ here' = here /\ refused' = refused
      /\ refusedHere' = refusedHere /\ owed' = owed /\ resends' = resends
  BY <1>0, ZenonT(40) DEF Send, brokerVars
<1>c. PICK p \in Pids : /\ flight[p] = Free
                        /\ flight' = [flight EXCEPT ![p] = [msg |-> m, stage |-> "publish"]]
                        /\ toBroker' = Append(toBroker, Publish(p, m))
  BY <1>0, ZenonT(40) DEF Send
<1> DEFINE r == [msg |-> m, stage |-> "publish"]
<1>d. r \in Flight /\ r # Free /\ r.msg = m /\ r.stage = "publish"
  BY InboundAssumption, SMTT(40) DEF Flight
<1>1. /\ flight'[p] = r
      /\ \A q \in Pids : q # p =>
            /\ flight'[q] = flight[q]
            /\ Awaiting(q)' <=> Awaiting(q)
            /\ Releasing(q)' <=> Releasing(q)
            /\ \A n : Holds(q, n)' <=> Holds(q, n)
  BY <1>a, <1>c, OtherFlights, ZenonT(40)
<1> HIDE DEF r
<1>2. ~Releasing(p)' /\ ~Releasing(p) /\ ~Awaiting(p)
      /\ (\A n : ~Holds(p, n)) /\ (\A n : Holds(p, n)' <=> n = m)
  BY <1>c, <1>d, <1>1, SMTT(40) DEF Releasing, Awaiting, Holds
<1>3. \A n : Answered(n)' <=> Answered(n)
  BY <1>b, ZenonT(40) DEF Answered
<1>4. ValidPublish(p, m)
  BY ZenonT(40) DEF ValidPublish
<1>5. /\ toBroker' \in Seq(PublishPackets \cup PubrelPackets)
      /\ \A q, n : Contains(toBroker', Publish(q, n)) =>
            Contains(toBroker, Publish(q, n)) \/ (q = p /\ n = m)
      /\ \A q : Contains(toBroker', Ack("PUBREL", q)) => Contains(toBroker, Ack("PUBREL", q))
      /\ \A q, n : Before(toBroker', Ack("PUBREL", q), Publish(q, n)) =>
            Before(toBroker, Ack("PUBREL", q), Publish(q, n)) \/ (q = p /\ n = m)
      /\ \A q, n : Before(toBroker', Publish(q, n), Ack("PUBREL", q)) =>
            Before(toBroker, Publish(q, n), Ack("PUBREL", q))
  BY <1>a, <1>c, <1>4, AppendPublish, ZenonT(40)
<1>6. p \notin owed /\ p \notin seen
  BY <1>a, <1>c, ZenonT(40) DEF OwedInv, SeenInv
<1>7. owed \subseteq Pids /\ seen \subseteq Pids
  BY <1>a DEF TypeOK
<1>8. TypeOK'
  <2>1. flight' \in [Pids -> Flight \cup {Free}]
    BY <1>a, <1>c, <1>d, SMTT(40) DEF TypeOK, r
  <2> QED BY <1>a, <1>b, <1>5, <2>1, ZenonT(40) DEF TypeOK
<1>9. FlightInv'
  <2> SUFFICES ASSUME NEW q \in Pids, flight'[q] # Free
               PROVE /\ flight'[q].msg \notin unsent'
                     /\ Level[flight'[q].msg] > 0
                     /\ Releasing(q)' => Level[flight'[q].msg] = 2
                     /\ \A u \in Pids : Holds(u, flight[q].msg)' => u = q
    BY ZenonT(40) DEF FlightInv
  <2>1. CASE q = p
    <3>1. \A u \in Pids : u # p => ~Holds(u, m)
      BY <1>a, <1>b, ZenonT(40) DEF FlightInv, Holds
    <3>2. \A u \in Pids : Holds(u, m)' => u = p
      BY <1>1, <3>1, ZenonT(40)
    <3>3. flight'[q].msg = m
      BY <1>d, <1>1, <2>1, ZenonT(40)
    <3>4. \A u \in Pids : Holds(u, flight[q].msg)' => u = q
      BY <2>1, <3>2, <3>3, ZenonT(40) DEF Holds
    <3> QED BY <1>b, <1>2, <2>1, <3>3, <3>4, ZenonT(40)
  <2>2. CASE q # p
    <3>1. flight'[q] = flight[q] /\ (Releasing(q)' <=> Releasing(q))
      BY <1>1, <2>2, ZenonT(40)
    <3>2. /\ flight[q].msg \notin unsent /\ Level[flight[q].msg] > 0
          /\ Releasing(q) => Level[flight[q].msg] = 2
          /\ \A u \in Pids : Holds(u, flight[q].msg) => u = q
      BY <1>a, <3>1, ZenonT(40) DEF FlightInv
    <3>3. flight[q].msg # m
      BY <1>b, <3>2, ZenonT(40)
    <3>4. \A u \in Pids : Holds(u, flight[q].msg)' => u = q
      BY <1>d, <1>1, <3>1, <3>2, <3>3, ZenonT(40) DEF Holds
    <3> QED BY <1>b, <3>1, <3>2, <3>4, ZenonT(40)
  <2> QED BY <2>1, <2>2
<1>10. DownInv'
  BY <1>b DEF DownInv
<1>11. OwedInv'
  <2>1. \A q \in owed : q # p /\ flight'[q] = flight[q]
    BY <1>1, <1>6, <1>7, ZenonT(40)
  <2> QED BY <1>a, <1>b, <1>5, <2>1, ZenonT(40) DEF OwedInv
<1>12. SeenInv'
  <2>1. \A q \in seen : q # p /\ flight'[q] = flight[q] /\ (Awaiting(q)' <=> Awaiting(q))
    BY <1>1, <1>6, <1>7, ZenonT(40)
  <2> QED BY <1>a, <1>b, <1>3, <1>5, <2>1, ZenonT(40) DEF SeenInv
<1>13. ToBrokerInv'
  BY <1>a, <1>b, <1>1, <1>2, <1>5, ZenonT(40) DEF ToBrokerInv, QoS2
<1>14. ToClientInv'
  BY <1>a, <1>b, <1>1, <1>2, <1>5, ZenonT(40) DEF ToClientInv, QoS2
<1>15. HereInv'
  <2> SUFFICES ASSUME NEW n \in QoS2
               PROVE /\ here[n] > 0 \/ n \in refusedHere =>
                          n \notin unsent' /\ \A q \in Pids : Awaiting(q)' /\ Holds(q, n)' => q \in seen
                     /\ here[n] <= 1
                     /\ n \in refusedHere => here[n] = 0
    BY <1>b, ZenonT(40) DEF HereInv, QoS2
  <2>1. CASE n = m
    BY <1>a, <1>b, <2>1, ZenonT(40) DEF HereInv
  <2>2. CASE n # m
    BY <1>a, <1>b, <1>1, <1>2, <2>2, ZenonT(40) DEF HereInv
  <2> QED BY <2>1, <2>2
<1>16. ToldInv'
  BY <1>a, <1>b, <1>1, <1>2, <1>3, ZenonT(40) DEF ToldInv
<1> QED BY <1>8, <1>9, <1>10, <1>11, <1>12, <1>13, <1>14, <1>15, <1>16 DEF HandshakeInv

\* The answer that leaves the queue.
LEMMA HeadToClient ==
    ASSUME TypeOK, toClient # <<>>, toClient' = Tail(toClient)
    PROVE  \E t \in {"PUBACK", "PUBREC", "PUBCOMP"}, p \in Pids :
             /\ Head(toClient) = Ack(t, p) /\ Head(toClient).type = t /\ Head(toClient).pid = p
             /\ toClient' \in Seq(Answers)
             /\ Contains(toClient, Ack(t, p))
             /\ \A a : Contains(toClient', a) =>
                         Contains(toClient, a) /\ Before(toClient, Ack(t, p), a)
             /\ \A a, b : Before(toClient', a, b) => Before(toClient, a, b)
<1>1. toClient \in Seq(Answers)
  BY DEF TypeOK
<1>2. /\ toClient' \in Seq(Answers) /\ Head(toClient) \in Answers
      /\ Contains(toClient, Head(toClient))
      /\ \A a : Contains(toClient', a) =>
                  Contains(toClient, a) /\ Before(toClient, Head(toClient), a)
      /\ \A a, b : Before(toClient', a, b) => Before(toClient, a, b)
  BY <1>1, TailFacts, SMTT(40)
<1>3. PICK t \in {"PUBACK", "PUBREC", "PUBCOMP"}, p \in Pids : Head(toClient) = Ack(t, p)
  BY <1>2, PacketTypes, ZenonT(40)
<1>4. Head(toClient).type = t /\ Head(toClient).pid = p
  BY <1>3, Packets, SMTT(40)
<1> QED BY <1>2, <1>3, <1>4, ZenonT(40)

\* An answer the publisher does not wait for is dropped.
LEMMA IgnoreStep ==
    ASSUME HandshakeInv, toClient # <<>>, toClient' = Tail(toClient),
           UNCHANGED <<up, conns, toBroker, brokerVars, clientVars>>
    PROVE  HandshakeInv'
<1>a. TypeOK /\ FlightInv /\ DownInv /\ OwedInv /\ SeenInv
      /\ ToBrokerInv /\ ToClientInv /\ HereInv /\ ToldInv
  BY DEF HandshakeInv
<1>b. /\ up' = up /\ conns' = conns /\ toBroker' = toBroker /\ seen' = seen /\ routed' = routed
      /\ here' = here /\ refused' = refused /\ refusedHere' = refusedHere /\ unsent' = unsent
      /\ flight' = flight /\ done' = done /\ owed' = owed /\ resends' = resends
  BY DEF brokerVars, clientVars
<1>1. \A q : /\ Awaiting(q)' <=> Awaiting(q)
             /\ Releasing(q)' <=> Releasing(q)
             /\ \A m : Holds(q, m)' <=> Holds(q, m)
  BY <1>b, SameFlight, ZenonT(40)
<1>2. \A m : Answered(m)' <=> Answered(m)
  BY <1>b, ZenonT(40) DEF Answered
<1>3. /\ toClient' \in Seq(Answers)
      /\ \A a : Contains(toClient', a) => Contains(toClient, a)
      /\ \A a, b : Before(toClient', a, b) => Before(toClient, a, b)
  BY <1>a, HeadToClient, ZenonT(40)
<1>4. TypeOK'
  BY <1>a, <1>b, <1>3, ZenonT(40) DEF TypeOK
<1>5. FlightInv'
  BY <1>a, <1>b, <1>1, ZenonT(40) DEF FlightInv
<1>6. DownInv'
  <2>1. ~up => toClient = <<>>
    BY <1>a DEF DownInv
  <2> QED BY <1>b, <2>1 DEF DownInv
<1>7. OwedInv' /\ SeenInv'
  BY <1>a, <1>b, <1>1, <1>2, <1>3, ZenonT(40) DEF OwedInv, SeenInv
<1>8. ToBrokerInv'
  BY <1>a, <1>b, <1>1, ZenonT(40) DEF ToBrokerInv, QoS2
<1>9. ToClientInv'
  BY <1>a, <1>b, <1>1, <1>3, ZenonT(40) DEF ToClientInv, QoS2
<1>10. HereInv'
  BY <1>a, <1>b, <1>1, ZenonT(40) DEF HereInv, QoS2
<1>11. ToldInv'
  BY <1>a, <1>b, <1>1, <1>2, ZenonT(40) DEF ToldInv
<1> QED BY <1>4, <1>5, <1>6, <1>7, <1>8, <1>9, <1>10, <1>11 DEF HandshakeInv

\* PUBREC: the identifier is in the tracker, so no PUBREL was under way, and no
\* PUBCOMP follows the PUBREC.
LEMMA PubrecStep ==
    ASSUME HandshakeInv, ReceiveAck, Expected(Head(toClient)), Head(toClient).type = "PUBREC"
    PROVE  HandshakeInv'
<1>a. TypeOK /\ FlightInv /\ DownInv /\ OwedInv /\ SeenInv
      /\ ToBrokerInv /\ ToClientInv /\ HereInv /\ ToldInv
  BY DEF HandshakeInv
<1>0. /\ up /\ toClient # <<>> /\ toClient' = Tail(toClient)
      /\ flight' = [flight EXCEPT ![Head(toClient).pid].stage = "release"]
      /\ toBroker' = Append(toBroker, Ack("PUBREL", Head(toClient).pid))
      /\ owed' = owed \ {Head(toClient).pid}
      /\ up' = up /\ conns' = conns /\ seen' = seen /\ routed' = routed
      /\ here' = here /\ refused' = refused /\ refusedHere' = refusedHere /\ unsent' = unsent
      /\ done' = done /\ resends' = resends
  BY ZenonT(40) DEF ReceiveAck, brokerVars
<1>c. PICK p \in Pids :
         /\ Head(toClient).pid = p
         /\ toClient' \in Seq(Answers)
         /\ Contains(toClient, Ack("PUBREC", p))
         /\ \A a : Contains(toClient', a) =>
                     Contains(toClient, a) /\ Before(toClient, Ack("PUBREC", p), a)
         /\ \A a, b : Before(toClient', a, b) => Before(toClient, a, b)
  <2>1. \E t \in {"PUBACK", "PUBREC", "PUBCOMP"}, q \in Pids :
             /\ Head(toClient) = Ack(t, q) /\ Head(toClient).type = t /\ Head(toClient).pid = q
             /\ toClient' \in Seq(Answers)
             /\ Contains(toClient, Ack(t, q))
             /\ \A a : Contains(toClient', a) =>
                         Contains(toClient, a) /\ Before(toClient, Ack(t, q), a)
             /\ \A a, b : Before(toClient', a, b) => Before(toClient, a, b)
    BY <1>a, <1>0, HeadToClient, ZenonT(40)
  <2> QED BY <2>1, ZenonT(40)
<1>b. /\ up /\ toClient # <<>> /\ toClient' = Tail(toClient)
      /\ flight' = [flight EXCEPT ![p].stage = "release"]
      /\ toBroker' = Append(toBroker, Ack("PUBREL", p))
      /\ owed' = owed \ {p}
      /\ up' = up /\ conns' = conns /\ seen' = seen /\ routed' = routed
      /\ here' = here /\ refused' = refused /\ refusedHere' = refusedHere /\ unsent' = unsent
      /\ done' = done /\ resends' = resends
  BY <1>0, <1>c, ZenonT(40)
<1>d. flight[p] # Free /\ Level[flight[p].msg] = 2 /\ flight[p].stage = "publish"
  BY <1>c, ZenonT(40) DEF Expected
<1> DEFINE r == [flight[p] EXCEPT !.stage = "release"]
<1>e. flight[p] \in Flight /\ flight \in [Pids -> Flight \cup {Free}]
  BY <1>a, <1>c, <1>d, ZenonT(40) DEF TypeOK
<1>f. r \in Flight /\ r # Free /\ r.msg = flight[p].msg /\ r.stage = "release"
  BY <1>e, InboundAssumption, SMTT(40) DEF Flight
<1>g. flight' = [flight EXCEPT ![p] = r]
  BY <1>b, <1>c, <1>e, SMTT(40)
<1> HIDE DEF r
<1>1. /\ flight'[p] = r
      /\ \A q \in Pids : q # p =>
            /\ flight'[q] = flight[q]
            /\ Awaiting(q)' <=> Awaiting(q)
            /\ Releasing(q)' <=> Releasing(q)
            /\ \A n : Holds(q, n)' <=> Holds(q, n)
  BY <1>a, <1>c, <1>g, OtherFlights, ZenonT(40)
<1>2. Releasing(p)' /\ ~Awaiting(p)' /\ Awaiting(p) /\ ~Releasing(p)
      /\ (\A n : Holds(p, n)' <=> Holds(p, n))
  <2>1. flight'[p] # Free /\ flight'[p].stage = "release" /\ flight'[p].msg = flight[p].msg
    BY <1>f, <1>1, ZenonT(40)
  <2>2. Releasing(p)' /\ ~Awaiting(p)' /\ \A n : Holds(p, n)' <=> Holds(p, n)
    BY <1>d, <2>1, ZenonT(40) DEF Releasing, Awaiting, Holds
  <2>3. Awaiting(p) /\ ~Releasing(p)
    BY <1>d, ZenonT(40) DEF Releasing, Awaiting
  <2> QED BY <2>2, <2>3
<1>3. \A n : Answered(n)' <=> Answered(n)
  BY <1>b, ZenonT(40) DEF Answered
<1>4. p \in seen /\ p \notin owed
  BY <1>a, <1>c, <1>2, ZenonT(40) DEF ToClientInv, OwedInv
<1>5. ~Contains(toBroker, Ack("PUBREL", p))
  BY <1>a, <1>2, <1>4, ZenonT(40) DEF SeenInv
<1>6. ~Contains(toClient', Ack("PUBCOMP", p))
  BY <1>a, <1>c, <1>2, ZenonT(40) DEF ToClientInv
<1>7. /\ toBroker' \in Seq(PublishPackets \cup PubrelPackets)
      /\ \A q, n : Contains(toBroker', Publish(q, n)) => Contains(toBroker, Publish(q, n))
      /\ \A q : Contains(toBroker', Ack("PUBREL", q)) =>
            Contains(toBroker, Ack("PUBREL", q)) \/ q = p
      /\ \A q, n : Before(toBroker', Ack("PUBREL", q), Publish(q, n)) =>
            Before(toBroker, Ack("PUBREL", q), Publish(q, n))
      /\ \A q, n : Before(toBroker', Publish(q, n), Ack("PUBREL", q)) =>
            Before(toBroker, Publish(q, n), Ack("PUBREL", q)) \/ q = p
  BY <1>a, <1>b, <1>c, AppendPubrel, ZenonT(40)
<1>8. TypeOK'
  <2>1. flight' \in [Pids -> Flight \cup {Free}]
    BY <1>c, <1>e, <1>f, <1>g, SMTT(40)
  <2> QED BY <1>a, <1>b, <1>c, <1>7, <2>1, ZenonT(40) DEF TypeOK
<1>9. \A q \in Pids : /\ flight'[q] # Free <=> flight[q] # Free
                      /\ flight'[q].msg = flight[q].msg
                      /\ \A n : Holds(q, n)' <=> Holds(q, n)
  BY <1>d, <1>f, <1>1, <1>2, SMTT(40)
<1>10. FlightInv'
  <2> SUFFICES ASSUME NEW q \in Pids, flight'[q] # Free
               PROVE /\ flight'[q].msg \notin unsent'
                     /\ Level[flight'[q].msg] > 0
                     /\ Releasing(q)' => Level[flight'[q].msg] = 2
                     /\ \A u \in Pids : Holds(u, flight[q].msg)' => u = q
    BY ZenonT(40) DEF FlightInv
  <2>1. Releasing(q)' => Level[flight'[q].msg] = 2
    BY <1>a, <1>d, <1>1, <1>9, ZenonT(40) DEF FlightInv
  <2>2. \A u \in Pids : Holds(u, flight[q].msg)' <=> Holds(u, flight[q].msg)
    BY <1>9, ZenonT(40) DEF Holds
  <2> QED BY <1>a, <1>b, <1>9, <2>1, <2>2, SMTT(40) DEF FlightInv
<1>11. DownInv'
  BY <1>b DEF DownInv
<1>12. owed \subseteq Pids /\ seen \subseteq Pids
  BY <1>a DEF TypeOK
<1>13. OwedInv'
  BY <1>a, <1>b, <1>c, <1>7, <1>9, <1>12, ZenonT(40) DEF OwedInv
<1>14. SeenInv'
  <2> SUFFICES ASSUME NEW q \in seen
               PROVE /\ flight'[q] # Free /\ Level[flight'[q].msg] = 2 /\ Answered(flight[q].msg)'
                     /\ Awaiting(q)' => ~Contains(toBroker', Ack("PUBREL", q))
    BY <1>b, ZenonT(40) DEF SeenInv
  <2>1. q \in Pids
    BY <1>12
  <2>2. flight'[q] # Free /\ Level[flight'[q].msg] = 2 /\ Answered(flight[q].msg)'
    BY <1>a, <1>3, <1>9, <2>1, ZenonT(40) DEF SeenInv
  <2>3. Awaiting(q)' => q # p /\ Awaiting(q)
    BY <1>1, <1>2, <2>1, SMTT(40)
  <2> QED BY <1>a, <1>7, <2>2, <2>3, ZenonT(40) DEF SeenInv
<1>15. ToBrokerInv'
  <2> SUFFICES ASSUME NEW q \in Pids, NEW n \in QoS2
               PROVE /\ Contains(toBroker', Publish(q, n)) =>
                           Holds(q, n)' /\ (Releasing(q)' => q \in seen')
                     /\ Before(toBroker', Ack("PUBREL", q), Publish(q, n)) => ~Releasing(q)'
                     /\ Before(toBroker', Publish(q, n), Ack("PUBREL", q)) => Releasing(q)'
    BY ZenonT(40) DEF ToBrokerInv, QoS2
  <2>1. CASE q = p
    <3>1. ~Before(toBroker, Ack("PUBREL", p), Publish(p, n))
      BY <1>5, BeforeContains, ZenonT(40)
    <3> QED BY <1>a, <1>b, <1>c, <1>2, <1>4, <1>7, <2>1, <3>1, SMTT(40) DEF ToBrokerInv
  <2>2. CASE q # p
    BY <1>a, <1>b, <1>1, <1>7, <2>2, ZenonT(40) DEF ToBrokerInv
  <2> QED BY <2>1, <2>2
<1>16. ToClientInv'
  <2> SUFFICES ASSUME NEW q \in Pids
               PROVE /\ Contains(toClient', Ack("PUBREC", q)) =>
                            Releasing(q)' \/ (Awaiting(q)' /\ q \in seen')
                     /\ Before(toClient', Ack("PUBCOMP", q), Ack("PUBREC", q)) => ~Releasing(q)'
                     /\ Before(toClient', Ack("PUBREC", q), Ack("PUBCOMP", q)) => Releasing(q)'
                     /\ Contains(toClient', Ack("PUBCOMP", q)) /\ Releasing(q)' =>
                           q \notin seen' /\ \A n \in QoS2 : ~Contains(toBroker', Publish(q, n))
    BY ZenonT(40) DEF ToClientInv, QoS2
  <2>1. CASE q = p
    BY <1>2, <1>6, <2>1, BeforeContains, SMTT(40)
  <2>2. CASE q # p
    BY <1>a, <1>b, <1>c, <1>1, <1>7, <2>2, ZenonT(40) DEF ToClientInv
  <2> QED BY <2>1, <2>2
<1>17. HereInv'
  <2>1. \A q \in Pids : Awaiting(q)' => Awaiting(q)
    BY <1>1, <1>2, ZenonT(40)
  <2> QED BY <1>a, <1>b, <1>9, <2>1, ZenonT(40) DEF HereInv, QoS2
<1>18. ToldInv'
  <2>1. ASSUME NEW q \in Pids, Releasing(q)' PROVE Answered(flight[q].msg)'
    <3>1. Answered(flight[q].msg)
      BY <1>a, <1>1, <1>4, <2>1, ZenonT(40) DEF ToldInv, SeenInv
    <3> QED BY <1>3, <1>9, <3>1, ZenonT(40)
  <2> QED BY <1>a, <1>b, <1>3, <2>1, ZenonT(40) DEF ToldInv
<1> QED BY <1>8, <1>10, <1>11, <1>13, <1>14, <1>15, <1>16, <1>17, <1>18 DEF HandshakeInv

\* PUBACK or PUBCOMP frees the identifier: the tracker does not hold it, and no
\* QoS 2 packet or PUBREC for it is under way.
LEMMA FinishStep ==
    ASSUME HandshakeInv, ReceiveAck, Expected(Head(toClient)), Head(toClient).type # "PUBREC"
    PROVE  HandshakeInv'
<1>a. TypeOK /\ FlightInv /\ DownInv /\ OwedInv /\ SeenInv
      /\ ToBrokerInv /\ ToClientInv /\ HereInv /\ ToldInv
  BY DEF HandshakeInv
<1>0. /\ up /\ toClient # <<>> /\ toClient' = Tail(toClient)
      /\ flight' = [flight EXCEPT ![Head(toClient).pid] = Free]
      /\ done' = done \cup {flight[Head(toClient).pid].msg}
      /\ owed' = owed \ {Head(toClient).pid}
      /\ up' = up /\ conns' = conns /\ seen' = seen /\ routed' = routed
      /\ here' = here /\ refused' = refused /\ refusedHere' = refusedHere /\ unsent' = unsent
      /\ toBroker' = toBroker /\ resends' = resends
  BY ZenonT(40) DEF ReceiveAck, brokerVars
<1>c. PICK t \in {"PUBACK", "PUBREC", "PUBCOMP"}, p \in Pids :
         /\ Head(toClient).pid = p /\ Head(toClient).type = t
         /\ toClient' \in Seq(Answers)
         /\ Contains(toClient, Ack(t, p))
         /\ \A a : Contains(toClient', a) =>
                     Contains(toClient, a) /\ Before(toClient, Ack(t, p), a)
         /\ \A a, b : Before(toClient', a, b) => Before(toClient, a, b)
  BY <1>a, <1>0, HeadToClient, ZenonT(40)
<1>b. /\ up /\ flight' = [flight EXCEPT ![p] = Free]
      /\ done' = done \cup {flight[p].msg} /\ owed' = owed \ {p}
      /\ up' = up /\ conns' = conns /\ seen' = seen /\ routed' = routed
      /\ here' = here /\ refused' = refused /\ refusedHere' = refusedHere /\ unsent' = unsent
      /\ toBroker' = toBroker /\ resends' = resends
  BY <1>0, <1>c, ZenonT(40)
<1>d. /\ flight[p] # Free
      /\ (t = "PUBACK" /\ Level[flight[p].msg] = 1) \/ (t = "PUBCOMP" /\ Releasing(p))
  BY <1>c, ZenonT(40) DEF Expected, Releasing
<1>1. /\ flight'[p] = Free
      /\ \A q \in Pids : q # p =>
            /\ flight'[q] = flight[q]
            /\ Awaiting(q)' <=> Awaiting(q)
            /\ Releasing(q)' <=> Releasing(q)
            /\ \A n : Holds(q, n)' <=> Holds(q, n)
  BY <1>a, <1>b, OtherFlights, ZenonT(40)
<1>2. ~Releasing(p)' /\ ~Awaiting(p)' /\ \A n : ~Holds(p, n)'
  BY <1>1, ZenonT(40) DEF Releasing, Awaiting, Holds
<1>3. \A n : Answered(n)' <=> Answered(n)
  BY <1>b, ZenonT(40) DEF Answered
<1>4. /\ p \notin seen
      /\ \A n \in QoS2 : ~Contains(toBroker, Publish(p, n))
      /\ ~Contains(toClient', Ack("PUBREC", p))
      /\ Level[flight[p].msg] = 2 => Answered(flight[p].msg)
  <2>1. CASE t = "PUBCOMP" /\ Releasing(p)
    <3>1. Contains(toClient, Ack("PUBCOMP", p))
      BY <1>c, <2>1, ZenonT(40)
    <3>2. p \notin seen /\ \A n \in QoS2 : ~Contains(toBroker, Publish(p, n))
      BY <1>a, <2>1, <3>1, ZenonT(40) DEF ToClientInv
    <3>3. ~Contains(toClient', Ack("PUBREC", p))
      BY <1>a, <1>c, <2>1, ZenonT(40) DEF ToClientInv
    <3> QED BY <1>a, <2>1, <3>2, <3>3, ZenonT(40) DEF ToldInv
  <2>2. CASE Level[flight[p].msg] = 1
    <3>0. Level[flight[p].msg] # 2
      BY <2>2, SMTT(40)
    <3>1. p \notin seen
      BY <1>a, <3>0, ZenonT(40) DEF SeenInv
    <3>2. \A n \in QoS2 : ~Contains(toBroker, Publish(p, n))
      BY <1>a, <3>0, ZenonT(40) DEF ToBrokerInv, Holds, QoS2
    <3>3. ~Awaiting(p) /\ ~Releasing(p)
      BY <1>a, <1>d, <3>0, ZenonT(40) DEF FlightInv, Awaiting
    <3>4. ~Contains(toClient', Ack("PUBREC", p))
      BY <1>a, <1>c, <3>3, ZenonT(40) DEF ToClientInv
    <3> QED BY <3>0, <3>1, <3>2, <3>4
  <2> QED BY <1>d, <2>1, <2>2
<1>5. flight[p].msg \in Messages
  BY <1>a, <1>d, ZenonT(40) DEF TypeOK, Flight
<1>6. owed \subseteq Pids /\ seen \subseteq Pids
  BY <1>a DEF TypeOK
<1>7. TypeOK'
  <2>1. flight' \in [Pids -> Flight \cup {Free}]
    BY <1>a, <1>b, SMTT(40) DEF TypeOK
  <2> QED BY <1>a, <1>b, <1>c, <1>5, <2>1, ZenonT(40) DEF TypeOK
<1>8. FlightInv'
  <2> SUFFICES ASSUME NEW q \in Pids, flight'[q] # Free
               PROVE /\ flight'[q].msg \notin unsent'
                     /\ Level[flight'[q].msg] > 0
                     /\ Releasing(q)' => Level[flight'[q].msg] = 2
                     /\ \A u \in Pids : Holds(u, flight[q].msg)' => u = q
    BY ZenonT(40) DEF FlightInv
  <2>1. q # p /\ flight'[q] = flight[q] /\ (Releasing(q)' <=> Releasing(q))
    BY <1>1, ZenonT(40)
  <2>2. \A u \in Pids : Holds(u, flight[q].msg)' => Holds(u, flight[q].msg)
    BY <1>1, <2>1, ZenonT(40) DEF Holds
  <2> QED BY <1>a, <1>b, <2>1, <2>2, SMTT(40) DEF FlightInv
<1>9. DownInv'
  BY <1>b DEF DownInv
<1>10. OwedInv'
  <2>1. \A q \in owed' : q \in owed /\ flight'[q] = flight[q]
    BY <1>b, <1>1, <1>6, ZenonT(40)
  <2> QED BY <1>a, <1>b, <1>c, <2>1, ZenonT(40) DEF OwedInv
<1>11. SeenInv'
  <2>1. \A q \in seen : flight'[q] = flight[q] /\ (Awaiting(q)' <=> Awaiting(q))
    BY <1>1, <1>4, <1>6, ZenonT(40)
  <2> QED BY <1>a, <1>b, <1>3, <2>1, ZenonT(40) DEF SeenInv
<1>12. ToBrokerInv'
  <2> SUFFICES ASSUME NEW q \in Pids, NEW n \in QoS2
               PROVE /\ Contains(toBroker, Publish(q, n)) =>
                           Holds(q, n)' /\ (Releasing(q)' => q \in seen)
                     /\ Before(toBroker, Ack("PUBREL", q), Publish(q, n)) => ~Releasing(q)'
                     /\ Before(toBroker, Publish(q, n), Ack("PUBREL", q)) => Releasing(q)'
    BY <1>b, ZenonT(40) DEF ToBrokerInv, QoS2
  <2>1. CASE q = p
    BY <1>4, <2>1, BeforeContains, SMTT(40)
  <2>2. CASE q # p
    BY <1>a, <1>1, <2>2, ZenonT(40) DEF ToBrokerInv
  <2> QED BY <2>1, <2>2
<1>13. ToClientInv'
  <2> SUFFICES ASSUME NEW q \in Pids
               PROVE /\ Contains(toClient', Ack("PUBREC", q)) =>
                            Releasing(q)' \/ (Awaiting(q)' /\ q \in seen)
                     /\ Before(toClient', Ack("PUBCOMP", q), Ack("PUBREC", q)) => ~Releasing(q)'
                     /\ Before(toClient', Ack("PUBREC", q), Ack("PUBCOMP", q)) => Releasing(q)'
                     /\ Contains(toClient', Ack("PUBCOMP", q)) /\ Releasing(q)' =>
                           q \notin seen /\ \A n \in QoS2 : ~Contains(toBroker, Publish(q, n))
    BY <1>b, ZenonT(40) DEF ToClientInv, QoS2
  <2>1. CASE q = p
    BY <1>2, <1>4, <2>1, BeforeContains, SMTT(40)
  <2>2. CASE q # p
    BY <1>a, <1>c, <1>1, <2>2, ZenonT(40) DEF ToClientInv
  <2> QED BY <2>1, <2>2
<1>14. HereInv'
  BY <1>a, <1>b, <1>1, <1>2, ZenonT(40) DEF HereInv, QoS2
<1>15. ToldInv'
  <2>1. ASSUME NEW q \in Pids, Releasing(q)' PROVE Answered(flight[q].msg)'
    <3>1. q # p /\ flight'[q] = flight[q] /\ Releasing(q)
      BY <1>1, <1>2, <2>1, ZenonT(40)
    <3> QED BY <1>a, <1>3, <3>1, ZenonT(40) DEF ToldInv
  <2>2. ASSUME NEW n \in done', Level[n] = 2 PROVE Answered(n)
    BY <1>a, <1>b, <1>4, <2>2, ZenonT(40) DEF ToldInv
  <2> QED BY <1>3, <2>1, <2>2, ZenonT(40) DEF ToldInv
<1> QED BY <1>7, <1>8, <1>9, <1>10, <1>11, <1>12, <1>13, <1>14, <1>15 DEF HandshakeInv

\* A broken connection takes packets, tracker and per-connection counts with it.
LEMMA DisconnectStep ==
    ASSUME HandshakeInv, Disconnect
    PROVE  HandshakeInv'
<1>a. TypeOK /\ FlightInv /\ ToldInv
  BY DEF HandshakeInv
<1>b. /\ up' = FALSE /\ toBroker' = <<>> /\ toClient' = <<>> /\ seen' = {}
      /\ here' = [m \in Messages |-> 0] /\ refusedHere' = {} /\ owed' = {}
      /\ conns' = conns /\ routed' = routed /\ refused' = refused /\ unsent' = unsent
      /\ flight' = flight /\ resends' = resends /\ done' = done
  BY ZenonT(40) DEF Disconnect
<1>1. \A q : /\ Awaiting(q)' <=> Awaiting(q)
             /\ Releasing(q)' <=> Releasing(q)
             /\ \A m : Holds(q, m)' <=> Holds(q, m)
  BY <1>b, SameFlight, ZenonT(40)
<1>2. \A m : Answered(m)' <=> Answered(m)
  BY <1>b, ZenonT(40) DEF Answered
<1>3. /\ \A a : ~Contains(toBroker', a) /\ ~Contains(toClient', a)
      /\ \A a, b : ~Before(toBroker', a, b) /\ ~Before(toClient', a, b)
  BY <1>b, EmptyFacts, ZenonT(40)
<1>4. TypeOK'
  <2>1. <<>> \in Seq(PublishPackets \cup PubrelPackets) /\ <<>> \in Seq(Answers)
    BY SMTT(40)
  <2>2. here' \in [Messages -> Nat]
    BY <1>b, SMTT(40)
  <2> QED BY <1>a, <1>b, <2>1, <2>2, ZenonT(40) DEF TypeOK
<1>5. FlightInv' /\ DownInv' /\ OwedInv' /\ SeenInv'
  <2>1. FlightInv'
    BY <1>a, <1>b, <1>1, ZenonT(40) DEF FlightInv
  <2>2. DownInv' /\ OwedInv' /\ SeenInv'
    BY <1>b, ZenonT(40) DEF DownInv, OwedInv, SeenInv
  <2> QED BY <2>1, <2>2
<1>6. ToBrokerInv' /\ ToClientInv'
  BY <1>3, ZenonT(40) DEF ToBrokerInv, ToClientInv
<1>7. HereInv'
  <2>1. \A m \in QoS2 : here'[m] = 0 /\ m \notin refusedHere'
    BY <1>b, SMTT(40) DEF QoS2
  <2> QED BY <2>1, SMTT(40) DEF HereInv, QoS2
<1>8. ToldInv'
  BY <1>a, <1>b, <1>1, <1>2, ZenonT(40) DEF ToldInv
<1> QED BY <1>4, <1>5, <1>6, <1>7, <1>8 DEF HandshakeInv

\* A new connection starts with empty queues and an empty tracker.
LEMMA ConnectStep ==
    ASSUME HandshakeInv, Connect
    PROVE  HandshakeInv'
<1>a. TypeOK /\ FlightInv /\ DownInv /\ SeenInv
      /\ ToBrokerInv /\ ToClientInv /\ HereInv /\ ToldInv
  BY DEF HandshakeInv
<1>b. /\ ~up /\ up' = TRUE /\ conns' = conns + 1 /\ owed' = {p \in Pids : flight[p] # Free}
      /\ toBroker' = toBroker /\ toClient' = toClient /\ seen' = seen /\ here' = here
      /\ refusedHere' = refusedHere /\ routed' = routed /\ refused' = refused
      /\ unsent' = unsent /\ flight' = flight /\ resends' = resends /\ done' = done
  BY ZenonT(40) DEF Connect, brokerVars
<1>1. \A q : /\ Awaiting(q)' <=> Awaiting(q)
             /\ Releasing(q)' <=> Releasing(q)
             /\ \A m : Holds(q, m)' <=> Holds(q, m)
  BY <1>b, SameFlight, ZenonT(40)
<1>2. \A m : Answered(m)' <=> Answered(m)
  BY <1>b, ZenonT(40) DEF Answered
<1>3. toBroker = <<>> /\ toClient = <<>> /\ seen = {}
  BY <1>a, <1>b DEF DownInv
<1>4. TypeOK'
  <2>1. conns' \in Nat
    BY <1>a, <1>b, SMTT(40) DEF TypeOK
  <2> QED BY <1>a, <1>b, <2>1, ZenonT(40) DEF TypeOK
<1>5. FlightInv'
  BY <1>a, <1>b, <1>1, ZenonT(40) DEF FlightInv
<1>6. DownInv'
  BY <1>b DEF DownInv
<1>7. OwedInv'
  <2>1. \A a : ~Contains(toBroker', a) /\ ~Contains(toClient', a)
    BY <1>b, <1>3, EmptyFacts, ZenonT(40)
  <2> QED BY <1>b, <1>3, <2>1, ZenonT(40) DEF OwedInv
<1>8. SeenInv'
  BY <1>b, <1>3, ZenonT(40) DEF SeenInv
<1>9. ToBrokerInv' /\ ToClientInv'
  BY <1>a, <1>b, <1>1, ZenonT(40) DEF ToBrokerInv, ToClientInv, QoS2
<1>10. HereInv'
  BY <1>a, <1>b, <1>1, ZenonT(40) DEF HereInv, QoS2
<1>11. ToldInv'
  BY <1>a, <1>b, <1>1, <1>2, ZenonT(40) DEF ToldInv
<1> QED BY <1>4, <1>5, <1>6, <1>7, <1>8, <1>9, <1>10, <1>11 DEF HandshakeInv

----------------------------------------------------------------------------
(***************************************************************************)
(* The theorems.                                                           *)
(***************************************************************************)
LEMMA HandshakeInit ==
    Init => HandshakeInv
<1> SUFFICES ASSUME Init PROVE HandshakeInv
  OBVIOUS
<1>a. /\ up = FALSE /\ conns = 0 /\ seen = {} /\ toBroker = <<>> /\ toClient = <<>>
      /\ unsent = Messages /\ flight = [p \in Pids |-> Free] /\ owed = {} /\ resends = 0
      /\ routed = [m \in Messages |-> 0] /\ here = [m \in Messages |-> 0]
      /\ refused = {} /\ refusedHere = {} /\ done = {}
  BY DEF Init
<1>1. TypeOK
  <2>1. <<>> \in Seq(PublishPackets \cup PubrelPackets) /\ <<>> \in Seq(Answers) /\ 0 \in Nat
    BY SMTT(40)
  <2>2. /\ flight \in [Pids -> Flight \cup {Free}]
        /\ routed \in [Messages -> Nat] /\ here \in [Messages -> Nat]
    BY <1>a, SMTT(40)
  <2> QED BY <1>a, <2>1, <2>2, ZenonT(40) DEF TypeOK
<1>2. \A p \in Pids : flight[p] = Free
  BY <1>a, ZenonT(40)
<1>3. FlightInv /\ DownInv /\ OwedInv /\ SeenInv
  BY <1>a, <1>2, ZenonT(40) DEF FlightInv, DownInv, OwedInv, SeenInv
<1>4. ToBrokerInv /\ ToClientInv
  BY <1>a, EmptyFacts, ZenonT(40) DEF ToBrokerInv, ToClientInv
<1>5. HereInv
  <2>1. \A m \in QoS2 : here[m] = 0 /\ m \notin refusedHere
    BY <1>a, ZenonT(40) DEF QoS2
  <2> QED BY <2>1, SMTT(40) DEF HereInv
<1>6. ToldInv
  BY <1>a, <1>2, ZenonT(40) DEF ToldInv, Releasing
<1> QED BY <1>1, <1>3, <1>4, <1>5, <1>6 DEF HandshakeInv

\* Every step keeps the invariant.
LEMMA HandshakeStep ==
    ASSUME HandshakeInv, [Next]_vars
    PROVE  HandshakeInv'
<1>a. TypeOK /\ OwedInv
  BY DEF HandshakeInv
<1>1. CASE HandlePubrel
  BY <1>1, PubrelStep
<1>2. ASSUME NEW refuse \in BOOLEAN, HandlePublish(refuse) PROVE HandshakeInv'
  BY <1>2, PublishLowStep, PublishTwoStep, ZenonT(40)
<1>3. CASE ReceiveAck
  <2>1. CASE ~Expected(Head(toClient))
    <3>1. /\ toClient # <<>> /\ toClient' = Tail(toClient)
          /\ UNCHANGED <<up, conns, toBroker, brokerVars, clientVars>>
      BY <1>3, <2>1, ZenonT(40) DEF ReceiveAck, clientVars
    <3> QED BY <3>1, IgnoreStep
  <2>2. CASE Expected(Head(toClient)) /\ Head(toClient).type = "PUBREC"
    BY <1>3, <2>2, PubrecStep
  <2>3. CASE Expected(Head(toClient)) /\ Head(toClient).type # "PUBREC"
    BY <1>3, <2>3, FinishStep
  <2> QED BY <2>1, <2>2, <2>3
<1>4. ASSUME NEW p \in Pids, Resume(p) PROVE HandshakeInv'
  <2>1. /\ flight[p] # Free /\ up /\ toBroker' = Append(toBroker, Packet(p))
        /\ owed' = owed \ {p} /\ resends' \in Nat
        /\ UNCHANGED <<up, conns, toClient, brokerVars, unsent, flight, done>>
    BY <1>a, <1>4, ZenonT(40) DEF Resume, OwedInv, TypeOK
  <2> QED BY <2>1, AgainStep
<1>5. ASSUME NEW p \in Pids, Resend(p) PROVE HandshakeInv'
  <2>1. resends' \in Nat
    BY <1>a, <1>5, SMTT(40) DEF Resend, TypeOK
  <2>2. /\ flight[p] # Free /\ up /\ toBroker' = Append(toBroker, Packet(p))
        /\ owed' = owed \ {p}
        /\ UNCHANGED <<up, conns, toClient, brokerVars, unsent, flight, done>>
    BY <1>5, ZenonT(40) DEF Resend
  <2> QED BY <2>1, <2>2, AgainStep
<1>6. CASE Connect
  BY <1>6, ConnectStep
<1>7. CASE Disconnect
  BY <1>7, DisconnectStep
<1>8. ASSUME NEW m \in Messages, Send(m) PROVE HandshakeInv'
  <2>1. Level[m] = 0 \/ Level[m] > 0
    BY <1>8, InboundAssumption, SMTT(40)
  <2> QED BY <1>8, <2>1, SendZeroStep, SendStep
<1>9. CASE UNCHANGED vars
  <2>1. /\ up' = up /\ conns' = conns /\ seen' = seen /\ toBroker' = toBroker
        /\ toClient' = toClient /\ unsent' = unsent /\ flight' = flight /\ owed' = owed
        /\ resends' = resends /\ routed' = routed /\ here' = here /\ refused' = refused
        /\ refusedHere' = refusedHere /\ done' = done
    BY <1>9 DEF vars, brokerVars, clientVars
  <2> QED BY <2>1, ZenonT(40)
          DEF HandshakeInv, TypeOK, FlightInv, DownInv, OwedInv, SeenInv, ToBrokerInv,
              ToClientInv, HereInv, ToldInv, Awaiting, Releasing, Holds, Answered, QoS2
<1> QED BY <1>1, <1>2, <1>3, <1>4, <1>5, <1>6, <1>7, <1>8, <1>9, ZenonT(40)
        DEF Next, BrokerStep, ClientStep

\* The order of the packets and the meaning of an identifier in the tracker are
\* kept by every step of broker, publisher and network.
THEOREM HandshakeInvariant == Spec => []HandshakeInv
<1>1. Init => HandshakeInv
  BY HandshakeInit
<1>2. HandshakeInv /\ [Next]_vars => HandshakeInv'
  BY HandshakeStep
<1> QED BY <1>1, <1>2, PTL DEF Spec

\* A QoS 2 message is routed at most once on a connection.
THEOREM RoutedOnce == Spec => []OncePerConnection
<1>1. HandshakeInv => OncePerConnection
  BY DEF HandshakeInv, HereInv, OncePerConnection
<1> QED BY <1>1, HandshakeInvariant, PTL

\* A QoS 2 message that was refused is not routed on the connection.
THEOREM RefusalKept == Spec => []RefusedStaysRefused
<1>1. HandshakeInv => RefusedStaysRefused
  BY DEF HandshakeInv, HereInv, RefusedStaysRefused
<1> QED BY <1>1, HandshakeInvariant, PTL

----------------------------------------------------------------------------
(***************************************************************************)
(* QoS 1 without retransmissions.                                          *)
(***************************************************************************)

\* The broker answers the one copy there is.
LEMMA SinglePublish ==
    ASSUME HandshakeInv, SingleInv, NEW refuse \in BOOLEAN, HandlePublish(refuse)
    PROVE  SingleInv'
<1>a. TypeOK
  BY DEF HandshakeInv
<1>1. PICK p, m : PublishEffect(refuse, p, m)
  BY PublishFacts, ZenonT(40)
<1>2. m \in Messages /\ Level[m] \in 0 .. 2
  BY <1>1, InboundAssumption, SMTT(40) DEF PublishEffect, ValidPublish
<1>3. /\ \A n \in Messages : Answered(n) => Answered(n)'
      /\ ShouldRoute(m, p) => Answered(m)'
  BY <1>a, <1>1, <1>2, PublishCounts, ZenonT(40) DEF PublishEffect
<1>4. /\ \A q : Contains(toClient', Ack("PUBACK", q)) =>
            Contains(toClient, Ack("PUBACK", q)) \/ (q = p /\ m \in QoS1)
      /\ \A q : Before(toClient', Ack("PUBACK", q), Ack("PUBACK", q)) =>
            \/ Before(toClient, Ack("PUBACK", q), Ack("PUBACK", q))
            \/ Contains(toClient, Ack("PUBACK", q)) /\ q = p /\ m \in QoS1
  <2>1. /\ \A t, q : Contains(toClient', Ack(t, q)) =>
              \/ Contains(toClient, Ack(t, q))
              \/ q = p /\ t = (IF Level[m] = 2 THEN "PUBREC" ELSE "PUBACK") /\ Level[m] > 0
        /\ \A t, q, u, r : Before(toClient', Ack(t, q), Ack(u, r)) =>
              \/ Before(toClient, Ack(t, q), Ack(u, r))
              \/ /\ Contains(toClient, Ack(t, q))
                 /\ r = p /\ u = (IF Level[m] = 2 THEN "PUBREC" ELSE "PUBACK") /\ Level[m] > 0
    BY <1>a, <1>1, ReplyFacts, ZenonT(40) DEF PublishEffect
  <2>2. "PUBACK" = (IF Level[m] = 2 THEN "PUBREC" ELSE "PUBACK") /\ Level[m] > 0 => m \in QoS1
    BY <1>2, SMTT(40) DEF QoS1
  <2> QED BY <2>1, <2>2, SMTT(40)
<1>5. \A q \in Pids : flight[q] # Free => flight[q].msg \in Messages
  BY <1>a, ZenonT(40) DEF TypeOK, Flight
<1>6. SUFFICES ASSUME resends = 0 PROVE SingleInv'
  BY <1>1, ZenonT(40) DEF SingleInv, PublishEffect
<1>7. ASSUME NEW n \in done' \cap QoS1 PROVE Answered(n)'
  BY <1>1, <1>3, <1>6, ZenonT(40) DEF SingleInv, QoS1, PublishEffect
<1>8. ASSUME m \in QoS1
      PROVE  /\ p \in Pids /\ Holds(p, m) /\ Answered(m)'
             /\ ~Contains(toClient, Ack("PUBACK", p))
             /\ \A n \in QoS1 : ~Contains(toBroker', Publish(p, n))
  <2>1. Level[m] = 1 /\ Level[m] # 2
    BY <1>8, SMTT(40) DEF QoS1
  <2>2. p \in Pids
    BY <1>1, <2>1, SMTT(40) DEF PublishEffect, ValidPublish
  <2>3. Answered(m)'
    BY <1>3, <2>1, ZenonT(40) DEF ShouldRoute
  <2>4. Holds(p, m) /\ ~Contains(toClient, Ack("PUBACK", p))
    BY <1>1, <1>6, <1>8, <2>2, ZenonT(40) DEF SingleInv, PublishEffect
  <2>5. ASSUME NEW n \in QoS1, Contains(toBroker', Publish(p, n)) PROVE FALSE
    <3>1. Contains(toBroker, Publish(p, n)) /\ Before(toBroker, Publish(p, m), Publish(p, n))
      BY <1>1, <2>5, ZenonT(40) DEF PublishEffect
    <3>2. Holds(p, n)
      BY <1>6, <2>2, <3>1, ZenonT(40) DEF SingleInv
    <3>3. n = m
      BY <2>4, <3>2 DEF Holds
    <3> QED BY <1>6, <1>8, <2>2, <3>1, <3>3, ZenonT(40) DEF SingleInv
  <2> QED BY <2>2, <2>3, <2>4, <2>5, ZenonT(40)
<1>9. ASSUME NEW q \in Pids, Contains(toClient', Ack("PUBACK", q))
      PROVE  /\ flight'[q] # Free /\ flight'[q].msg \in QoS1 /\ Answered(flight[q].msg)'
             /\ \A n \in QoS1 : ~Contains(toBroker', Publish(q, n))
  <2>0. flight' = flight
    BY <1>1 DEF PublishEffect
  <2>1. CASE Contains(toClient, Ack("PUBACK", q))
    <3>1. /\ flight[q] # Free /\ flight[q].msg \in QoS1 /\ Answered(flight[q].msg)
          /\ \A n \in QoS1 : ~Contains(toBroker, Publish(q, n))
      BY <1>6, <2>1, ZenonT(40) DEF SingleInv
    <3>2. \A n \in QoS1 : ~Contains(toBroker', Publish(q, n))
      BY <1>1, <3>1, ZenonT(40) DEF PublishEffect
    <3> QED BY <1>3, <1>5, <2>0, <3>1, <3>2, ZenonT(40)
  <2>2. CASE q = p /\ m \in QoS1
    <3>1. /\ flight'[q] # Free /\ flight'[q].msg = m
      BY <1>8, <2>0, <2>2, ZenonT(40) DEF Holds
    <3> QED BY <1>8, <2>2, <3>1, ZenonT(40)
  <2> QED BY <1>4, <1>9, <2>1, <2>2
<1>10. ASSUME NEW q \in Pids PROVE ~Before(toClient', Ack("PUBACK", q), Ack("PUBACK", q))
  BY <1>4, <1>6, <1>8, ZenonT(40) DEF SingleInv
<1>11. ASSUME NEW q \in Pids, NEW n \in QoS1
       PROVE  /\ Contains(toBroker', Publish(q, n)) => Holds(q, n)'
              /\ ~Before(toBroker', Publish(q, n), Publish(q, n))
  BY <1>1, <1>6, ZenonT(40) DEF SingleInv, PublishEffect, Holds
<1> QED BY <1>7, <1>9, <1>10, <1>11, ZenonT(40) DEF SingleInv, QoS1

\* A step that adds no PUBLISH and no PUBACK, and gives up no QoS 1 message.
LEMMA SingleQuiet ==
    ASSUME SingleInv, resends' = resends,
           \A n \in QoS1 : Answered(n) => Answered(n)',
           \A n \in QoS1 : n \in done' => n \in done,
           \A q \in Pids : Contains(toClient', Ack("PUBACK", q)) => Contains(toClient, Ack("PUBACK", q)),
           \A q \in Pids : Before(toClient', Ack("PUBACK", q), Ack("PUBACK", q)) =>
                             Before(toClient, Ack("PUBACK", q), Ack("PUBACK", q)),
           \A q \in Pids, n \in QoS1 :
             /\ Contains(toBroker', Publish(q, n)) => Contains(toBroker, Publish(q, n))
             /\ Before(toBroker', Publish(q, n), Publish(q, n)) =>
                  Before(toBroker, Publish(q, n), Publish(q, n)),
           \A q \in Pids : flight[q] # Free /\ flight[q].msg \in QoS1 =>
                             flight'[q] # Free /\ flight'[q].msg = flight[q].msg
    PROVE  SingleInv'
<1>1. SUFFICES ASSUME resends = 0 PROVE SingleInv'
  BY DEF SingleInv
<1>2. ASSUME NEW n \in done' \cap QoS1 PROVE Answered(n)'
  BY <1>1, ZenonT(40) DEF SingleInv
<1>3. ASSUME NEW q \in Pids, Contains(toClient', Ack("PUBACK", q))
      PROVE  /\ flight'[q] # Free /\ flight'[q].msg \in QoS1 /\ Answered(flight[q].msg)'
             /\ \A n \in QoS1 : ~Contains(toBroker', Publish(q, n))
  <2>1. /\ flight[q] # Free /\ flight[q].msg \in QoS1 /\ Answered(flight[q].msg)
        /\ \A n \in QoS1 : ~Contains(toBroker, Publish(q, n))
    BY <1>1, <1>3, ZenonT(40) DEF SingleInv
  <2>2. flight'[q] # Free /\ flight'[q].msg = flight[q].msg
    BY <2>1, ZenonT(40)
  <2> QED BY <2>1, <2>2, ZenonT(40)
<1>4. ASSUME NEW q \in Pids PROVE ~Before(toClient', Ack("PUBACK", q), Ack("PUBACK", q))
  BY <1>1, ZenonT(40) DEF SingleInv
<1>5. ASSUME NEW q \in Pids, NEW n \in QoS1
      PROVE  /\ Contains(toBroker', Publish(q, n)) => Holds(q, n)'
             /\ ~Before(toBroker', Publish(q, n), Publish(q, n))
  <2>1. Holds(q, n) => Holds(q, n)'
    BY ZenonT(40) DEF Holds
  <2> QED BY <1>1, <2>1, ZenonT(40) DEF SingleInv
<1> QED BY <1>2, <1>3, <1>4, <1>5, ZenonT(40) DEF SingleInv, QoS1

\* PUBREL and its PUBCOMP do not concern QoS 1.
LEMMA SinglePubrel ==
    ASSUME HandshakeInv, SingleInv, HandlePubrel
    PROVE  SingleInv'
<1>a. /\ toBroker \in Seq(PublishPackets \cup PubrelPackets) /\ toClient \in Seq(Answers)
      /\ TypeOK
  BY DEF HandshakeInv, TypeOK
<1>b. /\ toBroker # <<>> /\ Head(toBroker).type = "PUBREL"
      /\ toBroker' = Tail(toBroker) /\ toClient' = Append(toClient, Ack("PUBCOMP", Head(toBroker).pid))
      /\ routed' = routed /\ refused' = refused /\ flight' = flight /\ resends' = resends
      /\ done' = done
  BY ZenonT(40) DEF HandlePubrel, Arrived, clientVars
<1>c. PICK p \in Pids : Head(toBroker) = Ack("PUBREL", p)
  BY <1>a, <1>b, HeadToBroker, ZenonT(40)
<1>d. Head(toBroker).pid = p /\ Ack("PUBCOMP", p) \in Answers
  BY <1>c, Packets, PacketTypes, SMTT(40)
<1>1. /\ \A a : Contains(toBroker', a) => Contains(toBroker, a)
      /\ \A a, b : Before(toBroker', a, b) => Before(toBroker, a, b)
  BY <1>a, <1>b, TailFacts, SMTT(40)
<1>2. /\ \A a : Contains(toClient', a) => Contains(toClient, a) \/ a = Ack("PUBCOMP", p)
      /\ \A a, b : Before(toClient', a, b) =>
                     Before(toClient, a, b) \/ (Contains(toClient, a) /\ b = Ack("PUBCOMP", p))
  BY <1>a, <1>b, <1>d, AppendFacts, SMTT(40)
<1>3. \A q : Ack("PUBACK", q) # Ack("PUBCOMP", p)
  BY Packets, SMTT(40)
<1>4. \A n : Answered(n)' <=> Answered(n)
  BY <1>b, ZenonT(40) DEF Answered
<1>5. \A q : /\ Contains(toClient', Ack("PUBACK", q)) => Contains(toClient, Ack("PUBACK", q))
             /\ Before(toClient', Ack("PUBACK", q), Ack("PUBACK", q)) =>
                  Before(toClient, Ack("PUBACK", q), Ack("PUBACK", q))
  BY <1>2, <1>3, SMTT(40)
<1>6. /\ \A n \in QoS1 : Answered(n) => Answered(n)'
      /\ \A n \in QoS1 : n \in done' => n \in done
      /\ \A q \in Pids : Contains(toClient', Ack("PUBACK", q)) => Contains(toClient, Ack("PUBACK", q))
      /\ \A q \in Pids : Before(toClient', Ack("PUBACK", q), Ack("PUBACK", q)) =>
                           Before(toClient, Ack("PUBACK", q), Ack("PUBACK", q))
      /\ \A q \in Pids, n \in QoS1 :
             /\ Contains(toBroker', Publish(q, n)) => Contains(toBroker, Publish(q, n))
             /\ Before(toBroker', Publish(q, n), Publish(q, n)) =>
                  Before(toBroker, Publish(q, n), Publish(q, n))
      /\ \A q \in Pids : flight[q] # Free /\ flight[q].msg \in QoS1 =>
                             flight'[q] # Free /\ flight'[q].msg = flight[q].msg
  BY <1>b, <1>1, <1>4, <1>5, ZenonT(40)
<1> QED BY <1>b, <1>6, SingleQuiet

\* A new message takes an identifier for which nothing is under way.
LEMMA SingleSend ==
    ASSUME HandshakeInv, SingleInv, NEW m \in Messages, Send(m)
    PROVE  SingleInv'
<1>a. TypeOK /\ FlightInv
  BY DEF HandshakeInv
<1>b. /\ toClient' = toClient /\ routed' = routed /\ refused' = refused /\ resends' = resends
  BY ZenonT(40) DEF Send, brokerVars
<1>1. \A n : Answered(n)' <=> Answered(n)
  BY <1>b, ZenonT(40) DEF Answered
<1>2. CASE Level[m] = 0
  <2>1. /\ toBroker' = Append(toBroker, Publish(0, m)) /\ flight' = flight
        /\ done' = done \cup {m}
    BY <1>2, SMTT(40) DEF Send
  <2>2. ValidPublish(0, m) /\ 0 \notin Pids /\ m \notin QoS1
    BY <1>2, InboundAssumption, SMTT(40) DEF ValidPublish, Pids, QoS1
  <2>3. /\ \A q, n : Contains(toBroker', Publish(q, n)) =>
              Contains(toBroker, Publish(q, n)) \/ (q = 0 /\ n = m)
        /\ \A q, n : Before(toBroker', Publish(q, n), Publish(q, n)) =>
              \/ Before(toBroker, Publish(q, n), Publish(q, n))
              \/ q = 0 /\ n = m /\ Contains(toBroker, Publish(0, m))
    BY <1>a, <2>1, <2>2, AppendPublish, ZenonT(40)
  <2>4. /\ \A n \in QoS1 : Answered(n) => Answered(n)'
        /\ \A n \in QoS1 : n \in done' => n \in done
        /\ \A q \in Pids : Contains(toClient', Ack("PUBACK", q)) => Contains(toClient, Ack("PUBACK", q))
        /\ \A q \in Pids : Before(toClient', Ack("PUBACK", q), Ack("PUBACK", q)) =>
                             Before(toClient, Ack("PUBACK", q), Ack("PUBACK", q))
        /\ \A q \in Pids, n \in QoS1 :
               /\ Contains(toBroker', Publish(q, n)) => Contains(toBroker, Publish(q, n))
               /\ Before(toBroker', Publish(q, n), Publish(q, n)) =>
                    Before(toBroker, Publish(q, n), Publish(q, n))
        /\ \A q \in Pids : flight[q] # Free /\ flight[q].msg \in QoS1 =>
                               flight'[q] # Free /\ flight'[q].msg = flight[q].msg
    BY <1>b, <1>1, <2>1, <2>2, <2>3, ZenonT(40)
  <2> QED BY <1>b, <2>4, SingleQuiet
<1>3. CASE Level[m] # 0
  <2>1. done' = done
    BY <1>3, ZenonT(40) DEF Send
  <2>2. PICK p \in Pids : /\ flight[p] = Free
                          /\ flight' = [flight EXCEPT ![p] = [msg |-> m, stage |-> "publish"]]
                          /\ toBroker' = Append(toBroker, Publish(p, m))
    BY <1>3, ZenonT(40) DEF Send
  <2>3. ValidPublish(p, m)
    BY <1>3, InboundAssumption, SMTT(40) DEF ValidPublish
  <2>4. /\ \A q, n : Contains(toBroker', Publish(q, n)) =>
              Contains(toBroker, Publish(q, n)) \/ (q = p /\ n = m)
        /\ \A q, n : Before(toBroker', Publish(q, n), Publish(q, n)) =>
              \/ Before(toBroker, Publish(q, n), Publish(q, n))
              \/ q = p /\ n = m /\ Contains(toBroker, Publish(p, m))
    BY <1>a, <2>2, <2>3, AppendPublish, ZenonT(40)
  <2>5. /\ flight'[p] = [msg |-> m, stage |-> "publish"]
        /\ \A q \in Pids : q # p => flight'[q] = flight[q] /\ \A n : Holds(q, n)' <=> Holds(q, n)
    BY <1>a, <2>2, OtherFlights, ZenonT(40)
  <2>6. Holds(p, m)' /\ \A n : ~Holds(p, n)
    <3>1. [msg |-> m, stage |-> "publish"] # Free
      BY InboundAssumption, SMTT(40) DEF Flight
    <3>2. flight'[p] # Free /\ flight'[p].msg = m
      BY <2>5, <3>1, SMTT(40)
    <3> QED BY <2>2, <3>2, ZenonT(40) DEF Holds
  <2>7. SUFFICES ASSUME resends = 0 PROVE SingleInv'
    BY <1>b, ZenonT(40) DEF SingleInv
  <2>8. ~Contains(toClient, Ack("PUBACK", p)) /\ \A n \in QoS1 : ~Contains(toBroker, Publish(p, n))
    BY <2>2, <2>6, <2>7, ZenonT(40) DEF SingleInv
  <2>9. ASSUME NEW q \in Pids, Contains(toClient', Ack("PUBACK", q))
        PROVE  /\ flight'[q] # Free /\ flight'[q].msg \in QoS1 /\ Answered(flight[q].msg)'
               /\ \A n \in QoS1 : ~Contains(toBroker', Publish(q, n))
    <3>1. q # p
      BY <1>b, <2>8, <2>9, ZenonT(40)
    <3>2. /\ flight[q] # Free /\ flight[q].msg \in QoS1 /\ Answered(flight[q].msg)
          /\ \A n \in QoS1 : ~Contains(toBroker, Publish(q, n))
      BY <1>b, <2>7, <2>9, ZenonT(40) DEF SingleInv
    <3>3. flight'[q] = flight[q]
      BY <2>5, <3>1, ZenonT(40)
    <3> QED BY <1>1, <2>4, <3>1, <3>2, <3>3, ZenonT(40)
  <2>10. ASSUME NEW q \in Pids, NEW n \in QoS1
         PROVE  /\ Contains(toBroker', Publish(q, n)) => Holds(q, n)'
                /\ ~Before(toBroker', Publish(q, n), Publish(q, n))
    <3>1. CASE q = p
      <4>1. ~Contains(toBroker, Publish(q, n)) /\ ~Before(toBroker, Publish(q, n), Publish(q, n))
        BY <2>7, <2>8, <3>1, ZenonT(40) DEF SingleInv
      <4>2. Contains(toBroker', Publish(q, n)) => n = m
        BY <2>4, <4>1, SMTT(40)
      <4>3. ~Before(toBroker', Publish(q, n), Publish(q, n))
        BY <2>4, <3>1, <4>1, ZenonT(40)
      <4>4. Contains(toBroker', Publish(q, n)) => Holds(q, n)'
        BY <2>6, <3>1, <4>2, ZenonT(40) DEF Holds
      <4> QED BY <4>3, <4>4
    <3>2. CASE q # p
      BY <2>4, <2>5, <2>7, <3>2, ZenonT(40) DEF SingleInv
    <3> QED BY <3>1, <3>2
  <2>11. /\ \A n \in done' \cap QoS1 : Answered(n)'
         /\ \A q \in Pids : ~Before(toClient', Ack("PUBACK", q), Ack("PUBACK", q))
    BY <1>b, <1>1, <2>1, <2>7, ZenonT(40) DEF SingleInv
  <2> QED BY <2>9, <2>10, <2>11, ZenonT(40) DEF SingleInv, QoS1
<1> QED BY <1>2, <1>3

\* After a reconnect the identifier was not used on the connection before.
LEMMA SingleResume ==
    ASSUME HandshakeInv, SingleInv, NEW p \in Pids, Resume(p)
    PROVE  SingleInv'
<1>a. TypeOK /\ FlightInv /\ OwedInv
  BY DEF HandshakeInv
<1>b. /\ p \in owed /\ toBroker' = Append(toBroker, Packet(p)) /\ toClient' = toClient
      /\ routed' = routed /\ refused' = refused /\ resends' = resends /\ flight' = flight
      /\ done' = done
  BY ZenonT(40) DEF Resume, brokerVars
<1>1. \A n : Answered(n)' <=> Answered(n)
  BY <1>b, ZenonT(40) DEF Answered
<1>2. /\ flight[p] # Free
      /\ \A m \in Messages : ~Contains(toBroker, Publish(p, m))
      /\ ~Contains(toClient, Ack("PUBACK", p))
  BY <1>a, <1>b, ZenonT(40) DEF OwedInv
<1>3. flight[p].msg \in Messages /\ ValidPublish(p, flight[p].msg)
  <2>1. flight[p].msg \in Messages
    BY <1>a, <1>2, ZenonT(40) DEF TypeOK, Flight
  <2> QED BY <1>a, <1>2, <2>1, ZenonT(40) DEF FlightInv, ValidPublish
<1>4. /\ \A q, n : Contains(toBroker', Publish(q, n)) =>
            Contains(toBroker, Publish(q, n)) \/ (q = p /\ Holds(p, n))
      /\ \A q, n : Before(toBroker', Publish(q, n), Publish(q, n)) =>
            \/ Before(toBroker, Publish(q, n), Publish(q, n))
            \/ q = p /\ Contains(toBroker, Publish(q, n))
  <2>1. CASE flight[p].stage = "publish"
    <3>1. PICK m \in Messages : flight[p].msg = m
      BY <1>3, ZenonT(40)
    <3>2. /\ toBroker' = Append(toBroker, Publish(p, m)) /\ Holds(p, m)
          /\ ValidPublish(p, m)
      BY <1>b, <1>2, <1>3, <2>1, <3>1, ZenonT(40) DEF Packet, Holds
    <3>3. /\ \A q, n : Contains(toBroker', Publish(q, n)) =>
               Contains(toBroker, Publish(q, n)) \/ (q = p /\ n = m)
          /\ \A q, n : Before(toBroker', Publish(q, n), Publish(q, n)) =>
               \/ Before(toBroker, Publish(q, n), Publish(q, n))
               \/ q = p /\ n = m /\ Contains(toBroker, Publish(p, m))
      BY <1>a, <3>2, AppendPublish, ZenonT(40)
    <3>4. \A q, n : q = p /\ n = m => Holds(p, n)
      BY <3>2, ZenonT(40)
    <3>5. \A q, n : q = p /\ n = m /\ Contains(toBroker, Publish(p, m)) =>
                     Contains(toBroker, Publish(q, n))
      BY ZenonT(40)
    <3> QED BY <3>3, <3>4, <3>5, ZenonT(40)
  <2>2. CASE flight[p].stage # "publish"
    <3>1. toBroker' = Append(toBroker, Ack("PUBREL", p))
      BY <1>b, <2>2 DEF Packet
    <3> QED BY <1>a, <3>1, AppendPubrel, SMTT(40)
  <2> QED BY <2>1, <2>2
<1>5. SUFFICES ASSUME resends = 0 PROVE SingleInv'
  BY <1>b, ZenonT(40) DEF SingleInv
<1>6. ASSUME NEW q \in Pids, Contains(toClient', Ack("PUBACK", q))
      PROVE  /\ flight'[q] # Free /\ flight'[q].msg \in QoS1 /\ Answered(flight[q].msg)'
             /\ \A n \in QoS1 : ~Contains(toBroker', Publish(q, n))
  <2>1. q # p
    BY <1>b, <1>2, <1>6, ZenonT(40)
  <2> QED BY <1>b, <1>1, <1>4, <1>5, <1>6, <2>1, ZenonT(40) DEF SingleInv
<1>7. ASSUME NEW q \in Pids, NEW n \in QoS1
      PROVE  /\ Contains(toBroker', Publish(q, n)) => Holds(q, n)'
             /\ ~Before(toBroker', Publish(q, n), Publish(q, n))
  <2>1. n \in Messages /\ (Holds(q, n)' <=> Holds(q, n))
    BY <1>b, ZenonT(40) DEF QoS1, Holds
  <2>2. q = p => ~Contains(toBroker, Publish(q, n))
    BY <1>2, <2>1, ZenonT(40)
  <2> QED BY <1>4, <1>5, <2>1, <2>2, SMTT(40) DEF SingleInv
<1>8. /\ \A n \in done' \cap QoS1 : Answered(n)'
      /\ \A q \in Pids : ~Before(toClient', Ack("PUBACK", q), Ack("PUBACK", q))
  BY <1>b, <1>1, <1>5, ZenonT(40) DEF SingleInv
<1> QED BY <1>6, <1>7, <1>8, ZenonT(40) DEF SingleInv, QoS1

\* An answer that only moves on a QoS 2 handshake, or none at all.
LEMMA SingleOther ==
    ASSUME HandshakeInv, SingleInv, ReceiveAck,
           ~Expected(Head(toClient)) \/ Head(toClient).type = "PUBREC"
    PROVE  SingleInv'
<1>a. TypeOK
  BY DEF HandshakeInv
<1>b. /\ toClient # <<>> /\ toClient' = Tail(toClient) /\ done' = done
      /\ routed' = routed /\ refused' = refused /\ resends' = resends
  BY ZenonT(40) DEF ReceiveAck, brokerVars
<1>c. PICK t \in {"PUBACK", "PUBREC", "PUBCOMP"}, p \in Pids :
         /\ Head(toClient).pid = p /\ Head(toClient).type = t
         /\ \A a : Contains(toClient', a) => Contains(toClient, a)
         /\ \A a, b : Before(toClient', a, b) => Before(toClient, a, b)
  BY <1>a, <1>b, HeadToClient, ZenonT(40)
<1>1. \A n : Answered(n)' <=> Answered(n)
  BY <1>b, ZenonT(40) DEF Answered
<1>2. /\ \A q \in Pids, n \in QoS1 :
             /\ Contains(toBroker', Publish(q, n)) => Contains(toBroker, Publish(q, n))
             /\ Before(toBroker', Publish(q, n), Publish(q, n)) =>
                  Before(toBroker, Publish(q, n), Publish(q, n))
      /\ \A q \in Pids : flight[q] # Free /\ flight[q].msg \in QoS1 =>
                             flight'[q] # Free /\ flight'[q].msg = flight[q].msg
  <2>1. CASE ~Expected(Head(toClient))
    <3>1. toBroker' = toBroker /\ flight' = flight
      BY <2>1, ZenonT(40) DEF ReceiveAck
    <3> QED BY <3>1, ZenonT(40)
  <2>2. CASE Expected(Head(toClient)) /\ Head(toClient).type = "PUBREC"
    <3>1. /\ flight' = [flight EXCEPT ![p].stage = "release"]
          /\ toBroker' = Append(toBroker, Ack("PUBREL", p))
      BY <1>c, <2>2, ZenonT(40) DEF ReceiveAck
    <3>2. flight[p].msg \notin QoS1
      <4>1. Level[flight[p].msg] = 2
        BY <1>c, <2>2, ZenonT(40) DEF Expected
      <4> QED BY <4>1, SMTT(40) DEF QoS1
    <3>3. \A q \in Pids : q # p => flight'[q] = flight[q]
      BY <1>a, <3>1, ZenonT(40) DEF TypeOK
    <3>4. /\ \A q, n : Contains(toBroker', Publish(q, n)) => Contains(toBroker, Publish(q, n))
          /\ \A q, n : Before(toBroker', Publish(q, n), Publish(q, n)) =>
               Before(toBroker, Publish(q, n), Publish(q, n))
      BY <1>a, <3>1, AppendPubrel, SMTT(40)
    <3> QED BY <3>2, <3>3, <3>4, SMTT(40)
  <2> QED BY <2>1, <2>2
<1>3. /\ \A n \in QoS1 : Answered(n) => Answered(n)'
      /\ \A n \in QoS1 : n \in done' => n \in done
      /\ \A q \in Pids : Contains(toClient', Ack("PUBACK", q)) => Contains(toClient, Ack("PUBACK", q))
      /\ \A q \in Pids : Before(toClient', Ack("PUBACK", q), Ack("PUBACK", q)) =>
                           Before(toClient, Ack("PUBACK", q), Ack("PUBACK", q))
  BY <1>b, <1>c, <1>1, ZenonT(40)
<1> QED BY <1>b, <1>2, <1>3, SingleQuiet

\* The PUBACK the publisher waits for is the only one, and it answers this message.
LEMMA SingleFinish ==
    ASSUME HandshakeInv, SingleInv, ReceiveAck,
           Expected(Head(toClient)), Head(toClient).type # "PUBREC"
    PROVE  SingleInv'
<1>a. TypeOK /\ FlightInv
  BY DEF HandshakeInv
<1>0. /\ toClient # <<>> /\ toClient' = Tail(toClient)
      /\ flight' = [flight EXCEPT ![Head(toClient).pid] = Free]
      /\ done' = done \cup {flight[Head(toClient).pid].msg}
      /\ routed' = routed /\ refused' = refused /\ toBroker' = toBroker /\ resends' = resends
  BY ZenonT(40) DEF ReceiveAck, brokerVars
<1>c. PICK t \in {"PUBACK", "PUBREC", "PUBCOMP"}, p \in Pids :
         /\ Head(toClient).pid = p /\ Head(toClient).type = t
         /\ Contains(toClient, Ack(t, p))
         /\ \A a : Contains(toClient', a) =>
                     Contains(toClient, a) /\ Before(toClient, Ack(t, p), a)
         /\ \A a, b : Before(toClient', a, b) => Before(toClient, a, b)
  BY <1>a, <1>0, HeadToClient, ZenonT(40)
<1>b. /\ flight' = [flight EXCEPT ![p] = Free] /\ done' = done \cup {flight[p].msg}
      /\ routed' = routed /\ refused' = refused /\ toBroker' = toBroker /\ resends' = resends
  BY <1>0, <1>c, ZenonT(40)
<1>d. /\ flight[p] # Free
      /\ (t = "PUBACK" /\ Level[flight[p].msg] = 1) \/ (t = "PUBCOMP" /\ Releasing(p))
  BY <1>c, ZenonT(40) DEF Expected, Releasing
<1>1. /\ flight'[p] = Free
      /\ \A q \in Pids : q # p =>
            flight'[q] = flight[q] /\ \A n : Holds(q, n)' <=> Holds(q, n)
  BY <1>a, <1>b, OtherFlights, ZenonT(40)
<1>2. \A n : Answered(n)' <=> Answered(n)
  BY <1>b, ZenonT(40) DEF Answered
<1>3. SUFFICES ASSUME resends = 0 PROVE SingleInv'
  BY <1>b, ZenonT(40) DEF SingleInv
<1>4. /\ flight[p].msg \in QoS1 => Answered(flight[p].msg)
      /\ ~Contains(toClient', Ack("PUBACK", p))
      /\ \A n \in QoS1 : ~Contains(toBroker, Publish(p, n))
  <2>1. CASE t = "PUBACK"
    <3>1. Contains(toClient, Ack("PUBACK", p))
      BY <1>c, <2>1, SMTT(40)
    <3>2. Contains(toClient', Ack("PUBACK", p)) =>
            Before(toClient, Ack("PUBACK", p), Ack("PUBACK", p))
      BY <1>c, <2>1, SMTT(40)
    <3> QED BY <1>3, <3>1, <3>2, ZenonT(40) DEF SingleInv
  <2>2. CASE t = "PUBCOMP" /\ Releasing(p)
    <3>1. Level[flight[p].msg] = 2
      BY <1>a, <1>d, <2>2, ZenonT(40) DEF FlightInv, Releasing
    <3>2. flight[p].msg \notin QoS1
      BY <3>1, SMTT(40) DEF QoS1
    <3>3. ~Contains(toClient', Ack("PUBACK", p))
      BY <1>c, <1>3, <3>2, ZenonT(40) DEF SingleInv
    <3>4. \A n \in QoS1 : ~Contains(toBroker, Publish(p, n))
      BY <1>3, <3>2, ZenonT(40) DEF SingleInv, Holds
    <3> QED BY <3>2, <3>3, <3>4
  <2> QED BY <1>d, <2>1, <2>2
<1>5. ASSUME NEW q \in Pids, Contains(toClient', Ack("PUBACK", q))
      PROVE  /\ flight'[q] # Free /\ flight'[q].msg \in QoS1 /\ Answered(flight[q].msg)'
             /\ \A n \in QoS1 : ~Contains(toBroker', Publish(q, n))
  <2>1. q # p
    BY <1>4, <1>5, ZenonT(40)
  <2>2. /\ flight[q] # Free /\ flight[q].msg \in QoS1 /\ Answered(flight[q].msg)
        /\ \A n \in QoS1 : ~Contains(toBroker, Publish(q, n))
    BY <1>c, <1>3, <1>5, ZenonT(40) DEF SingleInv
  <2>3. flight'[q] = flight[q]
    BY <1>1, <2>1, ZenonT(40)
  <2> QED BY <1>b, <1>2, <2>2, <2>3, ZenonT(40)
<1>6. ASSUME NEW q \in Pids, NEW n \in QoS1
      PROVE  /\ Contains(toBroker', Publish(q, n)) => Holds(q, n)'
             /\ ~Before(toBroker', Publish(q, n), Publish(q, n))
  <2>1. Contains(toBroker', Publish(q, n)) => q # p /\ Holds(q, n)
    BY <1>b, <1>3, <1>4, ZenonT(40) DEF SingleInv
  <2> QED BY <1>b, <1>1, <1>3, <2>1, ZenonT(40) DEF SingleInv
<1>7. ASSUME NEW n \in done' \cap QoS1 PROVE Answered(n)'
  <2>1. n \in done \/ n = flight[p].msg
    BY <1>b, ZenonT(40)
  <2>2. Answered(n)
    BY <1>3, <1>4, <2>1, SMTT(40) DEF SingleInv
  <2> QED BY <1>2, <2>2, ZenonT(40)
<1>8. \A q \in Pids : ~Before(toClient', Ack("PUBACK", q), Ack("PUBACK", q))
  BY <1>c, <1>3, ZenonT(40) DEF SingleInv
<1> QED BY <1>5, <1>6, <1>7, <1>8, ZenonT(40) DEF SingleInv, QoS1

\* Every step keeps the QoS 1 exchanges apart, as long as nothing is resent.
LEMMA SingleStep ==
    ASSUME HandshakeInv, SingleInv, [Next]_vars
    PROVE  SingleInv'
<1>a. TypeOK
  BY DEF HandshakeInv
<1>1. CASE HandlePubrel
  BY <1>1, SinglePubrel
<1>2. ASSUME NEW refuse \in BOOLEAN, HandlePublish(refuse) PROVE SingleInv'
  BY <1>2, SinglePublish
<1>3. CASE ReceiveAck
  BY <1>3, SingleOther, SingleFinish, ZenonT(40)
<1>4. ASSUME NEW p \in Pids, Resume(p) PROVE SingleInv'
  BY <1>4, SingleResume
<1>5. ASSUME NEW p \in Pids, Resend(p) PROVE SingleInv'
  <2>1. resends' # 0
    BY <1>a, <1>5, SMTT(40) DEF Resend, TypeOK
  <2> QED BY <2>1, ZenonT(40) DEF SingleInv
<1>6. CASE Connect
  <2>1. /\ toBroker' = toBroker /\ toClient' = toClient /\ flight' = flight /\ done' = done
        /\ routed' = routed /\ refused' = refused /\ resends' = resends
    BY <1>6, ZenonT(40) DEF Connect, brokerVars
  <2> QED BY <2>1, ZenonT(40) DEF SingleInv, Answered, Holds
<1>7. CASE Disconnect
  <2>1. /\ toBroker' = <<>> /\ toClient' = <<>> /\ done' = done
        /\ routed' = routed /\ refused' = refused /\ resends' = resends
    BY <1>7, ZenonT(40) DEF Disconnect
  <2>2. /\ \A a : ~Contains(toBroker', a) /\ ~Contains(toClient', a)
        /\ \A a, b : ~Before(toBroker', a, b) /\ ~Before(toClient', a, b)
    BY <2>1, EmptyFacts, ZenonT(40)
  <2> QED BY <2>1, <2>2, ZenonT(40) DEF SingleInv, Answered
<1>8. ASSUME NEW m \in Messages, Send(m) PROVE SingleInv'
  BY <1>8, SingleSend
<1>9. CASE UNCHANGED vars
  <2>1. /\ toBroker' = toBroker /\ toClient' = toClient /\ flight' = flight /\ done' = done
        /\ routed' = routed /\ refused' = refused /\ resends' = resends
    BY <1>9 DEF vars, brokerVars, clientVars
  <2> QED BY <2>1, ZenonT(40) DEF SingleInv, Answered, Holds
<1> QED BY <1>1, <1>2, <1>3, <1>4, <1>5, <1>6, <1>7, <1>8, <1>9, ZenonT(40)
        DEF Next, BrokerStep, ClientStep

\* A message whose handshake the publisher has seen end was routed or refused:
\* a QoS 2 message always, a QoS 1 message as long as no packet was sent twice
\* on one connection.
THEOREM NothingSwallowed == Spec => []NotSwallowed
<1>1. Init => SingleInv
  <2>1. Init => /\ toBroker = <<>> /\ toClient = <<>> /\ done = {}
    BY ZenonT(40) DEF Init
  <2> QED BY <2>1, EmptyFacts, ZenonT(40) DEF SingleInv
<1>2. HandshakeInv /\ SingleInv /\ [Next]_vars => SingleInv'
  BY SingleStep
<1>3. HandshakeInv /\ SingleInv => NotSwallowed
  BY ZenonT(40) DEF HandshakeInv, SingleInv, ToldInv, NotSwallowed, QoS1, QoS2, TypeOK
<1> QED BY <1>1, <1>2, <1>3, HandshakeInvariant, PTL DEF Spec
=============================================================================
