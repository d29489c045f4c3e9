------------------------- MODULE OutboundQosProofs -------------------------
(***************************************************************************)
(* The outbound handshakes for every number of identifiers, messages and   *)
(* retries: the bound of the inflight table, that no entry is ever         *)
(* overwritten, that QoS 2 is exactly once, and that acknowledgements end  *)
(* the handshake of a message the subscriber has.                          *)
(***************************************************************************)
EXTENDS OutboundQos, FiniteSetTheorems, TLAPS

USE QosAssumption

\* allocate_pid returns an identifier that is not in the table, or 0.
LEMMA AllocateFresh ==
  ASSUME NEW next \in Pids, NEW used \in SUBSET Pids, NEW p \in Pids, NEW n,
         Allocate(next, used, p, n)
  PROVE  p \notin used /\ n \in Pids
  <1>1. PICK i \in Hits(next, used) : p = Nth(next, i) /\ n = Nth(next, i + 1)
    BY SMTT(40) DEF Allocate, Pids
  <1>2. p \notin used
    BY <1>1, ZenonT(40) DEF Hits
  <1>3. i + 1 \in Nat /\ next - 1 \in Nat
    BY <1>1, SMTT(40) DEF Hits, Pids
  <1>4. (next - 1 + (i + 1)) % MaxPid \in 0 .. MaxPid - 1
    BY <1>3, SMTT(40)
  <1>5. QED
    BY <1>1, <1>2, <1>3, <1>4, SMTT(40) DEF Nth, Pids

\* A stage change, a due retry and a retry leave an entry of the table typed.
LEMMA FlightUpdate ==
  ASSUME NEW e \in Flight
  PROVE  /\ [e EXCEPT !.stage = "pubcomp", !.due = FALSE] \in Flight
         /\ [e EXCEPT !.due = TRUE] \in Flight
         /\ Retried(e).msg = e.msg
         /\ e.retries < MaxRetries => Retried(e) \in Flight
  <1>1. /\ [e EXCEPT !.stage = "pubcomp", !.due = FALSE] \in Flight
        /\ [e EXCEPT !.due = TRUE] \in Flight
    BY Zenon DEF Flight, Stages
  <1>2. Retried(e).msg = e.msg
    BY ZenonT(40) DEF Flight, Retried
  <1>3. ASSUME e.retries < MaxRetries PROVE Retried(e) \in Flight
    <2> DEFINE r == [e EXCEPT !.retries = e.retries + 1]
    <2>1. r \in Flight
      BY <1>3, SMTT(40) DEF Flight
    <2>2. [r EXCEPT !.due = FALSE] \in Flight
      <3> HIDE DEF r
      <3>1. QED
        BY <2>1, Zenon DEF Flight
    <2>3. Retried(e) = [r EXCEPT !.due = FALSE]
      BY ZenonT(40) DEF Retried, Flight
    <2>4. QED
      BY <2>2, <2>3, ZenonT(40)
  <1>4. QED
    BY <1>1, <1>2, <1>3, ZenonT(40)

\* Sending puts one new entry under a free identifier.
LEMMA SendStep ==
  ASSUME TypeOK, NEW m \in Messages, Send(m)
  PROVE  /\ TypeOK'
         /\ \E p \in Pids : /\ inflight[p] = Free
                            /\ inflight' = [inflight EXCEPT ![p] = NewFlight(m)]
  <1>1. PICK p \in Pids, n \in Pids :
              /\ Allocate(nextPid, Used, p, n)
              /\ nextPid' = n
              /\ inflight' = [inflight EXCEPT ![p] = NewFlight(m)]
              /\ toClient' = Append(toClient, Publish(p, m))
    BY Zenon DEF Send
  <1>2. p \notin Used
    BY <1>1, AllocateFresh, Zenon DEF TypeOK, Used
  <1>3. NewFlight(m) \in Flight
    BY SMTT(40) DEF NewFlight, Flight, Stages
  <1>4. Publish(p, m) \in Packet
    BY ZenonT(40) DEF Publish, Packet
  <1>5. toClient' \in Seq(Packet)
    BY <1>1, <1>4, SMTT(40) DEF TypeOK
  <1>6. inflight' \in [Pids -> Flight \cup {Free}]
    BY <1>1, <1>3, ZenonT(40) DEF TypeOK
  <1>7. TypeOK'
    BY <1>1, <1>5, <1>6, ZenonT(40) DEF TypeOK, Send, clientVars, histVars
  <1>8. QED
    BY <1>1, <1>2, <1>7, Zenon DEF Used

\* A retry frees entries or keeps their message.
LEMMA RetryStep ==
  ASSUME TypeOK, RetryTick
  PROVE  /\ TypeOK'
         /\ \A p \in Pids : \/ inflight'[p] = Free
                            \/ inflight[p] # Free /\ inflight'[p].msg = inflight[p].msg
  <1>1. PICK s \in Orders(ToResend) :
           toClient' = toClient \o [i \in DOMAIN s |-> BuildPacket(s[i])]
    BY ZenonT(40) DEF RetryTick
  <1>2. \A p \in ToResend : /\ p \in Pids /\ inflight[p] \in Flight
                            /\ inflight[p].retries < MaxRetries
    BY SMTT(40) DEF ToResend, Due, Failed, Used, TypeOK, Flight
  <1>3. \A p \in ToResend : BuildPacket(p) \in Packet
    BY <1>2, ZenonT(40) DEF BuildPacket, Packet, AckPacket, Publish, Ack, Flight
  <1>4. IsFiniteSet(ToResend) /\ Cardinality(ToResend) \in Nat
    <2>1. IsFiniteSet(Pids)
      BY FS_Interval, SMTT(40) DEF Pids
    <2>2. ToResend \subseteq Pids
      BY <1>2, ZenonT(40)
    <2>3. QED
      BY <2>1, <2>2, FS_Subset, FS_CardinalityType, ZenonT(40)
  <1>5. [i \in DOMAIN s |-> BuildPacket(s[i])] \in Seq(Packet)
    BY <1>1, <1>3, <1>4, SMTT(40) DEF Orders
  <1>6. toClient' \in Seq(Packet)
    BY <1>1, <1>5, SMTT(40) DEF TypeOK
  <1>7. \A p \in ToResend : Retried(inflight[p]) \in Flight
    BY <1>2, FlightUpdate, Zenon
  <1>8. inflight' \in [Pids -> Flight \cup {Free}]
    BY <1>7, ZenonT(40) DEF TypeOK, RetryTick
  <1>9. \A p \in Failed : inflight[p].msg \in Messages
    BY ZenonT(40) DEF Failed, Due, Used, TypeOK, Flight
  <1>10. TypeOK'
    BY <1>6, <1>8, <1>9, ZenonT(40) DEF TypeOK, RetryTick, clientVars
  <1>11. \A p \in ToResend : Retried(inflight[p]).msg = inflight[p].msg
    BY <1>2, FlightUpdate, Zenon
  <1>12. \A p \in Pids : inflight'[p] = IF p \in Failed THEN Free
                                    ELSE IF p \in ToResend THEN Retried(inflight[p])
                                    ELSE inflight[p]
    BY ZenonT(40) DEF RetryTick
  <1>13. \A p \in ToResend : inflight[p] # Free
    BY <1>2, ZenonT(40)
  <1>14. QED
    BY <1>10, <1>11, <1>12, <1>13, ZenonT(40)

\* The initial state is typed.
LEMMA TypeInit == Init => TypeOK
  <1> SUFFICES ASSUME Init PROVE TypeOK
    OBVIOUS
  <1>1. nextPid \in Pids
    BY SMTT(40) DEF Init, Pids
  <1>2. inflight \in [Pids -> Flight \cup {Free}]
    BY ZenonT(40) DEF Init
  <1>3. toClient \in Seq(Packet) /\ toBroker \in Seq(AckPacket)
    BY SMTT(40) DEF Init
  <1>4. got \in [Messages -> Nat]
    BY ZenonT(40) DEF Init
  <1>5. QED
    BY <1>1, <1>2, <1>3, <1>4, ZenonT(40) DEF Init, TypeOK

\* Acknowledgements and the passing of time keep the types.
LEMMA AcksType ==
  ASSUME TypeOK, NEW p \in Pids, Complete(p) \/ Pubrec(p) \/ Elapse(p)
  PROVE  TypeOK'
  <1> USE DEF clientVars, histVars, wireVars
  <1>1. CASE Complete(p)
    <2>0. toBroker # <<>> /\ toBroker' = Tail(toBroker)
      BY <1>1, ZenonT(40) DEF Complete, Receive
    <2>1. toBroker' \in Seq(AckPacket)
      BY <2>0, SMTT(40) DEF TypeOK
    <2>2. inflight[p] # Free => inflight[p].msg \in Messages
      BY ZenonT(40) DEF TypeOK, Flight
    <2>3. acked' \subseteq Messages
      BY <1>1, <2>2, ZenonT(40) DEF Complete, TypeOK
    <2>4. inflight' \in [Pids -> Flight \cup {Free}]
      BY <1>1, ZenonT(40) DEF Complete, TypeOK
    <2>5. QED
      BY <1>1, <2>1, <2>3, <2>4, ZenonT(40) DEF Complete, TypeOK
  <1>2. CASE Pubrec(p)
    <2>1. toBroker' \in Seq(AckPacket)
      BY <1>2, SMTT(40) DEF Pubrec, Receive, TypeOK
    <2>2. toClient' \in Seq(Packet)
      BY <1>2, SMTT(40) DEF Pubrec, TypeOK, Ack, Packet, AckPacket
    <2>3. inflight' \in [Pids -> Flight \cup {Free}]
      <3>1. CASE inflight[p] = Free
        BY <1>2, <3>1, ZenonT(40) DEF Pubrec, TypeOK
      <3>2. CASE inflight[p] # Free
        <4>1. inflight' = [inflight EXCEPT ![p].stage = "pubcomp", ![p].due = FALSE]
          BY <1>2, <3>2, ZenonT(40) DEF Pubrec
        <4>2. inflight[p] \in Flight
          BY <3>2, ZenonT(40) DEF TypeOK
        <4>3. inflight' =
                [inflight EXCEPT ![p] = [inflight[p] EXCEPT !.stage = "pubcomp", !.due = FALSE]]
          BY <4>1, <4>2, Zenon DEF TypeOK
        <4>4. [inflight[p] EXCEPT !.stage = "pubcomp", !.due = FALSE] \in Flight
          BY <4>2, FlightUpdate, Zenon
        <4>5. QED
          BY <4>3, <4>4, ZenonT(40) DEF TypeOK
      <3>3. QED
        BY <3>1, <3>2, ZenonT(40)
    <2>4. QED
      BY <1>2, <2>1, <2>2, <2>3, ZenonT(40) DEF Pubrec, TypeOK
  <1>3. CASE Elapse(p)
    <2>1. inflight[p] \in Flight
      BY <1>3, ZenonT(40) DEF Elapse, TypeOK
    <2>2. inflight' = [inflight EXCEPT ![p] = [inflight[p] EXCEPT !.due = TRUE]]
      BY <1>3, ZenonT(40) DEF Elapse, TypeOK
    <2>3. inflight' \in [Pids -> Flight \cup {Free}]
      BY <2>1, <2>2, FlightUpdate, Zenon DEF TypeOK
    <2>4. QED
      BY <1>3, <2>3, ZenonT(40) DEF Elapse, TypeOK
  <1>4. QED
    BY <1>1, <1>2, <1>3, ZenonT(40)

\* The steps of the subscriber keep the types.
LEMMA ClientType ==
  ASSUME TypeOK, Client
  PROVE  TypeOK'
  <1> USE DEF brokerVars, histVars, Ack
  <1>1. ASSUME NEW p \in Pids, ClientPublish(p)
        PROVE  TypeOK'
    <2>1. Head(toClient) \in Packet /\ toClient' \in Seq(Packet)
      BY <1>1, SMTT(40) DEF ClientPublish, Take, TypeOK
    <2>2. Head(toClient).msg \in Messages
      BY <1>1, <2>1, ZenonT(40) DEF ClientPublish, Take, Packet, AckPacket
    <2>3. toBroker' \in Seq(AckPacket)
      BY <1>1, SMTT(40) DEF ClientPublish, TypeOK, AckPacket
    <2>4. QED
      BY <1>1, <2>1, <2>2, <2>3, SMTT(40) DEF ClientPublish, TypeOK
  <1>2. ASSUME NEW p \in Pids, ClientPubrel(p)
        PROVE  TypeOK'
    <2>1. toClient' \in Seq(Packet)
      BY <1>2, SMTT(40) DEF ClientPubrel, Take, TypeOK
    <2>2. toBroker' \in Seq(AckPacket)
      BY <1>2, SMTT(40) DEF ClientPubrel, TypeOK, AckPacket
    <2>3. QED
      BY <1>2, <2>1, <2>2, ZenonT(40) DEF ClientPubrel, TypeOK
  <1>3. QED
    BY <1>1, <1>2, ZenonT(40) DEF Client

\* What a step does to the table: an entry appears on a free identifier while
\* there is room, and otherwise entries only stay, with their message, or leave.
TableStep ==
    \/ \E p \in Pids, e \in Flight :
          /\ inflight[p] = Free
          /\ ~TableFull
          /\ inflight' = [inflight EXCEPT ![p] = e]
    \/ \A p \in Pids : \/ inflight'[p] = Free
                       \/ inflight[p] # Free /\ inflight'[p].msg = inflight[p].msg

\* Every step changes the table in one of the ways of TableStep.
LEMMA StepTable ==
  ASSUME TypeOK, [Next]_vars
  PROVE  TypeOK' /\ TableStep
  <1> USE DEF clientVars, histVars, wireVars, brokerVars
  <1>1. ASSUME NEW m \in Messages, Send(m)
        PROVE  TypeOK' /\ TableStep
    <2>1. NewFlight(m) \in Flight
      BY SMTT(40) DEF NewFlight, Flight, Stages
    <2>2. QED
      BY <1>1, <2>1, SendStep, Zenon DEF TableStep, Send
  <1>2. ASSUME NEW m \in Messages, Refuse(m)
        PROVE  TypeOK' /\ TableStep
    <2>1. UNCHANGED inflight
      BY <1>2, ZenonT(40) DEF Refuse
    <2>2. TypeOK'
      BY <1>2, ZenonT(40) DEF Refuse, TypeOK
    <2>3. QED
      BY <2>1, <2>2, ZenonT(40) DEF TableStep
  <1>3. ASSUME NEW p \in Pids, Complete(p) \/ Pubrec(p) \/ Elapse(p)
        PROVE  TypeOK' /\ TableStep
    <2>1. TypeOK'
      BY <1>3, AcksType, ZenonT(40)
    <2>2. \A q \in Pids \ {p} : inflight'[q] = inflight[q]
      BY <1>3, ZenonT(40) DEF Complete, Pubrec, Elapse, TypeOK
    <2>3. \/ inflight'[p] = Free
          \/ inflight[p] # Free /\ inflight'[p].msg = inflight[p].msg
      <3>1. CASE Complete(p)
        BY <3>1, ZenonT(40) DEF Complete, TypeOK
      <3>2. CASE Pubrec(p) /\ inflight[p] = Free
        BY <3>2, ZenonT(40) DEF Pubrec
      <3>3. CASE Pubrec(p) /\ inflight[p] # Free
        <4>1. inflight[p] \in Flight
          BY <3>3, ZenonT(40) DEF TypeOK
        <4>2. inflight'[p] = [inflight[p] EXCEPT !.stage = "pubcomp", !.due = FALSE]
          BY <3>3, <4>1, ZenonT(40) DEF Pubrec, TypeOK
        <4>3. QED
          BY <3>3, <4>1, <4>2, ZenonT(40) DEF Flight
      <3>4. CASE Elapse(p)
        <4>1. inflight[p] \in Flight
          BY <3>4, ZenonT(40) DEF Elapse, TypeOK
        <4>2. inflight'[p] = [inflight[p] EXCEPT !.due = TRUE]
          BY <3>4, <4>1, ZenonT(40) DEF Elapse, TypeOK
        <4>3. QED
          BY <3>4, <4>1, <4>2, ZenonT(40) DEF Flight, Elapse
      <3>5. QED
        BY <1>3, <3>1, <3>2, <3>3, <3>4, ZenonT(40)
    <2>4. QED
      BY <2>1, <2>2, <2>3, ZenonT(40) DEF TableStep
  <1>4. CASE RetryTick
    BY <1>4, RetryStep, ZenonT(40) DEF TableStep
  <1>5. CASE Client
    <2>1. UNCHANGED inflight
      BY <1>5, ZenonT(40) DEF Client, ClientPublish, ClientPubrel
    <2>2. QED
      BY <1>5, <2>1, ClientType, ZenonT(40) DEF TableStep
  <1>6. CASE UNCHANGED vars
    <2>1. TypeOK'
      BY <1>6, ZenonT(40) DEF vars, TypeOK
    <2>2. QED
      BY <1>6, <2>1, ZenonT(40) DEF vars, TableStep
  <1>7. QED
    BY <1>1, <1>2, <1>3, <1>4, <1>5, <1>6, ZenonT(40) DEF Next, Route, Acks, Timers

\* Sets of identifiers can be counted.
LEMMA UsedFinite ==
  ASSUME NEW S \in SUBSET Pids
  PROVE  IsFiniteSet(S) /\ Cardinality(S) \in Nat
  <1>1. IsFiniteSet(Pids)
    BY FS_Interval, SMTT(40) DEF Pids
  <1>2. QED
    BY <1>1, FS_Subset, FS_CardinalityType, ZenonT(40)

\* No change of the table exceeds its limit.
LEMMA BoundStep ==
  ASSUME TypeOK, TypeOK', InflightBounded, TableStep
  PROVE  InflightBounded'
  <1>0. Used \in SUBSET Pids /\ Used' \in SUBSET Pids
    BY ZenonT(40) DEF Used
  <1>1. ASSUME NEW p \in Pids, NEW e \in Flight, inflight[p] = Free, ~TableFull,
               inflight' = [inflight EXCEPT ![p] = e]
        PROVE  InflightBounded'
    <2>1. Used' = Used \cup {p} /\ p \notin Used
      BY <1>1, ZenonT(40) DEF Used, TypeOK
    <2>2. Cardinality(Used') = Cardinality(Used) + 1
      BY <1>0, <2>1, UsedFinite, FS_AddElement, ZenonT(40)
    <2>3. Cardinality(Used) < MaxInflight
      BY <1>0, <1>1, UsedFinite, SMTT(40) DEF TableFull
    <2>4. QED
      BY <1>0, <2>2, <2>3, UsedFinite, SMTT(40) DEF InflightBounded
  <1>2. CASE \A p \in Pids : \/ inflight'[p] = Free
                             \/ inflight[p] # Free /\ inflight'[p].msg = inflight[p].msg
    <2>1. Used' \subseteq Used
      BY <1>2, ZenonT(40) DEF Used
    <2>2. Cardinality(Used') <= Cardinality(Used)
      BY <1>0, <2>1, UsedFinite, FS_Subset, ZenonT(40)
    <2>3. QED
      BY <1>0, <2>2, UsedFinite, SMTT(40) DEF InflightBounded
  <1>3. QED
    BY <1>1, <1>2, ZenonT(40) DEF TableStep

\* Every variable keeps its type; in particular no entry is retried more than
\* max_retries times.
THEOREM TypeCorrect == Spec => []TypeOK
  BY TypeInit, StepTable, PTL DEF Spec

\* The inflight table of a connection never exceeds broker.max_inflight.
THEOREM TableBounded == Spec => []InflightBounded
  <1>1. Init => InflightBounded
    <2> SUFFICES ASSUME Init PROVE InflightBounded
      OBVIOUS
    <2>1. Used = {}
      BY ZenonT(40) DEF Init, Used
    <2>2. QED
      BY <2>1, FS_EmptySet, SMTT(40) DEF InflightBounded
  <1>2. TypeOK /\ TypeOK' /\ InflightBounded /\ [Next]_vars => InflightBounded'
    BY StepTable, BoundStep, ZenonT(40)
  <1>3. QED
    BY <1>1, <1>2, TypeCorrect, PTL DEF Spec

\* No message ever takes the identifier of one that is still in the table.
THEOREM EntriesNeverOverwritten == Spec => NeverOverwritten
  <1>1. TypeOK /\ [Next]_vars =>
          [\A p \in Pids : inflight[p] # Free /\ inflight'[p] # Free =>
              inflight'[p].msg = inflight[p].msg]_vars
    <2> SUFFICES ASSUME TypeOK, [Next]_vars, NEW p \in Pids,
                        inflight[p] # Free, inflight'[p] # Free
                 PROVE  inflight'[p].msg = inflight[p].msg
      OBVIOUS
    <2>1. TableStep
      BY StepTable, ZenonT(40)
    <2>2. QED
      BY <2>1, ZenonT(40) DEF TableStep, TypeOK
  <1>2. QED
    BY <1>1, TypeCorrect, PTL DEF Spec, NeverOverwritten

----------------------------------------------------------------------------
(***************************************************************************)
(* The handshakes.                                                         *)
(***************************************************************************)
Published(i, p, m) == toClient[i] = Publish(p, m)
Released(i, p) == toClient[i] = Ack("PUBREL", p)
Holds(p, m) == inflight[p] # Free /\ inflight[p].msg = m

\* m has identifier p, in the table or on its way.
Sent(p, m) == Holds(p, m) \/ \E i \in DOMAIN toClient : Published(i, p, m)

\* A message is sent under one identifier.
OriginInv ==
    /\ \A p \in Pids, m \in Messages : Sent(p, m) => m \in offered
    /\ \A m \in Messages : got[m] > 0 => m \in offered
    /\ \A m \in Messages, p, q \in Pids : Sent(p, m) /\ Sent(q, m) => p = q

\* A PUBLISH at place k would not pass a message on twice: the subscriber does
\* not have it, or awaits the release, and no PUBREL comes between.
Clear(p, m, k) ==
    /\ got[m] = 0 \/ (p \in awaiting /\ \A j \in 1 .. k - 1 : ~Released(j, p))
    /\ \A i, j \in 1 .. k - 1 : i < j => ~(Published(i, p, m) /\ Released(j, p))

OnceInv ==
    /\ \A m \in QoS2 : got[m] <= 1
    /\ \A m \in QoS2, p \in Pids : \A k \in DOMAIN toClient :
          Published(k, p, m) => Clear(p, m, k)
    /\ \A m \in QoS2, p \in Pids :
          Holds(p, m) /\ inflight[p].stage = "first_ack" => Clear(p, m, Len(toClient) + 1)

\* The subscriber has answered under p.
Begun(p) ==
    \/ p \in awaiting
    \/ \E i \in DOMAIN toBroker : toBroker[i].pid = p
    \/ \E i \in DOMAIN toClient : Released(i, p)
    \/ inflight[p] # Free /\ inflight[p].stage = "pubcomp"

\* The identifiers in sight, s of them given away so far.
Below(s) ==
    /\ \A p \in Pids : inflight[p] # Free \/ Begun(p) => p <= s
    /\ \A i \in DOMAIN toClient : toClient[i].pid <= s

\* Until the identifiers wrap each has had one message at most.
ReceivedInv ==
    /\ IsFiniteSet(offered)
    /\ Cardinality(offered) <= MaxPid =>
          /\ \E s \in 0 .. MaxPid :
                s <= Cardinality(offered) /\ nextPid = 1 + (s % MaxPid) /\ Below(s)
          /\ \A p \in Pids, m, n \in Messages : Sent(p, m) /\ Sent(p, n) => m = n
          /\ \A p \in Pids, m \in Messages : Begun(p) /\ Sent(p, m) => got[m] > 0
          /\ \A m \in acked : got[m] > 0

HandshakeInv == TypeOK /\ OriginInv /\ OnceInv /\ ReceivedInv

Pending(p, m) == Holds(p, m) /\ inflight[p].stage = "first_ack"

\* The broker's steps: packets are only added, a PUBLISH for a message whose
\* entry awaits its first acknowledgement and a PUBREL for none.
Grows ==
    /\ Len(toClient) <= Len(toClient') /\ DOMAIN toClient' = 1 .. Len(toClient')
    /\ \A i \in DOMAIN toClient : toClient'[i] = toClient[i]
    /\ \A k \in DOMAIN toClient' : k \notin DOMAIN toClient =>
          \/ \E p \in Pids, m \in Messages : toClient'[k] = Publish(p, m) /\ Pending(p, m)'
          \/ \E p \in Pids : /\ toClient'[k] = Ack("PUBREL", p) /\ Begun(p)
                             /\ \A m \in Messages : ~Pending(p, m)'
    /\ \A p \in Pids, m \in Messages :
          Holds(p, m)' => \/ Holds(p, m)
                          \/ m \in offered' \ offered /\ \A q \in Pids : Holds(q, m)' => q = p
    /\ \A p \in Pids, m \in Messages : Pending(p, m)' => Pending(p, m) \/ m \notin offered
    /\ got' = got /\ awaiting' = awaiting /\ offered \subseteq offered'

\* Packets are equal only if their identifiers and messages are.
LEMMA PacketFields ==
  /\ \A p, m, q, n : Publish(p, m) = Publish(q, n) => p = q /\ m = n
  /\ \A p, q : Ack("PUBREL", p) = Ack("PUBREL", q) => p = q
  /\ \A p, m, q : Publish(p, m) # Ack("PUBREL", q)
  /\ \A p, m, t : Publish(p, m).pid = p /\ Ack(t, p).pid = p
  <1>1. \A p, m : Publish(p, m).pid = p /\ Publish(p, m).msg = m /\ Publish(p, m).type = "PUBLISH"
    BY ZenonT(40) DEF Publish
  <1>2. \A p, t : Ack(t, p).pid = p /\ Ack(t, p).type = t
    BY ZenonT(40) DEF Ack
  <1>3. "PUBLISH" # "PUBREL"
    BY SMTT(40)
  <1>4. ASSUME NEW p, NEW m, NEW q, NEW n, Publish(p, m) = Publish(q, n)
        PROVE  p = q /\ m = n
    BY <1>4, SMTT(40) DEF Publish
  <1>5. ASSUME NEW p, NEW q, Ack("PUBREL", p) = Ack("PUBREL", q)
        PROVE  p = q
    BY <1>5, SMTT(40) DEF Ack
  <1>6. ASSUME NEW p, NEW m, NEW q, Publish(p, m) = Ack("PUBREL", q)
        PROVE  FALSE
    <2>1. Publish(p, m).type = "PUBLISH" /\ Ack("PUBREL", q).type = "PUBREL"
      BY <1>1, <1>2, ZenonT(40)
    <2>2. "PUBLISH" = "PUBREL"
      BY <1>6, <2>1, SMTT(40)
    <2>3. QED
      BY <1>3, <2>2, ZenonT(40)
  <1>7. QED
    BY <1>1, <1>2, <1>4, <1>5, <1>6, ZenonT(40)

\* The places of the stream to the subscriber.
LEMMA ClientQueue ==
  ASSUME TypeOK
  PROVE  /\ Len(toClient) \in Nat /\ DOMAIN toClient = 1 .. Len(toClient)
         /\ \A i \in DOMAIN toClient : i \in Nat /\ 1 <= i /\ i <= Len(toClient)
  BY SMTT(40) DEF TypeOK

\* What is sent after a broker's step was sent before, or is new.
LEMMA SentGrows ==
  ASSUME TypeOK, Grows, NEW p \in Pids, NEW m \in Messages, Sent(p, m)'
  PROVE  \/ Sent(p, m)
         \/ /\ m \in offered' \ offered /\ Holds(p, m)'
            /\ \A q \in Pids : Holds(q, m)' => q = p
  <1>1. CASE Holds(p, m)'
    BY <1>1, ZenonT(40) DEF Grows, Sent
  <1>2. CASE \E i \in DOMAIN toClient' : toClient'[i] = Publish(p, m)
    <2>1. PICK i \in DOMAIN toClient' : toClient'[i] = Publish(p, m)
      BY <1>2, ZenonT(40)
    <2>2. CASE i \in DOMAIN toClient
      <3>1. toClient[i] = Publish(p, m)
        BY <2>1, <2>2, ZenonT(40) DEF Grows
      <3>2. QED
        BY <2>2, <3>1, ZenonT(40) DEF Sent, Published
    <2>3. CASE i \notin DOMAIN toClient
      <3>1. \/ \E q \in Pids, n \in Messages : toClient'[i] = Publish(q, n) /\ Pending(q, n)'
            \/ \E q \in Pids : toClient'[i] = Ack("PUBREL", q)
        BY <2>1, <2>3, ZenonT(40) DEF Grows
      <3>2. Pending(p, m)'
        BY <2>1, <3>1, PacketFields, ZenonT(40)
      <3>3. Holds(p, m)'
        BY <3>2, ZenonT(40) DEF Pending
      <3>4. QED
        BY <1>1, <3>3, ZenonT(40)
    <2>4. QED
      BY <2>2, <2>3, ZenonT(40)
  <1>3. QED
    BY <1>1, <1>2, ZenonT(40) DEF Sent, Published

\* A step of the broker keeps where packets and entries come from.
LEMMA OriginGrows ==
  ASSUME TypeOK, TypeOK', OriginInv, Grows
  PROVE  OriginInv'
  <1>1. \A p \in Pids, m \in Messages : Sent(p, m) => m \in offered
    BY ZenonT(40) DEF OriginInv
  <1>2. \A p \in Pids, m \in Messages : Sent(p, m)' => m \in offered'
    BY <1>1, SentGrows, ZenonT(40) DEF Grows
  <1>3. \A m \in Messages : got'[m] > 0 => m \in offered'
    BY ZenonT(40) DEF OriginInv, Grows
  <1>4. ASSUME NEW m \in Messages, NEW p \in Pids, NEW q \in Pids, Sent(p, m)', Sent(q, m)'
        PROVE  p = q
    <2>1. CASE m \in offered
      <3>1. Sent(p, m) /\ Sent(q, m)
        BY <1>4, <2>1, SentGrows, ZenonT(40)
      <3>2. QED
        BY <3>1, ZenonT(40) DEF OriginInv
    <2>2. CASE m \notin offered
      <3>1. ~Sent(p, m) /\ ~Sent(q, m)
        BY <1>1, <2>2, ZenonT(40)
      <3>2. Holds(p, m)' /\ \A r \in Pids : Holds(r, m)' => r = q
        BY <1>4, <3>1, SentGrows, ZenonT(40)
      <3>3. QED
        BY <3>2, ZenonT(40)
    <2>3. QED
      BY <2>1, <2>2, ZenonT(40)
  <1>5. QED
    BY <1>2, <1>3, <1>4, ZenonT(40) DEF OriginInv

\* A message that awaits its first acknowledgement can be sent (again).
LEMMA ClearGrows ==
  ASSUME TypeOK, TypeOK', OriginInv, OnceInv, Grows, NEW p \in Pids, NEW m \in QoS2,
         Pending(p, m)', NEW k \in 1 .. Len(toClient') + 1
  PROVE  Clear(p, m, k)'
  <1>1. m \in Messages
    BY QosAssumption, ZenonT(40)
  <1>2. \A j \in 1 .. k - 1 : j \in DOMAIN toClient'
    BY SMTT(40) DEF TypeOK
  <1>3. \A j \in DOMAIN toClient' : toClient'[j] = Ack("PUBREL", p) =>
            j \in DOMAIN toClient /\ toClient[j] = Ack("PUBREL", p)
    <2> SUFFICES ASSUME NEW j \in DOMAIN toClient', toClient'[j] = Ack("PUBREL", p)
                 PROVE  j \in DOMAIN toClient
      BY ZenonT(40) DEF Grows
    <2> SUFFICES ASSUME j \notin DOMAIN toClient PROVE FALSE
      BY ZenonT(40)
    <2>1. \/ \E q \in Pids, n \in Messages : toClient'[j] = Publish(q, n)
          \/ \E q \in Pids : /\ toClient'[j] = Ack("PUBREL", q)
                             /\ \A n \in Messages : ~Pending(q, n)'
      BY ZenonT(40) DEF Grows
    <2>2. \E q \in Pids : q = p /\ \A n \in Messages : ~Pending(q, n)'
      BY <2>1, PacketFields, ZenonT(40)
    <2>3. QED
      BY <1>1, <2>2, ZenonT(40)
  <1>4. \A i, j \in 1 .. k - 1 : i < j /\ j \in DOMAIN toClient =>
            i \in DOMAIN toClient /\ toClient'[i] = toClient[i]
    <2>1. \A i, j \in 1 .. k - 1 : i < j /\ j \in DOMAIN toClient => i \in DOMAIN toClient
      BY SMTT(40) DEF TypeOK
    <2>2. QED
      BY <2>1, ZenonT(40) DEF Grows
  <1>5. \A j \in DOMAIN toClient : j \in 1 .. (Len(toClient) + 1) - 1
    BY SMTT(40) DEF TypeOK
  <1>6. got' = got /\ awaiting' = awaiting
    BY ZenonT(40) DEF Grows
  <1>7. CASE m \notin offered
    <2>1. \A i \in DOMAIN toClient : toClient[i] # Publish(p, m)
      BY <1>1, <1>7, ZenonT(40) DEF OriginInv, Sent, Published
    <2>2. ~(got[m] > 0) /\ got[m] \in Nat
      BY <1>1, <1>7, ZenonT(40) DEF OriginInv, TypeOK
    <2>3. got[m] = 0
      BY <2>2, SMTT(40)
    <2>4. \A i, j \in 1 .. k - 1 : i < j =>
            ~(toClient'[i] = Publish(p, m) /\ toClient'[j] = Ack("PUBREL", p))
      BY <1>2, <1>3, <1>4, <2>1, ZenonT(40)
    <2>5. QED
      BY <1>6, <2>3, <2>4, ZenonT(40) DEF Clear, Published, Released
  <1>8. CASE Pending(p, m)
    <2>1. Clear(p, m, Len(toClient) + 1)
      BY <1>8, ZenonT(40) DEF OnceInv, Pending
    <2>2. /\ got[m] = 0 \/ (p \in awaiting /\ \A j \in DOMAIN toClient : toClient[j] # Ack("PUBREL", p))
          /\ \A i, j \in DOMAIN toClient :
                i < j => ~(toClient[i] = Publish(p, m) /\ toClient[j] = Ack("PUBREL", p))
      BY <1>5, <2>1, ZenonT(40) DEF Clear, Published, Released
    <2>3. got[m] = 0 \/ (p \in awaiting /\ \A j \in 1 .. k - 1 : toClient'[j] # Ack("PUBREL", p))
      BY <1>2, <1>3, <2>2, ZenonT(40)
    <2>4. \A i, j \in 1 .. k - 1 : i < j =>
            ~(toClient'[i] = Publish(p, m) /\ toClient'[j] = Ack("PUBREL", p))
      BY <1>2, <1>3, <1>4, <2>2, ZenonT(40)
    <2>5. QED
      BY <1>6, <2>3, <2>4, ZenonT(40) DEF Clear, Published, Released
  <1>9. QED
    BY <1>1, <1>7, <1>8, ZenonT(40) DEF Grows

\* A step of the broker gives no message a second way to be passed on.
LEMMA OnceGrows ==
  ASSUME TypeOK, TypeOK', OriginInv, OnceInv, Grows
  PROVE  OnceInv'
  <1>1. \A m \in QoS2 : got'[m] <= 1
    BY ZenonT(40) DEF OnceInv, Grows
  <1>2. ASSUME NEW m \in QoS2, NEW p \in Pids, NEW k \in DOMAIN toClient',
               toClient'[k] = Publish(p, m)
        PROVE  Clear(p, m, k)'
    <2>1. CASE k \in DOMAIN toClient
      <3>1. \A j \in 1 .. k - 1 : j \in DOMAIN toClient
        BY <2>1, SMTT(40) DEF TypeOK
      <3>2. toClient[k] = Publish(p, m) /\ \A j \in 1 .. k - 1 : toClient'[j] = toClient[j]
        BY <1>2, <2>1, <3>1, ZenonT(40) DEF Grows
      <3>3. Clear(p, m, k)
        BY <2>1, <3>2, ZenonT(40) DEF OnceInv, Published
      <3>4. got' = got /\ awaiting' = awaiting
        BY ZenonT(40) DEF Grows
      <3>5. QED
        BY <3>2, <3>3, <3>4, ZenonT(40) DEF Clear, Published, Released
    <2>2. CASE k \notin DOMAIN toClient
      <3>1. \/ \E q \in Pids, n \in Messages : toClient'[k] = Publish(q, n) /\ Pending(q, n)'
            \/ \E q \in Pids : toClient'[k] = Ack("PUBREL", q)
        BY <1>2, <2>2, ZenonT(40) DEF Grows
      <3>2. Pending(p, m)'
        BY <1>2, <3>1, PacketFields, ZenonT(40)
      <3>3. k \in 1 .. Len(toClient') + 1
        BY SMTT(40) DEF TypeOK
      <3>4. QED
        BY <3>2, <3>3, ClearGrows, ZenonT(40)
    <2>3. QED
      BY <2>1, <2>2, ZenonT(40)
  <1>3. ASSUME NEW m \in QoS2, NEW p \in Pids, Pending(p, m)'
        PROVE  Clear(p, m, Len(toClient) + 1)'
    <2>1. PICK k : k = Len(toClient') + 1
      BY ZenonT(40)
    <2>2. k \in 1 .. Len(toClient') + 1
      BY <2>1, SMTT(40) DEF TypeOK
    <2>3. Clear(p, m, k)'
      BY <1>3, <2>2, ClearGrows, ZenonT(40)
    <2>4. QED
      BY <2>1, <2>3, ZenonT(40) DEF Clear
  <1>4. QED
    BY <1>1, <1>2, <1>3, ZenonT(40) DEF OnceInv, Published, Pending

----------------------------------------------------------------------------
(***************************************************************************)
(* The subscriber takes a packet.                                          *)
(***************************************************************************)
Shifted ==
    /\ 1 \in DOMAIN toClient
    /\ \A i \in DOMAIN toClient' : i + 1 \in DOMAIN toClient /\ toClient'[i] = toClient[i + 1]
    /\ Len(toClient') + 1 = Len(toClient)

\* Taking a packet shifts the stream by one place.
LEMMA TakeShifts ==
  ASSUME TypeOK, NEW p \in Pids, NEW type, Take(p, type)
  PROVE  Shifted /\ toClient[1] \in Packet /\ toClient[1] = Head(toClient)
         /\ toClient[1].pid = p /\ toClient[1].type = type
  <1>1. toClient # <<>> /\ toClient \in Seq(Packet) /\ toClient' = Tail(toClient)
    BY ZenonT(40) DEF Take, TypeOK
  <1>2. Shifted /\ toClient[1] \in Packet /\ toClient[1] = Head(toClient)
    BY <1>1, SMTT(40) DEF Shifted
  <1>3. QED
    BY <1>2, ZenonT(40) DEF Take

\* A PUBLISH that is taken carries a message.
LEMMA TakePublish ==
  ASSUME TypeOK, NEW p \in Pids, Take(p, "PUBLISH")
  PROVE  \E m \in Messages : toClient[1] = Publish(p, m) /\ Head(toClient).msg = m
  <1>1. PICK h : h = toClient[1]
    BY ZenonT(40)
  <1>2. h \in Packet /\ h.pid = p /\ h.type = "PUBLISH" /\ h = Head(toClient)
    BY <1>1, TakeShifts, ZenonT(40)
  <1>3. h \in [type : {"PUBLISH"}, pid : Pids, msg : Messages]
    BY <1>2, SMTT(40) DEF Packet, AckPacket
  <1>4. h = [type |-> "PUBLISH", pid |-> p, msg |-> h.msg] /\ h.msg \in Messages
    BY <1>2, <1>3, SMTT(40)
  <1>5. QED
    BY <1>1, <1>2, <1>4, ZenonT(40) DEF Publish

\* A PUBREL that is taken names its identifier.
LEMMA TakePubrel ==
  ASSUME TypeOK, NEW p \in Pids, Take(p, "PUBREL")
  PROVE  toClient[1] = Ack("PUBREL", p)
  <1>1. PICK h : h = toClient[1]
    BY ZenonT(40)
  <1>2. h \in Packet /\ h.pid = p /\ h.type = "PUBREL"
    BY <1>1, TakeShifts, ZenonT(40)
  <1>3. h \in AckPacket
    BY <1>2, SMTT(40) DEF Packet, AckPacket
  <1>4. h = [type |-> "PUBREL", pid |-> p]
    BY <1>2, <1>3, SMTT(40) DEF AckPacket
  <1>5. QED
    BY <1>1, <1>4, ZenonT(40) DEF Ack

\* After a packet was taken nothing is under way that was not before.
LEMMA SentShifts ==
  ASSUME Shifted, inflight' = inflight, NEW p \in Pids, NEW m \in Messages, Sent(p, m)'
  PROVE  Sent(p, m)
  <1>1. CASE Holds(p, m)'
    BY <1>1, ZenonT(40) DEF Sent, Holds
  <1>2. CASE \E i \in DOMAIN toClient' : toClient'[i] = Publish(p, m)
    <2>1. \E i \in DOMAIN toClient : toClient[i] = Publish(p, m)
      BY <1>2, ZenonT(40) DEF Shifted
    <2>2. QED
      BY <2>1, ZenonT(40) DEF Sent, Published
  <1>3. QED
    BY <1>1, <1>2, ZenonT(40) DEF Sent, Published

\* Whatever was clear stays clear for a message that is not counted now, as
\* long as its identifier is not released.
LEMMA ClearShifts ==
  ASSUME TypeOK, TypeOK', Shifted, NEW m \in QoS2, NEW p \in Pids,
         NEW k \in 1 .. Len(toClient') + 1, Clear(p, m, k + 1),
         \/ got'[m] = 0
         \/ got[m] # 0 /\ (p \in awaiting /\ toClient[1] # Ack("PUBREL", p) => p \in awaiting')
         \/ toClient[1] = Publish(p, m) /\ p \in awaiting'
  PROVE  Clear(p, m, k)'
  <1>1. /\ \A j \in 1 .. k - 1 : /\ j \in DOMAIN toClient' /\ j + 1 \in 1 .. (k + 1) - 1
                                 /\ 1 < j + 1 /\ 1 \in 1 .. (k + 1) - 1
        /\ \A i, j \in 1 .. k - 1 : i < j => i + 1 < j + 1
        /\ 1 \in 1 .. (k + 1) - 1
    BY SMTT(40) DEF TypeOK
  <1>2. \A j \in 1 .. k - 1 : toClient'[j] = toClient[j + 1]
    BY <1>1, ZenonT(40) DEF Shifted
  <1>3. \A i, j \in 1 .. (k + 1) - 1 :
            i < j => ~(toClient[i] = Publish(p, m) /\ toClient[j] = Ack("PUBREL", p))
    BY ZenonT(40) DEF Clear, Published, Released
  <1>4. \A i, j \in 1 .. k - 1 :
            i < j => ~(toClient'[i] = Publish(p, m) /\ toClient'[j] = Ack("PUBREL", p))
    BY <1>1, <1>2, <1>3, ZenonT(40)
  <1>5. got'[m] = 0 \/ (p \in awaiting' /\ \A j \in 1 .. k - 1 : toClient'[j] # Ack("PUBREL", p))
    <2>1. CASE got[m] # 0 /\ (p \in awaiting /\ toClient[1] # Ack("PUBREL", p) => p \in awaiting')
      <3>1. p \in awaiting /\ \A j \in 1 .. (k + 1) - 1 : toClient[j] # Ack("PUBREL", p)
        BY <2>1, ZenonT(40) DEF Clear, Released
      <3>2. QED
        BY <1>1, <1>2, <2>1, <3>1, ZenonT(40)
    <2>2. CASE toClient[1] = Publish(p, m) /\ p \in awaiting'
      <3>1. \A j \in 1 .. k - 1 : toClient[j + 1] # Ack("PUBREL", p)
        BY <1>1, <1>3, <2>2, ZenonT(40)
      <3>2. QED
        BY <1>2, <2>2, <3>1, ZenonT(40)
    <2>3. QED
      BY <2>1, <2>2, ZenonT(40)
  <1>6. QED
    BY <1>4, <1>5, ZenonT(40) DEF Clear, Published, Released

\* Taking a packet keeps OnceInv if the subscriber remembers what it passed on.
LEMMA OnceShifts ==
  ASSUME TypeOK, TypeOK', OnceInv, Shifted, inflight' = inflight,
         \A m \in QoS2 : got'[m] <= 1,
         \A m \in QoS2, p \in Pids : Sent(p, m) =>
            \/ got'[m] = 0
            \/ got[m] # 0 /\ (p \in awaiting /\ toClient[1] # Ack("PUBREL", p) => p \in awaiting')
            \/ toClient[1] = Publish(p, m) /\ p \in awaiting'
  PROVE  OnceInv'
  <1>1. ASSUME NEW m \in QoS2, NEW p \in Pids, NEW k \in DOMAIN toClient',
               toClient'[k] = Publish(p, m)
        PROVE  Clear(p, m, k)'
    <2>1. k \in 1 .. Len(toClient') + 1
      BY SMTT(40) DEF TypeOK
    <2>2. k + 1 \in DOMAIN toClient /\ toClient[k + 1] = Publish(p, m)
      BY <1>1, ZenonT(40) DEF Shifted
    <2>3. Clear(p, m, k + 1) /\ Sent(p, m)
      BY <2>2, ZenonT(40) DEF OnceInv, Sent, Published
    <2>4. QED
      BY <2>1, <2>3, ClearShifts, ZenonT(40)
  <1>2. ASSUME NEW m \in QoS2, NEW p \in Pids, Pending(p, m)'
        PROVE  Clear(p, m, Len(toClient) + 1)'
    <2>1. PICK k : k = Len(toClient') + 1
      BY ZenonT(40)
    <2>2. k \in 1 .. Len(toClient') + 1
      BY <2>1, SMTT(40) DEF TypeOK
    <2>3. Pending(p, m) /\ Sent(p, m)
      BY <1>2, ZenonT(40) DEF Pending, Holds, Sent
    <2>4. Clear(p, m, Len(toClient) + 1)
      BY <2>3, ZenonT(40) DEF OnceInv, Pending
    <2>5. Clear(p, m, k + 1)
      BY <2>1, <2>4, ZenonT(40) DEF Shifted
    <2>6. Clear(p, m, k)'
      BY <2>2, <2>3, <2>5, ClearShifts, ZenonT(40)
    <2>7. QED
      BY <2>1, <2>6, ZenonT(40) DEF Clear
  <1>3. QED
    BY <1>1, <1>2, ZenonT(40) DEF OnceInv, Published, Pending

\* A subscriber that receives a PUBLISH passes a QoS 2 message on once.
LEMMA ClientPublishOnce ==
  ASSUME TypeOK, TypeOK', OriginInv, OnceInv, NEW p \in Pids, ClientPublish(p)
  PROVE  OriginInv' /\ OnceInv'
  <1>1. Take(p, "PUBLISH") /\ inflight' = inflight /\ offered' = offered
    BY ZenonT(40) DEF ClientPublish, brokerVars
  <1>2. PICK m \in Messages : toClient[1] = Publish(p, m) /\ Head(toClient).msg = m
    BY <1>1, TakePublish, ZenonT(40)
  <1>3. Shifted
    BY <1>1, TakeShifts, ZenonT(40)
  <1>4. /\ got' = IF m \in QoS2 /\ p \in awaiting THEN got ELSE [got EXCEPT ![m] = @ + 1]
        /\ awaiting' = IF m \in QoS2 THEN awaiting \cup {p} ELSE awaiting
    BY <1>2, ZenonT(40) DEF ClientPublish
  <1>5. Sent(p, m)
    BY <1>2, <1>3, ZenonT(40) DEF Sent, Published, Shifted
  <1>6. \A n \in Messages : n # m => got'[n] = got[n]
    BY <1>4, ZenonT(40) DEF TypeOK
  <1>7. OriginInv'
    <2>1. \A q \in Pids, n \in Messages : Sent(q, n)' => n \in offered'
      BY <1>1, <1>3, SentShifts, ZenonT(40) DEF OriginInv
    <2>2. m \in offered
      BY <1>5, ZenonT(40) DEF OriginInv
    <2>3. \A n \in Messages : got'[n] > 0 => n \in offered'
      BY <1>1, <1>6, <2>2, ZenonT(40) DEF OriginInv
    <2>4. \A n \in Messages, q, r \in Pids : Sent(q, n)' /\ Sent(r, n)' => q = r
      BY <1>1, <1>3, SentShifts, ZenonT(40) DEF OriginInv
    <2>5. QED
      BY <2>1, <2>3, <2>4, ZenonT(40) DEF OriginInv
  <1>8. OnceInv'
    <2>1. \A n \in QoS2 : got'[n] <= 1
      <3>1. ASSUME m \in QoS2 PROVE got'[m] <= 1
        <4>1. Clear(p, m, 1)
          BY <1>2, <1>3, <3>1, ZenonT(40) DEF OnceInv, Published, Shifted
        <4>2. got[m] = 0 \/ p \in awaiting
          BY <4>1, ZenonT(40) DEF Clear
        <4>3. CASE p \in awaiting
          BY <1>4, <3>1, <4>3, ZenonT(40) DEF OnceInv
        <4>4. CASE got[m] = 0 /\ p \notin awaiting
          <5>1. got'[m] = 0 + 1
            BY <1>4, <4>4, ZenonT(40) DEF TypeOK
          <5>2. QED
            BY <5>1, SMTT(40)
        <4>5. QED
          BY <4>2, <4>3, <4>4, ZenonT(40)
      <3>2. \A n \in QoS2 : n \in Messages
        BY QosAssumption, ZenonT(40)
      <3>3. QED
        BY <1>6, <3>1, <3>2, ZenonT(40) DEF OnceInv
    <2>2. ASSUME NEW n \in QoS2, NEW q \in Pids, Sent(q, n)
          PROVE  \/ got'[n] = 0
                 \/ got[n] # 0 /\ (q \in awaiting /\ toClient[1] # Ack("PUBREL", q) => q \in awaiting')
                 \/ toClient[1] = Publish(q, n) /\ q \in awaiting'
      <3>1. n \in Messages
        BY QosAssumption, ZenonT(40)
      <3>2. CASE n = m
        <4>1. q = p
          BY <1>5, <2>2, <3>1, <3>2, ZenonT(40) DEF OriginInv
        <4>2. QED
          BY <1>2, <1>4, <3>2, <4>1, ZenonT(40)
      <3>3. CASE n # m
        BY <1>4, <1>6, <3>1, <3>3, ZenonT(40)
      <3>4. QED
        BY <3>2, <3>3, ZenonT(40)
    <2>3. QED
      BY <1>1, <1>3, <2>1, <2>2, OnceShifts, ZenonT(40)
  <1>9. QED
    BY <1>7, <1>8, ZenonT(40)

\* A subscriber that receives a PUBREL may forget the identifier.
LEMMA ClientPubrelOnce ==
  ASSUME TypeOK, TypeOK', OriginInv, OnceInv, NEW p \in Pids, ClientPubrel(p)
  PROVE  OriginInv' /\ OnceInv'
  <1>1. /\ Take(p, "PUBREL") /\ inflight' = inflight /\ offered' = offered
        /\ got' = got /\ awaiting' = awaiting \ {p}
    BY ZenonT(40) DEF ClientPubrel, brokerVars
  <1>2. Shifted /\ toClient[1] = Ack("PUBREL", p)
    BY <1>1, TakeShifts, TakePubrel, ZenonT(40)
  <1>3. OriginInv'
    <2>1. \A q \in Pids, n \in Messages : Sent(q, n)' => Sent(q, n)
      BY <1>1, <1>2, SentShifts, ZenonT(40)
    <2>2. QED
      BY <1>1, <2>1, ZenonT(40) DEF OriginInv
  <1>4. \A n \in QoS2, q \in Pids : Sent(q, n) =>
            \/ got'[n] = 0
            \/ got[n] # 0 /\ (q \in awaiting /\ toClient[1] # Ack("PUBREL", q) => q \in awaiting')
            \/ toClient[1] = Publish(q, n) /\ q \in awaiting'
    BY <1>1, <1>2, ZenonT(40)
  <1>5. \A n \in QoS2 : got'[n] <= 1
    BY <1>1, ZenonT(40) DEF OnceInv
  <1>6. OnceInv'
    BY <1>1, <1>2, <1>4, <1>5, OnceShifts, ZenonT(40)
  <1>7. QED
    BY <1>3, <1>6, ZenonT(40)

----------------------------------------------------------------------------
(***************************************************************************)
(* The broker's steps.                                                     *)
(***************************************************************************)

\* Entries keep their message and never go back to the first acknowledgement.
Keeps ==
    \A p \in Pids : inflight'[p] # Free =>
        /\ inflight[p] # Free /\ inflight'[p].msg = inflight[p].msg
        /\ inflight'[p].stage = "first_ack" => inflight[p].stage = "first_ack"
        /\ inflight'[p].stage = "pubcomp" => Begun(p)

\* Nothing new begins, and what is acknowledged had begun.
Traced ==
    /\ \A p \in Pids : inflight'[p] # Free =>
          inflight[p] # Free /\ inflight'[p].msg = inflight[p].msg
    /\ \A p \in Pids : Begun(p)' => Begun(p)
    /\ nextPid' = nextPid
    /\ \A m \in acked' : m \in acked \/ \E p \in Pids : Begun(p) /\ Holds(p, m)

\* A step that keeps the table and sends nothing is a step of Grows.
LEMMA KeepsGrows ==
  ASSUME TypeOK, TypeOK', Keeps, toClient' = toClient, got' = got, awaiting' = awaiting,
         offered \subseteq offered'
  PROVE  Grows
  <1>1. Len(toClient) <= Len(toClient') /\ DOMAIN toClient' = 1 .. Len(toClient')
    BY SMTT(40) DEF TypeOK
  <1>2. \A p \in Pids, m \in Messages : Holds(p, m)' => Holds(p, m)
    BY ZenonT(40) DEF Keeps, Holds
  <1>3. \A p \in Pids, m \in Messages : Pending(p, m)' => Pending(p, m)
    BY <1>2, ZenonT(40) DEF Keeps, Pending, Holds
  <1>4. QED
    BY <1>1, <1>2, <1>3, ZenonT(40) DEF Grows

\* A step that keeps the table and answers what was received is one of Traced.
LEMMA KeepsTraced ==
  ASSUME Keeps, awaiting' = awaiting, nextPid' = nextPid,
         \A i \in DOMAIN toBroker' : \E j \in DOMAIN toBroker : toBroker'[i] = toBroker[j],
         \A i \in DOMAIN toClient', p \in Pids :
            toClient'[i] = Ack("PUBREL", p) => Begun(p),
         \A m \in acked' : m \in acked \/ \E p \in Pids : Begun(p) /\ Holds(p, m)
  PROVE  Traced
  <1>1. ASSUME NEW p \in Pids, Begun(p)'
        PROVE  Begun(p)
    <2>1. CASE p \in awaiting'
      BY <2>1, ZenonT(40) DEF Begun
    <2>2. CASE \E i \in DOMAIN toBroker' : toBroker'[i].pid = p
      BY <2>2, ZenonT(40) DEF Begun
    <2>3. CASE \E i \in DOMAIN toClient' : toClient'[i] = Ack("PUBREL", p)
      BY <2>3, ZenonT(40)
    <2>4. CASE inflight'[p] # Free /\ inflight'[p].stage = "pubcomp"
      BY <2>4, ZenonT(40) DEF Keeps
    <2>5. QED
      BY <1>1, <2>1, <2>2, <2>3, <2>4, ZenonT(40) DEF Begun, Released
  <1>2. QED
    BY <1>1, ZenonT(40) DEF Traced, Keeps

\* An unchanged table is kept.
LEMMA SameTable ==
  ASSUME inflight' = inflight
  PROVE  Keeps
  BY ZenonT(40) DEF Keeps, Begun

\* No new PUBREL is under way if the stream is unchanged.
LEMMA ReleasedBegun ==
  ASSUME toClient' = toClient
  PROVE  \A i \in DOMAIN toClient', p \in Pids : toClient'[i] = Ack("PUBREL", p) => Begun(p)
  BY ZenonT(40) DEF Begun, Released

\* A message that is refused changes neither table nor streams.
LEMMA IdleStep ==
  ASSUME TypeOK, TypeOK', (\E m \in Messages : Refuse(m)) \/ UNCHANGED vars
  PROVE  Grows /\ Traced
  <1>1. /\ inflight' = inflight /\ toClient' = toClient /\ toBroker' = toBroker
        /\ got' = got /\ awaiting' = awaiting /\ nextPid' = nextPid /\ acked' = acked
        /\ offered \subseteq offered'
    BY ZenonT(40) DEF Refuse, vars, brokerVars, wireVars, clientVars, histVars
  <1>2. Keeps
    BY <1>1, SameTable, ZenonT(40)
  <1>3. Grows
    BY <1>1, <1>2, KeepsGrows, ZenonT(40)
  <1>4. \A i \in DOMAIN toClient', p \in Pids : toClient'[i] = Ack("PUBREL", p) => Begun(p)
    BY <1>1, ReleasedBegun, ZenonT(40)
  <1>5. Traced
    BY <1>1, <1>2, <1>4, KeepsTraced, ZenonT(40)
  <1>6. QED
    BY <1>3, <1>5, ZenonT(40)

\* The passing of time marks an entry as due.
LEMMA ElapseStep ==
  ASSUME TypeOK, TypeOK', NEW p \in Pids, Elapse(p)
  PROVE  Grows /\ Traced
  <1>1. /\ inflight[p] # Free /\ inflight' = [inflight EXCEPT ![p].due = TRUE]
        /\ toClient' = toClient /\ toBroker' = toBroker
        /\ got' = got /\ awaiting' = awaiting /\ nextPid' = nextPid /\ acked' = acked
        /\ offered \subseteq offered'
    BY ZenonT(40) DEF Elapse, wireVars, clientVars, histVars
  <1>2. inflight[p] \in Flight
    BY <1>1, ZenonT(40) DEF TypeOK
  <1>3. inflight'[p] = [inflight[p] EXCEPT !.due = TRUE] /\ \A q \in Pids : q # p => inflight'[q] = inflight[q]
    BY <1>1, <1>2, ZenonT(40) DEF TypeOK
  <1>4. inflight'[p].msg = inflight[p].msg /\ inflight'[p].stage = inflight[p].stage
    BY <1>2, <1>3, ZenonT(40) DEF Flight
  <1>5. Keeps
    BY <1>1, <1>3, <1>4, ZenonT(40) DEF Keeps, Begun
  <1>6. Grows
    BY <1>1, <1>5, KeepsGrows, ZenonT(40)
  <1>7. \A i \in DOMAIN toClient', q \in Pids : toClient'[i] = Ack("PUBREL", q) => Begun(q)
    BY <1>1, ReleasedBegun, ZenonT(40)
  <1>8. Traced
    BY <1>1, <1>5, <1>7, KeepsTraced, ZenonT(40)
  <1>9. QED
    BY <1>6, <1>8, ZenonT(40)

\* An answer that is received shows that its handshake has begun.
LEMMA ReceiveBegun ==
  ASSUME TypeOK, NEW p \in Pids, NEW t, Receive(t, p)
  PROVE  /\ Begun(p)
         /\ \A i \in DOMAIN toBroker' : \E j \in DOMAIN toBroker : toBroker'[i] = toBroker[j]
  <1>1. /\ toBroker # <<>> /\ toBroker' = Tail(toBroker) /\ Head(toBroker) = Ack(t, p)
        /\ toBroker \in Seq(AckPacket)
    BY ZenonT(40) DEF Receive, TypeOK
  <1>2. 1 \in DOMAIN toBroker /\ toBroker[1] = Head(toBroker)
    BY <1>1, SMTT(40)
  <1>3. \A i \in DOMAIN toBroker' : i + 1 \in DOMAIN toBroker /\ toBroker'[i] = toBroker[i + 1]
    BY <1>1, SMTT(40)
  <1>4. toBroker[1].pid = p
    BY <1>1, <1>2, PacketFields, ZenonT(40)
  <1>5. QED
    BY <1>2, <1>3, <1>4, ZenonT(40) DEF Begun

\* PUBACK and PUBCOMP free the identifier.
LEMMA CompleteStep ==
  ASSUME TypeOK, TypeOK', NEW p \in Pids, Complete(p)
  PROVE  Grows /\ Traced
  <1>1. /\ inflight' = [inflight EXCEPT ![p] = Free] /\ toClient' = toClient
        /\ got' = got /\ awaiting' = awaiting /\ nextPid' = nextPid
        /\ acked' = IF inflight[p] = Free THEN acked ELSE acked \cup {inflight[p].msg}
        /\ offered \subseteq offered'
    BY ZenonT(40) DEF Complete, clientVars
  <1>2. /\ Begun(p)
        /\ \A i \in DOMAIN toBroker' : \E j \in DOMAIN toBroker : toBroker'[i] = toBroker[j]
    BY ReceiveBegun, ZenonT(40) DEF Complete
  <1>3. inflight'[p] = Free /\ \A q \in Pids : q # p => inflight'[q] = inflight[q]
    BY <1>1, ZenonT(40) DEF TypeOK
  <1>4. Keeps
    BY <1>3, ZenonT(40) DEF Keeps, Begun
  <1>5. Grows
    BY <1>1, <1>4, KeepsGrows, ZenonT(40)
  <1>6. \A m \in acked' : m \in acked \/ \E q \in Pids : Begun(q) /\ Holds(q, m)
    BY <1>1, <1>2, ZenonT(40) DEF Holds
  <1>7. \A i \in DOMAIN toClient', q \in Pids : toClient'[i] = Ack("PUBREL", q) => Begun(q)
    BY <1>1, ReleasedBegun, ZenonT(40)
  <1>8. Traced
    BY <1>1, <1>2, <1>4, <1>6, <1>7, KeepsTraced, ZenonT(40)
  <1>9. QED
    BY <1>5, <1>8, ZenonT(40)

\* After a PUBREC no PUBLISH is sent again under the identifier.
LEMMA PubrecTable ==
  ASSUME TypeOK, NEW p \in Pids, Pubrec(p)
  PROVE  Keeps /\ \A m \in Messages : ~Pending(p, m)'
  <1>1. Begun(p)
    BY ReceiveBegun, ZenonT(40) DEF Pubrec
  <1>2. CASE inflight[p] = Free
    <2>1. inflight' = inflight
      BY <1>2, ZenonT(40) DEF Pubrec
    <2>2. QED
      BY <1>2, <2>1, SameTable, ZenonT(40) DEF Pending, Holds
  <1>3. CASE inflight[p] # Free
    <2>1. inflight' = [inflight EXCEPT ![p].stage = "pubcomp", ![p].due = FALSE]
      BY <1>3, ZenonT(40) DEF Pubrec
    <2>2. inflight[p] \in Flight
      BY <1>3, ZenonT(40) DEF TypeOK
    <2>3. /\ inflight'[p] = [inflight[p] EXCEPT !.stage = "pubcomp", !.due = FALSE]
          /\ \A q \in Pids : q # p => inflight'[q] = inflight[q]
      BY <2>1, <2>2, ZenonT(40) DEF TypeOK
    <2>4. inflight'[p].msg = inflight[p].msg /\ inflight'[p].stage = "pubcomp"
      BY <2>2, <2>3, ZenonT(40) DEF Flight
    <2>5. "pubcomp" # "first_ack"
      BY SMTT(40)
    <2>6. Keeps
      BY <1>1, <1>3, <2>3, <2>4, <2>5, ZenonT(40) DEF Keeps, Begun
    <2>7. QED
      BY <2>4, <2>5, <2>6, ZenonT(40) DEF Pending
  <1>4. QED
    BY <1>2, <1>3, ZenonT(40)

\* Packets are added behind those on their way.
LEMMA AddedGrows ==
  ASSUME TypeOK, TypeOK', NEW t \in Seq(Packet), toClient' = toClient \o t
  PROVE  /\ Len(toClient) <= Len(toClient') /\ DOMAIN toClient' = 1 .. Len(toClient')
         /\ \A i \in DOMAIN toClient : toClient'[i] = toClient[i]
         /\ \A k \in DOMAIN toClient' : k \notin DOMAIN toClient =>
               \E i \in DOMAIN t : toClient'[k] = t[i]
  <1>1. toClient \in Seq(Packet)
    BY ZenonT(40) DEF TypeOK
  <1>2. PICK s : s = toClient
    BY ZenonT(40)
  <1>3. PICK r : r = toClient'
    BY ZenonT(40)
  <1>4. s \in Seq(Packet) /\ r = s \o t
    BY <1>1, <1>2, <1>3, ZenonT(40)
  <1>5. /\ Len(r) = Len(s) + Len(t) /\ Len(s) \in Nat /\ Len(t) \in Nat
        /\ DOMAIN r = 1 .. Len(r) /\ DOMAIN s = 1 .. Len(s) /\ DOMAIN t = 1 .. Len(t)
        /\ \A i \in 1 .. Len(s) + Len(t) : r[i] = IF i <= Len(s) THEN s[i] ELSE t[i - Len(s)]
    BY <1>4, SMTT(40)
  <1>6. /\ Len(s) <= Len(r)
        /\ \A i \in DOMAIN s : r[i] = s[i]
        /\ \A k \in DOMAIN r : k \notin DOMAIN s => \E i \in DOMAIN t : r[k] = t[i]
    BY <1>5, SMTT(40)
  <1>7. QED
    BY <1>2, <1>3, <1>5, <1>6, ZenonT(40)

\* A PUBREC sends a PUBREL and changes the stage.
LEMMA PubrecStep ==
  ASSUME TypeOK, TypeOK', NEW p \in Pids, Pubrec(p)
  PROVE  Grows /\ Traced
  <1>1. /\ toClient' = Append(toClient, Ack("PUBREL", p))
        /\ got' = got /\ awaiting' = awaiting /\ nextPid' = nextPid /\ acked' = acked
        /\ offered \subseteq offered'
    BY ZenonT(40) DEF Pubrec, clientVars, histVars
  <1>2. /\ Begun(p)
        /\ \A i \in DOMAIN toBroker' : \E j \in DOMAIN toBroker : toBroker'[i] = toBroker[j]
    BY ReceiveBegun, ZenonT(40) DEF Pubrec
  <1>3. Keeps /\ \A m \in Messages : ~Pending(p, m)'
    BY PubrecTable, ZenonT(40)
  <1>4. Ack("PUBREL", p) \in Packet
    BY SMTT(40) DEF Ack, Packet, AckPacket
  <1>5. PICK a : a = Ack("PUBREL", p)
    BY ZenonT(40)
  <1>6. <<a>> \in Seq(Packet) /\ toClient' = toClient \o <<a>> /\ \A i \in DOMAIN <<a>> : <<a>>[i] = a
    <2>1. a \in Packet /\ toClient' = Append(toClient, a) /\ toClient \in Seq(Packet)
      BY <1>1, <1>4, <1>5, ZenonT(40) DEF TypeOK
    <2>2. QED
      BY <2>1, SMTT(40)
  <1>7. /\ Len(toClient) <= Len(toClient') /\ DOMAIN toClient' = 1 .. Len(toClient')
        /\ \A i \in DOMAIN toClient : toClient'[i] = toClient[i]
        /\ \A k \in DOMAIN toClient' : k \notin DOMAIN toClient => toClient'[k] = Ack("PUBREL", p)
    <2>1. PICK t \in Seq(Packet) : t = <<a>>
      BY <1>6, ZenonT(40)
    <2>2. toClient' = toClient \o t /\ \A i \in DOMAIN t : t[i] = a
      BY <1>6, <2>1, ZenonT(40)
    <2>3. QED
      BY <1>5, <2>2, AddedGrows, ZenonT(40)
  <1>8. \A q \in Pids, m \in Messages : Holds(q, m)' => Holds(q, m)
    BY <1>3, ZenonT(40) DEF Keeps, Holds
  <1>9. \A q \in Pids, m \in Messages : Pending(q, m)' => Pending(q, m)
    BY <1>3, <1>8, ZenonT(40) DEF Keeps, Pending, Holds
  <1>10. Grows
    BY <1>1, <1>2, <1>3, <1>7, <1>8, <1>9, ZenonT(40) DEF Grows
  <1>11. \A i \in DOMAIN toClient', q \in Pids : toClient'[i] = Ack("PUBREL", q) => Begun(q)
    <2> SUFFICES ASSUME NEW i \in DOMAIN toClient', NEW q \in Pids, toClient'[i] = Ack("PUBREL", q)
                 PROVE  Begun(q)
      BY ZenonT(40)
    <2>1. CASE i \in DOMAIN toClient
      BY <1>7, <2>1, ZenonT(40) DEF Begun, Released
    <2>2. CASE i \notin DOMAIN toClient
      <3>1. Ack("PUBREL", q) = Ack("PUBREL", p)
        BY <1>7, <2>2, ZenonT(40)
      <3>2. q = p
        BY <3>1, PacketFields, ZenonT(40)
      <3>3. QED
        BY <1>2, <3>2, ZenonT(40)
    <2>3. QED
      BY <2>1, <2>2, ZenonT(40)
  <1>12. Traced
    BY <1>1, <1>2, <1>3, <1>11, KeepsTraced, ZenonT(40)
  <1>13. QED
    BY <1>10, <1>12, ZenonT(40)

\* A retry keeps message and stage of the entries it sends again.
LEMMA RetryTable ==
  ASSUME TypeOK, RetryTick
  PROVE  /\ Keeps
         /\ \A p \in ToResend : /\ p \in Pids /\ inflight[p] \in Flight /\ inflight[p] # Free
                                /\ inflight'[p] = Retried(inflight[p])
                                /\ inflight'[p].stage = inflight[p].stage
                                /\ inflight'[p].msg = inflight[p].msg
  <1>1. \A p \in Pids : inflight'[p] = IF p \in Failed THEN Free
                                    ELSE IF p \in ToResend THEN Retried(inflight[p])
                                    ELSE inflight[p]
    BY ZenonT(40) DEF RetryTick
  <1>2. \A p \in ToResend : p \in Pids /\ inflight[p] \in Flight /\ inflight[p] # Free /\ p \notin Failed
    BY ZenonT(40) DEF ToResend, Due, Used, TypeOK
  <1>3. \A e \in Flight : Retried(e).stage = e.stage /\ Retried(e).msg = e.msg
    BY ZenonT(40) DEF Retried, Flight
  <1>4. \A p \in ToResend : inflight'[p] = Retried(inflight[p])
    BY <1>1, <1>2, ZenonT(40)
  <1>5. \A p \in ToResend : inflight'[p].stage = inflight[p].stage /\ inflight'[p].msg = inflight[p].msg
    BY <1>2, <1>3, <1>4, ZenonT(40)
  <1>6. Keeps
    <2> SUFFICES ASSUME NEW p \in Pids, inflight'[p] # Free
                 PROVE  /\ inflight[p] # Free /\ inflight'[p].msg = inflight[p].msg
                        /\ inflight'[p].stage = inflight[p].stage
      BY ZenonT(40) DEF Keeps, Begun
    <2>1. CASE p \in ToResend
      BY <1>2, <1>5, <2>1, ZenonT(40)
    <2>2. CASE p \notin ToResend
      <3>1. inflight'[p] = inflight[p]
        BY <1>1, <2>2, ZenonT(40)
      <3>2. QED
        BY <3>1, ZenonT(40)
    <2>3. QED
      BY <2>1, <2>2, ZenonT(40)
  <1>7. QED
    BY <1>2, <1>4, <1>5, <1>6, ZenonT(40)

\* What a retry adds to the stream are the packets of due entries.
LEMMA ResentPackets ==
  ASSUME TypeOK, TypeOK', RetryTick
  PROVE  /\ Len(toClient) <= Len(toClient') /\ DOMAIN toClient' = 1 .. Len(toClient')
         /\ \A i \in DOMAIN toClient : toClient'[i] = toClient[i]
         /\ \A k \in DOMAIN toClient' : k \notin DOMAIN toClient =>
               \E p \in ToResend : toClient'[k] = BuildPacket(p)
  <1>1. PICK s \in Orders(ToResend) :
           toClient' = toClient \o [i \in DOMAIN s |-> BuildPacket(s[i])]
    BY ZenonT(40) DEF RetryTick
  <1>2. PICK t : t = [i \in DOMAIN s |-> BuildPacket(s[i])]
    BY ZenonT(40)
  <1>3. \A p \in ToResend : p \in Pids /\ inflight[p] \in Flight
    BY RetryTable, ZenonT(40)
  <1>4. \A p \in ToResend : BuildPacket(p) \in Packet
    BY <1>3, ZenonT(40) DEF BuildPacket, Packet, AckPacket, Publish, Ack, Flight
  <1>5. Cardinality(ToResend) \in Nat
    <2>1. ToResend \in SUBSET Pids
      BY <1>3, ZenonT(40)
    <2>2. QED
      BY <2>1, UsedFinite, ZenonT(40)
  <1>6. t \in Seq(Packet)
    <2>1. PICK n \in Nat : s \in [1 .. n -> ToResend]
      BY <1>1, <1>5, ZenonT(40) DEF Orders
    <2>2. t \in [1 .. n -> Packet]
      BY <1>2, <1>4, <2>1, ZenonT(40)
    <2>3. QED
      BY <2>2, SMTT(40)
  <1>7. \A i \in DOMAIN t : \E p \in ToResend : t[i] = BuildPacket(p)
    BY <1>1, <1>2, ZenonT(40) DEF Orders
  <1>8. toClient' = toClient \o t
    BY <1>1, <1>2, ZenonT(40)
  <1>9. /\ Len(toClient) <= Len(toClient') /\ DOMAIN toClient' = 1 .. Len(toClient')
        /\ \A i \in DOMAIN toClient : toClient'[i] = toClient[i]
        /\ \A k \in DOMAIN toClient' : k \notin DOMAIN toClient =>
              \E i \in DOMAIN t : toClient'[k] = t[i]
    BY <1>6, <1>8, AddedGrows, ZenonT(40)
  <1>10. QED
    BY <1>7, <1>9, ZenonT(40)

\* A retry sends nothing that was not sent before.
LEMMA RetryTickStep ==
  ASSUME TypeOK, TypeOK', RetryTick
  PROVE  Grows /\ Traced
  <1>1. /\ got' = got /\ awaiting' = awaiting /\ nextPid' = nextPid /\ acked' = acked
        /\ toBroker' = toBroker /\ offered \subseteq offered'
    BY ZenonT(40) DEF RetryTick, clientVars
  <1>2. /\ Len(toClient) <= Len(toClient') /\ DOMAIN toClient' = 1 .. Len(toClient')
        /\ \A i \in DOMAIN toClient : toClient'[i] = toClient[i]
        /\ \A k \in DOMAIN toClient' : k \notin DOMAIN toClient =>
              \E p \in ToResend : toClient'[k] = BuildPacket(p)
    BY ResentPackets, ZenonT(40)
  <1>3. /\ Keeps
        /\ \A p \in ToResend : /\ p \in Pids /\ inflight[p] \in Flight /\ inflight[p] # Free
                               /\ inflight'[p].stage = inflight[p].stage
                               /\ inflight'[p].msg = inflight[p].msg
    BY RetryTable, ZenonT(40)
  <1>4. \A p \in Pids, m \in Messages : Holds(p, m)' => Holds(p, m)
    BY <1>3, ZenonT(40) DEF Keeps, Holds
  <1>5. \A p \in Pids, m \in Messages : Pending(p, m)' => Pending(p, m)
    BY <1>3, <1>4, ZenonT(40) DEF Keeps, Pending, Holds
  <1>6. ASSUME NEW p \in ToResend
        PROVE  \/ \E q \in Pids, m \in Messages : BuildPacket(p) = Publish(q, m) /\ Pending(q, m)'
               \/ \E q \in Pids : /\ BuildPacket(p) = Ack("PUBREL", q) /\ Begun(q)
                                  /\ \A m \in Messages : ~Pending(q, m)'
    <2>1. inflight'[p] # Free /\ inflight[p].msg \in Messages /\ p \in Pids
      <3>1. inflight'[p] = Retried(inflight[p]) /\ inflight[p].retries < MaxRetries
        BY <1>3, RetryTable, SMTT(40) DEF ToResend, Failed, Due, Flight
      <3>2. inflight'[p] \in Flight
        BY <1>3, <3>1, FlightUpdate, ZenonT(40)
      <3>3. QED
        BY <1>3, <3>2, QosAssumption, ZenonT(40) DEF Flight
    <2>2. CASE inflight[p].stage = "first_ack"
      <3>1. BuildPacket(p) = Publish(p, inflight[p].msg)
        BY <2>2, ZenonT(40) DEF BuildPacket
      <3>2. PICK m \in Messages : m = inflight[p].msg
        BY <2>1, ZenonT(40)
      <3>3. Pending(p, m)'
        BY <1>3, <2>1, <2>2, <3>2, ZenonT(40) DEF Pending, Holds
      <3>4. QED
        BY <2>1, <3>1, <3>2, <3>3, ZenonT(40)
    <2>3. CASE inflight[p].stage # "first_ack"
      <3>1. BuildPacket(p) = Ack("PUBREL", p)
        BY <2>3, ZenonT(40) DEF BuildPacket
      <3>2. inflight[p].stage = "pubcomp"
        BY <1>3, <2>3, ZenonT(40) DEF Flight, Stages
      <3>3. Begun(p)
        BY <1>3, <3>2, ZenonT(40) DEF Begun
      <3>4. \A m \in Messages : ~Pending(p, m)'
        BY <1>3, <2>3, ZenonT(40) DEF Pending
      <3>5. QED
        BY <2>1, <3>1, <3>3, <3>4, ZenonT(40)
    <2>4. QED
      BY <2>2, <2>3, ZenonT(40)
  <1>7. \A k \in DOMAIN toClient' : k \notin DOMAIN toClient =>
          \/ \E p \in Pids, m \in Messages : toClient'[k] = Publish(p, m) /\ Pending(p, m)'
          \/ \E p \in Pids : /\ toClient'[k] = Ack("PUBREL", p) /\ Begun(p)
                             /\ \A m \in Messages : ~Pending(p, m)'
    BY <1>2, <1>6, ZenonT(40)
  <1>8. Grows
    BY <1>1, <1>2, <1>4, <1>5, <1>7, ZenonT(40) DEF Grows
  <1>9. \A i \in DOMAIN toClient', q \in Pids : toClient'[i] = Ack("PUBREL", q) => Begun(q)
    <2> SUFFICES ASSUME NEW i \in DOMAIN toClient', NEW q \in Pids, toClient'[i] = Ack("PUBREL", q)
                 PROVE  Begun(q)
      BY ZenonT(40)
    <2>1. CASE i \in DOMAIN toClient
      BY <1>2, <2>1, ZenonT(40) DEF Begun, Released
    <2>2. CASE i \notin DOMAIN toClient
      <3>1. \/ \E p \in Pids, m \in Messages : toClient'[i] = Publish(p, m)
            \/ \E p \in Pids : toClient'[i] = Ack("PUBREL", p) /\ Begun(p)
        BY <1>7, <2>2, ZenonT(40)
      <3>2. QED
        BY <3>1, PacketFields, ZenonT(40)
    <2>3. QED
      BY <2>1, <2>2, ZenonT(40)
  <1>10. Traced
    BY <1>1, <1>3, <1>9, KeepsTraced, ZenonT(40)
  <1>11. QED
    BY <1>8, <1>10, ZenonT(40)

\* Below its modulus a number is its own remainder.
LEMMA SmallModulo ==
  ASSUME NEW s \in Nat, NEW M \in Nat \ {0}
  PROVE  (s < M => s % M = s) /\ M % M = 0
  BY SMTT(40)

\* What sending a message does to the table, the stream and next_pid.
LEMMA SendEffect ==
  ASSUME TypeOK, TypeOK', NEW m \in Messages, Send(m)
  PROVE  \E p \in Pids, n \in Pids :
            /\ Allocate(nextPid, Used, p, n) /\ nextPid' = n
            /\ inflight[p] = Free /\ inflight'[p] = NewFlight(m)
            /\ \A q \in Pids : q # p => inflight'[q] = inflight[q]
            /\ Len(toClient) <= Len(toClient') /\ DOMAIN toClient' = 1 .. Len(toClient')
            /\ \A i \in DOMAIN toClient : toClient'[i] = toClient[i]
            /\ \A k \in DOMAIN toClient' : k \notin DOMAIN toClient => toClient'[k] = Publish(p, m)
  <1>1. PICK p \in Pids, n \in Pids :
              /\ Allocate(nextPid, Used, p, n)
              /\ nextPid' = n
              /\ inflight' = [inflight EXCEPT ![p] = NewFlight(m)]
              /\ toClient' = Append(toClient, Publish(p, m))
    BY ZenonT(40) DEF Send
  <1>2. inflight[p] = Free
    <2>1. p \notin Used
      BY <1>1, AllocateFresh, ZenonT(40) DEF TypeOK, Used
    <2>2. QED
      BY <2>1, ZenonT(40) DEF Used
  <1>3. inflight'[p] = NewFlight(m) /\ \A q \in Pids : q # p => inflight'[q] = inflight[q]
    BY <1>1, ZenonT(40) DEF TypeOK
  <1>4. PICK a : a = Publish(p, m)
    BY ZenonT(40)
  <1>5. a \in Packet
    BY <1>4, ZenonT(40) DEF Publish, Packet
  <1>6. PICK t : t = <<a>>
    BY ZenonT(40)
  <1>7. t \in Seq(Packet) /\ toClient' = toClient \o t /\ \A i \in DOMAIN t : t[i] = a
    <2>1. toClient' = Append(toClient, a) /\ toClient \in Seq(Packet)
      BY <1>1, <1>4, ZenonT(40) DEF TypeOK
    <2>2. QED
      BY <1>5, <1>6, <2>1, SMTT(40)
  <1>8. /\ Len(toClient) <= Len(toClient') /\ DOMAIN toClient' = 1 .. Len(toClient')
        /\ \A i \in DOMAIN toClient : toClient'[i] = toClient[i]
        /\ \A k \in DOMAIN toClient' : k \notin DOMAIN toClient => toClient'[k] = Publish(p, m)
    BY <1>4, <1>7, AddedGrows, ZenonT(40)
  <1>9. QED
    BY <1>1, <1>2, <1>3, <1>8, ZenonT(40)

\* Sending a message is a step of Grows.
LEMMA SendGrows ==
  ASSUME TypeOK, TypeOK', OriginInv, NEW m \in Messages, Send(m)
  PROVE  Grows
  <1>1. PICK p \in Pids :
            /\ inflight[p] = Free /\ inflight'[p] = NewFlight(m)
            /\ \A q \in Pids : q # p => inflight'[q] = inflight[q]
            /\ Len(toClient) <= Len(toClient') /\ DOMAIN toClient' = 1 .. Len(toClient')
            /\ \A i \in DOMAIN toClient : toClient'[i] = toClient[i]
            /\ \A k \in DOMAIN toClient' : k \notin DOMAIN toClient => toClient'[k] = Publish(p, m)
    BY SendEffect, ZenonT(40)
  <1>2. /\ m \notin offered /\ offered' = offered \cup {m} /\ got' = got /\ awaiting' = awaiting
    BY ZenonT(40) DEF Send, clientVars
  <1>3. NewFlight(m).msg = m /\ NewFlight(m).stage = "first_ack" /\ NewFlight(m) # Free
    <2>1. NewFlight(m).msg = m /\ NewFlight(m).stage = "first_ack"
      BY ZenonT(40) DEF NewFlight
    <2>2. NewFlight(m) \in Flight
      BY SMTT(40) DEF NewFlight, Flight, Stages
    <2>3. QED
      BY <2>1, <2>2, QosAssumption, ZenonT(40)
  <1>4. Pending(p, m)'
    BY <1>1, <1>3, ZenonT(40) DEF Pending, Holds
  <1>5. \A q \in Pids : Holds(q, m)' => q = p
    <2>1. \A q \in Pids : ~Holds(q, m)
      BY <1>2, ZenonT(40) DEF OriginInv, Sent
    <2>2. QED
      BY <1>1, <2>1, ZenonT(40) DEF Holds
  <1>6. \A q \in Pids, n \in Messages : q = p /\ Holds(q, n)' => n = m
    BY <1>1, <1>3, ZenonT(40) DEF Holds
  <1>7. \A q \in Pids, n \in Messages : q # p => (Holds(q, n)' => Holds(q, n))
    BY <1>1, ZenonT(40) DEF Holds
  <1>8. \A q \in Pids, n \in Messages :
          Holds(q, n)' => \/ Holds(q, n)
                          \/ n \in offered' \ offered /\ \A r \in Pids : Holds(r, n)' => r = q
    <2>1. m \in offered' \ offered
      BY <1>2, ZenonT(40)
    <2>2. QED
      BY <1>5, <1>6, <1>7, <2>1, ZenonT(40)
  <1>9. \A q \in Pids, n \in Messages : Pending(q, n)' => Pending(q, n) \/ n \notin offered
    BY <1>1, <1>2, <1>6, ZenonT(40) DEF Pending, Holds
  <1>10. QED
    BY <1>1, <1>2, <1>4, <1>8, <1>9, ZenonT(40) DEF Grows

----------------------------------------------------------------------------
(***************************************************************************)
(* Until the identifiers wrap.                                             *)
(***************************************************************************)
LEMMA OneMore ==
  ASSUME NEW S, NEW T, IsFiniteSet(S), T = S \/ \E x : T = S \cup {x}
  PROVE  IsFiniteSet(T) /\ Cardinality(S) <= Cardinality(T)
         /\ Cardinality(S) \in Nat /\ Cardinality(T) \in Nat
  <1>1. IsFiniteSet(T)
    BY FS_AddElement, ZenonT(40)
  <1>2. S \subseteq T
    BY ZenonT(40)
  <1>3. QED
    BY <1>1, <1>2, FS_Subset, FS_CardinalityType, ZenonT(40)

\* Identifiers that have not wrapped had not wrapped before.
LEMMA WithinTrans ==
  ASSUME NEW a \in Nat, NEW b \in Nat, a <= b
  PROVE  /\ b <= MaxPid => a <= MaxPid
         /\ \A s \in 0 .. MaxPid : s <= a => s <= b
  BY SMTT(40)

\* A step of the broker other than sending keeps what answers mean.
LEMMA TracedReceived ==
  ASSUME TypeOK, TypeOK', OriginInv, ReceivedInv, Grows, Traced,
         offered' = offered \/ \E x : offered' = offered \cup {x}
  PROVE  ReceivedInv'
  <1>1. IsFiniteSet(offered') /\ Cardinality(offered) <= Cardinality(offered')
        /\ Cardinality(offered) \in Nat /\ Cardinality(offered') \in Nat
    BY OneMore, ZenonT(40) DEF ReceivedInv
  <1>2. SUFFICES ASSUME Cardinality(offered') <= MaxPid
                 PROVE  /\ \E s \in 0 .. MaxPid : /\ s <= Cardinality(offered')
                                                  /\ nextPid' = 1 + (s % MaxPid) /\ Below(s)'
                        /\ \A p \in Pids, m, n \in Messages : Sent(p, m)' /\ Sent(p, n)' => m = n
                        /\ \A p \in Pids, m \in Messages : Begun(p)' /\ Sent(p, m)' => got'[m] > 0
                        /\ \A m \in acked' : got'[m] > 0
    BY <1>1, ZenonT(40) DEF ReceivedInv
  <1>3. Cardinality(offered) <= MaxPid
    BY <1>1, <1>2, WithinTrans, ZenonT(40)
  <1>4. \A p \in Pids, m \in Messages : Holds(p, m)' => Holds(p, m)
    BY ZenonT(40) DEF Traced, Holds
  <1>5. \A p \in Pids, m \in Messages : Sent(p, m)' => Sent(p, m)
    <2>1. \A p \in Pids, m \in Messages : Holds(p, m)' => Sent(p, m)
      BY <1>4, ZenonT(40) DEF Sent
    <2>2. QED
      BY <2>1, SentGrows, ZenonT(40)
  <1>6. got' = got
    BY ZenonT(40) DEF Grows
  <1>7. PICK s \in 0 .. MaxPid : s <= Cardinality(offered) /\ nextPid = 1 + (s % MaxPid) /\ Below(s)
    BY <1>3, ZenonT(40) DEF ReceivedInv
  <1>8. Below(s)'
    <2>1. \A p \in Pids : inflight[p] # Free \/ Begun(p) => p <= s
      BY <1>7, ZenonT(40) DEF Below
    <2>2. \A p \in Pids : inflight'[p] # Free \/ Begun(p)' => p <= s
      BY <2>1, ZenonT(40) DEF Traced
    <2>3. ASSUME NEW k \in DOMAIN toClient'
          PROVE  toClient'[k].pid <= s
      <3>1. CASE k \in DOMAIN toClient
        BY <1>7, <3>1, ZenonT(40) DEF Below, Grows
      <3>2. CASE k \notin DOMAIN toClient
        <4>1. \/ \E p \in Pids, m \in Messages : toClient'[k] = Publish(p, m) /\ Pending(p, m)'
              \/ \E p \in Pids : toClient'[k] = Ack("PUBREL", p) /\ Begun(p)
          BY <3>2, ZenonT(40) DEF Grows
        <4>2. \E p \in Pids : toClient'[k].pid = p /\ (inflight'[p] # Free \/ Begun(p))
          <5>1. CASE \E p \in Pids, m \in Messages : toClient'[k] = Publish(p, m) /\ Pending(p, m)'
            <6>1. PICK p \in Pids, m \in Messages : toClient'[k] = Publish(p, m) /\ Pending(p, m)'
              BY <5>1, ZenonT(40)
            <6>2. Publish(p, m).pid = p
              BY PacketFields, ZenonT(40)
            <6>3. inflight'[p] # Free
              BY <6>1, ZenonT(40) DEF Pending, Holds
            <6>4. QED
              BY <6>1, <6>2, <6>3, ZenonT(40)
          <5>2. CASE \E p \in Pids : toClient'[k] = Ack("PUBREL", p) /\ Begun(p)
            <6>1. PICK p \in Pids : toClient'[k] = Ack("PUBREL", p) /\ Begun(p)
              BY <5>2, ZenonT(40)
            <6>2. Ack("PUBREL", p).pid = p
              BY PacketFields, ZenonT(40)
            <6>3. QED
              BY <6>1, <6>2, ZenonT(40)
          <5>3. QED
            BY <4>1, <5>1, <5>2, ZenonT(40)
        <4>3. QED
          BY <2>1, <2>2, <4>2, ZenonT(40)
      <3>3. QED
        BY <3>1, <3>2, ZenonT(40)
    <2>4. QED
      BY <2>2, <2>3, ZenonT(40) DEF Below
  <1>9. s <= Cardinality(offered')
    BY <1>1, <1>7, WithinTrans, ZenonT(40)
  <1>10. \A p \in Pids, m, n \in Messages : Sent(p, m)' /\ Sent(p, n)' => m = n
    BY <1>3, <1>5, ZenonT(40) DEF ReceivedInv
  <1>11. \A p \in Pids, m \in Messages : Begun(p) /\ Sent(p, m) => got[m] > 0
    BY <1>3, ZenonT(40) DEF ReceivedInv
  <1>12. \A p \in Pids, m \in Messages : Begun(p)' /\ Sent(p, m)' => got'[m] > 0
    BY <1>5, <1>6, <1>11, ZenonT(40) DEF Traced
  <1>13. \A m \in acked' : got'[m] > 0
    <2>1. \A m \in acked : got[m] > 0
      BY <1>3, ZenonT(40) DEF ReceivedInv
    <2>2. \A m \in acked' : m \in Messages
      BY ZenonT(40) DEF TypeOK
    <2>3. QED
      BY <1>6, <1>11, <2>1, <2>2, ZenonT(40) DEF Traced, Sent
  <1>14. nextPid' = 1 + (s % MaxPid)
    BY <1>7, ZenonT(40) DEF Traced
  <1>15. QED
    BY <1>8, <1>9, <1>10, <1>12, <1>13, <1>14, ZenonT(40)

\* Before the wrap allocate_pid gives out the next identifier at once.
LEMMA AllocateNext ==
  ASSUME NEW s \in 0 .. MaxPid, s < MaxPid, NEW used \in SUBSET Pids,
         \A q \in used : q <= s, NEW p \in Pids, NEW n,
         Allocate(1 + (s % MaxPid), used, p, n)
  PROVE  p = s + 1 /\ n = 1 + ((s + 1) % MaxPid) /\ s + 1 \in 0 .. MaxPid
  <1>1. s \in Nat /\ s % MaxPid = s /\ 1 + (s % MaxPid) = s + 1
    BY SmallModulo, SMTT(40)
  <1>2. p # 0
    BY SMTT(40) DEF Pids
  <1>3. PICK i \in Hits(s + 1, used) : /\ \A j \in Hits(s + 1, used) : i <= j
                                       /\ p = Nth(s + 1, i) /\ n = Nth(s + 1, i + 1)
    BY <1>1, <1>2, ZenonT(40) DEF Allocate
  <1>4. Nth(s + 1, 0) = s + 1
    <2>1. (s + 1) - 1 + 0 = s
      BY <1>1, SMTT(40)
    <2>2. QED
      BY <1>1, <2>1, ZenonT(40) DEF Nth
  <1>5. s + 1 \notin used
    BY <1>1, SMTT(40)
  <1>6. 0 \in 0 .. MaxPid - 1
    BY SMTT(40)
  <1>7. 0 \in Hits(s + 1, used)
    BY <1>4, <1>5, <1>6, ZenonT(40) DEF Hits
  <1>8. i <= 0 /\ i \in 0 .. MaxPid - 1
    BY <1>3, <1>7, ZenonT(40) DEF Hits
  <1>9. i = 0
    BY <1>8, SMTT(40)
  <1>10. p = s + 1 /\ n = Nth(s + 1, 0 + 1)
    BY <1>3, <1>4, <1>9, ZenonT(40)
  <1>11. (s + 1) - 1 + (0 + 1) = s + 1
    BY <1>1, SMTT(40)
  <1>12. n = 1 + ((s + 1) % MaxPid)
    BY <1>10, <1>11, ZenonT(40) DEF Nth
  <1>13. s + 1 \in 0 .. MaxPid
    BY <1>1, SMTT(40)
  <1>14. QED
    BY <1>10, <1>12, <1>13, ZenonT(40)

\* A fresh identifier below the wrap has no answer under way.
LEMMA SendReceived ==
  ASSUME TypeOK, TypeOK', OriginInv, ReceivedInv, NEW m \in Messages, Send(m)
  PROVE  ReceivedInv'
  <1>1. /\ m \notin offered /\ offered' = offered \cup {m} /\ got' = got /\ awaiting' = awaiting
        /\ toBroker' = toBroker /\ acked' = acked
    BY ZenonT(40) DEF Send, clientVars, histVars
  <1>2. IsFiniteSet(offered') /\ Cardinality(offered') = Cardinality(offered) + 1
        /\ Cardinality(offered) \in Nat
    BY <1>1, FS_AddElement, FS_CardinalityType, ZenonT(40) DEF ReceivedInv
  <1>3. SUFFICES ASSUME Cardinality(offered') <= MaxPid
                 PROVE  /\ \E s \in 0 .. MaxPid : /\ s <= Cardinality(offered')
                                                  /\ nextPid' = 1 + (s % MaxPid) /\ Below(s)'
                        /\ \A p \in Pids, x, n \in Messages : Sent(p, x)' /\ Sent(p, n)' => x = n
                        /\ \A p \in Pids, x \in Messages : Begun(p)' /\ Sent(p, x)' => got'[x] > 0
                        /\ \A x \in acked' : got'[x] > 0
    BY <1>2, ZenonT(40) DEF ReceivedInv
  <1>4. PICK c \in Nat : c = Cardinality(offered)
    BY <1>2, ZenonT(40)
  <1>5. c + 1 <= MaxPid /\ c + 1 = Cardinality(offered')
    BY <1>2, <1>3, <1>4, ZenonT(40)
  <1>6. c <= MaxPid
    BY <1>5, SMTT(40)
  <1>7. PICK s \in 0 .. MaxPid : s <= c /\ nextPid = 1 + (s % MaxPid) /\ Below(s)
    BY <1>4, <1>6, ZenonT(40) DEF ReceivedInv
  <1>8. s < MaxPid /\ s + 1 <= c + 1
    BY <1>5, <1>7, SMTT(40)
  <1>9. PICK p \in Pids, n \in Pids :
            /\ Allocate(nextPid, Used, p, n) /\ nextPid' = n
            /\ inflight[p] = Free /\ inflight'[p] = NewFlight(m)
            /\ \A q \in Pids : q # p => inflight'[q] = inflight[q]
            /\ \A i \in DOMAIN toClient : toClient'[i] = toClient[i]
            /\ \A k \in DOMAIN toClient' : k \notin DOMAIN toClient => toClient'[k] = Publish(p, m)
    BY SendEffect, ZenonT(40)
  <1>10. p = s + 1 /\ n = 1 + ((s + 1) % MaxPid) /\ s + 1 \in 0 .. MaxPid
    <2>1. Used \in SUBSET Pids /\ \A q \in Used : q <= s
      BY <1>7, ZenonT(40) DEF Used, Below
    <2>2. QED
      BY <1>7, <1>8, <1>9, <2>1, AllocateNext, ZenonT(40)
  <1>11. ~(p <= s) /\ p <= s + 1 /\ \A q \in Pids : q <= s => q <= s + 1
    BY <1>10, SMTT(40) DEF Pids
  <1>12. ~Begun(p) /\ \A x \in Messages : ~Sent(p, x)
    <2>1. ~Begun(p)
      BY <1>7, <1>11, ZenonT(40) DEF Below
    <2>2. ASSUME NEW x \in Messages, NEW i \in DOMAIN toClient, toClient[i] = Publish(p, x)
          PROVE  FALSE
      <3>1. toClient[i].pid = p
        BY <2>2, PacketFields, ZenonT(40)
      <3>2. QED
        BY <1>7, <1>11, <3>1, ZenonT(40) DEF Below
    <2>3. QED
      BY <1>9, <2>1, <2>2, ZenonT(40) DEF Sent, Holds, Published
  <1>13. NewFlight(m).msg = m /\ NewFlight(m).stage # "pubcomp"
    <2>1. NewFlight(m).msg = m /\ NewFlight(m).stage = "first_ack"
      BY ZenonT(40) DEF NewFlight
    <2>2. QED
      BY <2>1, SMTT(40)
  <1>14. \A q \in Pids : Begun(q)' => Begun(q)
    <2> SUFFICES ASSUME NEW q \in Pids, Begun(q)' PROVE Begun(q)
      BY ZenonT(40)
    <2>1. CASE q \in awaiting' \/ \E i \in DOMAIN toBroker' : toBroker'[i].pid = q
      BY <1>1, <2>1, ZenonT(40) DEF Begun
    <2>2. CASE \E i \in DOMAIN toClient' : toClient'[i] = Ack("PUBREL", q)
      <3>1. PICK i \in DOMAIN toClient' : toClient'[i] = Ack("PUBREL", q)
        BY <2>2, ZenonT(40)
      <3>2. i \in DOMAIN toClient
        <4>1. Publish(p, m) # Ack("PUBREL", q)
          BY PacketFields, ZenonT(40)
        <4>2. QED
          BY <1>9, <3>1, <4>1, ZenonT(40)
      <3>3. toClient[i] = Ack("PUBREL", q)
        BY <1>9, <3>1, <3>2, ZenonT(40)
      <3>4. QED
        BY <3>2, <3>3, ZenonT(40) DEF Begun, Released
    <2>3. CASE inflight'[q] # Free /\ inflight'[q].stage = "pubcomp"
      <3>1. q # p
        BY <1>9, <1>13, <2>3, ZenonT(40)
      <3>2. inflight[q] # Free /\ inflight[q].stage = "pubcomp"
        BY <1>9, <2>3, <3>1, ZenonT(40)
      <3>3. QED
        BY <3>2, ZenonT(40) DEF Begun
    <2>4. QED
      BY <2>1, <2>2, <2>3, ZenonT(40) DEF Begun, Released
  <1>15. ASSUME NEW q \in Pids, NEW x \in Messages, Sent(q, x)'
         PROVE  (q # p /\ Sent(q, x)) \/ (q = p /\ x = m)
    <2>1. CASE Holds(q, x)'
      <3>1. CASE q = p
        BY <1>9, <1>13, <2>1, <3>1, ZenonT(40) DEF Holds
      <3>2. CASE q # p
        BY <1>9, <2>1, <3>2, ZenonT(40) DEF Holds, Sent
      <3>3. QED
        BY <3>1, <3>2, ZenonT(40)
    <2>2. CASE \E i \in DOMAIN toClient' : toClient'[i] = Publish(q, x)
      <3>1. PICK i \in DOMAIN toClient' : toClient'[i] = Publish(q, x)
        BY <2>2, ZenonT(40)
      <3>2. CASE i \in DOMAIN toClient
        <4>1. Sent(q, x)
          BY <1>9, <3>1, <3>2, ZenonT(40) DEF Sent, Published
        <4>2. QED
          BY <1>12, <4>1, ZenonT(40)
      <3>3. CASE i \notin DOMAIN toClient
        <4>1. Publish(q, x) = Publish(p, m)
          BY <1>9, <3>1, <3>3, ZenonT(40)
        <4>2. QED
          BY <4>1, PacketFields, ZenonT(40)
      <3>4. QED
        BY <3>2, <3>3, ZenonT(40)
    <2>3. QED
      BY <1>15, <2>1, <2>2, ZenonT(40) DEF Sent, Published
  <1>16. Below(s + 1)'
    <2>1. PICK l : l = s + 1
      BY ZenonT(40)
    <2>2. \A q \in Pids : inflight'[q] # Free \/ Begun(q)' => q <= l
      <3>1. \A q \in Pids : inflight[q] # Free \/ Begun(q) => q <= l
        BY <1>7, <1>11, <2>1, ZenonT(40) DEF Below
      <3>2. p <= l
        BY <1>11, <2>1, ZenonT(40)
      <3>3. QED
        BY <1>9, <1>14, <3>1, <3>2, ZenonT(40)
    <2>3. ASSUME NEW k \in DOMAIN toClient' PROVE toClient'[k].pid <= l
      <3>1. CASE k \in DOMAIN toClient
        <4>1. toClient[k].pid \in Pids
          BY <3>1, SMTT(40) DEF TypeOK, Packet, AckPacket
        <4>2. toClient[k].pid <= s
          BY <1>7, <3>1, ZenonT(40) DEF Below
        <4>3. toClient[k].pid <= l
          BY <1>11, <2>1, <4>1, <4>2, ZenonT(40)
        <4>4. QED
          BY <1>9, <3>1, <4>3, ZenonT(40)
      <3>2. CASE k \notin DOMAIN toClient
        <4>1. toClient'[k] = Publish(p, m)
          BY <1>9, <3>2, ZenonT(40)
        <4>2. toClient'[k].pid = p
          BY <4>1, PacketFields, ZenonT(40)
        <4>3. QED
          BY <1>11, <2>1, <4>2, ZenonT(40)
      <3>3. QED
        BY <3>1, <3>2, ZenonT(40)
    <2>4. QED
      BY <2>1, <2>2, <2>3, ZenonT(40) DEF Below
  <1>17. \A q \in Pids, x, y \in Messages : Sent(q, x)' /\ Sent(q, y)' => x = y
    <2>1. \A q \in Pids, x, y \in Messages : Sent(q, x) /\ Sent(q, y) => x = y
      BY <1>4, <1>6, ZenonT(40) DEF ReceivedInv
    <2>2. QED
      BY <1>15, <2>1, ZenonT(40)
  <1>18. \A q \in Pids, x \in Messages : Begun(q)' /\ Sent(q, x)' => got'[x] > 0
    <2>1. \A q \in Pids, x \in Messages : Begun(q) /\ Sent(q, x) => got[x] > 0
      BY <1>4, <1>6, ZenonT(40) DEF ReceivedInv
    <2>2. \A q \in Pids, x \in Messages : Begun(q)' /\ Sent(q, x)' => Begun(q) /\ Sent(q, x)
      BY <1>12, <1>14, <1>15, ZenonT(40)
    <2>3. QED
      BY <1>1, <2>1, <2>2, ZenonT(40)
  <1>19. \A x \in acked' : got'[x] > 0
    BY <1>1, <1>4, <1>6, ZenonT(40) DEF ReceivedInv
  <1>20. \E l \in 0 .. MaxPid : /\ l <= Cardinality(offered')
                                /\ nextPid' = 1 + (l % MaxPid) /\ Below(l)'
    BY <1>5, <1>8, <1>9, <1>10, <1>16, ZenonT(40)
  <1>21. QED
    BY <1>17, <1>18, <1>19, <1>20, ZenonT(40)

\* The subscriber's steps: it begins to answer under p, for a message it has.
LEMMA ClientReceived ==
  ASSUME TypeOK, TypeOK', ReceivedInv, Shifted, inflight' = inflight, nextPid' = nextPid,
         offered' = offered, acked' = acked, NEW p \in Pids, toClient[1].pid = p,
         \A q \in Pids : Begun(q)' => Begun(q) \/ q = p,
         \A m \in Messages : got[m] > 0 => got'[m] > 0,
         Cardinality(offered) <= MaxPid => \A m \in Messages : Sent(p, m) => Begun(p) \/ got'[m] > 0
  PROVE  ReceivedInv'
  <1>1. SUFFICES ASSUME Cardinality(offered') <= MaxPid
                 PROVE  /\ \E s \in 0 .. MaxPid : /\ s <= Cardinality(offered')
                                                  /\ nextPid' = 1 + (s % MaxPid) /\ Below(s)'
                        /\ \A q \in Pids, x, n \in Messages : Sent(q, x)' /\ Sent(q, n)' => x = n
                        /\ \A q \in Pids, x \in Messages : Begun(q)' /\ Sent(q, x)' => got'[x] > 0
                        /\ \A x \in acked' : got'[x] > 0
    BY ZenonT(40) DEF ReceivedInv
  <1>2. /\ \E s \in 0 .. MaxPid :
              s <= Cardinality(offered) /\ nextPid = 1 + (s % MaxPid) /\ Below(s)
        /\ \A q \in Pids, m, n \in Messages : Sent(q, m) /\ Sent(q, n) => m = n
        /\ \A q \in Pids, m \in Messages : Begun(q) /\ Sent(q, m) => got[m] > 0
        /\ \A m \in acked : got[m] > 0
    BY <1>1, ZenonT(40) DEF ReceivedInv
  <1>3. \A q \in Pids, m \in Messages : Sent(q, m)' => Sent(q, m)
    BY SentShifts, ZenonT(40)
  <1>4. ASSUME NEW s \in 0 .. MaxPid, Below(s) PROVE Below(s)'
    <2>1. p <= s
      BY <1>4, ZenonT(40) DEF Below, Shifted
    <2>2. \A q \in Pids : inflight'[q] # Free \/ Begun(q)' => q <= s
      BY <1>4, <2>1, ZenonT(40) DEF Below
    <2>3. \A i \in DOMAIN toClient' : toClient'[i].pid <= s
      BY <1>4, ZenonT(40) DEF Below, Shifted
    <2>4. QED
      BY <2>2, <2>3, ZenonT(40) DEF Below
  <1>5. \A m \in Messages : Sent(p, m) => got'[m] > 0
    BY <1>1, <1>2, ZenonT(40)
  <1>6. \A q \in Pids, m \in Messages : Begun(q)' /\ Sent(q, m)' => got'[m] > 0
    BY <1>2, <1>3, <1>5, ZenonT(40)
  <1>7. \A m \in acked' : got'[m] > 0
    BY <1>2, ZenonT(40) DEF TypeOK
  <1>8. \A q \in Pids, m, n \in Messages : Sent(q, m)' /\ Sent(q, n)' => m = n
    BY <1>2, <1>3, ZenonT(40)
  <1>9. \E s \in 0 .. MaxPid : s <= Cardinality(offered') /\ nextPid' = 1 + (s % MaxPid) /\ Below(s)'
    BY <1>2, <1>4, ZenonT(40)
  <1>10. QED
    BY <1>6, <1>7, <1>8, <1>9, ZenonT(40)

\* What begins when the subscriber answers packet p.
LEMMA AnswerBegun ==
  ASSUME TypeOK, Shifted, inflight' = inflight, NEW p \in Pids, awaiting' \subseteq awaiting \cup {p},
         NEW t, Ack(t, p) \in AckPacket, toBroker' = Append(toBroker, Ack(t, p))
  PROVE  \A q \in Pids : Begun(q)' => Begun(q) \/ q = p
  <1> SUFFICES ASSUME NEW q \in Pids, Begun(q)' PROVE Begun(q) \/ q = p
    BY ZenonT(40)
  <1>1. CASE q \in awaiting'
    BY <1>1, ZenonT(40) DEF Begun
  <1>2. CASE \E i \in DOMAIN toBroker' : toBroker'[i].pid = q
    <2>1. PICK i \in DOMAIN toBroker' : toBroker'[i].pid = q
      BY <1>2, ZenonT(40)
    <2>2. PICK a : a = Ack(t, p)
      BY ZenonT(40)
    <2>3. toBroker \in Seq(AckPacket) /\ a \in AckPacket /\ toBroker' = Append(toBroker, a)
      BY <2>2, ZenonT(40) DEF TypeOK
    <2>4. (i \in DOMAIN toBroker /\ toBroker'[i] = toBroker[i]) \/ toBroker'[i] = a
      BY <2>1, <2>3, SMTT(40)
    <2>5. a.pid = p
      BY <2>2, PacketFields, ZenonT(40)
    <2>6. QED
      BY <2>1, <2>4, <2>5, ZenonT(40) DEF Begun
  <1>3. CASE \E i \in DOMAIN toClient' : toClient'[i] = Ack("PUBREL", q)
    <2>1. \E i \in DOMAIN toClient : toClient[i] = Ack("PUBREL", q)
      BY <1>3, ZenonT(40) DEF Shifted
    <2>2. QED
      BY <2>1, ZenonT(40) DEF Begun, Released
  <1>4. CASE inflight'[q] # Free /\ inflight'[q].stage = "pubcomp"
    BY <1>4, ZenonT(40) DEF Begun
  <1>5. QED
    BY <1>1, <1>2, <1>3, <1>4, ZenonT(40) DEF Begun, Released

\* The answer to a PUBLISH is sent when the message has been received.
LEMMA ClientPublishReceived ==
  ASSUME TypeOK, TypeOK', ReceivedInv, NEW p \in Pids, ClientPublish(p)
  PROVE  ReceivedInv'
  <1>1. /\ Take(p, "PUBLISH") /\ inflight' = inflight /\ offered' = offered /\ nextPid' = nextPid
        /\ acked' = acked
    BY ZenonT(40) DEF ClientPublish, brokerVars, histVars
  <1>2. PICK m \in Messages : toClient[1] = Publish(p, m) /\ Head(toClient).msg = m
    BY <1>1, TakePublish, ZenonT(40)
  <1>3. Shifted /\ toClient[1].pid = p
    BY <1>1, TakeShifts, ZenonT(40)
  <1>4. /\ got' = IF m \in QoS2 /\ p \in awaiting THEN got ELSE [got EXCEPT ![m] = @ + 1]
        /\ awaiting' = IF m \in QoS2 THEN awaiting \cup {p} ELSE awaiting
        /\ toBroker' = Append(toBroker, Ack(IF m \in QoS2 THEN "PUBREC" ELSE "PUBACK", p))
    BY <1>2, ZenonT(40) DEF ClientPublish
  <1>5. PICK t \in {"PUBREC", "PUBACK"} : t = IF m \in QoS2 THEN "PUBREC" ELSE "PUBACK"
    BY ZenonT(40)
  <1>6. Ack(t, p) \in AckPacket
    BY <1>5, SMTT(40) DEF Ack, AckPacket
  <1>7. \A q \in Pids : Begun(q)' => Begun(q) \/ q = p
    <2>1. toBroker' = Append(toBroker, Ack(t, p)) /\ awaiting' \subseteq awaiting \cup {p}
      BY <1>4, <1>5, ZenonT(40)
    <2>2. QED
      BY <1>1, <1>3, <1>6, <2>1, AnswerBegun, ZenonT(40)
  <1>8. \A x \in Messages : got[x] > 0 => got'[x] > 0
    BY <1>4, SMTT(40) DEF TypeOK
  <1>9. (m \in QoS2 /\ p \in awaiting) \/ got'[m] > 0
    BY <1>4, SMTT(40) DEF TypeOK
  <1>10. Sent(p, m)
    BY <1>2, <1>3, ZenonT(40) DEF Sent, Published, Shifted
  <1>11. Cardinality(offered) <= MaxPid => \A x \in Messages : Sent(p, x) => Begun(p) \/ got'[x] > 0
    <2>1. Cardinality(offered) <= MaxPid => \A x \in Messages : Sent(p, x) => x = m
      BY <1>10, ZenonT(40) DEF ReceivedInv
    <2>2. QED
      BY <1>9, <2>1, ZenonT(40) DEF Begun
  <1>12. QED
    BY <1>1, <1>3, <1>7, <1>8, <1>11, ClientReceived, ZenonT(40)

\* The answer to a PUBREL is sent after the message was received.
LEMMA ClientPubrelReceived ==
  ASSUME TypeOK, TypeOK', ReceivedInv, NEW p \in Pids, ClientPubrel(p)
  PROVE  ReceivedInv'
  <1>1. /\ Take(p, "PUBREL") /\ inflight' = inflight /\ offered' = offered /\ nextPid' = nextPid
        /\ acked' = acked /\ got' = got /\ awaiting' = awaiting \ {p}
        /\ toBroker' = Append(toBroker, Ack("PUBCOMP", p))
    BY ZenonT(40) DEF ClientPubrel, brokerVars, histVars
  <1>2. Shifted /\ toClient[1] = Ack("PUBREL", p) /\ toClient[1].pid = p
    BY <1>1, TakeShifts, TakePubrel, ZenonT(40)
  <1>3. Ack("PUBCOMP", p) \in AckPacket /\ awaiting' \subseteq awaiting \cup {p}
    BY <1>1, SMTT(40) DEF Ack, AckPacket
  <1>4. \A q \in Pids : Begun(q)' => Begun(q) \/ q = p
    BY <1>1, <1>2, <1>3, AnswerBegun, ZenonT(40)
  <1>5. Begun(p)
    BY <1>2, ZenonT(40) DEF Begun, Released, Shifted
  <1>6. \A x \in Messages : got[x] > 0 => got'[x] > 0
    BY <1>1, ZenonT(40)
  <1>7. Cardinality(offered) <= MaxPid => \A x \in Messages : Sent(p, x) => Begun(p) \/ got'[x] > 0
    BY <1>5, ZenonT(40)
  <1>8. QED
    BY <1>1, <1>2, <1>4, <1>6, <1>7, ClientReceived, ZenonT(40)

----------------------------------------------------------------------------
\* Nothing is under way at the start.
LEMMA HandshakeInit ==
  ASSUME Init
  PROVE  HandshakeInv
  <1>1. TypeOK
    BY TypeInit, ZenonT(40)
  <1>2. /\ \A p \in Pids : inflight[p] = Free
        /\ toClient = <<>> /\ toBroker = <<>> /\ awaiting = {} /\ acked = {} /\ offered = {}
        /\ \A m \in Messages : got[m] = 0
        /\ nextPid = 1
    BY ZenonT(40) DEF Init
  <1>3. DOMAIN toClient = {} /\ DOMAIN toBroker = {}
    BY <1>2, SMTT(40)
  <1>4. \A p \in Pids, m \in Messages : ~Sent(p, m) /\ ~Holds(p, m)
    BY <1>2, <1>3, ZenonT(40) DEF Sent, Holds
  <1>5. ~(0 > 0) /\ 0 <= 1 /\ 0 <= MaxPid /\ 0 \in 0 .. MaxPid /\ 0 <= 0
    BY SMTT(40)
  <1>6. OriginInv
    BY <1>2, <1>4, <1>5, ZenonT(40) DEF OriginInv
  <1>7. OnceInv
    <2>1. \A m \in QoS2 : m \in Messages
      BY QosAssumption, ZenonT(40)
    <2>2. QED
      BY <1>2, <1>3, <1>4, <1>5, <2>1, ZenonT(40) DEF OnceInv
  <1>8. ReceivedInv
    <2>1. IsFiniteSet(offered) /\ Cardinality(offered) = 0
      BY <1>2, FS_EmptySet, ZenonT(40)
    <2>2. \A p \in Pids : ~Begun(p)
      BY <1>2, <1>3, ZenonT(40) DEF Begun
    <2>3. Below(0)
      BY <1>2, <1>3, <2>2, ZenonT(40) DEF Below
    <2>4. 1 = 1 + (0 % MaxPid)
      BY SMTT(40)
    <2>5. QED
      BY <1>2, <1>4, <1>5, <2>1, <2>2, <2>3, <2>4, ZenonT(40) DEF ReceivedInv
  <1>9. QED
    BY <1>1, <1>6, <1>7, <1>8, ZenonT(40) DEF HandshakeInv

\* The steps of the broker keep the invariant.
LEMMA BrokerStep ==
  ASSUME HandshakeInv, TypeOK', Grows, Traced,
         offered' = offered \/ \E x : offered' = offered \cup {x}
  PROVE  HandshakeInv'
  <1>1. OriginInv'
    BY OriginGrows, ZenonT(40) DEF HandshakeInv
  <1>2. OnceInv'
    BY OnceGrows, ZenonT(40) DEF HandshakeInv
  <1>3. ReceivedInv'
    BY TracedReceived, ZenonT(40) DEF HandshakeInv
  <1>4. QED
    BY <1>1, <1>2, <1>3, ZenonT(40) DEF HandshakeInv

\* Every step keeps the invariant.
LEMMA HandshakeStep ==
  ASSUME HandshakeInv, [Next]_vars
  PROVE  HandshakeInv'
  <1>0. TypeOK /\ OriginInv /\ OnceInv /\ ReceivedInv
    BY ZenonT(40) DEF HandshakeInv
  <1>t. TypeOK'
    BY <1>0, StepTable, ZenonT(40)
  <1>1. ASSUME NEW m \in Messages, Send(m) PROVE HandshakeInv'
    <2>1. Grows
      BY <1>0, <1>1, <1>t, SendGrows, ZenonT(40)
    <2>2. OriginInv' /\ OnceInv'
      BY <1>0, <1>t, <2>1, OriginGrows, OnceGrows, ZenonT(40)
    <2>3. ReceivedInv'
      BY <1>0, <1>1, <1>t, SendReceived, ZenonT(40)
    <2>4. QED
      BY <1>t, <2>2, <2>3, ZenonT(40) DEF HandshakeInv
  <1>2. CASE (\E m \in Messages : Refuse(m)) \/ UNCHANGED vars
    <2>1. offered' = offered \/ \E x : offered' = offered \cup {x}
      BY <1>2, ZenonT(40) DEF Refuse, vars, brokerVars
    <2>2. Grows /\ Traced
      BY <1>0, <1>2, <1>t, IdleStep, ZenonT(40)
    <2>3. QED
      BY <1>t, <2>1, <2>2, BrokerStep, ZenonT(40)
  <1>3. ASSUME NEW p \in Pids, Complete(p) PROVE HandshakeInv'
    <2>1. offered' = offered
      BY <1>3, ZenonT(40) DEF Complete
    <2>2. Grows /\ Traced
      BY <1>0, <1>3, <1>t, CompleteStep, ZenonT(40)
    <2>3. QED
      BY <1>t, <2>1, <2>2, BrokerStep, ZenonT(40)
  <1>4. ASSUME NEW p \in Pids, Pubrec(p) PROVE HandshakeInv'
    <2>1. offered' = offered
      BY <1>4, ZenonT(40) DEF Pubrec
    <2>2. Grows /\ Traced
      BY <1>0, <1>4, <1>t, PubrecStep, ZenonT(40)
    <2>3. QED
      BY <1>t, <2>1, <2>2, BrokerStep, ZenonT(40)
  <1>5. ASSUME NEW p \in Pids, Elapse(p) PROVE HandshakeInv'
    <2>1. offered' = offered
      BY <1>5, ZenonT(40) DEF Elapse
    <2>2. Grows /\ Traced
      BY <1>0, <1>5, <1>t, ElapseStep, ZenonT(40)
    <2>3. QED
      BY <1>t, <2>1, <2>2, BrokerStep, ZenonT(40)
  <1>6. CASE RetryTick
    <2>1. offered' = offered
      BY <1>6, ZenonT(40) DEF RetryTick
    <2>2. Grows /\ Traced
      BY <1>0, <1>6, <1>t, RetryTickStep, ZenonT(40)
    <2>3. QED
      BY <1>t, <2>1, <2>2, BrokerStep, ZenonT(40)
  <1>7. ASSUME NEW p \in Pids, ClientPublish(p) PROVE HandshakeInv'
    BY <1>0, <1>7, <1>t, ClientPublishOnce, ClientPublishReceived, ZenonT(40) DEF HandshakeInv
  <1>8. ASSUME NEW p \in Pids, ClientPubrel(p) PROVE HandshakeInv'
    BY <1>0, <1>8, <1>t, ClientPubrelOnce, ClientPubrelReceived, ZenonT(40) DEF HandshakeInv
  <1>9. QED
    BY <1>1, <1>2, <1>3, <1>4, <1>5, <1>6, <1>7, <1>8, ZenonT(40)
       DEF Next, Route, Acks, Timers, Client

\* The inductive invariant of the handshakes, whatever the number of messages,
\* identifiers and retries.
THEOREM HandshakeInvariant == Spec => []HandshakeInv
  <1>1. Init => HandshakeInv
    BY HandshakeInit, ZenonT(40)
  <1>2. HandshakeInv /\ [Next]_vars => HandshakeInv'
    BY HandshakeStep, ZenonT(40)
  <1>3. QED
    BY <1>1, <1>2, PTL DEF Spec

\* QoS 2 is exactly once towards the application of the subscriber, however
\* often retry_expired resends and even when identifiers wrap: no PUBREL ever
\* goes out between two PUBLISH packets of a message.
THEOREM DeliveredExactlyOnce == Spec => []ExactlyOnce
  <1>1. HandshakeInv => ExactlyOnce
    BY ZenonT(40) DEF HandshakeInv, OnceInv, ExactlyOnce
  <1>2. QED
    BY <1>1, HandshakeInvariant, PTL

\* Until allocate_pid wraps, an acknowledgement only ever removes the entry of
\* a message that the subscriber has.
THEOREM AcknowledgedWasReceived == Spec => []AckedWasReceived
  <1>1. HandshakeInv => AckedWasReceived
    BY ZenonT(40) DEF HandshakeInv, ReceivedInv, AckedWasReceived
  <1>2. QED
    BY <1>1, HandshakeInvariant, PTL
=============================================================================
