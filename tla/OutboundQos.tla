---------------------------- MODULE OutboundQos ----------------------------
(***************************************************************************)
(* The outbound QoS 1 and QoS 2 handshakes of one connection: the inflight *)
(* table, packet identifiers, retransmission and acknowledgements          *)
(* (src/src/broker/qos.rs, build_outbound_packet, allocate_pid and the     *)
(* acknowledgement arms of handle_packet in src/src/broker/mod.rs).        *)
(*                                                                         *)
(* The connection is one task, so every handler is one action.  TCP keeps  *)
(* the order of the packets of each direction and loses none while the     *)
(* connection lives; the table dies with the connection.  The subscriber   *)
(* follows the protocol but may be arbitrarily slow.                       *)
(***************************************************************************)
EXTENDS Integers, Sequences, FiniteSets

CONSTANTS
    Messages,     \* the messages routed to this connection
    QoS2,         \* those delivered with QoS 2; the others have QoS 1
    MaxPid,       \* the largest packet identifier: 65535 in the code
    MaxInflight,  \* broker.max_inflight
    MaxRetries,   \* broker.max_retries
    Free          \* a packet identifier without inflight entry

Pids == 1 .. MaxPid

Stages == {"first_ack", "pubcomp"}

\* An OutboundInflight.  due says that retry_timeout has passed since last_sent_at.
Flight == [msg : Messages, stage : Stages, retries : 0 .. MaxRetries, due : BOOLEAN]

ASSUME QosAssumption ==
    /\ QoS2 \subseteq Messages
    /\ MaxPid \in Nat \ {0}
    /\ MaxInflight \in Nat
    /\ MaxRetries \in Nat
    /\ Free \notin Flight

VARIABLES
    offered,   \* messages taken from the channel so far
    nextPid,   \* next_pid
    inflight,  \* OutboundInflightTable.map
    toClient,  \* packets on their way to the subscriber
    toBroker,  \* packets on their way to the broker
    awaiting,  \* subscriber: identifiers received with QoS 2 and not yet released
    got,       \* subscriber: how often each message reached the application
    acked,     \* history: messages whose entry an acknowledgement removed
    dropped    \* history: messages refused by the table or given up

brokerVars == <<offered, nextPid, inflight>>
wireVars   == <<toClient, toBroker>>
clientVars == <<awaiting, got>>
histVars   == <<acked, dropped>>
vars == <<brokerVars, wireVars, clientVars, histVars>>

Publish(p, m) == [type |-> "PUBLISH", pid |-> p, msg |-> m]
Ack(t, p)     == [type |-> t, pid |-> p]

Used == {p \in Pids : inflight[p] # Free}

----------------------------------------------------------------------------
(***************************************************************************)
(* allocate_pid: from next on, wrapping past 0, the first identifier that  *)
(* is not in the table; 0 if there is none after MaxPid attempts.          *)
(***************************************************************************)
Nth(next, i) == 1 + ((next - 1 + i) % MaxPid)

\* The attempts that find an identifier not in use.
Hits(next, used) == {i \in 0 .. MaxPid - 1 : Nth(next, i) \notin used}

\* Mutant: the first identifier above zero that is free.
AllocateLowestMutant(next, used, p, n) ==
    /\ p \in Pids \ used
    /\ \A q \in Pids \ used : p <= q
    /\ n = next

\* Mutant: the next identifier, in use or not.
AllocateBlindMutant(next, used, p, n) ==
    /\ p = next
    /\ n = Nth(next, 1)

\* The identifier p and the new value n of next_pid.
Allocate(next, used, p, n) ==
    \/ /\ Hits(next, used) = {}
       /\ p = 0
       /\ n = next
    \/ \E i \in Hits(next, used) :
          /\ \A j \in Hits(next, used) : i <= j
          /\ p = Nth(next, i)
          /\ n = Nth(next, i + 1)

----------------------------------------------------------------------------
(***************************************************************************)
(* build_outbound_packet.                                                  *)
(***************************************************************************)
NewFlight(m) == [msg |-> m, stage |-> "first_ack", retries |-> 0, due |-> FALSE]

TableFull == Cardinality(Used) >= MaxInflight

\* The message gets an identifier and an entry and is sent.
Send(m) ==
    /\ m \in Messages \ offered
    /\ ~TableFull
    /\ \E p \in Pids, n \in Pids :
          /\ Allocate(nextPid, Used, p, n)
          /\ nextPid' = n
          /\ inflight' = [inflight EXCEPT ![p] = NewFlight(m)]
          /\ toClient' = Append(toClient, Publish(p, m))
    /\ offered' = offered \cup {m}
    /\ UNCHANGED <<toBroker, clientVars, histVars>>

\* The table or the identifiers are exhausted: the message is dropped.
Refuse(m) ==
    /\ m \in Messages \ offered
    /\ \/ TableFull
       \/ Allocate(nextPid, Used, 0, nextPid)
    /\ offered' = offered \cup {m}
    /\ dropped' = dropped \cup {m}
    /\ UNCHANGED <<nextPid, inflight, wireVars, clientVars, acked>>

----------------------------------------------------------------------------
(***************************************************************************)
(* The acknowledgement arms of handle_packet.                              *)
(***************************************************************************)
Receive(t, p) ==
    /\ toBroker # <<>>
    /\ Head(toBroker) = Ack(t, p)
    /\ toBroker' = Tail(toBroker)

\* PUBACK and PUBCOMP remove the entry, whatever its QoS and stage.
Complete(p) ==
    /\ Receive("PUBACK", p) \/ Receive("PUBCOMP", p)
    /\ inflight' = [inflight EXCEPT ![p] = Free]
    /\ acked' = IF inflight[p] = Free THEN acked ELSE acked \cup {inflight[p].msg}
    /\ UNCHANGED <<offered, nextPid, toClient, clientVars, dropped>>

\* PUBREC is answered with PUBREL even if the entry is gone.
Pubrec(p) ==
    /\ Receive("PUBREC", p)
    /\ inflight' = IF inflight[p] = Free THEN inflight
                   ELSE [inflight EXCEPT ![p].stage = "pubcomp", ![p].due = FALSE]
    /\ toClient' = Append(toClient, Ack("PUBREL", p))
    /\ UNCHANGED <<offered, nextPid, clientVars, histVars>>

----------------------------------------------------------------------------
(***************************************************************************)
(* Retransmission.                                                         *)
(***************************************************************************)

\* retry_timeout has passed since the entry was last sent.
Elapse(p) ==
    /\ inflight[p] # Free
    /\ ~inflight[p].due
    /\ inflight' = [inflight EXCEPT ![p].due = TRUE]
    /\ UNCHANGED <<offered, nextPid, wireVars, clientVars, histVars>>

Due == {p \in Used : inflight[p].due}

Failed == {p \in Due : inflight[p].retries >= MaxRetries}

ToResend == Due \ Failed

\* Mutant: PUBLISH whatever the stage.
BuildPacketMutant(p) == Publish(p, inflight[p].msg)

\* OutboundInflight::build_packet.
BuildPacket(p) ==
    IF inflight[p].stage = "first_ack" THEN Publish(p, inflight[p].msg) ELSE Ack("PUBREL", p)

\* The table is a HashMap: the packets go out in any order.
Orders(S) ==
    {s \in [1 .. Cardinality(S) -> S] : \A i, j \in 1 .. Cardinality(S) : s[i] = s[j] => i = j}

Retried(e) == [e EXCEPT !.retries = @ + 1, !.due = FALSE]

\* Mutant: a message that is given up keeps its entry.
RetryTickMutant ==
    /\ Due # {}
    /\ \E s \in Orders(ToResend) :
          toClient' = toClient \o [i \in DOMAIN s |-> BuildPacket(s[i])]
    /\ inflight' = [p \in Pids |->
          IF p \in ToResend THEN Retried(inflight[p]) ELSE inflight[p]]
    /\ dropped' = dropped \cup {inflight[p].msg : p \in Failed}
    /\ UNCHANGED <<offered, nextPid, toBroker, clientVars, acked>>

\* The retry_tick branch: retry_expired and the sends.
RetryTick ==
    /\ Due # {}
    /\ \E s \in Orders(ToResend) :
          toClient' = toClient \o [i \in DOMAIN s |-> BuildPacket(s[i])]
    /\ inflight' = [p \in Pids |->
          IF p \in Failed THEN Free
          ELSE IF p \in ToResend THEN Retried(inflight[p]) ELSE inflight[p]]
    /\ dropped' = dropped \cup {inflight[p].msg : p \in Failed}
    /\ UNCHANGED <<offered, nextPid, toBroker, clientVars, acked>>

----------------------------------------------------------------------------
(***************************************************************************)
(* The subscriber, as MQTT asks of a receiver.                             *)
(***************************************************************************)
Take(p, type) ==
    /\ toClient # <<>>
    /\ Head(toClient).pid = p /\ Head(toClient).type = type
    /\ toClient' = Tail(toClient)

ClientPublish(p) ==
    LET m == Head(toClient).msg IN
    /\ Take(p, "PUBLISH")
    /\ got' = IF m \in QoS2 /\ p \in awaiting THEN got ELSE [got EXCEPT ![m] = @ + 1]
    /\ awaiting' = IF m \in QoS2 THEN awaiting \cup {p} ELSE awaiting
    /\ toBroker' = Append(toBroker, Ack(IF m \in QoS2 THEN "PUBREC" ELSE "PUBACK", p))
    /\ UNCHANGED <<brokerVars, histVars>>

ClientPubrel(p) ==
    /\ Take(p, "PUBREL")
    /\ awaiting' = awaiting \ {p}
    /\ toBroker' = Append(toBroker, Ack("PUBCOMP", p))
    /\ UNCHANGED <<brokerVars, got, histVars>>

----------------------------------------------------------------------------
Init ==
    /\ offered = {}
    /\ nextPid = 1
    /\ inflight = [p \in Pids |-> Free]
    /\ toClient = <<>>
    /\ toBroker = <<>>
    /\ awaiting = {}
    /\ got = [m \in Messages |-> 0]
    /\ acked = {}
    /\ dropped = {}

Route  == \E m \in Messages : Send(m) \/ Refuse(m)
Acks   == \E p \in Pids : Complete(p) \/ Pubrec(p)
Timers == RetryTick \/ \E p \in Pids : Elapse(p)
Client == \E p \in Pids : ClientPublish(p) \/ ClientPubrel(p)

Next == Route \/ Acks \/ Timers \/ Client

Spec == Init /\ [][Next]_vars

\* Time passes, the retry tick fires and received packets are handled.  Nothing
\* is assumed of the subscriber or of the publishers.
FairSpec ==
    /\ Spec
    /\ WF_vars(RetryTick)
    /\ WF_vars(Acks)
    /\ \A p \in Pids : WF_vars(Elapse(p))

----------------------------------------------------------------------------
AckPacket == [type : {"PUBACK", "PUBREC", "PUBCOMP", "PUBREL"}, pid : Pids]
Packet == AckPacket \cup [type : {"PUBLISH"}, pid : Pids, msg : Messages]

\* The types of the variables.
TypeOK ==
    /\ offered \subseteq Messages
    /\ nextPid \in Pids
    /\ inflight \in [Pids -> Flight \cup {Free}]
    /\ toClient \in Seq(Packet)
    /\ toBroker \in Seq(AckPacket)
    /\ awaiting \subseteq Pids
    /\ got \in [Messages -> Nat]
    /\ acked \subseteq Messages
    /\ dropped \subseteq Messages

\* build_outbound_packet never lets the table outgrow max_inflight.
InflightBounded == Cardinality(Used) <= MaxInflight

\* allocate_pid never gives an identifier away that the table still holds: an
\* entry leaves the table by an acknowledgement or by the last retry, never by
\* another message.
NeverOverwritten ==
    [][\A p \in Pids : inflight[p] # Free /\ inflight'[p] # Free =>
          inflight'[p].msg = inflight[p].msg]_vars

\* An entry that an acknowledgement removed belonged to a message the subscriber
\* had: a late or repeated PUBACK or PUBCOMP never ends the handshake of another
\* message, as long as the identifiers have not wrapped.
AckedWasReceived ==
    Cardinality(offered) <= MaxPid => \A m \in acked : got[m] > 0

\* Retransmission keeps QoS 2 exactly once: a message reaches the application
\* at most once, however slow the subscriber and however often it is resent.
ExactlyOnce == \A m \in QoS2 : got[m] <= 1

\* A subscriber that stops answering does not hold an identifier for ever.
SlotsReleased == \A p \in Pids : inflight[p] # Free ~> inflight[p] = Free

\* allocate_pid: "MUST NOT reuse a Packet Identifier that is still in use".  The
\* subscriber still uses the identifiers it has not seen released.
NoReuseInUse ==
    [][\A p \in Pids : inflight[p] = Free /\ inflight'[p] # Free => p \notin awaiting]_vars
=============================================================================
