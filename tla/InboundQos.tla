----------------------------- MODULE InboundQos -----------------------------
(***************************************************************************)
(* Inbound PUBLISH packets of one publisher: handle_publish, the           *)
(* InboundQos2Tracker and the PUBREL arm of handle_packet                  *)
(* (src/src/broker/mod.rs, src/src/broker/qos.rs).                         *)
(*                                                                         *)
(* The publisher follows the protocol: it keeps what is not acknowledged   *)
(* across connections, sends it again after a reconnect and, when it loses *)
(* patience, on the same connection.  TCP keeps the order of the packets;  *)
(* a broken connection loses those under way and the broker's tracker.     *)
(* Whether the security and plugin guards refuse a message may change from *)
(* one transmission to the next (rate limit, reloaded policy).             *)
(***************************************************************************)
EXTENDS Integers, Sequences, FiniteSets

CONSTANTS
    Messages,    \* what the publisher sends
    Level,       \* the QoS of each message
    MaxPid,      \* the largest packet identifier
    Free,        \* a packet identifier the publisher does not use
    MaxConns,    \* bound: connections
    MaxResends   \* bound: impatient retransmissions

Pids == 1 .. MaxPid

Flight == [msg : Messages, stage : {"publish", "release"}]

ASSUME InboundAssumption ==
    /\ Level \in [Messages -> 0 .. 2]
    /\ MaxPid \in Nat \ {0}
    /\ MaxConns \in Nat /\ MaxResends \in Nat
    /\ Free \notin Flight

VARIABLES
    up,        \* whether there is a connection
    conns,     \* connections so far
    seen,      \* InboundQos2Tracker.seen
    toBroker,  \* packets on their way to the broker
    toClient,  \* packets on their way to the publisher
    unsent,    \* publisher: messages not sent yet
    flight,    \* publisher: unacknowledged messages by packet identifier
    owed,      \* publisher: identifiers to resume after the reconnect
    resends,   \* publisher: impatient retransmissions so far
    routed,    \* history: how often each message was routed
    here,      \* history: how often on this connection
    refused,   \* history: messages a guard refused
    refusedHere,  \* history: those refused on this connection
    done       \* history: messages whose handshake is complete

brokerVars == <<seen, routed, here, refused, refusedHere>>
clientVars == <<unsent, flight, owed, resends, done>>
vars == <<up, conns, toBroker, toClient, brokerVars, clientVars>>

Publish(p, m) == [type |-> "PUBLISH", pid |-> p, msg |-> m]
Ack(t, p)     == [type |-> t, pid |-> p]

----------------------------------------------------------------------------
(***************************************************************************)
(* The broker.                                                             *)
(***************************************************************************)
Arrived(t) == up /\ toBroker # <<>> /\ Head(toBroker).type = t

\* Mutant: a message that a guard refused is not entered.
OnPublishMutant(m, p, refuse) == IF refuse THEN seen ELSE seen \cup {p}

\* on_publish enters the identifier, whether or not a guard refuses the message.
OnPublish(m, p, refuse) == seen \cup {p}

Reply(m, p) ==
    CASE Level[m] = 0 -> <<>>
      [] Level[m] = 1 -> <<Ack("PUBACK", p)>>
      [] Level[m] = 2 -> <<Ack("PUBREC", p)>>

\* Mutant: the second copy of a message is routed too.
ShouldRouteMutant(m, p) == TRUE

ShouldRoute(m, p) == Level[m] = 2 => p \notin seen

\* Mutant: a refused message is not acknowledged.
HandlePublishMutant(refuse) ==
    LET m == Head(toBroker).msg
        p == Head(toBroker).pid IN
    /\ Arrived("PUBLISH")
    /\ toBroker' = Tail(toBroker)
    /\ toClient' = IF refuse THEN toClient ELSE toClient \o Reply(m, p)
    /\ routed' = IF refuse THEN routed ELSE [routed EXCEPT ![m] = @ + 1]
    /\ UNCHANGED <<up, conns, seen, here, refused, refusedHere, clientVars>>

\* handle_publish: the guards are asked first, for duplicates too; every QoS 1
\* and QoS 2 message is acknowledged, routed or not.
HandlePublish(refuse) ==
    LET m == Head(toBroker).msg
        p == Head(toBroker).pid
        route == ShouldRoute(m, p) /\ ~refuse IN
    /\ Arrived("PUBLISH")
    /\ toBroker' = Tail(toBroker)
    /\ toClient' = toClient \o Reply(m, p)
    /\ seen' = IF Level[m] = 2 THEN OnPublish(m, p, refuse) ELSE seen
    /\ routed' = IF route THEN [routed EXCEPT ![m] = @ + 1] ELSE routed
    /\ here' = IF route THEN [here EXCEPT ![m] = @ + 1] ELSE here
    /\ refused' = IF refuse THEN refused \cup {m} ELSE refused
    /\ refusedHere' = IF refuse /\ p \notin seen THEN refusedHere \cup {m} ELSE refusedHere
    /\ UNCHANGED <<up, conns, clientVars>>

\* Mutant: the identifier stays in the tracker.
HandlePubrelMutant ==
    /\ Arrived("PUBREL")
    /\ toBroker' = Tail(toBroker)
    /\ toClient' = Append(toClient, Ack("PUBCOMP", Head(toBroker).pid))
    /\ UNCHANGED <<up, conns, brokerVars, clientVars>>

\* on_pubrel; PUBCOMP is sent for unknown identifiers too.
HandlePubrel ==
    /\ Arrived("PUBREL")
    /\ toBroker' = Tail(toBroker)
    /\ toClient' = Append(toClient, Ack("PUBCOMP", Head(toBroker).pid))
    /\ seen' = seen \ {Head(toBroker).pid}
    /\ UNCHANGED <<up, conns, routed, here, refused, refusedHere, clientVars>>

----------------------------------------------------------------------------
(***************************************************************************)
(* External: the publisher.                                                *)
(***************************************************************************)
Packet(p) == IF flight[p].stage = "publish" THEN Publish(p, flight[p].msg) ELSE Ack("PUBREL", p)

\* QoS 0 messages have no identifier; 0 stands for it.
Send(m) ==
    /\ up
    /\ m \in unsent
    /\ unsent' = unsent \ {m}
    /\ \/ /\ Level[m] = 0
          /\ toBroker' = Append(toBroker, Publish(0, m))
          /\ done' = done \cup {m}
          /\ UNCHANGED flight
       \/ /\ Level[m] > 0
          /\ \E p \in Pids :
                /\ flight[p] = Free
                /\ flight' = [flight EXCEPT ![p] = [msg |-> m, stage |-> "publish"]]
                /\ toBroker' = Append(toBroker, Publish(p, m))
          /\ UNCHANGED done
    /\ UNCHANGED <<up, conns, toClient, brokerVars, owed, resends>>

\* Sends an unacknowledged packet again: once after a reconnect ...
Resume(p) ==
    /\ up
    /\ p \in owed
    /\ owed' = owed \ {p}
    /\ toBroker' = Append(toBroker, Packet(p))
    /\ UNCHANGED <<up, conns, toClient, brokerVars, unsent, flight, resends, done>>

\* ... or because the answer takes too long.
Resend(p) ==
    /\ up
    /\ flight[p] # Free /\ p \notin owed
    /\ resends < MaxResends
    /\ resends' = resends + 1
    /\ toBroker' = Append(toBroker, Packet(p))
    /\ UNCHANGED <<up, conns, toClient, brokerVars, unsent, flight, owed, done>>

\* Whether the answer is the one the publisher waits for.
Expected(a) ==
    /\ flight[a.pid] # Free
    /\ CASE a.type = "PUBACK"  -> Level[flight[a.pid].msg] = 1
         [] a.type = "PUBREC"  -> Level[flight[a.pid].msg] = 2 /\ flight[a.pid].stage = "publish"
         [] a.type = "PUBCOMP" -> flight[a.pid].stage = "release"

\* PUBREC moves the handshake on; PUBACK and PUBCOMP end it; others are ignored.
ReceiveAck ==
    LET a == Head(toClient) IN
    /\ up
    /\ toClient # <<>>
    /\ toClient' = Tail(toClient)
    /\ \/ /\ ~Expected(a)
          /\ UNCHANGED <<flight, done, owed, toBroker>>
       \/ /\ Expected(a) /\ a.type = "PUBREC"
          /\ flight' = [flight EXCEPT ![a.pid].stage = "release"]
          /\ toBroker' = Append(toBroker, Ack("PUBREL", a.pid))
          /\ owed' = owed \ {a.pid}
          /\ UNCHANGED done
       \/ /\ Expected(a) /\ a.type # "PUBREC"
          /\ flight' = [flight EXCEPT ![a.pid] = Free]
          /\ done' = done \cup {flight[a.pid].msg}
          /\ owed' = owed \ {a.pid}
          /\ UNCHANGED toBroker
    /\ UNCHANGED <<up, conns, brokerVars, unsent, resends>>

----------------------------------------------------------------------------
\* The connection breaks: packets under way are lost, the task ends and drops
\* its tracker.
Disconnect ==
    /\ up
    /\ conns < MaxConns
    /\ up' = FALSE
    /\ toBroker' = <<>> /\ toClient' = <<>>
    /\ seen' = {}
    /\ here' = [m \in Messages |-> 0]
    /\ refusedHere' = {}
    /\ owed' = {}
    /\ UNCHANGED <<conns, routed, refused, unsent, flight, resends, done>>

Connect ==
    /\ ~up
    /\ conns < MaxConns
    /\ up' = TRUE
    /\ conns' = conns + 1
    /\ owed' = {p \in Pids : flight[p] # Free}
    /\ UNCHANGED <<toBroker, toClient, brokerVars, unsent, flight, resends, done>>

Init ==
    /\ up = FALSE /\ conns = 0
    /\ seen = {}
    /\ toBroker = <<>> /\ toClient = <<>>
    /\ unsent = Messages
    /\ flight = [p \in Pids |-> Free]
    /\ owed = {} /\ resends = 0
    /\ routed = [m \in Messages |-> 0]
    /\ here = [m \in Messages |-> 0]
    /\ refused = {} /\ refusedHere = {} /\ done = {}

BrokerStep == HandlePubrel \/ \E refuse \in BOOLEAN : HandlePublish(refuse)
ClientStep == ReceiveAck \/ \E p \in Pids : Resume(p)

Next ==
    \/ BrokerStep \/ ClientStep \/ Connect \/ Disconnect
    \/ \E m \in Messages : Send(m)
    \/ \E p \in Pids : Resend(p)

Spec == Init /\ [][Next]_vars

\* The connection task and the publisher go on and the publisher reconnects; the
\* bound on connections makes the last one last.
FairSpec == Spec /\ WF_vars(BrokerStep) /\ WF_vars(ClientStep) /\ WF_vars(Connect)

----------------------------------------------------------------------------
QoS2 == {m \in Messages : Level[m] = 2}

Answered(m) == routed[m] > 0 \/ m \in refused

\* On one connection a QoS 2 message is routed at most once, however often the
\* publisher sends it again and although its identifier is used for others later.
OncePerConnection == \A m \in QoS2 : here[m] <= 1

\* A QoS 2 message that a guard refused is not routed later when it is sent again
\* on the connection (the identifier is entered before the guards' verdict counts).
RefusedStaysRefused == \A m \in QoS2 \cap refusedHere : here[m] = 0

\* The publisher is told that a message was taken only if it was routed or refused:
\* a new QoS 2 message is never mistaken for the copy of an old one with its
\* identifier.  The same for QoS 1 unless the publisher retransmits on a connection:
\* the second PUBACK then looks like that of the next message with the identifier.
NotSwallowed ==
    \A m \in done : Level[m] = 2 \/ (Level[m] = 1 /\ resends = 0) => Answered(m)

\* Every message that was sent with QoS 1 or 2 is acknowledged to the end,
\* refused ones included ("to keep the client from waiting for ever").
HandshakesComplete ==
    \A m \in Messages : m \notin unsent ~> m \in done

----------------------------------------------------------------------------
\* The comment in handle_publish: the identifier is entered so that the publisher
\* that sends it again "after PUBREC was lost" does not break "exactly once".
ExactlyOnce == \A m \in QoS2 : routed[m] <= 1
=============================================================================
