-------------------------- MODULE RetainedDelivery --------------------------
(***************************************************************************)
(* The retained message of one topic: Router::publish stores it and then   *)
(* routes it, handle_subscribe registers the filter and then scans the     *)
(* store.  Neither pair of steps is atomic, and nothing orders a publisher *)
(* against a subscriber, so what a new subscriber sees depends on the      *)
(* order in which each of them touches the store and the tree.             *)
(*                                                                         *)
(* Every client is one connection task; a client that only publishes also  *)
(* stands for the admin interface.  The filters considered all match the   *)
(* topic (matching itself is SubscriptionTrie) and the connections are of  *)
(* clean sessions (queues of offline sessions are OfflineDelivery).        *)
(* RetainStore::remove and RetainStore::clear are called by tests only.    *)
(***************************************************************************)
EXTENDS Naturals, Sequences, Functions

CONSTANTS
    Clients,        \* client identifiers
    Publishers,     \* the clients that publish
    Kinds,          \* what they publish: "plain", "value" or "clear"
    ChannelSize,    \* capacity of a connection's outbound channel
    SetMayFail,     \* whether the store may refuse a message
    TableMayFill,   \* whether a subscriber's inflight table may be full
    MayRestart,     \* whether the broker may crash and restart
    MaxPublishes,   \* bound on the messages published
    MaxSubscribes,  \* bound on the SUBSCRIBEs of each client
    NoMessage       \* no retained message

ASSUME PublishersAreClients == Publishers \subseteq Clients
ASSUME BoundsAreNumbers ==
    /\ ChannelSize \in Nat \ {0}
    /\ MaxPublishes \in Nat
    /\ MaxSubscribes \in Nat
ASSUME KindsAreKnown == Kinds \subseteq {"plain", "value", "clear"}
ASSUME NoMessageIsFresh ==
    NoMessage \notin [id : Nat, kind : Kinds, by : Publishers]

VARIABLES
    map,         \* RetainStore.map at the topic
    disk,        \* the retained tree of the storage at the topic
    durable,     \* what a crash leaves of it
    online,      \* clients with a connection, and so a session
    subscribed,  \* clients the subscription tree holds for the topic
    task,        \* where each connection task is in its handler
    channel,     \* outbound channel of each connection
    received,    \* what was sent to the client since it last subscribed
    dropped,     \* messages given up for a client: full channel, full table
    current,     \* ghost: the last message the store accepted
    published,   \* number of messages published
    subscribes   \* number of SUBSCRIBEs each client has sent

storeVars == <<map, disk, current>>
clientVars == <<online, subscribed, subscribes>>
outVars == <<channel, received, dropped>>
vars == <<storeVars, durable, clientVars, task, outVars, published>>

Message == [id : 1 .. MaxPublishes, kind : Kinds, by : Publishers]

\* A PUBLISH sent to a client: the retain flag tells the scan's copy.
Sent(m, flag) == [msg |-> m, retain |-> flag]

Idle == [pc |-> "idle"]

Init ==
    /\ map = NoMessage
    /\ disk = NoMessage
    /\ durable = NoMessage
    /\ online = {}
    /\ subscribed = {}
    /\ task = [c \in Clients |-> Idle]
    /\ channel = [c \in Clients |-> <<>>]
    /\ received = [c \in Clients |-> <<>>]
    /\ dropped = [c \in Clients |-> {}]
    /\ current = NoMessage
    /\ published = 0
    /\ subscribes = [c \in Clients |-> 0]

-----------------------------------------------------------------------------
(* RetainStore::set, under the write lock of the map.                      *)

\* What the store holds for the topic once it accepts m.
Stored(m) == IF m.kind = "clear" THEN NoMessage ELSE m

\* Mutant: the map is written although the storage refuses the message.
SetRetainedMutant(m) ==
    \/ /\ disk' = Stored(m)
       /\ map' = Stored(m)
       /\ current' = m
    \/ /\ SetMayFail
       /\ map' = Stored(m)
       /\ UNCHANGED <<disk, current>>

\* An accepted message goes to the storage first and then to the map.  The
\* storage may fail and a payload may exceed the limit: then neither changes.
SetRetained(m) ==
    \/ /\ disk' = Stored(m)
       /\ map' = Stored(m)
       /\ current' = m
    \/ /\ SetMayFail
       /\ UNCHANGED storeVars

-----------------------------------------------------------------------------
(* Router::publish, from handle_publish or the admin interface.            *)

NewMessage(c, k) == [id |-> published + 1, kind |-> k, by |-> c]

\* Step 1: a message with the retain flag goes to the store.
StoreMessage(c) ==
    /\ c \in Publishers
    /\ task[c] = Idle
    /\ published < MaxPublishes
    /\ \E k \in Kinds :
        /\ IF k = "plain" THEN UNCHANGED storeVars
                          ELSE SetRetained(NewMessage(c, k))
        /\ task' = [task EXCEPT ![c] = [pc |-> "match", msg |-> NewMessage(c, k)]]
    /\ published' = published + 1
    /\ UNCHANGED <<clientVars, outVars, durable>>

\* Steps 2 and 3: the subscribers are collected; the publisher is left out.
MatchSubscribers(c) ==
    /\ task[c].pc = "match"
    /\ task' = [task EXCEPT ![c] =
                  [pc |-> "deliver", msg |-> task[c].msg, to |-> subscribed \ {c}]]
    /\ UNCHANGED <<storeVars, clientVars, outVars, durable, published>>

\* Step 4: deliver_one for one of them, in any order.  A full channel drops
\* the message; so does a client whose session is gone.
DeliverOne(c, d) ==
    /\ task[c].pc = "deliver"
    /\ d \in task[c].to
    /\ \/ /\ d \in online
          /\ Len(channel[d]) < ChannelSize
          /\ channel' = [channel EXCEPT ![d] = Append(@, task[c].msg)]
          /\ UNCHANGED dropped
       \/ /\ d \in online
          /\ Len(channel[d]) = ChannelSize
          /\ dropped' = [dropped EXCEPT ![d] = @ \cup {task[c].msg}]
          /\ UNCHANGED channel
       \/ /\ d \notin online
          /\ UNCHANGED <<channel, dropped>>
    /\ task' = [task EXCEPT ![c].to = @ \ {d}]
    /\ UNCHANGED <<storeVars, clientVars, durable, received, published>>

PublishDone(c) ==
    /\ task[c].pc = "deliver"
    /\ task[c].to = {}
    /\ task' = [task EXCEPT ![c] = Idle]
    /\ UNCHANGED <<storeVars, clientVars, outVars, durable, published>>

Publish(c) ==
    \/ StoreMessage(c)
    \/ MatchSubscribers(c)
    \/ \E d \in Clients : DeliverOne(c, d)
    \/ PublishDone(c)

-----------------------------------------------------------------------------
(* handle_subscribe.  A filter that is refused changes nothing.            *)

\* The filter enters the tree and SUBACK is sent.
RegisterFilter(c) ==
    /\ task[c] = Idle
    /\ c \in online
    /\ subscribes[c] < MaxSubscribes
    /\ subscribed' = subscribed \cup {c}
    /\ subscribes' = [subscribes EXCEPT ![c] = @ + 1]
    /\ received' = [received EXCEPT ![c] = <<>>]
    /\ dropped' = [dropped EXCEPT ![c] = {}]
    /\ task' = [task EXCEPT ![c] = [pc |-> "scan"]]
    /\ UNCHANGED <<storeVars, online, durable, channel, published>>

\* RetainStore::matches, under the read lock.
ScanRetained(c) ==
    /\ task[c].pc = "scan"
    /\ task' = [task EXCEPT ![c] = IF map = NoMessage THEN Idle
                                                      ELSE [pc |-> "send", msg |-> map]]
    /\ UNCHANGED <<storeVars, clientVars, outVars, durable, published>>

\* The retained message is sent, or dropped if the inflight table is full.
SendRetained(c) ==
    /\ task[c].pc = "send"
    /\ \/ /\ received' = [received EXCEPT ![c] = Append(@, Sent(task[c].msg, TRUE))]
          /\ UNCHANGED dropped
       \/ /\ TableMayFill
          /\ dropped' = [dropped EXCEPT ![c] = @ \cup {task[c].msg}]
          /\ UNCHANGED received
    /\ task' = [task EXCEPT ![c] = Idle]
    /\ UNCHANGED <<storeVars, clientVars, durable, channel, published>>

\* Mutant: the store is scanned before the filter enters the tree.
SubscribeMutant(c) ==
    \/ /\ task[c] = Idle
       /\ c \in online
       /\ subscribes[c] < MaxSubscribes
       /\ subscribes' = [subscribes EXCEPT ![c] = @ + 1]
       /\ received' = [received EXCEPT ![c] = IF map = NoMessage THEN <<>>
                                                             ELSE <<Sent(map, TRUE)>>]
       /\ dropped' = [dropped EXCEPT ![c] = {}]
       /\ task' = [task EXCEPT ![c] = [pc |-> "scan"]]
       /\ UNCHANGED <<storeVars, online, durable, subscribed, channel, published>>
    \/ /\ task[c].pc = "scan"
       /\ subscribed' = subscribed \cup {c}
       /\ task' = [task EXCEPT ![c] = Idle]
       /\ UNCHANGED <<storeVars, outVars, online, durable, published, subscribes>>

Subscribe(c) == RegisterFilter(c) \/ ScanRetained(c) \/ SendRetained(c)

-----------------------------------------------------------------------------
(* The rest of the connection task, the storage and the process.           *)

\* Mutant: the channel is served while a retained message is still to be sent.
SendLiveMutant(c) ==
    /\ task[c].pc \in {"idle", "send"}
    /\ channel[c] # <<>>
    /\ channel' = [channel EXCEPT ![c] = Tail(@)]
    /\ received' = [received EXCEPT ![c] = Append(@, Sent(Head(channel[c]), FALSE))]
    /\ UNCHANGED <<storeVars, clientVars, durable, task, dropped, published>>

\* The main loop takes a message from the channel between two packets.
SendLive(c) ==
    /\ task[c] = Idle
    /\ channel[c] # <<>>
    /\ channel' = [channel EXCEPT ![c] = Tail(@)]
    /\ \/ /\ received' = [received EXCEPT ![c] = Append(@, Sent(Head(channel[c]), FALSE))]
          /\ UNCHANGED dropped
       \/ /\ TableMayFill
          /\ dropped' = [dropped EXCEPT ![c] = @ \cup {Head(channel[c])}]
          /\ UNCHANGED received
    /\ UNCHANGED <<storeVars, clientVars, durable, task, published>>

Unsubscribe(c) ==
    /\ task[c] = Idle
    /\ c \in subscribed
    /\ subscribed' = subscribed \ {c}
    /\ UNCHANGED <<storeVars, outVars, online, durable, task, published, subscribes>>

\* A clean session starts.
Connect(c) ==
    /\ c \notin online
    /\ online' = online \cup {c}
    /\ UNCHANGED <<storeVars, outVars, durable, subscribed, task, published, subscribes>>

\* The connection of a clean session ends, at the latest when a send fails:
\* its filters leave the tree and its channel is dropped.
Disconnect(c) ==
    /\ c \in subscribed
    /\ task[c].pc \in {"idle", "scan", "send"}
    /\ online' = online \ {c}
    /\ subscribed' = subscribed \ {c}
    /\ task' = [task EXCEPT ![c] = Idle]
    /\ channel' = [channel EXCEPT ![c] = <<>>]
    /\ UNCHANGED <<storeVars, durable, received, dropped, published, subscribes>>

\* sled writes to the disk in the background.
Flush ==
    /\ MayRestart
    /\ durable' = disk
    /\ UNCHANGED <<storeVars, clientVars, outVars, task, published>>

\* The process dies and BrokerState::new loads the retained tree.
Restart ==
    /\ MayRestart
    /\ disk' = durable
    /\ map' = durable
    /\ current' = durable
    /\ online' = {}
    /\ subscribed' = {}
    /\ task' = [c \in Clients |-> Idle]
    /\ channel' = [c \in Clients |-> <<>>]
    /\ received' = [c \in Clients |-> <<>>]
    /\ dropped' = [c \in Clients |-> {}]
    /\ UNCHANGED <<durable, published, subscribes>>

Next ==
    \/ \E c \in Clients : \/ Publish(c)
                          \/ Subscribe(c)
                          \/ SendLive(c)
                          \/ Unsubscribe(c)
                          \/ Connect(c)
                          \/ Disconnect(c)
    \/ Flush
    \/ Restart

Spec == Init /\ [][Next]_vars

-----------------------------------------------------------------------------
\* RetainStore::set writes the storage first and leaves the map alone when that
\* fails: while the broker runs, what subscribers are shown from memory is what
\* the storage holds, whatever writes failed and however often it was restarted.
\* What a restart finds is what was last written out, which may be older: a crash
\* before a flush can bring back a message that subscribers had stopped seeing.
MapMatchesStorage == map = disk

\* No publisher is between storing and delivering, c is between two packets
\* and its channel is empty.
Settled(c) ==
    /\ \A d \in Clients : task[d].pc \notin {"match", "deliver"}
    /\ task[c] = Idle
    /\ channel[c] = <<>>

\* publish stores before it collects the subscribers and handle_subscribe
\* registers before it scans the store.  So whatever the interleaving, a
\* subscriber that has gone quiet was sent the retained message in force, by
\* the scan or by the router; and one to which the scan showed a value that
\* was cleared since was sent the empty message.  The exceptions are the ones
\* the code makes: its own messages, and those dropped at a full channel or
\* inflight table.
SubscriberUpToDate ==
    \A c \in subscribed :
        (/\ Settled(c)
         /\ current # NoMessage
         /\ current.by # c
         /\ current.kind = "clear" => \E s \in Range(received[c]) : s.retain)
        => current \in {s.msg : s \in Range(received[c])} \cup dropped[c]

\* What the client was sent last.
LastSent(c) == received[c][Len(received[c])]

\* If nothing was dropped, a quiet subscriber was last sent nothing older than
\* the message in force, among the messages of one publisher: the scan's copy
\* goes out before anything from the channel, so that it never arrives after a
\* later live message.  A second subscription of the same client may still
\* find older messages in the channel, and is left out.
LastSentNotOlder ==
    \A c \in subscribed :
        (/\ Settled(c)
         /\ subscribes[c] = 1
         /\ received[c] # <<>>
         /\ dropped[c] = {}
         /\ current # NoMessage
         /\ current.by # c
         /\ current.by = LastSent(c).msg.by)
        => LastSent(c).msg.id >= current.id
=============================================================================
