-------------------------- MODULE OfflineDelivery --------------------------
(***************************************************************************)
(* The messages of one persistent session on their way from the router to  *)
(* the subscriber: Router::deliver_one and SessionManager::                *)
(* deliver_or_enqueue, the channel of each connection, the in-memory       *)
(* OfflineQueue, its copy on disk, the replay after a reconnect and the    *)
(* restart of the broker (src/src/broker/{router,session,store_msg,mod}.rs,*)
(* src/src/storage/mod.rs).                                                *)
(*                                                                         *)
(* A connection is known by the epoch that register gave it.  Channel and  *)
(* queue belong to the session entry of an epoch and are replaced together *)
(* with it; whoever cloned them keeps the old ones.  Acknowledgements and  *)
(* retransmissions are detailed in OutboundQos.                            *)
(***************************************************************************)
EXTENDS Integers, Sequences, FiniteSets, Functions

CONSTANTS
    Routers,      \* publishing tasks: each routes one message at a time
    MaxMessages,  \* bound: messages published
    Plans,        \* bound: which router publishes which of them
    QoS0,         \* the messages delivered with QoS 0
    MaxEpochs,    \* bound: registrations, those of a restart included
    MaxRestarts,  \* bound: crashes of the broker
    ChannelCap,   \* capacity of the channel of a connection
    MaxInflight,  \* broker.max_inflight
    MaxOffline,   \* storage.max_offline_messages
    TtlMayPass,   \* whether offline_message_ttl may pass for queued messages
    DiskMayFail   \* whether a write to the storage may fail

Messages == 1 .. MaxMessages
Epochs   == 1 .. MaxEpochs

ASSUME DeliveryAssumption ==
    /\ IsFiniteSet(Routers)
    /\ \A p \in Plans : p \in Seq(Routers) /\ Len(p) <= MaxMessages
    /\ MaxMessages \in Nat /\ QoS0 \subseteq Messages
    /\ MaxEpochs \in Nat \ {0} /\ MaxRestarts \in Nat
    /\ ChannelCap \in Nat \ {0} /\ MaxInflight \in Nat \ {0} /\ MaxOffline \in Nat \ {0}
    /\ TtlMayPass \in BOOLEAN /\ DiskMayFail \in BOOLEAN

VARIABLES
    entry,    \* the SessionEntry: its epoch and whether it is connected
    epoch,    \* epoch_counter
    queue,    \* the OfflineQueue of each epoch
    chan,     \* the channel of each epoch
    conn,     \* the connection task of each epoch
    router,   \* the delivery each router is in
    disk,     \* the offline tree of the storage, in key order
    durable,  \* external: what of it the storage engine has written out
    log,      \* history: the messages sent on each connection
    by,       \* history: the router of each message published so far
    stranded, \* history: messages put into a queue that register had replaced
    lost,     \* history: messages given up: limit, ttl, connection gone, crash
    skipped,  \* history: messages whose first transmission a timer cancelled
    restarts  \* history: crashes so far

sessionVars == <<entry, epoch, queue>>
routerVars  == <<router, by, stranded>>
diskVars    == <<disk, durable>>
vars == <<sessionVars, chan, conn, routerVars, diskVars, log, lost, skipped, restarts>>

Idle == [at |-> "idle"]
Unused == [at |-> "none", pending |-> <<>>, keys |-> {}, inflight |-> {}]

Open(e) == conn[e].at \notin {"none", "done"}

----------------------------------------------------------------------------
(***************************************************************************)
(* OfflineQueue.                                                           *)
(***************************************************************************)

\* How many messages at the front may have outlived their ttl.
Expirable(q) == IF TtlMayPass THEN 0 .. Len(q) ELSE {0}

From(q, k) == SubSeq(q, k + 1, Len(q))

\* enqueue after the expired ones are gone: the oldest make room.
PushBounded(q, m) ==
    IF Len(q) >= MaxOffline THEN Append(From(q, Len(q) + 1 - MaxOffline), m) ELSE Append(q, m)

\* What is left in an empty queue once the messages of s are enqueued one by one.
Newest(s) == IF Len(s) > MaxOffline THEN From(s, Len(s) - MaxOffline) ELSE s

----------------------------------------------------------------------------
(***************************************************************************)
(* The router.                                                             *)
(***************************************************************************)

\* The plans go on with a message of router r.
Due(r) == \E p \in Plans : Len(by) < Len(p) /\ SubSeq(p, 1, Len(by) + 1) = Append(by, r)

\* deliver_or_enqueue clones the handles and drops the reference to the entry.
Publish(r) ==
    /\ router[r] = Idle
    /\ Due(r)
    /\ router' = [router EXCEPT ![r] = [at |-> IF entry.connected THEN "send" ELSE "enqueue",
                                        msg |-> Len(by) + 1, epoch |-> entry.epoch]]
    /\ by' = Append(by, r)
    /\ UNCHANGED <<sessionVars, chan, conn, stranded, diskVars, log, lost, skipped, restarts>>

Accepts(e) == Open(e) /\ Len(chan[e]) < ChannelCap

\* try_send takes the message.
TrySend(r) ==
    LET e == router[r].epoch IN
    /\ router[r].at = "send"
    /\ Accepts(e)
    /\ chan' = [chan EXCEPT ![e] = Append(@, router[r].msg)]
    /\ router' = [router EXCEPT ![r] = Idle]
    /\ UNCHANGED <<sessionVars, conn, by, stranded, diskVars, log, lost, skipped, restarts>>

\* try_send finds the channel full or closed.
SendRefused(r) ==
    /\ router[r].at = "send"
    /\ ~Accepts(router[r].epoch)
    /\ router' = [router EXCEPT ![r].at = "enqueue"]
    /\ UNCHANGED <<sessionVars, chan, conn, by, stranded, diskVars, log, lost, skipped, restarts>>

\* The queue may be one that register has replaced meanwhile: the message is
\* reported as Enqueued all the same, and nobody will ever drain that queue.
Enqueue(r) ==
    LET e == router[r].epoch IN
    /\ router[r].at = "enqueue"
    /\ \E k \in Expirable(queue[e]) :
          /\ queue' = [queue EXCEPT ![e] = PushBounded(From(queue[e], k), router[r].msg)]
          /\ lost' = lost \cup (Range(queue[e]) \ Range(queue'[e]))
    /\ stranded' = IF e = entry.epoch THEN stranded ELSE stranded \cup {router[r].msg}
    /\ router' = [router EXCEPT ![r].at = "push"]
    /\ UNCHANGED <<entry, epoch, chan, conn, by, diskVars, log, skipped, restarts>>

\* push_offline; if it fails, the message is only in memory.
PushOffline(r) ==
    /\ router[r].at = "push"
    /\ \/ disk' = Append(disk, router[r].msg)
       \/ DiskMayFail /\ UNCHANGED disk
    /\ router' = [router EXCEPT ![r] = Idle]
    /\ UNCHANGED <<sessionVars, chan, conn, by, stranded, durable, log, lost, skipped, restarts>>

----------------------------------------------------------------------------
(***************************************************************************)
(* The connection.                                                         *)
(***************************************************************************)

\* Mutant: the queue of the old entry is read, not drained.
RegisterMutant ==
    LET e == epoch + 1 IN
    /\ e \in Epochs
    /\ epoch' = e
    /\ entry' = [epoch |-> e, connected |-> TRUE]
    /\ queue' = [queue EXCEPT ![e] = queue[entry.epoch]]
    /\ conn' = [conn EXCEPT ![e].at = "connack", ![e].pending = queue[entry.epoch]]
    /\ UNCHANGED <<chan, routerVars, diskVars, log, lost, skipped, restarts>>

\* Mutant: only the queue of an offline session is drained.
RegisterOnlineMutant ==
    LET e == epoch + 1
        q == IF entry.connected THEN <<>> ELSE queue[entry.epoch] IN
    /\ e \in Epochs
    /\ epoch' = e
    /\ entry' = [epoch |-> e, connected |-> TRUE]
    /\ conn' = [conn EXCEPT ![e].at = "connack", ![e].pending = q]
    /\ UNCHANGED <<queue, chan, routerVars, diskVars, log, lost, skipped, restarts>>

\* register replaces the entry and drains the queue of the old one.
Register ==
    LET e == epoch + 1
        q == queue[entry.epoch] IN
    /\ e \in Epochs
    /\ epoch' = e
    /\ entry' = [epoch |-> e, connected |-> TRUE]
    /\ queue' = [queue EXCEPT ![entry.epoch] = <<>>]
    /\ \E k \in Expirable(q) :
          /\ conn' = [conn EXCEPT ![e].at = "connack", ![e].pending = From(q, k)]
          /\ lost' = lost \cup (Range(q) \ Range(From(q, k)))
    /\ UNCHANGED <<chan, routerVars, diskVars, log, skipped, restarts>>

Connack(e) ==
    /\ conn[e].at = "connack"
    /\ conn' = [conn EXCEPT ![e].at = "replay"]
    /\ UNCHANGED <<sessionVars, chan, routerVars, diskVars, log, lost, skipped, restarts>>

\* build_outbound_packet: QoS 0 needs no entry in the inflight table.
Sendable(e, m) == m \in QoS0 \/ Cardinality(conn[e].inflight) < MaxInflight
Track(e, m) == conn[e].inflight \cup ({m} \ QoS0)

\* Mutant: the messages are taken from the end.
ReplayMutant(e) ==
    LET s == conn[e].pending IN
    /\ conn[e].at = "replay"
    /\ s # <<>>
    /\ conn' = [conn EXCEPT ![e].pending = SubSeq(s, 1, Len(s) - 1)]
    /\ log' = [log EXCEPT ![e] = Append(@, s[Len(s)])]
    /\ UNCHANGED <<sessionVars, chan, routerVars, diskVars, lost, skipped, restarts>>

\* One message of the replay: dropped if the inflight table is full.
Replay(e) ==
    LET m == Head(conn[e].pending) IN
    /\ conn[e].at = "replay"
    /\ conn[e].pending # <<>>
    /\ IF Sendable(e, m)
       THEN /\ conn' = [conn EXCEPT ![e].pending = Tail(@), ![e].inflight = Track(e, m)]
            /\ log' = [log EXCEPT ![e] = Append(@, m)]
            /\ UNCHANGED lost
       ELSE /\ conn' = [conn EXCEPT ![e].pending = Tail(@)]
            /\ lost' = lost \cup {m}
            /\ UNCHANGED log
    /\ UNCHANGED <<sessionVars, chan, routerVars, diskVars, skipped, restarts>>

\* The heartbeat ticks first: the send is cancelled; an entry in the inflight
\* table leaves the message to the retransmission.
ReplayTick(e) ==
    LET m == Head(conn[e].pending) IN
    /\ conn[e].at = "replay"
    /\ conn[e].pending # <<>>
    /\ Sendable(e, m)
    /\ conn' = [conn EXCEPT ![e].pending = Tail(@), ![e].inflight = Track(e, m)]
    /\ skipped' = skipped \cup {m}
    /\ lost' = lost \cup ({m} \cap QoS0)
    /\ UNCHANGED <<sessionVars, chan, routerVars, diskVars, log, restarts>>

\* clear_disk_offline: drain_offline collects the keys ...
ScanDisk(e) ==
    /\ conn[e].at = "replay"
    /\ conn[e].pending = <<>>
    /\ conn' = [conn EXCEPT ![e].at = "clear", ![e].keys = Range(disk)]
    /\ UNCHANGED <<sessionVars, chan, routerVars, diskVars, log, lost, skipped, restarts>>

\* What is left of a sequence without its i-th entry.
Without(s, i) == [j \in 1 .. Len(s) - 1 |-> s[IF j < i THEN j ELSE j + 1]]

\* The entries of the scan that are still on the disk.
Remaining(e) == {i \in DOMAIN disk : disk[i] \in conn[e].keys}

\* ... and removes them one by one, the oldest first ...
RemoveKey(e) ==
    /\ conn[e].at = "clear"
    /\ \E i \in Remaining(e) :
          /\ \A j \in Remaining(e) : i <= j
          /\ disk' = Without(disk, i)
    /\ UNCHANGED <<sessionVars, chan, conn, routerVars, durable, log, lost, skipped, restarts>>

\* ... until none is left or a removal fails, which clear_disk_offline ignores.
ClearDone(e) ==
    /\ conn[e].at = "clear"
    /\ Remaining(e) = {} \/ DiskMayFail
    /\ conn' = [conn EXCEPT ![e].at = "main", ![e].keys = {}]
    /\ UNCHANGED <<sessionVars, chan, routerVars, diskVars, log, lost, skipped, restarts>>

\* Mutant: a connection that was taken over no longer reads its channel.
DeliverMutant(e) ==
    /\ conn[e].at = "main"
    /\ chan[e] # <<>>
    /\ entry.epoch = e
    /\ chan' = [chan EXCEPT ![e] = Tail(@)]
    /\ log' = [log EXCEPT ![e] = Append(@, Head(chan[e]))]
    /\ UNCHANGED <<sessionVars, conn, routerVars, diskVars, lost, skipped, restarts>>

\* The main loop takes a message from the channel.
Deliver(e) ==
    LET m == Head(chan[e]) IN
    /\ conn[e].at = "main"
    /\ chan[e] # <<>>
    /\ chan' = [chan EXCEPT ![e] = Tail(@)]
    /\ IF Sendable(e, m)
       THEN /\ conn' = [conn EXCEPT ![e].inflight = Track(e, m)]
            /\ log' = [log EXCEPT ![e] = Append(@, m)]
            /\ UNCHANGED lost
       ELSE /\ lost' = lost \cup {m}
            /\ UNCHANGED <<conn, log>>
    /\ UNCHANGED <<sessionVars, routerVars, diskVars, skipped, restarts>>

\* An acknowledgement releases the entry.
Acknowledge(e, m) ==
    /\ conn[e].at = "main"
    /\ m \in conn[e].inflight \cap Range(log[e])
    /\ conn' = [conn EXCEPT ![e].inflight = @ \ {m}]
    /\ UNCHANGED <<sessionVars, chan, routerVars, diskVars, log, lost, skipped, restarts>>

\* The retransmission sends what the timer had cancelled.
Retransmit(e, m) ==
    /\ conn[e].at = "main"
    /\ m \in conn[e].inflight \ Range(log[e])
    /\ log' = [log EXCEPT ![e] = Append(@, m)]
    /\ UNCHANGED <<sessionVars, chan, conn, routerVars, diskVars, lost, skipped, restarts>>

\* The socket fails at an await: cleanup calls mark_offline.
Fail(e) ==
    /\ conn[e].at \in {"connack", "replay", "main"}
    /\ entry' = IF entry.epoch = e THEN [entry EXCEPT !.connected = FALSE] ELSE entry
    /\ conn' = [conn EXCEPT ![e].at = "closing", ![e].pending = <<>>, ![e].inflight = {}]
    /\ lost' = lost \cup Range(conn[e].pending) \cup (conn[e].inflight \ Range(log[e]))
    /\ UNCHANGED <<epoch, queue, chan, routerVars, diskVars, log, skipped, restarts>>

\* The task returns and drops the receiver with what is in the channel.
DropReceiver(e) ==
    /\ conn[e].at = "closing"
    /\ conn' = [conn EXCEPT ![e].at = "done"]
    /\ chan' = [chan EXCEPT ![e] = <<>>]
    /\ lost' = lost \cup Range(chan[e])
    /\ UNCHANGED <<sessionVars, routerVars, diskVars, log, skipped, restarts>>

HasSender(e) == entry.epoch = e \/ \E r \in Routers : router[r].at \in {"send", "enqueue"} /\ router[r].epoch = e

\* recv returns None once the entry is replaced and no router holds the sender.
ChannelEnds(e) ==
    /\ conn[e].at = "main"
    /\ chan[e] = <<>>
    /\ ~HasSender(e)
    /\ conn' = [conn EXCEPT ![e].at = "done", ![e].inflight = {}]
    /\ lost' = lost \cup (conn[e].inflight \ Range(log[e]))
    /\ UNCHANGED <<sessionVars, chan, routerVars, diskVars, log, skipped, restarts>>

----------------------------------------------------------------------------
(***************************************************************************)
(* Crash and restart.                                                      *)
(***************************************************************************)

\* External: the storage engine writes its buffers out from time to time; only
\* a restart, which the bounds must still allow, tells.
Flush ==
    /\ restarts < MaxRestarts /\ epoch < MaxEpochs /\ durable # disk
    /\ durable' = disk
    /\ UNCHANGED <<sessionVars, chan, conn, routerVars, disk, log, lost, skipped, restarts>>

Sent == UNION {Range(log[e]) : e \in Epochs}

\* drain_offline at the start: all messages, or an error at the removal of one,
\* with which the earlier ones are gone and none is returned.
DrainedAtStart ==
    {[queue |-> Newest(durable), disk |-> <<>>]}
    \cup (IF DiskMayFail
          THEN {[queue |-> <<>>, disk |-> From(durable, k)] : k \in 0 .. Len(durable) - 1}
          ELSE {})

\* The process dies.  load_persistent_sessions registers the session, marks it
\* offline and moves what drain_offline returns into the new queue.
Restart ==
    LET e == epoch + 1 IN
    /\ e \in Epochs
    /\ restarts < MaxRestarts
    /\ restarts' = restarts + 1
    /\ epoch' = e
    /\ entry' = [epoch |-> e, connected |-> FALSE]
    /\ chan' = [d \in Epochs |-> <<>>]
    /\ conn' = [d \in Epochs |-> IF d <= e THEN [Unused EXCEPT !.at = "done"] ELSE Unused]
    /\ router' = [r \in Routers |-> Idle]
    /\ \E d \in DrainedAtStart :
          /\ queue' = [c \in Epochs |-> IF c = e THEN d.queue ELSE <<>>]
          /\ disk' = d.disk
          /\ lost' = lost \cup (DOMAIN by \ (Sent \cup Range(d.queue)))
    /\ UNCHANGED <<by, stranded, durable, log, skipped>>

----------------------------------------------------------------------------
\* The broker has loaded the snapshot of the session; no message waits for it.
Init ==
    /\ entry = [epoch |-> 1, connected |-> FALSE]
    /\ epoch = 1
    /\ queue = [e \in Epochs |-> <<>>]
    /\ chan = [e \in Epochs |-> <<>>]
    /\ conn = [e \in Epochs |-> IF e = 1 THEN [Unused EXCEPT !.at = "done"] ELSE Unused]
    /\ router = [r \in Routers |-> Idle]
    /\ disk = <<>> /\ durable = <<>>
    /\ log = [e \in Epochs |-> <<>>]
    /\ by = <<>>
    /\ lost = {} /\ stranded = {} /\ skipped = {} /\ restarts = 0

RouterStep(r) == TrySend(r) \/ SendRefused(r) \/ Enqueue(r) \/ PushOffline(r)

ConnectionStep(e) ==
    \/ Connack(e) \/ Replay(e) \/ ScanDisk(e) \/ RemoveKey(e) \/ ClearDone(e)
    \/ Deliver(e) \/ DropReceiver(e) \/ ChannelEnds(e)
    \/ \E m \in Messages : Acknowledge(e, m) \/ Retransmit(e, m)

Next ==
    \/ \E r \in Routers : Publish(r) \/ RouterStep(r)
    \/ \E e \in Epochs : ConnectionStep(e) \/ ReplayTick(e) \/ Fail(e)
    \/ Register \/ Flush \/ Restart

Spec == Init /\ [][Next]_vars

\* Tasks that can run are scheduled; nobody has to publish, connect or fail.
FairSpec ==
    /\ Spec
    /\ \A r \in Routers : WF_vars(RouterStep(r))
    /\ \A e \in Epochs : WF_vars(ConnectionStep(e))

----------------------------------------------------------------------------
\* Where a message that was neither sent nor given up still is.
Waiting ==
    Range(queue[entry.epoch])
    \cup (UNION {Range(chan[e]) \cup Range(conn[e].pending) \cup conn[e].inflight : e \in Epochs})
    \cup {router[r].msg : r \in {s \in Routers : router[s].at \in {"send", "enqueue"}}}

\* No message disappears between the router, the queue, the channel and the
\* replay of deliver_or_enqueue and register: it is sent, still waits, was given
\* up (limit, ttl, connection gone, crash) or went into a queue that register
\* replaced after the router had cloned it, which nothing reports.
NothingVanishes == DOMAIN by \subseteq Sent \cup lost \cup stranded \cup Waiting

\* The transmissions of a message: connection and place in its log.
SendsIn(l, m) == UNION {{<<e, i>> : i \in {j \in DOMAIN l[e] : l[e][j] = m}} : e \in Epochs}
Sends(m) == SendsIn(log, m)

\* register drains the queue and replaces the entry in one step, so that
\* reconnects, takeovers and routers with old handles never send a message twice;
\* only a restart brings back messages that were sent, each at most once.
SentOncePerRun == \A m \in Messages : Cardinality(Sends(m)) <= 1 + restarts

\* The messages of one router arrive in the order of their publication on every
\* connection: replay first, then the channel; exempt are those whose first
\* transmission a timer cancelled.
InOrder ==
    \A e \in Epochs : \A i, j \in DOMAIN log[e] :
        /\ i < j
        /\ by[log[e][i]] = by[log[e][j]]
        /\ {log[e][i], log[e][j]} \cap skipped = {}
        => log[e][i] < log[e][j]

\* Every message ends up sent, given up or in a queue, that of the session or
\* the one register has replaced: none stays for ever in the channel of a
\* connection that was taken over.
Settles ==
    \A m \in Messages :
        m \in DOMAIN by ~> m \in Sent \cup lost \cup stranded \cup Range(queue[entry.epoch])

----------------------------------------------------------------------------
(***************************************************************************)
(* What the comments say.                                                  *)
(***************************************************************************)

\* storage/mod.rs on drain_offline: at this time "there are no new push_offline
\* calls (the broker delivers to the online client directly)".
NoPushWhileDraining ==
    [][Len(disk') > Len(disk) => \A e \in Epochs : conn[e].at # "clear"]_vars

Settled ==
    /\ \A r \in Routers : router[r] = Idle
    /\ \A e \in Epochs : conn[e].at \in {"none", "main", "done"}

\* broker/mod.rs after the replay: "the offline messages were taken from the
\* in-memory queue and delivered; clear the records on disk": none that was sent
\* remains, once the main loop runs, for the next restart to send again.
SentClearedFromDisk ==
    Settled /\ conn[entry.epoch].at = "main" => Range(disk) \cap Sent = {}

\* README: offline messages are stored on disk and recovered after a restart.
QueueOnDisk == Settled => Range(queue[entry.epoch]) \subseteq Range(disk)
=============================================================================
