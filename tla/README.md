# TLA+ verification of the Lumen-MQ broker

Lumen-MQ is an MQTT 3.1.1/5.0 broker in Rust on tokio. This directory holds TLA+ models
of its concurrent core, the TLC configurations that check them on small instances, and
TLAPS proofs for every instance. `PROJECT.json` maps every definition to the source lines it
translates. Source paths below are relative to the repository's `src/`.

To repeat a check: `tlc -config SessionTakeover.cfg MCSessionLifecycle`, and for a proof
`tlapm SessionLifecycleProofs.tla`.

## 1. The system

| Part | State | Operations that change it |
|---|---|---|
| Connection task (`broker/mod.rs`) | program position, `my_filters`, `next_pid`, inflight table, QoS 2 table, channel receiver | CONNECT, SUBSCRIBE, UNSUBSCRIBE, PUBLISH, acknowledgements, DISCONNECT, timers, shutdown |
| Session manager (`broker/session.rs`) | map from client to entry (epoch, connected, will, expiry, channel, queue), epoch counter, online count | `register`, `mark_offline`, `remove_if_epoch`, `cleanup_expired`, `deliver_or_enqueue`, wills |
| Subscription tree (`broker/subscription.rs`) | topic tree, shared groups, reverse index, each behind its own lock | `subscribe`, `unsubscribe`, `unsubscribe_all`, matching |
| Router and offline queue (`broker/router.rs`, `broker/store_msg.rs`) | one bounded queue per session | `publish`, `deliver_one`, `enqueue`, `drain` |
| QoS tables (`broker/qos.rs`) | per connection | insert, acknowledge, retry, de-duplicate |
| Retained store (`broker/retain.rs`) | map from topic to message | `set`, `matches`, `load_from_storage` |
| Storage (`storage/mod.rs`) | three sled trees, written out in the background | save, delete, push, drain, load |
| Listeners, security guard (`net/`, `security/`) | gauges, count per address, policy with address lists, token buckets | accept, check, connect, publish, disconnect, reload |
| Background (`main.rs`, `admin/mod.rs`) | - | expiry sweep, session deletion, shutdown, manual publish |
| MQTT-SN gateway (`net/mqtt_sn.rs`) | map from address to SnClient with its topic ids, one forwarder per session | every packet of a device, expiry, forwarding, shutdown |
| Plugin guard, HTTP forwarder (`plugin/`) | policy, current forwarder, bounded queue | publish, reload, background loop |
| Codec, configuration, authentication, dashboard | - | not modelled, see section 8 |

Every connection is a task of its own; tasks run on several threads. A single operation on
a concurrent map, a lock-protected structure, an atomic or a sled tree is atomic. A handler
is a sequence of them and may be interleaved anywhere, and at every `await` the task may
stop for good. What is hard here follows from that:

* a client identifier moves from one connection to the next while the old one is still running;
* cleanup, the sweeper and the admin interface test an entry and then act on several structures;
* a router clones the handles of a session and uses them after the session changed hands;
* memory and disk are updated one after the other, and a crash can come between;
* limits (inflight table, channel, queue, connections) are reached while others are counting.

## 2. Modules

| Module | Models | Actions and atomicity |
|---|---|---|
| `SessionLifecycle` | connection task, session map, snapshots, wills, sweeper, admin deletion, shutdown, the end of the process | one action per map, tree or disk operation; `pc[k]` is the position of task `k`, and no step is taken once `exited` |
| `SessionOwnership` | abstract: who owns an identifier | `Claim` and `Release`; `SessionLifecycle` implements it |
| `OutboundQos` | inflight table, packet identifiers, retries, acknowledgements | one action per handler; the two TCP directions are sequences |
| `InboundQos` | `handle_publish`, QoS 2 de-duplication, a publisher that retransmits and reconnects | one action per packet handled |
| `SubscriptionTrie` | the topic tree as the code builds, walks and prunes it, and `topic_matches_filter` | one action per operation (it runs under one lock) |
| `SubscriptionIndex` | tree, shared groups and reverse index under their three locks | one action per lock section |
| `OfflineDelivery` | one persistent session's messages: router, channel, queue, disk, replay, crash | one action per access to the map, the channel, the queue or the disk |
| `RetainedDelivery` | one topic's retained message: publish against subscribe, storage, crash | one action per lock section and per send |
| `IpFilter` | address lists: parsing, masking, bitwise prefix tree, verdict | operators, used by `Admission` |
| `Admission` | accept loops, gauges, count per address, address lists, policy reload | one action per atomic access |
| `SnGateway` | MQTT-SN receive loop, sweeper, `cleanup_session`, forwarders, topic ids, takeover by MQTT, shutdown | one action per access to a shared map or channel; `task` and `fwd` are the positions |
| `PublishPath` | what a PUBLISH passes: size and rate limit, topic ACL, payload filter, HTTP forwarder; reloads of both guards | one action per atomic load or store, per lock section and per request |

`MC*` modules instantiate the constants. Eight modules hold the theorems:
`SessionLifecycleProofs`, `OutboundQosProofs`, `InboundQosProofs`, `OfflineDeliveryProofs`,
`RetainedDeliveryProofs`, `PublishPathProofs`, `SnGatewayProofs`, and `AdmissionIndexProofs` for
`Admission` and `SubscriptionIndex`.
Definitions named `...Mutant` are plausible mistakes in the definition that follows them;
every property of section 3 fails when the matching one replaces the original.

How the modules fit together: `SessionLifecycle` leaves out messages, and `OfflineDelivery`
takes registration and failure of connections from it as single actions. `OfflineDelivery`
reduces acknowledgement to a release of the slot, which `OutboundQos` details.
`SubscriptionIndex` takes the tree as a function from client and filter to QoS, which
`SubscriptionTrie` justifies. `RetainedDelivery` takes matching and clean sessions as given.
`Admission` takes what happens between CONNECT and close as one step. `SnGateway` has its own
small copy of the session map, because the gateway calls it in another order than a connection
does; `MarkedOffline`, `Owns` and `Registered` translate the same functions as
`SessionLifecycle`. `PublishPath` sits before and after the routing of `InboundQos` and reduces
its duplicate check to a choice.

## 3. Model-checking runs that hold

| Run | Properties | What it shows | Bounds |
|---|---|---|---|
| `SessionTakeover` | `OnlineSessionHasTask`, `TaskKeepsSession`, `DisplacedNeverUnsubscribes`, `OnlineCountAccounted`, `WillFiredRight`, `ImplementsOwnership` | connections of one client displace each other at any point while sweeper and admin run: a session marked connected has a live task, a displaced task does no harm, the online count is explained, wills fire as they should, and the map implements `SessionOwnership` | 2 connections, clean or with a will and an expiring session; no packets |
| `SessionEnds` | `DisplacedEventuallyDone`, `ShutdownDrains` | while the process lives a displaced connection ends, and so does every registered one after the shutdown signal, from wherever the signal finds it | 2 connections, one of which sends a SUBSCRIBE or UNSUBSCRIBE; sessions that expire at once, the longest cleanup |
| `OutboundHandshake` | `AckedWasReceived`, `ExactlyOnce`, `NeverOverwritten`, `SlotsReleased` | handshakes with retries and reuse of identifiers; every slot becomes free | 3 messages on 2 identifiers: wrap-around and a full table; 1 retry |
| `InboundHandshake` | `OncePerConnection`, `RefusedStaysRefused`, `NotSwallowed`, `HandshakesComplete` | copies are recognised, also of refused messages, no new message is mistaken for one, handshakes end | 3 messages (QoS 2, 2, 1) on 2 identifiers, 2 connections, 1 early retransmission |
| `TrieMatching` | `RoutedToHolders`, `BranchesPruned` | the tree, the level-by-level matcher of retained messages and the set of subscriptions held agree on who gets a topic; unsubscribing leaves no branch behind | filters and topics of up to three levels, every wildcard, empty levels and a level that begins with `$`; 2 subscriptions held at a time |
| `SharedIndex` | `IndexMatchesStoreAlone`, `RoundRobinFair` | the reverse index follows the tree when one task acts for each client; groups are served in turn | 3 members, 4 messages |
| `OfflineDelivery` | `NothingVanishes`, `SentOncePerRun`, `InOrder`, `Settles` | over reconnects, crashes and failing writes and removals every message is sent, queued, given up (`lost`) or left in a queue that `register` had replaced (`stranded`), nothing is sent twice between two crashes, each router's messages arrive in order, and none stays under way for ever | 3 messages of one router (one QoS 0) or one each of two, 3 registrations, 2 restarts; channel 1, table 1, queue 2: all limits are met |
| `RetainedRace` | `MapMatchesStorage`, `SubscriberUpToDate`, `LastSentNotOlder` | no interleaving of publish and subscribe lets a subscriber miss the retained message or end with an older one; map and storage agree while the broker runs, whatever writes fail | 2 clients that both publish and subscribe, 2 messages, 2 subscriptions each, channel 1 |
| `AdmissionCounts` | `ListsExact`, `CountersExact`, `LimitsUnlessRaced` | the compiled address lists mean what their entries say and change only as a whole; counters are given back on every path; a limit is exceeded only through the overlap the property describes | 3 connections at 2 listeners from 2 addresses, limit 2, 5 configurations (one of which does not parse), 1 reload; addresses of 2 and 3 bits, every pair of entries |
| `Gateway` | `TopicIdsHold`, `GaugeUnlessDrifted`, `OnlineIsWatched`, `SilentGoesOffline`, `LostForwarderEnds`, `ShutdownOffline` | topic ids and short topic names keep their meaning but for the exceptions the property names, sessions stay watched and go offline when the device falls silent or the gateway stops, forwarders of lost sessions end, and the gauge follows the sessions until one of the events the property names | 2 addresses, 2 clients (one moves, two share an address), 3 topics on 2 ids, one of which is also spelt by a short name: a full table and reuse; up to 1 connection elsewhere; 2 registrations, 4 inputs, channel 1 |
| `PublishPath` | `RateBounded`, `ReloadInForce`, `ForwardInOrder`, `ForwardEnds` | every bucket keeps its rate over every stretch of time; a reload is in force as a whole unless it was raced; the forwarder requests a post of all it accepted, in order and with no repetition beyond its one retry, also when it is replaced | 2 connections of one client and an operator's request, 2 reloads, in 4 scenarios; queues of 1 and 2, rates 0 to 2, 2 points in time |

The hazards are about two or three actors at one identifier, one session, one topic, one
address or one pair of counters, so that small bounds reach them; most of the invariants are
moreover proved for every size (section 6). Each limit is set so low that it is met. Some cases
stay out of these bounds: three connections of one client in a row, a third client that
subscribes while two publish, QoS 0 towards the broker, a third registration at the gateway,
three messages of two routers over a restart, and more than two reloads. The proofs cover them
for the safety properties.

Symmetry is used for connections and clients that the specification treats alike, and only in
runs whose properties are safety properties (`ImplementsOwnership` is one: `SessionOwnership`
has no fairness). `CHECK_DEADLOCK FALSE` stands wherever all bounded work may be done or all
connections may have ended. Type invariants are not among
the runs' properties: where a proof needs one, it is a theorem.

## 4. Where the code and its comments disagree

One run checks a property that states a sentence of the repository, and TLC finds a behaviour
of the code that violates it; `PROJECT.json` quotes the sentence.

* `SweeperSparesReconnected`: the sweeper tests an entry and then removes it unconditionally.
  A client that reconnects in between loses its new session.

The modules state more such sentences, each next to the comment it quotes. No run is kept for
them, but TLC violates each one when it is the only property of the configuration named here
with the constants changed as shown:

| Property | Start from | Change | What happens |
|---|---|---|---|
| `CleanupSparesNewSession` | `SweeperSparesReconnected.cfg` | `Actors = {}`, `MaxPackets <- AllTalk` | cleanup of a clean session removes the entry and unsubscribes later: a successor loses its subscriptions |
| `AdminSparesReconnected` | `SweeperSparesReconnected.cfg` | `Actors = {"admin"}` | deletion tests that the client is offline and then removes it although it has reconnected |
| `RxNeverCloses` | `SweeperSparesReconnected.cfg` | `Actors = {}` | a takeover does close the old connection's channel |
| `OnlineCountIsACount` | `SweeperSparesReconnected.cfg` | `Actors = {}` | a decrement can come before its increment: the count passes below zero |
| `SnapshotKeptInLine` | `SweeperSparesReconnected.cfg` | `Actors = {}`, `MaxPackets <- AllTalkTwice` | after the last unsubscribe the old snapshot stays on disk |
| `CleanSessionNeverSaved` | `SweeperSparesReconnected.cfg` | `Actors = {}`, `MaxPackets <- AllTalk` | a snapshot of a persistent session is saved after a clean one took the identifier |
| `NoReuseInUse` | `OutboundHandshake.cfg` | none | an identifier given up after the last retry is reused while the client still holds it |
| `IndexMatchesStore` | `SharedIndex.cfg` | `Clients = {1, 2}`, `Actors = {a1, a2}`, `ActsFor <- TwoForOne` | two tasks of one client leave reverse index and tree apart |
| `NoPushWhileDraining` | `OfflineDelivery.cfg` | `DiskMayFail = FALSE` | a router pushes to the disk while the reconnected client drains it |
| `SentClearedFromDisk` | `OfflineDelivery.cfg` | `DiskMayFail = FALSE` | the record of a delivered message is written after the disk was cleared |
| `QueueOnDisk` | `OfflineDelivery.cfg` | `DiskMayFail = FALSE` | a restart moves the offline messages from the disk into memory, and a second restart before the client reconnects loses them |
| `ExactlyOnce` of `InboundQos` | `InboundHandshake.cfg` | none | a QoS 2 message sent again after a reconnect is routed twice |
| `LimitCoversHalfOpen` | `AdmissionCounts.cfg` | none | a connection counts only after its handshake, so the limit does not cover it before |
| `CountReturnsToZero` | `AdmissionCounts.cfg` | none | a connection counted under one policy and ended under another leaves its count behind |

What the models translate from the code and a reader might not expect, some of it against a
comment:

* A router that cloned the queue of an entry which `register` then replaced puts its message
  there, and `deliver_or_enqueue` answers `Enqueued` (`session.rs:257`). Nobody drains that queue;
  only a copy on disk may bring the message back after a restart. `NothingVanishes` and
  `Settles` count it as `stranded`.
* `drain_offline` returns an error when one removal fails, after the earlier ones succeeded. At
  a start `load_persistent_sessions` then goes on without the messages (`broker/mod.rs:214`): those
  removed are lost, the others stay on disk. When a replay clears the disk, the error is only
  logged, and the messages left there are sent again after the next restart.
* A crash loses what the storage engine had not written out. The retained message that a restart
  finds may therefore be one that subscribers had stopped seeing; `MapMatchesStorage` is about
  the running broker only.
* A leading wildcard matches topics that begin with `$`: neither `collect_matches` nor
  `topic_matches_filter` has the rule of MQTT (4.7.2) that excludes them, and `LevelsAgree`, the
  relation that `RoutedToHolders` compares with, is the code's.
* After the shutdown signal `main` waits for the listeners, for the sweeper (two seconds at
  most) and for the flush, and returns (`main.rs:168`). It joins no connection task; a cleanup that is
  under way is cut off wherever it is (`Exit`).
* `handle_publish` of the gateway looks a short topic name up in the table of topic ids first
  (`net/mqtt_sn.rs:804`): when the two bytes of the name spell an id that the table assigned, the
  message goes to the topic of that id. `TopicIdsHold` therefore promises a short name its own
  topic only until `next_topic_id` comes to its number or goes round (`turned`).

* `net/mqtt_sn.rs:657` says that the messages of a sleeping client go to the offline queue. They
  do, but `handle_connect` (743) discards what `register` drains from it.
* `net/mqtt_sn.rs:11` says that QoS 2 is refused. `handle_publish` routes such a message and does
  not acknowledge it.
* The gateway's share of the connection gauge drifts (`drift` marks the events): a CONNECT
  that replaces an online session leaves one too many, a sleeper that expires, or a
  persistent session that ends twice, one too few. Below zero the cast of line 727 makes the
  gauge exceed every limit.
* An SnClient displaced by a CONNECT from its address (757), or removed in place of the expired
  one (536), leaves its session online with nobody to expire it (`orphans`).
* `plugin/forwarder.rs:155` logs that the oldest messages are dropped: it is the new one.
  Line 6 of its header says that there is no retry; `forward_loop` retries once (187).
* Reloads that overlap may leave the capacity of one with the rate of the other, or the policy
  of one with the forwarder of the other (`overlapped`); a `try_consume` that overlaps with a
  reload may leave a bucket of the old rate (`raced`).

## 5. Fairness

Safety properties assume none. The liveness properties assume weak fairness of

* each step of a connection task, of the sweeper and of the admin handler while the process
  lives (`SessionLifecycle`; `Exit` may come at any time after the signal and both liveness
  properties end with it: how much of the shutdown is done by then is not guaranteed),
  of routers and connections (`OfflineDelivery`): tokio runs every task that is ready, and no
  lock is held across an `await`. A send that blocks for ever on a peer that does not read is
  excluded by this assumption; so is inbound traffic that never pauses, which the biased
  `select!` would prefer to the channel (the number of packets per connection is bounded);
* the retry timer, the passing of the retry timeout and the processing of acknowledgements
  that have arrived (`OutboundQos`): not of the client, which may stay silent;
* the broker's and the publisher's steps and the publisher's reconnect (`InboundQos`): the
  property is about a publisher that follows the protocol to the end;
* the gateway's receive loop where it is in the middle of a packet or stopping, its sweeper,
  and every forwarder (`SnGateway`): none of them waits for another. Devices, publishers and
  the clock are not fair: a device may stay silent for ever;
* a publishing task that has begun a message and every `forward_loop` (`PublishPath`): each
  request ends by the timeout of the HTTP client. `ForwardInOrder` is about the requests the loop makes;
  one that timed out may still reach the endpoint later, after the next message.

## 6. What is proved

TLAPS checks these theorems for every value of the constants that satisfies the named
assumptions: finite sets of clients and connections, null values outside the sets they stand
beside (`NoEntryAssumption`, `NoneIsNoEntry`, `NoMessageIsFresh` and the like), numbers for
limits and bounds, positive where the code requires it. TLC evaluates the assumptions in every
run. Each inductive invariant was model-checked on the run of its component before it was
proved.

* `SessionLifecycleProofs`: `TypeCorrect`, `OnlineSessionsServed`, `SessionsKept`,
  `DisplacedHarmless`. None of the invariants is inductive alone. `CoreInv` adds that an epoch
  is given once (`EpochsGivenOnce`), that every entry is held by the connection of its epoch
  (`EntriesHeld`), that a connection which is about to register was not displaced
  (`FreshNotDisplaced`), that one past its removal holds nothing (`GoneHoldsNothing`), and which
  values each position of a task admits (`PhaseOK`). `CoreInit` and `CoreStep` show it
  inductive, with one lemma per group of actions. The proofs are about `Step`, the steps of the
  running process; `StepOrExit` adds its end, which changes nothing but `exited`.
  * `OwnershipImplemented`: `SessionLifecycle` implements `SessionOwnership` with the owner
    read from the map; every step is a claim, a release or a stutter.
  * `WillsFiredRight`: `WillInv` follows the will on its way. It is in the entry of its
    connection until it is taken or cleared (`Armed`), then in the hand of
    `on_abnormal_disconnect`, then published, and never passes to another connection. That the
    entry may change hands between the two steps of `on_abnormal_disconnect` is where the
    epoch comparison of `take_will` is needed.
  * `OnlineCountExact`: the count equals the connected entries, corrected by the tasks between
    changing the map and changing the counter and by the removals that never decrement it; per
    action, by cardinalities of these sets.
* `OutboundQosProofs`: `TypeCorrect`, `TableBounded`, `EntriesNeverOverwritten`, from the lemma
  `AllocateFresh` that the identifier allocated is free. `DeliveredExactlyOnce` and
  `AcknowledgedWasReceived` follow from `HandshakeInv`. Its part `OnceInv` says of every
  PUBLISH under way, and of every one that a retry may still send, that it cannot pass its
  message on twice: either the subscriber does not have the message, or it awaits the release
  and no PUBREL stands before it in the stream. `ReceivedInv` is about identifiers that have not
  wrapped: those given away are the ones below `next_pid`, each names one message, and once the
  subscriber has answered under it, it has that message.
* `InboundQosProofs`: `RoutedOnce`, `RefusalKept`, `NothingSwallowed`. The tracker holds only
  identifiers; that one in it means the message the publisher means depends on the order of the
  packets in both directions. `HandshakeInv` states that order (`ToBrokerInv`, `ToClientInv`),
  what the tracker says about the publisher's record (`SeenInv`), and what was decided on this
  connection (`HereInv`). QoS 1 needs `SingleInv`: without an early retransmission one packet
  per identifier is under way. With one, a second PUBACK may be taken for that of the next
  message, which `NotSwallowed` therefore exempts.
* `AdmissionIndexProofs` on `SubscriptionIndex`: `IndexTypeCorrect`, `IndexFollowsTree`. The
  invariant `IndexInv` says for each operation under way what the index still lacks (`Pending`). `SharedDealtEvenly`:
  `FairInv` orders the members of a group by how many messages go to others before their turn
  comes (`WaitOf`, from the rank of the member and `rr_counter` modulo their number); who waits
  less has been served as often as who waits longer, or once less. The lemmas `Ranks` and
  `NthMember` say that ranks number the members and that `Nth` finds the one of a rank.
* `RetainedDeliveryProofs`: `MapIsStorage`, `SubscribersUpToDate`, `LastSentIsNotOlder`.
  `RetainInv` says for every subscriber where the message in force is: with a task that will
  match or deliver it, in the channel, with the scan, received, dropped, or of no concern
  (`Covered`). `OrderInv` adds the order in which the messages of one publisher are under way,
  for the third theorem.
* `AdmissionIndexProofs` on `Admission`: `CountersAreExact`, `LimitsHold`. `AdmissionInv`
  equates each gauge with the cardinality of the connections at the positions that hold it. The limits need two more
  facts: what a listener has loaded is not below the gauge as long as nothing raced
  (`LoadedInv`), and the connection past its second check counts already (`AddressInv`).
* `OfflineDeliveryProofs`: `NoMessageVanishes`, `SentOnceEachRun`, `DeliveredInOrder`, all from
  `DeliveryInv`. A message is followed from hand to hand: its router (until `try_send` or
  `enqueue` takes it), the queue of the current entry, the replay and the channel of a
  connection, and the inflight table where a timer cancelled the send.
  * `AllFound`: one of them has it, or it was sent, given up or stranded.
  * `OneWay` and `RouterHoldsAlone`: never two of them. That a router with the handles of an
    earlier entry cannot make it two is the case `e # epoch` of `EnqueueKeeps`: the queue it
    reaches is no longer anybody's. `SendsCounted` turns this into a number: who can still be
    sent was sent at most once per crash so far, because only `Restart` brings a message back.
  * `RouterHoldsNewest`, `StoredInOrder`, `CarriedInOrder`: the message in a router's hand is its
    last, queue, disk, replay and channel are in the order of every router, and whatever left a
    connection precedes what is still in its replay, which precedes its channel.
  * `Losing`, `Sending` and `HandedOver` are the three ways a step moves messages (out, to the
    subscriber, from a router to the session); the actions of connections and routers are
    instances of them. `Publish`, `Register`, `PushOffline` and `Restart` have proofs of their
    own. The sequences need `Taking`, `Adding`, `Cutting`,
    `Pushing`, `NewestOf`, `Keeping` and `DrainedIs`: what removing, appending, expiring, evicting, restoring
    and clearing do to members and order.
* `PublishPathProofs`: `BucketsKeepTheRate`, `ReloadsTakeEffect`, `ForwarderInOrder`, from `Inv`.
  * `RateInv` says of every bucket and every earlier time that what was taken since, together
    with what is left, is covered by the capacity and the refill up to the last one. It speaks
    of the last refill, not of now: the bucket refills lazily.
  * `SecurityInv` follows a reset through its stores (`ResetProgress`) and a `try_consume` through
    its loads (`Loaded`): what it has loaded is in force, or a reset came in between and its
    client is in `raced`. `PluginInv` does the same for policy and forwarder.
  * `ForwardInv` says where in the sequence of accepted messages each forwarder is (`Taken`), and
    that a loop that ended can be offered nothing: neither the current forwarder nor one that a
    publishing task has loaded has ended (`Served`).
* `SnGatewayProofs`: `TopicIdsCorrect`, that `TypeOK` and `TopicIdsHold` hold for any number of
  addresses, topics and ids. Together they are inductive. The argument rests on `AssignKeeps`:
  the id that `assign_topic_id` finds is free (`FirstFreeIsFree`, from a least
  distance from `next_topic_id` round the end), so no id in use changes its meaning; and
  on `OneAddress`: a step that touches one address leaves the ids of the others alone. For short
  names `FreshInv` says that until `next_topic_id` goes round every id from it on is free, so that a
  name which spells one of them means itself (`ShortIds`). The
  forwarder's step needs its check of the epoch, the exemption of an exhausted table is needed
  because the code then answers with the id of another topic.
  `OnlineSessionsWatched` and `GaugeCorrect` follow from `GatewayInv`, which adds `RecordInv`:
  an epoch belongs to one client, in the session map, in the SnClients, in the forwarders and
  in the hand of the receive loop and the sweeper alike. Without it a `mark_offline` or
  `remove_if_epoch` might reach the session of another registration and the gauge would be
  counted down for it.

## 7. What is only model-checked

* Liveness (`DisplacedEventuallyDone`, `ShutdownDrains`, `SlotsReleased`, `HandshakesComplete`,
  `Settles`, `SilentGoesOffline`, `LostForwarderEnds`, `ShutdownOffline`, `ForwardEnds`) is
  outside what the prover handles.
* `RoutedToHolders` and `BranchesPruned`: `SubscriptionTrie` is written with recursive
  operators, and what they compute for all inputs needs an induction over the filter that the
  provers cannot instantiate. The same holds for `ListsExact`, which is about the walk of
  `IpFilter` through its prefix tree.
* Two definitions of `OfflineDelivery` state the result of a loop in closed form, for the proofs:
  `Newest` (the queue after `load_persistent_sessions` has enqueued the messages of the disk one
  by one) and `Without` (a sequence without one entry). TLC compares them with their recursive
  forms on all sequences up to length 4, as the assumptions `NewestIsTheLoop` and `RemovedInOrder`
  of `MCOfflineDelivery`.

## 8. What is not modelled

* Time: keep-alive, message and session expiry and retry timeouts are nondeterministic
  events; only the token buckets have a clock, of whole seconds. A property that depends on
  durations cannot be stated.
* The codec (`codec/`, and the packet functions of `net/mqtt_sn.rs`): sequential functions on
  bytes without shared state, which the unit tests exercise. Payloads, topics beyond
  matching, logging, metrics other than the gauges that are read, HTTP and the dashboard.
* Configuration (read once at start), authentication (a stateless verdict, taken as a choice),
  the validation of the forwarder's URL (accept or refuse).
* In `SessionLifecycle`, messages; in `OfflineDelivery`, more than one session and a queue of
  capacity 0, for which the eviction loop of `enqueue` does not end; in `RetainedDelivery`, more
  than one topic and persistent sessions; in `SnGateway`, retained messages, message
  identifiers, the removal of an online gateway session by the admin or the session sweeper
  (which would move the gauge as well), and datagrams that arrive twice or out of order; in `PublishPath`, fractions of a
  token. `RetainStore::remove` and `clear` have no caller outside the tests.
* Within a connection the biased `select!` may starve the outbound side; see section 5.
