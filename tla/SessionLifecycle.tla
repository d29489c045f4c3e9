-------------------------- MODULE SessionLifecycle --------------------------
(***************************************************************************)
(* The life of an MQTT connection task and its effect on the shared        *)
(* session map: registration and takeover, offline marking, cleanup, the   *)
(* last will, the expiry sweeper and the admin's session deletion          *)
(* (src/src/broker/mod.rs, src/src/broker/session.rs, src/src/admin/mod.rs)*)
(*                                                                         *)
(* Every connection is a tokio task; tasks run on several threads.  One    *)
(* operation on the DashMap of sessions, on the online counter, on the     *)
(* subscription tree or on the sled tree is atomic; a handler is a         *)
(* sequence of such operations, so each is an action of its own and the    *)
(* program counter pc[k] says which one task k performs next.              *)
(*                                                                         *)
(* Messages are not part of this module: the offline queues, the channels  *)
(* and the disk copy of the queues, which the same handlers drain, hold    *)
(* nothing else.                                                           *)
(***************************************************************************)
EXTENDS Integers, FiniteSets

CONSTANTS
    Clients,     \* client identifiers
    Conns,       \* connection tasks
    Filters,     \* topic filters a client may subscribe to
    Requests,    \* the CONNECT packets the clients send
    MaxSubs,     \* broker.max_subscriptions_per_client
    Actors,      \* which of the sweeper, the admin and a shutdown take part
    MaxPackets,  \* bound: SUBSCRIBE and UNSUBSCRIBE packets per connection
    NoEntry,     \* a client identifier without a session
    NoWill       \* Option::None of a will

\* Session Expiry Interval: absent, 0, or a positive number of seconds.
Expiries == {"none", "zero", "timed"}

Request == [client : Clients, clean : BOOLEAN, will : BOOLEAN, expiry : Expiries]

ASSUME ConstantsAssumption ==
    /\ IsFiniteSet(Clients)
    /\ IsFiniteSet(Conns)
    /\ Requests \subseteq Request
    /\ Actors \subseteq {"sweeper", "admin", "shutdown"}
    /\ MaxSubs \in Nat
    /\ NoWill \notin Conns

ASSUME MaxPacketsAssumption == MaxPackets \in [Conns -> Nat]

(***************************************************************************)
(* A SessionEntry.  The tx half of the connection's channel is the         *)
(* connection of that epoch.  aged says that session_expiry seconds have   *)
(* passed since offline_at.                                                *)
(***************************************************************************)
Entry == [epoch : Nat, clean : BOOLEAN, connected : BOOLEAN,
          will : Conns \cup {NoWill}, expiry : Expiries, aged : BOOLEAN]

ASSUME NoEntryAssumption == NoEntry \notin Entry

VARIABLES
    sessions,      \* SessionManager.sessions
    epochCounter,  \* SessionManager.epoch_counter
    onlineCount,   \* SessionManager.online_count (the integer before usize wraps)
    subs,          \* the filters of each client in the SubscriptionTree
    snap,          \* the SessionSnapshot on disk ({}: none; an empty one is never saved)
    pc,            \* what each connection task does next
    req,           \* the CONNECT its client sends
    epoch,         \* the epoch register() gave it, 0 before
    closing,       \* why it left its main loop, "no" before
    mine,          \* my_filters
    todo,          \* filters of the packet in hand still to be processed
    view,          \* subscriptions_of() read by persist_session_snapshot
    packets,       \* SUBSCRIBE and UNSUBSCRIBE packets received so far
    will,          \* the will it took out of its session
    fired,         \* history: the will it published
    displaced,     \* history: its entry was replaced or removed by another actor
    leaked,        \* history: connected entries the sweeper removed
    sweep,         \* the sweeper task
    admin,         \* the admin DELETE /sessions/{id} handler
    shutdown,      \* the shutdown watch channel
    exited         \* main has returned: the process is gone

mapVars  == <<sessions, epochCounter, onlineCount>>
diskVars == <<subs, snap>>
packetVars == <<mine, todo, packets>>
histVars == <<fired, displaced, leaked>>
bgVars   == <<sweep, admin, shutdown>>
stateVars == <<mapVars, diskVars, pc, req, epoch, closing, packetVars, view, will,
               histVars, bgVars>>
vars == <<stateVars, exited>>

----------------------------------------------------------------------------
(***************************************************************************)
(* The session map.                                                        *)
(***************************************************************************)

\* SessionEntry::clean and SessionEntry::persistent.
NewEntry(k) ==
    [epoch |-> epoch[k], clean |-> req[k].clean, connected |-> TRUE,
     will |-> IF req[k].will THEN k ELSE NoWill,
     expiry |-> IF req[k].clean THEN "none" ELSE req[k].expiry, aged |-> FALSE]

\* SessionManager::owns.
Owns(k) ==
    /\ sessions[req[k].client] # NoEntry
    /\ sessions[req[k].client].epoch = epoch[k]

\* SessionManager::is_online.
IsOnline(c) == sessions[c] # NoEntry /\ sessions[c].connected

\* SessionManager::is_clean_session: a missing session counts as not clean.
IsCleanSession(c) == sessions[c] # NoEntry /\ sessions[c].clean

\* SessionEntry::is_expired.
IsExpired(c) ==
    /\ sessions[c] # NoEntry
    /\ ~sessions[c].connected
    /\ \/ sessions[c].expiry = "zero"
       \/ sessions[c].expiry = "timed" /\ sessions[c].aged

\* The test of cleanup_expired.  Its `now` was read when the sweep began: a
\* positive interval is over only if it was over at that moment.
DueAtSweep(c) ==
    /\ IsExpired(c)
    /\ sessions[c].expiry = "timed" => <<c, sessions[c].epoch>> \in sweep.now

\* History: the connection whose entry is replaced or removed loses its session.
Displace(c, why) ==
    displaced' = [j \in Conns |->
        IF sessions[c] # NoEntry /\ epoch[j] = sessions[c].epoch THEN why
        ELSE displaced[j]]

Goto(k, label) == pc' = [pc EXCEPT ![k] = label]

\* The return of a handler that both the main loop and the cleanup call.
Return(k) == Goto(k, IF closing[k] = "no" THEN "main" ELSE "done")

----------------------------------------------------------------------------
(***************************************************************************)
(* handle_connection_inner, up to the main loop.                           *)
(***************************************************************************)

\* No CONNECT in time, a wrong protocol version, an empty client id without
\* clean session, or failed authentication.
Reject(k) ==
    /\ pc[k] = "accepted"
    /\ Goto(k, "done")
    /\ UNCHANGED <<mapVars, diskVars, req, epoch, closing, packetVars, view,
                   will, histVars, bgVars>>

\* Mutant: the counter is read, not advanced.
ConnectMutant(k) ==
    /\ pc[k] = "accepted"
    /\ epoch' = [epoch EXCEPT ![k] = epochCounter + 1]
    /\ Goto(k, "insert")
    /\ UNCHANGED <<mapVars, diskVars, req, closing, packetVars, view, will,
                   histVars, bgVars>>

\* A CONNECT is accepted and register() draws its epoch, before it locks the map.
Connect(k) ==
    /\ pc[k] = "accepted"
    /\ epochCounter' = epochCounter + 1
    /\ epoch' = [epoch EXCEPT ![k] = epochCounter + 1]
    /\ Goto(k, "insert")
    /\ UNCHANGED <<sessions, onlineCount, diskVars, req, closing, packetVars,
                   view, will, histVars, bgVars>>

\* Mutant: a takeover of an online session counts it again.
RegisterInsertMutant(k) ==
    LET c == req[k].client IN
    /\ pc[k] = "insert"
    /\ sessions' = [sessions EXCEPT ![c] = NewEntry(k)]
    /\ Goto(k, "count")
    /\ Displace(c, "takeover")
    /\ UNCHANGED <<epochCounter, onlineCount, diskVars, req, epoch, closing,
                   packetVars, view, will, fired, leaked, bgVars>>

\* register() replaces the entry under the map's entry lock.
RegisterInsert(k) ==
    LET c == req[k].client IN
    /\ pc[k] = "insert"
    /\ sessions' = [sessions EXCEPT ![c] = NewEntry(k)]
    /\ Goto(k, IF IsOnline(c) THEN "connack" ELSE "count")
    /\ Displace(c, "takeover")
    /\ UNCHANGED <<epochCounter, onlineCount, diskVars, req, epoch, closing,
                   packetVars, view, will, fired, leaked, bgVars>>

\* register() counts the session as online after it has released the lock.
RegisterCount(k) ==
    /\ pc[k] = "count"
    /\ onlineCount' = onlineCount + 1
    /\ Goto(k, "connack")
    /\ UNCHANGED <<sessions, epochCounter, diskVars, req, epoch, closing,
                   packetVars, view, will, histVars, bgVars>>

\* CONNACK is sent; the drained offline messages are replayed next.
ConnackSent(k) ==
    /\ pc[k] = "connack"
    /\ Goto(k, "replay")
    /\ UNCHANGED <<mapVars, diskVars, req, epoch, closing, packetVars, view,
                   will, histVars, bgVars>>

\* CONNACK cannot be sent: clean up, without the will.
ConnackFailed(k) ==
    /\ pc[k] = "connack"
    /\ Goto(k, "cleanup")
    /\ closing' = [closing EXCEPT ![k] = "connack"]
    /\ UNCHANGED <<mapVars, diskVars, req, epoch, packetVars, view, will,
                   histVars, bgVars>>

\* The replay ends, the disk copy is cleared and the main loop starts.
Replay(k) ==
    /\ pc[k] = "replay"
    /\ Goto(k, "main")
    /\ UNCHANGED <<mapVars, diskVars, req, epoch, closing, packetVars, view,
                   will, histVars, bgVars>>

----------------------------------------------------------------------------
(***************************************************************************)
(* The ways out of the main loop (and of the replay).                      *)
(***************************************************************************)

\* Mutant: the signal is looked at during the replay only.
ShutdownSignalMutant(k) ==
    /\ shutdown
    /\ pc[k] = "replay"
    /\ Goto(k, "cleanup")
    /\ closing' = [closing EXCEPT ![k] = "shutdown"]
    /\ UNCHANGED <<mapVars, diskVars, req, epoch, packetVars, view, will,
                   histVars, bgVars>>

\* The shutdown signal: send DISCONNECT, clean up, no will.
ShutdownSignal(k) ==
    /\ shutdown
    /\ pc[k] \in {"replay", "main"}
    /\ Goto(k, "cleanup")
    /\ closing' = [closing EXCEPT ![k] = "shutdown"]
    /\ UNCHANGED <<mapVars, diskVars, req, epoch, packetVars, view, will,
                   histVars, bgVars>>

\* Keep-alive expiry, a decoding or protocol error, end of stream or a failed
\* send (of a replayed, routed or retried message, or of an acknowledgement).
Abnormal(k) ==
    /\ \/ pc[k] \in {"replay", "main"}
       \/ pc[k] \in {"subscribe", "unsubscribe"} /\ todo[k] = {}
    /\ Goto(k, "abnormal")
    /\ closing' = [closing EXCEPT ![k] = "abnormal"]
    /\ UNCHANGED <<mapVars, diskVars, req, epoch, packetVars, view, will,
                   histVars, bgVars>>

\* A DISCONNECT packet.
Disconnect(k) ==
    /\ pc[k] = "main"
    /\ Goto(k, "clear_will")
    /\ closing' = [closing EXCEPT ![k] = "disconnect"]
    /\ UNCHANGED <<mapVars, diskVars, req, epoch, packetVars, view, will,
                   histVars, bgVars>>

\* Mutant: the loop is left without cleanup while the session is still held.
RxClosedEarlyMutant(k) ==
    /\ pc[k] = "main"
    /\ Goto(k, "done")
    /\ closing' = [closing EXCEPT ![k] = "rx_closed"]
    /\ UNCHANGED <<mapVars, diskVars, req, epoch, packetVars, view, will,
                   histVars, bgVars>>

\* Mutant: the loop goes on after None.
RxClosedIgnoredMutant(k) ==
    /\ pc[k] = "main"
    /\ ~Owns(k)
    /\ UNCHANGED vars

\* rx.recv() returns None: the entry that held tx is gone.  No cleanup runs.
RxClosed(k) ==
    /\ pc[k] = "main"
    /\ ~Owns(k)
    /\ Goto(k, "done")
    /\ closing' = [closing EXCEPT ![k] = "rx_closed"]
    /\ UNCHANGED <<mapVars, diskVars, req, epoch, packetVars, view, will,
                   histVars, bgVars>>

----------------------------------------------------------------------------
(***************************************************************************)
(* SUBSCRIBE and UNSUBSCRIBE.  Neither handler asks whether the connection *)
(* still owns the session.                                                 *)
(***************************************************************************)

ReceivePacket(k, F, label) ==
    /\ pc[k] = "main"
    /\ packets[k] < MaxPackets[k]
    /\ packets' = [packets EXCEPT ![k] = @ + 1]
    /\ todo' = [todo EXCEPT ![k] = F]
    /\ Goto(k, label)
    /\ UNCHANGED <<mapVars, diskVars, req, epoch, closing, mine, view, will,
                   histVars, bgVars>>

Subscribe(k, F) == ReceivePacket(k, F, "subscribe")

Unsubscribe(k, F) == ReceivePacket(k, F, "unsubscribe")

\* A filter within the limit (which counts the filters of this connection).
SubscribeOne(k, f) ==
    /\ pc[k] = "subscribe"
    /\ f \in todo[k]
    /\ f \in mine[k] \/ Cardinality(mine[k]) < MaxSubs
    /\ subs' = [subs EXCEPT ![req[k].client] = @ \cup {f}]
    /\ mine' = [mine EXCEPT ![k] = @ \cup {f}]
    /\ todo' = [todo EXCEPT ![k] = @ \ {f}]
    /\ UNCHANGED <<mapVars, snap, pc, req, epoch, closing, packets, view, will,
                   histVars, bgVars>>

\* A filter over the limit, refused by the topic ACL or malformed.
RefuseOne(k, f) ==
    /\ pc[k] = "subscribe"
    /\ f \in todo[k]
    /\ todo' = [todo EXCEPT ![k] = @ \ {f}]
    /\ UNCHANGED <<mapVars, diskVars, pc, req, epoch, closing, mine, packets,
                   view, will, histVars, bgVars>>

UnsubscribeOne(k, f) ==
    /\ pc[k] = "unsubscribe"
    /\ f \in todo[k]
    /\ subs' = [subs EXCEPT ![req[k].client] = @ \ {f}]
    /\ mine' = [mine EXCEPT ![k] = @ \ {f}]
    /\ todo' = [todo EXCEPT ![k] = @ \ {f}]
    /\ UNCHANGED <<mapVars, snap, pc, req, epoch, closing, packets, view, will,
                   histVars, bgVars>>

\* SUBACK (with the retained messages) or UNSUBACK is sent.
AckSent(k) ==
    /\ pc[k] \in {"subscribe", "unsubscribe"}
    /\ todo[k] = {}
    /\ Goto(k, "persist")
    /\ UNCHANGED <<mapVars, diskVars, req, epoch, closing, packetVars, view,
                   will, histVars, bgVars>>

----------------------------------------------------------------------------
(***************************************************************************)
(* persist_session_snapshot.                                               *)
(***************************************************************************)

PersistCheck(k) ==
    /\ pc[k] = "persist"
    /\ IF IsCleanSession(req[k].client) THEN Return(k) ELSE Goto(k, "read_subs")
    /\ UNCHANGED <<mapVars, diskVars, req, epoch, closing, packetVars, view,
                   will, histVars, bgVars>>

PersistRead(k) ==
    /\ pc[k] = "read_subs"
    /\ view' = [view EXCEPT ![k] = subs[req[k].client]]
    /\ IF subs[req[k].client] = {} THEN Return(k) ELSE Goto(k, "save")
    /\ UNCHANGED <<mapVars, diskVars, req, epoch, closing, packetVars, will,
                   histVars, bgVars>>

\* save_session; an error is only logged.
PersistSave(k) ==
    /\ pc[k] = "save"
    /\ snap' \in {snap, [snap EXCEPT ![req[k].client] = view[k]]}
    /\ Return(k)
    /\ UNCHANGED <<mapVars, subs, req, epoch, closing, packetVars, view, will,
                   histVars, bgVars>>

----------------------------------------------------------------------------
(***************************************************************************)
(* on_abnormal_disconnect and the DISCONNECT branch: the last will.        *)
(***************************************************************************)

AbnormalOwns(k) ==
    /\ pc[k] = "abnormal"
    /\ Goto(k, IF Owns(k) THEN "take_will" ELSE "cleanup")
    /\ UNCHANGED <<mapVars, diskVars, req, epoch, closing, packetVars, view,
                   will, histVars, bgVars>>

\* Mutant: the epoch is not compared.
TakeWillMutant(k) ==
    LET c == req[k].client
        w == IF sessions[c] # NoEntry THEN sessions[c].will ELSE NoWill IN
    /\ pc[k] = "take_will"
    /\ will' = [will EXCEPT ![k] = w]
    /\ sessions' = IF w # NoWill THEN [sessions EXCEPT ![c].will = NoWill] ELSE sessions
    /\ Goto(k, IF w = NoWill THEN "cleanup" ELSE "publish_will")
    /\ UNCHANGED <<epochCounter, onlineCount, diskVars, req, epoch, closing,
                   packetVars, view, histVars, bgVars>>

\* SessionManager::take_will.
TakeWill(k) ==
    LET c == req[k].client
        w == IF Owns(k) THEN sessions[c].will ELSE NoWill IN
    /\ pc[k] = "take_will"
    /\ will' = [will EXCEPT ![k] = w]
    /\ sessions' = IF Owns(k) THEN [sessions EXCEPT ![c].will = NoWill] ELSE sessions
    /\ Goto(k, IF w = NoWill THEN "cleanup" ELSE "publish_will")
    /\ UNCHANGED <<epochCounter, onlineCount, diskVars, req, epoch, closing,
                   packetVars, view, histVars, bgVars>>

PublishWill(k) ==
    /\ pc[k] = "publish_will"
    /\ fired' = [fired EXCEPT ![k] = @ \cup {will[k]}]
    /\ Goto(k, "cleanup")
    /\ UNCHANGED <<mapVars, diskVars, req, epoch, closing, packetVars, view,
                   will, displaced, leaked, bgVars>>

\* SessionManager::clear_will.
ClearWill(k) ==
    /\ pc[k] = "clear_will"
    /\ sessions' = IF Owns(k) THEN [sessions EXCEPT ![req[k].client].will = NoWill]
                   ELSE sessions
    /\ Goto(k, "cleanup")
    /\ UNCHANGED <<epochCounter, onlineCount, diskVars, req, epoch, closing,
                   packetVars, view, will, histVars, bgVars>>

----------------------------------------------------------------------------
(***************************************************************************)
(* cleanup.                                                                *)
(***************************************************************************)

\* Mutant: the epoch is not compared.
MarkOfflineMutant(k) ==
    LET c == req[k].client IN
    /\ pc[k] = "cleanup"
    /\ ~req[k].clean
    /\ IF IsOnline(c)
       THEN /\ sessions' = [sessions EXCEPT ![c].connected = FALSE]
            /\ onlineCount' = onlineCount - 1
       ELSE UNCHANGED <<sessions, onlineCount>>
    /\ Goto(k, "recheck")
    /\ UNCHANGED <<epochCounter, diskVars, req, epoch, closing, packetVars,
                   view, will, histVars, bgVars>>

\* SessionManager::mark_offline; the counter is decremented under the lock.
MarkOffline(k) ==
    LET c == req[k].client IN
    /\ pc[k] = "cleanup"
    /\ ~req[k].clean
    /\ IF Owns(k) /\ sessions[c].connected
       THEN /\ sessions' = [sessions EXCEPT ![c].connected = FALSE]
            /\ onlineCount' = onlineCount - 1
       ELSE UNCHANGED <<sessions, onlineCount>>
    /\ Goto(k, "recheck")
    /\ UNCHANGED <<epochCounter, diskVars, req, epoch, closing, packetVars,
                   view, will, histVars, bgVars>>

CleanupOwns(k) ==
    /\ pc[k] = "recheck"
    /\ Goto(k, IF Owns(k) THEN "expiry" ELSE "done")
    /\ UNCHANGED <<mapVars, diskVars, req, epoch, closing, packetVars, view,
                   will, histVars, bgVars>>

\* SessionManager::is_session_expired, which looks the session up by client id.
CleanupExpired(k) ==
    /\ pc[k] = "expiry"
    /\ Goto(k, IF IsExpired(req[k].client) THEN "remove" ELSE "persist")
    /\ UNCHANGED <<mapVars, diskVars, req, epoch, closing, packetVars, view,
                   will, histVars, bgVars>>

\* Mutant: the epoch is not compared.
RemoveIfEpochMutant(k) ==
    LET c == req[k].client IN
    /\ \/ pc[k] = "cleanup" /\ req[k].clean
       \/ pc[k] = "remove"
    /\ sessions' = [sessions EXCEPT ![c] = NoEntry]
    /\ Goto(k, IF IsOnline(c) THEN "uncount" ELSE "unsubscribe_all")
    /\ UNCHANGED <<epochCounter, onlineCount, diskVars, req, epoch, closing,
                   packetVars, view, will, histVars, bgVars>>

\* SessionManager::remove_if_epoch, of a clean or of an expired session.
RemoveIfEpoch(k) ==
    LET c == req[k].client IN
    /\ \/ pc[k] = "cleanup" /\ req[k].clean
       \/ pc[k] = "remove"
    /\ IF Owns(k)
       THEN /\ sessions' = [sessions EXCEPT ![c] = NoEntry]
            /\ Goto(k, IF sessions[c].connected THEN "uncount" ELSE "unsubscribe_all")
       ELSE /\ UNCHANGED sessions
            /\ Goto(k, "done")
    /\ UNCHANGED <<epochCounter, onlineCount, diskVars, req, epoch, closing,
                   packetVars, view, will, histVars, bgVars>>

\* remove_if_epoch decrements the counter after the entry is out of the map.
RemoveUncount(k) ==
    /\ pc[k] = "uncount"
    /\ onlineCount' = onlineCount - 1
    /\ Goto(k, "unsubscribe_all")
    /\ UNCHANGED <<sessions, epochCounter, diskVars, req, epoch, closing,
                   packetVars, view, will, histVars, bgVars>>

UnsubscribeAll(k) ==
    /\ pc[k] = "unsubscribe_all"
    /\ subs' = [subs EXCEPT ![req[k].client] = {}]
    /\ Goto(k, "delete_snapshot")
    /\ UNCHANGED <<mapVars, snap, req, epoch, closing, packetVars, view, will,
                   histVars, bgVars>>

\* delete_session_snapshot; an error of the storage is only logged.
DeleteSnapshot(k) ==
    /\ pc[k] = "delete_snapshot"
    /\ snap' \in {snap, [snap EXCEPT ![req[k].client] = {}]}
    /\ Goto(k, "done")
    /\ UNCHANGED <<mapVars, subs, req, epoch, closing, packetVars, view, will,
                   histVars, bgVars>>

----------------------------------------------------------------------------
(***************************************************************************)
(* spawn_session_expiry_sweeper and cleanup_expired.                       *)
(***************************************************************************)

connVars == <<pc, req, epoch, closing, packetVars, view, will>>

SweepTick ==
    /\ "sweeper" \in Actors
    /\ sweep.pc = "idle"
    /\ ~shutdown
    /\ sweep' = [sweep EXCEPT !.pc = "scan", !.left = Clients,
                   !.now = {<<c, sessions[c].epoch>> : c \in {d \in Clients : IsExpired(d)}}]
    /\ UNCHANGED <<mapVars, diskVars, connVars, histVars, admin, shutdown>>

\* The iteration over the map visits one session.
SweepScan(c) ==
    /\ sweep.pc = "scan"
    /\ c \in sweep.left
    /\ sweep' = [sweep EXCEPT !.left = @ \ {c},
                   !.expired = IF DueAtSweep(c) THEN @ \cup {c} ELSE @]
    /\ UNCHANGED <<mapVars, diskVars, connVars, histVars, admin, shutdown>>

\* The second look at a session that the scan found expired.
SweepRecheck(c) ==
    /\ sweep.pc = "scan"
    /\ sweep.left = {}
    /\ c \in sweep.expired
    /\ sweep' = [sweep EXCEPT !.expired = @ \ {c}, !.id = c,
                   !.pc = IF DueAtSweep(c) THEN "remove" ELSE "scan"]
    /\ UNCHANGED <<mapVars, diskVars, connVars, histVars, admin, shutdown>>

\* The removal itself tests nothing and leaves online_count alone.
SweepRemove ==
    LET c == sweep.id IN
    /\ sweep.pc = "remove"
    /\ sessions' = [sessions EXCEPT ![c] = NoEntry]
    /\ leaked' = IF IsOnline(c) THEN leaked + 1 ELSE leaked
    /\ Displace(c, "sweep")
    /\ sweep' = [sweep EXCEPT !.pc = "scan", !.removed = @ \cup {c}]
    /\ UNCHANGED <<epochCounter, onlineCount, diskVars, connVars, fired, admin, shutdown>>

\* The sweeper's loop over the identifiers that cleanup_expired returned.
SweepUnsubscribe(c) ==
    /\ sweep.pc = "scan"
    /\ sweep.left = {} /\ sweep.expired = {}
    /\ c \in sweep.removed
    /\ subs' = [subs EXCEPT ![c] = {}]
    /\ sweep' = [sweep EXCEPT !.pc = "delete_snapshot", !.id = c, !.removed = @ \ {c}]
    /\ UNCHANGED <<mapVars, snap, connVars, histVars, admin, shutdown>>

SweepDelete ==
    /\ sweep.pc = "delete_snapshot"
    /\ snap' \in {snap, [snap EXCEPT ![sweep.id] = {}]}
    /\ sweep' = [sweep EXCEPT !.pc = "scan"]
    /\ UNCHANGED <<mapVars, subs, connVars, histVars, admin, shutdown>>

\* Back to the select, which looks at the shutdown signal first.
SweepDone ==
    /\ sweep.pc = "scan"
    /\ sweep.left = {} /\ sweep.expired = {} /\ sweep.removed = {}
    /\ sweep' = [sweep EXCEPT !.pc = "idle", !.now = {}]
    /\ UNCHANGED <<mapVars, diskVars, connVars, histVars, admin, shutdown>>

SweepStop ==
    /\ sweep.pc = "idle"
    /\ shutdown
    /\ sweep' = [sweep EXCEPT !.pc = "stopped"]
    /\ UNCHANGED <<mapVars, diskVars, connVars, histVars, admin, shutdown>>

----------------------------------------------------------------------------
(***************************************************************************)
(* The admin's delete_session.                                             *)
(***************************************************************************)

\* A request for a client that is online is refused at once.
AdminDelete(c) ==
    /\ "admin" \in Actors
    /\ admin.pc = "idle"
    /\ ~IsOnline(c)
    /\ admin' = [pc |-> "unsubscribe_all", client |-> c]
    /\ UNCHANGED <<mapVars, diskVars, connVars, histVars, sweep, shutdown>>

AdminUnsubscribe ==
    /\ admin.pc = "unsubscribe_all"
    /\ subs' = [subs EXCEPT ![admin.client] = {}]
    /\ admin' = [admin EXCEPT !.pc = "remove"]
    /\ UNCHANGED <<mapVars, snap, connVars, histVars, sweep, shutdown>>

\* SessionManager::remove, which asks neither for an epoch nor for the state.
AdminRemove ==
    LET c == admin.client IN
    /\ admin.pc = "remove"
    /\ sessions' = [sessions EXCEPT ![c] = NoEntry]
    /\ Displace(c, "admin")
    /\ admin' = [admin EXCEPT !.pc = IF IsOnline(c) THEN "uncount" ELSE "delete_snapshot"]
    /\ UNCHANGED <<epochCounter, onlineCount, diskVars, connVars, fired, leaked,
                   sweep, shutdown>>

AdminUncount ==
    /\ admin.pc = "uncount"
    /\ onlineCount' = onlineCount - 1
    /\ admin' = [admin EXCEPT !.pc = "delete_snapshot"]
    /\ UNCHANGED <<sessions, epochCounter, diskVars, connVars, histVars, sweep,
                   shutdown>>

AdminDeleteSnapshot ==
    /\ admin.pc = "delete_snapshot"
    /\ snap' \in {snap, [snap EXCEPT ![admin.client] = {}]}
    /\ admin' = [admin EXCEPT !.pc = "idle"]
    /\ UNCHANGED <<mapVars, subs, connVars, histVars, sweep, shutdown>>

----------------------------------------------------------------------------
(***************************************************************************)
(* The environment: time and the operator.                                 *)
(***************************************************************************)

\* session_expiry seconds have passed since the session went offline.
Elapse(c) ==
    /\ sessions[c] # NoEntry
    /\ ~sessions[c].connected
    /\ sessions[c].expiry = "timed"
    /\ ~sessions[c].aged
    /\ sessions' = [sessions EXCEPT ![c].aged = TRUE]
    /\ UNCHANGED <<epochCounter, onlineCount, diskVars, connVars, histVars, bgVars>>

Shutdown ==
    /\ "shutdown" \in Actors
    /\ ~shutdown
    /\ shutdown' = TRUE
    /\ UNCHANGED <<mapVars, diskVars, connVars, histVars, sweep, admin>>

\* main returns: it waits for the listeners, for the sweeper no longer than two
\* seconds and for the flush, and not for the connection tasks, which are cut
\* off wherever they are.
Exit ==
    /\ shutdown
    /\ ~exited
    /\ exited' = TRUE
    /\ UNCHANGED stateVars

\* A step of the process while it runs.
Running == ~exited /\ UNCHANGED exited

----------------------------------------------------------------------------
Init ==
    /\ sessions = [c \in Clients |-> NoEntry]
    /\ epochCounter = 0
    /\ onlineCount = 0
    /\ subs = [c \in Clients |-> {}]
    /\ snap = [c \in Clients |-> {}]
    /\ pc = [k \in Conns |-> "accepted"]
    /\ req \in [Conns -> Requests]
    /\ epoch = [k \in Conns |-> 0]
    /\ closing = [k \in Conns |-> "no"]
    /\ mine = [k \in Conns |-> {}]
    /\ todo = [k \in Conns |-> {}]
    /\ view = [k \in Conns |-> {}]
    /\ packets = [k \in Conns |-> 0]
    /\ will = [k \in Conns |-> NoWill]
    /\ fired = [k \in Conns |-> {}]
    /\ displaced = [k \in Conns |-> "no"]
    /\ leaked = 0
    /\ sweep \in [pc : {"idle"}, now : {{}}, left : {{}}, expired : {{}},
                  removed : {{}}, id : Clients]
    /\ admin \in [pc : {"idle"}, client : Clients]
    /\ shutdown = FALSE
    /\ exited = FALSE

\* What the clients and the network do to a connection.
Input(k) ==
    \/ Reject(k) \/ Connect(k)
    \/ Abnormal(k) \/ Disconnect(k)
    \/ \E F \in (SUBSET Filters) \ {{}} : Subscribe(k, F) \/ Unsubscribe(k, F)

\* What the task of a connection does by itself.
Task(k) ==
    \/ RegisterInsert(k) \/ RegisterCount(k)
    \/ ConnackSent(k) \/ ConnackFailed(k) \/ Replay(k)
    \/ ShutdownSignal(k) \/ RxClosed(k)
    \/ \E f \in Filters : SubscribeOne(k, f) \/ RefuseOne(k, f) \/ UnsubscribeOne(k, f)
    \/ AckSent(k)
    \/ PersistCheck(k) \/ PersistRead(k) \/ PersistSave(k)
    \/ AbnormalOwns(k) \/ TakeWill(k) \/ PublishWill(k) \/ ClearWill(k)
    \/ MarkOffline(k) \/ CleanupOwns(k) \/ CleanupExpired(k)
    \/ RemoveIfEpoch(k) \/ RemoveUncount(k)
    \/ UnsubscribeAll(k) \/ DeleteSnapshot(k)

Sweeper ==
    \/ SweepTick \/ SweepRemove \/ SweepDelete \/ SweepDone \/ SweepStop
    \/ \E c \in Clients : SweepScan(c) \/ SweepRecheck(c) \/ SweepUnsubscribe(c)

Admin ==
    \/ \E c \in Clients : AdminDelete(c)
    \/ AdminUnsubscribe \/ AdminRemove \/ AdminUncount
    \/ AdminDeleteSnapshot

Step ==
    \/ \E k \in Conns : Input(k) \/ Task(k)
    \/ Sweeper
    \/ Admin
    \/ \E c \in Clients : Elapse(c)
    \/ Shutdown

Next == (Running /\ Step) \/ Exit

Spec == Init /\ [][Next]_vars

\* A task's own steps run to completion while the process lives: a future that
\* can make progress is polled, and a send completes or fails.  Clients and
\* operators may stop, and main may return at any time after the signal.
FairSpec ==
    /\ Spec
    /\ \A k \in Conns : WF_vars(Running /\ Task(k))
    /\ WF_vars(Running /\ Sweeper)
    /\ WF_vars(Running /\ Admin)

----------------------------------------------------------------------------
Labels == {"accepted", "insert", "count", "connack", "replay", "main", "subscribe",
           "unsubscribe", "persist", "read_subs", "save", "abnormal", "take_will",
           "publish_will", "clear_will", "cleanup", "recheck", "expiry", "remove",
           "uncount", "unsubscribe_all", "delete_snapshot", "done"}

Reasons == {"no", "connack", "shutdown", "abnormal", "disconnect", "rx_closed"}

SweepState ==
    [pc : {"idle", "scan", "remove", "delete_snapshot", "stopped"},
     now : SUBSET (Clients \X Nat), left : SUBSET Clients, expired : SUBSET Clients,
     removed : SUBSET Clients, id : Clients]

AdminState ==
    [pc : {"idle", "unsubscribe_all", "remove", "uncount", "delete_snapshot"},
     client : Clients]

\* The types of the variables.
TypeOK ==
    /\ sessions \in [Clients -> Entry \cup {NoEntry}]
    /\ epochCounter \in Nat
    /\ onlineCount \in Int
    /\ subs \in [Clients -> SUBSET Filters]
    /\ snap \in [Clients -> SUBSET Filters]
    /\ pc \in [Conns -> Labels]
    /\ req \in [Conns -> Requests]
    /\ epoch \in [Conns -> Nat]
    /\ closing \in [Conns -> Reasons]
    /\ mine \in [Conns -> SUBSET Filters]
    /\ todo \in [Conns -> SUBSET Filters]
    /\ view \in [Conns -> SUBSET Filters]
    /\ packets \in [Conns -> Nat]
    /\ will \in [Conns -> Conns \cup {NoWill}]
    /\ fired \in [Conns -> SUBSET Conns]
    /\ displaced \in [Conns -> {"no", "takeover", "sweep", "admin"}]
    /\ leaked \in Nat
    /\ sweep \in SweepState
    /\ admin \in AdminState
    /\ shutdown \in BOOLEAN

\* The task has registered and has not yet given its session up.
Live(k) ==
    \/ pc[k] \in {"count", "connack", "replay", "main", "subscribe", "unsubscribe",
                  "abnormal", "take_will", "publish_will", "clear_will", "cleanup"}
    \/ pc[k] \in {"persist", "read_subs", "save"} /\ closing[k] = "no"

\* An online session is never orphaned: the task of its epoch is still there and
\* will give it up (remove_if_epoch, mark_offline), whatever order of takeovers,
\* closed channels and cleanups led here.
OnlineSessionHasTask ==
    \A c \in Clients : IsOnline(c) =>
        \E k \in Conns : req[k].client = c /\ Owns(k) /\ Live(k)

\* A connection keeps its session for as long as it runs, unless a new
\* connection took it over or the sweeper or the admin removed it: no cleanup
\* of an older or concurrent connection touches it (the epoch comparison of
\* remove_if_epoch, mark_offline, take_will and clear_will).
TaskKeepsSession ==
    \A k \in Conns : Live(k) /\ displaced[k] = "no" =>
        Owns(k) /\ IsOnline(req[k].client)

\* cleanup's claim by remove_if_epoch: a connection that lost its session to a
\* takeover, the sweeper or the admin never gets to unsubscribe_all or to
\* delete_session_snapshot.
DisplacedNeverUnsubscribes ==
    \A k \in Conns : displaced[k] # "no" =>
        pc[k] \notin {"uncount", "unsubscribe_all", "delete_snapshot"}

Counting == {k \in Conns : pc[k] = "count"}
Uncounting == {k \in Conns : pc[k] = "uncount"}
Online == {c \in Clients : IsOnline(c)}

\* online_count is the number of connected sessions once the increments and
\* decrements that are under way (register, remove_if_epoch, remove) are done,
\* except for the sessions that cleanup_expired removed while connected.
OnlineCountAccounted ==
    onlineCount + Cardinality(Counting) =
        Cardinality(Online) + Cardinality(Uncounting) + leaked
        + (IF admin.pc = "uncount" THEN 1 ELSE 0)

\* The last will is fired by the connection that registered it and by no other
\* (take_will compares the epoch), only after an abnormal end, and then always,
\* unless the connection had lost its session.
WillFiredRight ==
    \A k \in Conns :
        /\ fired[k] \subseteq {k}
        /\ fired[k] # {} => req[k].will /\ closing[k] = "abnormal"
        /\ pc[k] = "done" /\ closing[k] = "abnormal" /\ displaced[k] = "no" /\ req[k].will
             => fired[k] = {k}

\* A connection that lost its session ends, its channel having no sender left,
\* unless the process ends first.
DisplacedEventuallyDone ==
    \A k \in Conns : displaced[k] # "no" ~> pc[k] = "done" \/ exited

\* After the shutdown signal every registered connection winds itself up, from
\* wherever in its handlers the signal finds it, as long as the process lives:
\* main does not wait for it and may cut it off (main, "wait for all services").
ShutdownDrains ==
    \A k \in Conns : shutdown /\ epoch[k] # 0 ~> pc[k] = "done" \/ exited
----------------------------------------------------------------------------
(***************************************************************************)
(* The session map implements SessionOwnership: the owner of a client is   *)
(* the connection whose epoch the connected entry carries.                 *)
(***************************************************************************)
Holder(c) == CHOOSE k \in Conns : epoch[k] = sessions[c].epoch

Owner == [c \in Clients |-> IF IsOnline(c) THEN Holder(c) ELSE NoWill]

Claimed == {k \in Conns : epoch[k] # 0 /\ pc[k] # "insert"}

Ownership == INSTANCE SessionOwnership
                WITH Nobody <- NoWill, owner <- Owner, spent <- Claimed

\* No two connections ever serve one client, and a connection that was taken
\* over, or whose session ended, never serves it again (the epochs of register).
ImplementsOwnership == Ownership!Spec

----------------------------------------------------------------------------
(***************************************************************************)
(* What comments in the code claim.                                        *)
(***************************************************************************)

\* cleanup_expired: "removed only while the entry is still offline and expired,
\* so that a session that has reconnected is not deleted by mistake".
SweeperSparesReconnected == leaked = 0

\* cleanup: "if a new connection has registered, [...] this function returns
\* and does not touch the subscriptions of the new session".
CleanupSparesNewSession ==
    [][\A j, k \in Conns : j # k /\ UnsubscribeAll(k) /\ req[j].client = req[k].client
          /\ Owns(j) => mine[j] = {}]_vars

\* delete_session: "an online session is refused, so that a new session after a
\* reconnect is not hurt".
AdminSparesReconnected == [][AdminRemove => ~IsOnline(admin.client)]_vars

\* The main loop: "the sending half was dropped (in theory never: the session
\* holds tx)".
RxNeverCloses == \A k \in Conns : closing[k] # "rx_closed"

\* UNSUBSCRIBE: "the subscription list changed: the snapshot on disk is brought
\* in line".  The snapshot is left alone only if there is nothing to change.
SnapshotKeptInLine ==
    [][\A k \in Conns : PersistRead(k) /\ view'[k] = {} => snap[req[k].client] = {}]_vars

\* persist_session_snapshot: "a session with clean_session=true is not written to
\* disk, lest it be restored at the next start".
CleanSessionNeverSaved ==
    [][\A k \in Conns : PersistSave(k) /\ snap' # snap => ~IsCleanSession(req[k].client)]_vars

\* online_count is "the number of sessions with connected = true"; being a
\* usize, it cannot hold a number below zero.
OnlineCountIsACount == onlineCount >= 0

=============================================================================
