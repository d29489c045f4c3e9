----------------------- MODULE SessionLifecycleProofs -----------------------
(***************************************************************************)
(* Proofs about SessionLifecycle, for every set of clients, connections,   *)
(* filters and CONNECT packets: the types, who holds a session, that the   *)
(* session map implements SessionOwnership, who fires a last will, and     *)
(* that SessionManager.online_count is accounted for.                      *)
(***************************************************************************)
EXTENDS SessionLifecycle, FiniteSetTheorems, TLAPS

USE ConstantsAssumption, NoEntryAssumption

(***************************************************************************)
(* Types.                                                                  *)
(***************************************************************************)

\* The initial state is typed.
LEMMA InitType == Init => TypeOK
  <1> SUFFICES ASSUME Init PROVE TypeOK
    OBVIOUS
  <1>1. sweep \in SweepState
    BY ZenonT(40) DEF Init, SweepState
  <1>2. admin \in AdminState
    BY ZenonT(40) DEF Init, AdminState
  <1>3. packets \in [Conns -> Nat]
    BY ZenonT(40) DEF Init
  <1>4. sessions \in [Clients -> Entry \cup {NoEntry}]
    BY ZenonT(40) DEF Init
  <1>5. pc \in [Conns -> Labels] /\ closing \in [Conns -> Reasons]
    BY ZenonT(40) DEF Init, Labels, Reasons
  <1>6. shutdown \in BOOLEAN
    BY Zenon DEF Init
  <1>7. displaced \in [Conns -> {"no", "takeover", "sweep", "admin"}]
    BY ZenonT(40) DEF Init
  <1>8. /\ subs \in [Clients -> SUBSET Filters]
        /\ snap \in [Clients -> SUBSET Filters]
        /\ mine \in [Conns -> SUBSET Filters]
        /\ todo \in [Conns -> SUBSET Filters]
        /\ view \in [Conns -> SUBSET Filters]
    BY ZenonT(40) DEF Init
  <1>9. will \in [Conns -> Conns \cup {NoWill}] /\ fired \in [Conns -> SUBSET Conns]
    BY ZenonT(40) DEF Init
  <1>10. QED
    BY <1>1, <1>2, <1>3, <1>4, <1>5, <1>6, <1>7, <1>8, <1>9, SMTT(40) DEF Init, TypeOK

\* The updates that the code makes to an entry keep it typed.
LEMMA EntryUpdate ==
  ASSUME NEW e \in Entry, NEW w \in Conns \cup {NoWill}
  PROVE  /\ [e EXCEPT !.will = w] \in Entry
         /\ [e EXCEPT !.connected = FALSE] \in Entry
         /\ [e EXCEPT !.aged = TRUE] \in Entry
  BY Zenon DEF Entry

\* The same for an entry in the map.
LEMMA SessionUpdate ==
  ASSUME TypeOK, NEW c \in Clients, sessions[c] # NoEntry,
         NEW w \in Conns \cup {NoWill}
  PROVE  /\ sessions[c] \in Entry
         /\ [sessions EXCEPT ![c].will = w] \in [Clients -> Entry \cup {NoEntry}]
         /\ [sessions EXCEPT ![c].connected = FALSE] \in [Clients -> Entry \cup {NoEntry}]
         /\ [sessions EXCEPT ![c].aged = TRUE] \in [Clients -> Entry \cup {NoEntry}]
  <1>1. sessions[c] \in Entry
    BY ZenonT(40) DEF TypeOK
  <1>2. QED
    BY <1>1, EntryUpdate, ZenonT(40) DEF TypeOK

\* The fields of a CONNECT.
LEMMA RequestType ==
  ASSUME TypeOK, NEW k \in Conns
  PROVE  /\ req[k] \in Request
         /\ req[k].client \in Clients
         /\ req[k].clean \in BOOLEAN
         /\ req[k].will \in BOOLEAN
         /\ req[k].expiry \in Expiries
  BY SMTT(40) DEF TypeOK, Request

\* What reaches a connection from outside keeps the types.
LEMMA InputType ==
  ASSUME TypeOK, NEW k \in Conns, Input(k)
  PROVE  TypeOK'
  <1> USE DEF TypeOK, Labels, Reasons, mapVars, diskVars, packetVars, histVars,
              bgVars, Goto
  <1>1. CASE Reject(k)
    BY <1>1, ZenonT(40) DEF Reject
  <1>2. CASE Connect(k)
    BY <1>2, SMTT(40) DEF Connect
  <1>3. CASE Abnormal(k)
    BY <1>3, ZenonT(40) DEF Abnormal
  <1>4. CASE Disconnect(k)
    BY <1>4, ZenonT(40) DEF Disconnect
  <1>5. ASSUME NEW F \in SUBSET Filters, Subscribe(k, F) \/ Unsubscribe(k, F)
        PROVE  TypeOK'
    <2>1. packets' \in [Conns -> Nat]
      BY <1>5, SMTT(40) DEF Subscribe, Unsubscribe, ReceivePacket
    <2>2. CASE Subscribe(k, F)
      BY <2>1, <2>2, ZenonT(40) DEF Subscribe, ReceivePacket
    <2>3. CASE Unsubscribe(k, F)
      BY <2>1, <2>3, ZenonT(40) DEF Unsubscribe, ReceivePacket
    <2>4. QED
      BY <1>5, <2>2, <2>3, ZenonT(40)
  <1>6. QED
    BY <1>1, <1>2, <1>3, <1>4, <1>5, ZenonT(40) DEF Input

\* The reason for closing is set when a task leaves its main loop, and a task
\* about to publish a will has one.
PhaseOK ==
    \A k \in Conns :
        /\ pc[k] \in {"accepted", "insert", "count", "connack", "replay", "main",
                      "subscribe", "unsubscribe"} => closing[k] = "no"
        /\ pc[k] \in {"abnormal", "take_will", "publish_will", "clear_will", "cleanup",
                      "recheck", "expiry", "remove"} => closing[k] # "no"
        /\ pc[k] = "publish_will" => will[k] # NoWill

\* The steps of a connection task keep the types.
LEMMA TaskType ==
  ASSUME TypeOK, PhaseOK, NEW k \in Conns, Task(k)
  PROVE  TypeOK'
  <1> USE DEF TypeOK, Labels, Reasons, mapVars, diskVars, packetVars, histVars,
              bgVars, Goto
  <1>1. CASE RegisterCount(k)
    BY <1>1, SMTT(40) DEF RegisterCount
  <1>2. CASE ConnackSent(k)
    BY <1>2, ZenonT(40) DEF ConnackSent
  <1>3. CASE ConnackFailed(k)
    BY <1>3, ZenonT(40) DEF ConnackFailed
  <1>4. CASE Replay(k)
    BY <1>4, ZenonT(40) DEF Replay
  <1>5. CASE ShutdownSignal(k)
    BY <1>5, ZenonT(40) DEF ShutdownSignal
  <1>6. CASE RxClosed(k)
    BY <1>6, ZenonT(40) DEF RxClosed
  <1>7. CASE AckSent(k)
    BY <1>7, ZenonT(40) DEF AckSent
  <1>8. CASE PersistCheck(k)
    BY <1>8, ZenonT(40) DEF PersistCheck, Return
  <1>9. CASE PersistRead(k)
    <2>1. view' \in [Conns -> SUBSET Filters]
      BY <1>9, RequestType, ZenonT(40) DEF PersistRead
    <2>2. pc' \in [Conns -> Labels]
      BY <1>9, SMTT(40) DEF PersistRead, Return
    <2>3. QED
      BY <1>9, <2>1, <2>2, ZenonT(40) DEF PersistRead
  <1>10. CASE PersistSave(k)
    BY <1>10, ZenonT(40) DEF PersistSave, Return
  <1>11. CASE AbnormalOwns(k)
    BY <1>11, ZenonT(40) DEF AbnormalOwns
  <1>12. CASE PublishWill(k)
    <2>1. will[k] \in Conns
      BY <1>12, ZenonT(40) DEF PublishWill, PhaseOK
    <2>2. QED
      BY <1>12, <2>1, ZenonT(40) DEF PublishWill
  <1>13. CASE CleanupOwns(k)
    BY <1>13, ZenonT(40) DEF CleanupOwns
  <1>14. CASE CleanupExpired(k)
    BY <1>14, ZenonT(40) DEF CleanupExpired
  <1>15. CASE RemoveIfEpoch(k)
    <2>1. sessions' \in [Clients -> Entry \cup {NoEntry}]
      BY <1>15, RequestType, ZenonT(40) DEF RemoveIfEpoch
    <2>2. pc' \in [Conns -> Labels]
      BY <1>15, SMTT(40) DEF RemoveIfEpoch, Labels
    <2>3. QED
      BY <1>15, <2>1, <2>2, ZenonT(40) DEF RemoveIfEpoch
  <1>16. CASE RemoveUncount(k)
    BY <1>16, SMTT(40) DEF RemoveUncount
  <1>17. CASE UnsubscribeAll(k)
    BY <1>17, Zenon DEF UnsubscribeAll
  <1>18. CASE DeleteSnapshot(k)
    BY <1>18, ZenonT(40) DEF DeleteSnapshot
  <1>19. CASE MarkOffline(k)
    <2>1. Owns(k) => [sessions EXCEPT ![req[k].client].connected = FALSE]
                       \in [Clients -> Entry \cup {NoEntry}]
      BY RequestType, SessionUpdate, Zenon DEF Owns
    <2>2. sessions' \in [Clients -> Entry \cup {NoEntry}]
      BY <1>19, <2>1, Zenon DEF MarkOffline
    <2>3. onlineCount' \in Int
      BY <1>19, SMTT(40) DEF MarkOffline
    <2>4. QED
      BY <1>19, <2>2, <2>3, ZenonT(40) DEF MarkOffline
  <1>20. CASE ClearWill(k)
    <2>1. Owns(k) => [sessions EXCEPT ![req[k].client].will = NoWill]
                       \in [Clients -> Entry \cup {NoEntry}]
      BY RequestType, SessionUpdate, ZenonT(40) DEF Owns
    <2>2. QED
      BY <1>20, <2>1, ZenonT(40) DEF ClearWill
  <1>21. CASE TakeWill(k)
    <2>1. Owns(k) => [sessions EXCEPT ![req[k].client].will = NoWill]
                       \in [Clients -> Entry \cup {NoEntry}]
      BY RequestType, SessionUpdate, ZenonT(40) DEF Owns
    <2>2. Owns(k) => sessions[req[k].client].will \in Conns \cup {NoWill}
      BY RequestType, SMTT(40) DEF Owns, Entry
    <2>3. QED
      BY <1>21, <2>1, <2>2, ZenonT(40) DEF TakeWill
  <1>22. CASE RegisterInsert(k)
    BY <1>22, SMTT(40) DEF RegisterInsert, NewEntry, Displace, Entry, Request, Expiries
  <1>23. ASSUME NEW f \in Filters, SubscribeOne(k, f) \/ RefuseOne(k, f) \/ UnsubscribeOne(k, f)
        PROVE  TypeOK'
    <2>1. CASE SubscribeOne(k, f)
      BY <2>1, RequestType, ZenonT(40) DEF SubscribeOne
    <2>2. CASE RefuseOne(k, f)
      BY <2>2, ZenonT(40) DEF RefuseOne
    <2>3. CASE UnsubscribeOne(k, f)
      BY <2>3, RequestType, ZenonT(40) DEF UnsubscribeOne
    <2>4. QED
      BY <1>23, <2>1, <2>2, <2>3, ZenonT(40)
  <1>24. QED
    BY <1>1, <1>2, <1>3, <1>4, <1>5, <1>6, <1>7, <1>8, <1>9, <1>10, <1>11, <1>12, <1>13,
       <1>14, <1>15, <1>16, <1>17, <1>18, <1>19, <1>20, <1>21, <1>22, <1>23, ZenonT(40) DEF
       Task

\* The steps of the sweeper keep the types.
LEMMA SweeperType ==
  ASSUME TypeOK, Sweeper
  PROVE  TypeOK'
  <1> USE DEF TypeOK, mapVars, diskVars, packetVars, histVars, connVars, SweepState
  <1>1. CASE SweepTick
    <2>1. {<<c, sessions[c].epoch>> : c \in {d \in Clients : IsExpired(d)}}
            \in SUBSET (Clients \X Nat)
      BY SMTT(40) DEF IsExpired, Entry
    <2>2. QED
      BY <1>1, <2>1, ZenonT(40) DEF SweepTick
  <1>2. CASE SweepRemove
    <2>1. leaked' \in Nat
      BY <1>2, SMTT(40) DEF SweepRemove
    <2>2. sessions' \in [Clients -> Entry \cup {NoEntry}]
      BY <1>2, ZenonT(40) DEF SweepRemove
    <2>3. displaced' \in [Conns -> {"no", "takeover", "sweep", "admin"}]
      BY <1>2, ZenonT(40) DEF SweepRemove, Displace
    <2>4. sweep' \in SweepState
      BY <1>2, Zenon DEF SweepRemove
    <2>5. QED
      BY <1>2, <2>1, <2>2, <2>3, <2>4, ZenonT(40) DEF SweepRemove
  <1>3. CASE SweepDelete
    BY <1>3, Zenon DEF SweepDelete
  <1>4. CASE SweepDone
    BY <1>4, Zenon DEF SweepDone
  <1>5. CASE SweepStop
    BY <1>5, ZenonT(40) DEF SweepStop
  <1>6. ASSUME NEW c \in Clients, SweepScan(c)
        PROVE  TypeOK'
    BY <1>6, Zenon DEF SweepScan
  <1>7. ASSUME NEW c \in Clients, SweepRecheck(c)
        PROVE  TypeOK'
    BY <1>7, Zenon DEF SweepRecheck
  <1>8. ASSUME NEW c \in Clients, SweepUnsubscribe(c)
        PROVE  TypeOK'
    BY <1>8, Zenon DEF SweepUnsubscribe
  <1>9. QED
    BY <1>1, <1>2, <1>3, <1>4, <1>5, <1>6, <1>7, <1>8, ZenonT(40) DEF Sweeper

\* The steps of an admin request keep the types.
LEMMA AdminType ==
  ASSUME TypeOK, Admin
  PROVE  TypeOK'
  <1> USE DEF TypeOK, mapVars, diskVars, packetVars, histVars, connVars, AdminState
  <1>1. CASE AdminUnsubscribe
    BY <1>1, ZenonT(40) DEF AdminUnsubscribe
  <1>2. CASE AdminRemove
    BY <1>2, ZenonT(40) DEF AdminRemove, Displace
  <1>3. CASE AdminUncount
    BY <1>3, SMTT(40) DEF AdminUncount
  <1>4. CASE AdminDeleteSnapshot
    BY <1>4, ZenonT(40) DEF AdminDeleteSnapshot
  <1>5. ASSUME NEW c \in Clients, AdminDelete(c)
        PROVE  TypeOK'
    BY <1>5, ZenonT(40) DEF AdminDelete
  <1>6. QED
    BY <1>1, <1>2, <1>3, <1>4, <1>5, ZenonT(40) DEF Admin

\* The passing of time keeps the types.
LEMMA ElapseType ==
  ASSUME TypeOK, NEW c \in Clients, Elapse(c)
  PROVE  TypeOK'
  <1>1. sessions' \in [Clients -> Entry \cup {NoEntry}]
    BY EntryUpdate, ZenonT(40) DEF TypeOK, Elapse
  <1>2. QED
    BY <1>1, ZenonT(40) DEF TypeOK, Elapse, mapVars, diskVars, packetVars, histVars, connVars, bgVars

\* The shutdown signal keeps the types.
LEMMA ShutdownType ==
  ASSUME TypeOK, Shutdown
  PROVE  TypeOK'
  <1>1. shutdown' \in BOOLEAN
    BY ZenonT(40) DEF Shutdown
  <1>2. QED
    BY <1>1, ZenonT(40) DEF TypeOK, Shutdown, mapVars, diskVars, packetVars, histVars, connVars

\* Input leaves a task at a position that its values admit.
LEMMA InputPhase ==
  ASSUME TypeOK, PhaseOK, NEW k \in Conns, Input(k)
  PROVE  PhaseOK'
  <1> USE DEF TypeOK, PhaseOK, Goto
  <1>1. CASE Reject(k) \/ Connect(k)
    BY <1>1, SMTT(40) DEF Reject, Connect
  <1>2. CASE Abnormal(k) \/ Disconnect(k)
    BY <1>2, SMTT(40) DEF Abnormal, Disconnect
  <1>3. ASSUME NEW F \in SUBSET Filters, Subscribe(k, F) \/ Unsubscribe(k, F)
        PROVE  PhaseOK'
    BY <1>3, SMTT(40) DEF Subscribe, Unsubscribe, ReceivePacket
  <1>4. QED
    BY <1>1, <1>2, <1>3, ZenonT(40) DEF Input

\* A step of a task leads to a position that its values admit.
LEMMA TaskPhase ==
  ASSUME TypeOK, PhaseOK, NEW k \in Conns, Task(k)
  PROVE  PhaseOK'
  <1> USE DEF TypeOK, PhaseOK, Goto
  <1>1. CASE RegisterInsert(k)
    BY <1>1, ZenonT(40) DEF RegisterInsert
  <1>2. CASE RegisterCount(k) \/ ConnackSent(k) \/ Replay(k)
    BY <1>2, SMTT(40) DEF RegisterCount, ConnackSent, Replay
  <1>3. CASE ConnackFailed(k) \/ ShutdownSignal(k) \/ RxClosed(k)
    BY <1>3, SMTT(40) DEF ConnackFailed, ShutdownSignal, RxClosed
  <1>4. CASE AckSent(k)
    BY <1>4, ZenonT(40) DEF AckSent
  <1>5. CASE PersistCheck(k)
    BY <1>5, SMTT(40) DEF PersistCheck, Return
  <1>6. CASE PersistRead(k)
    BY <1>6, SMTT(40) DEF PersistRead, Return
  <1>7. CASE PersistSave(k)
    BY <1>7, ZenonT(40) DEF PersistSave, Return
  <1>8. CASE AbnormalOwns(k) \/ PublishWill(k) \/ ClearWill(k)
    BY <1>8, SMTT(40) DEF AbnormalOwns, PublishWill, ClearWill
  <1>9. CASE TakeWill(k)
    BY <1>9, ZenonT(40) DEF TakeWill
  <1>10. CASE MarkOffline(k) \/ CleanupOwns(k) \/ CleanupExpired(k)
    BY <1>10, SMTT(40) DEF MarkOffline, CleanupOwns, CleanupExpired
  <1>11. CASE RemoveIfEpoch(k)
    BY <1>11, SMTT(40) DEF RemoveIfEpoch
  <1>12. CASE RemoveUncount(k) \/ UnsubscribeAll(k) \/ DeleteSnapshot(k)
    BY <1>12, SMTT(40) DEF RemoveUncount, UnsubscribeAll, DeleteSnapshot
  <1>13. ASSUME NEW f \in Filters, SubscribeOne(k, f) \/ RefuseOne(k, f) \/ UnsubscribeOne(k, f)
         PROVE  PhaseOK'
    BY <1>13, ZenonT(40) DEF SubscribeOne, RefuseOne, UnsubscribeOne
  <1>14. QED
    BY <1>1, <1>2, <1>3, <1>4, <1>5, <1>6, <1>7, <1>8, <1>9, <1>10, <1>11, <1>12, <1>13,
       ZenonT(40) DEF Task

(***************************************************************************)
(* Who holds a session.  The two invariants that matter, TaskKeepsSession  *)
(* and OnlineSessionHasTask, are not inductive: they need that epochs are  *)
(* given once, that every entry carries the epoch of a connection that has *)
(* registered and was not displaced, and that a connection past            *)
(* remove_if_epoch has no entry left.                                      *)
(***************************************************************************)

Gone == {"uncount", "unsubscribe_all", "delete_snapshot"}

\* register() gives every epoch to one connection.
EpochsGivenOnce ==
    /\ \A k \in Conns : epoch[k] <= epochCounter
    /\ \A k \in Conns : pc[k] = "accepted" => epoch[k] = 0
    /\ \A k \in Conns : pc[k] \notin {"accepted", "done"} => epoch[k] # 0
    /\ \A j, k \in Conns : epoch[j] = epoch[k] /\ epoch[k] # 0 => j = k

HeldBy(c, k) ==
    /\ epoch[k] # 0
    /\ epoch[k] = sessions[c].epoch
    /\ req[k].client = c
    /\ req[k].clean = sessions[c].clean
    /\ pc[k] \notin {"accepted", "insert"}
    /\ displaced[k] = "no"
    /\ sessions[c].connected => Live(k)

EntriesHeld ==
    \A c \in Clients : sessions[c] # NoEntry => \E k \in Conns : HeldBy(c, k)

FreshNotDisplaced ==
    \A k \in Conns : pc[k] \in {"accepted", "insert"} => displaced[k] = "no"

GoneHoldsNothing ==
    \A k \in Conns : pc[k] \in Gone =>
        /\ displaced[k] = "no"
        /\ \A c \in Clients : sessions[c] # NoEntry => sessions[c].epoch # epoch[k]

HoldInv ==
    /\ EpochsGivenOnce
    /\ EntriesHeld
    /\ FreshNotDisplaced
    /\ TaskKeepsSession
    /\ GoneHoldsNothing

\* The entries keep their epoch, kind and state; a will or an age may change.
EntriesKept ==
    /\ \A c \in Clients : sessions'[c] = NoEntry <=> sessions[c] = NoEntry
    /\ \A c \in Clients : sessions[c] # NoEntry =>
         /\ sessions'[c].epoch = sessions[c].epoch
         /\ sessions'[c].clean = sessions[c].clean
         /\ sessions'[c].connected = sessions[c].connected

\* At the start there is no entry and no connection holds one.
LEMMA HoldInit == Init => HoldInv
  BY SMTT(40) DEF Init, HoldInv, EpochsGivenOnce, EntriesHeld, FreshNotDisplaced,
         TaskKeepsSession, GoneHoldsNothing, Gone, Live

\* A step of one task that neither registers nor gives up a session.
LocalMove(k) ==
    /\ UNCHANGED <<epochCounter, epoch, req, displaced>>
    /\ \A j \in Conns \ {k} : pc'[j] = pc[j] /\ closing'[j] = closing[j]
    /\ pc[k] \notin {"accepted", "insert", "done"}
    /\ pc'[k] \notin {"accepted", "insert"}
    /\ pc'[k] \in Gone => pc[k] \in Gone
    /\ Live(k)' => Live(k)
    /\ Live(k) => Live(k)' \/ ~Owns(k)

\* A task that moves on without touching the entries keeps who holds them.
LEMMA LocalStep ==
  ASSUME TypeOK, HoldInv, NEW k \in Conns, EntriesKept, LocalMove(k)
  PROVE  HoldInv'
  <1> USE DEF HoldInv
  <1>a. /\ UNCHANGED <<epochCounter, epoch, req, displaced>>
        /\ pc[k] \notin {"accepted", "insert", "done"}
        /\ pc'[k] \notin {"accepted", "insert"}
        /\ pc'[k] \in Gone => pc[k] \in Gone
        /\ Live(k)' => Live(k)
        /\ Live(k) => Live(k)' \/ ~Owns(k)
    BY ZenonT(40) DEF LocalMove
  <1>b. \A j \in Conns \ {k} : pc'[j] = pc[j] /\ (Live(j)' <=> Live(j))
    BY ZenonT(40) DEF LocalMove, Live
  <1>c. \A j \in Conns : pc'[j] \in {"accepted", "insert"} => pc'[j] = pc[j]
    BY <1>a, <1>b, ZenonT(40)
  <1>1. EpochsGivenOnce'
    <2>1. \A j \in Conns : pc'[j] \notin {"accepted", "done"} => pc[j] \notin {"accepted", "done"}
      BY <1>a, <1>b, ZenonT(40)
    <2>2. QED
      BY <1>a, <1>c, <2>1, ZenonT(40) DEF EpochsGivenOnce
  <1>2. EntriesHeld'
    <2> SUFFICES ASSUME NEW c \in Clients, sessions'[c] # NoEntry
                 PROVE  \E j \in Conns : HeldBy(c, j)'
      BY ZenonT(40) DEF EntriesHeld
    <2>1. /\ sessions[c] # NoEntry
          /\ sessions'[c].epoch = sessions[c].epoch
          /\ sessions'[c].clean = sessions[c].clean
          /\ sessions'[c].connected = sessions[c].connected
      BY ZenonT(40) DEF EntriesKept
    <2>2. PICK j \in Conns : HeldBy(c, j)
      BY <2>1, ZenonT(40) DEF EntriesHeld
    <2>3. pc'[j] \notin {"accepted", "insert"}
      BY <1>c, <2>2, ZenonT(40) DEF HeldBy
    <2>4. Live(j) => Live(j)'
      <3>1. Owns(j)
        BY <2>1, <2>2, ZenonT(40) DEF HeldBy, Owns
      <3>2. QED
        BY <1>a, <1>b, <3>1, ZenonT(40)
    <2>5. HeldBy(c, j)'
      BY <1>a, <2>1, <2>2, <2>3, <2>4, ZenonT(40) DEF HeldBy
    <2>6. QED
      BY <2>5, ZenonT(40)
  <1>3. FreshNotDisplaced'
    BY <1>a, <1>c, ZenonT(40) DEF FreshNotDisplaced
  <1>4. TaskKeepsSession'
    <2> SUFFICES ASSUME NEW j \in Conns, Live(j)', displaced[j] = "no"
                 PROVE  Owns(j)' /\ IsOnline(req[j].client)'
      BY <1>a, ZenonT(40) DEF TaskKeepsSession
    <2>1. Owns(j) /\ IsOnline(req[j].client)
      BY <1>a, <1>b, ZenonT(40) DEF TaskKeepsSession
    <2>2. req[j].client \in Clients
      BY RequestType, ZenonT(40)
    <2>3. QED
      BY <1>a, <2>1, <2>2, ZenonT(40) DEF EntriesKept, Owns, IsOnline
  <1>5. GoneHoldsNothing'
    <2>1. \A j \in Conns : pc'[j] \in Gone => pc[j] \in Gone
      BY <1>a, <1>b, ZenonT(40)
    <2>2. QED
      BY <1>a, <2>1, SMTT(40) DEF GoneHoldsNothing, EntriesKept
  <1>6. QED
    BY <1>1, <1>2, <1>3, <1>4, <1>5, ZenonT(40)

\* Such a step that leaves the session map alone.
LEMMA LocalStay ==
  ASSUME TypeOK, HoldInv, NEW k \in Conns, LocalMove(k), sessions' = sessions
  PROVE  HoldInv'
  <1>1. EntriesKept
    BY ZenonT(40) DEF EntriesKept
  <1>2. QED
    BY <1>1, LocalStep, ZenonT(40)

\* A step of the sweeper, the admin or the environment that removes no entry.
LEMMA QuietStep ==
  ASSUME TypeOK, HoldInv, EntriesKept,
         UNCHANGED <<epochCounter, epoch, req, displaced, pc, closing>>
  PROVE  HoldInv'
  <1> USE DEF HoldInv
  <1>1. EpochsGivenOnce' /\ FreshNotDisplaced'
    BY ZenonT(40) DEF EpochsGivenOnce, FreshNotDisplaced
  <1>2. EntriesHeld'
    <2> SUFFICES ASSUME NEW c \in Clients, sessions'[c] # NoEntry
                 PROVE  \E j \in Conns : HeldBy(c, j)'
      BY ZenonT(40) DEF EntriesHeld
    <2>1. /\ sessions[c] # NoEntry
          /\ sessions'[c].epoch = sessions[c].epoch
          /\ sessions'[c].clean = sessions[c].clean
          /\ sessions'[c].connected = sessions[c].connected
      BY ZenonT(40) DEF EntriesKept
    <2>2. PICK j \in Conns : HeldBy(c, j)
      BY <2>1, ZenonT(40) DEF EntriesHeld
    <2>3. HeldBy(c, j)'
      BY <2>1, <2>2, ZenonT(40) DEF HeldBy, Live
    <2>4. QED
      BY <2>3, ZenonT(40)
  <1>3. TaskKeepsSession'
    <2> SUFFICES ASSUME NEW j \in Conns, Live(j)', displaced[j] = "no"
                 PROVE  Owns(j)' /\ IsOnline(req[j].client)'
      BY ZenonT(40) DEF TaskKeepsSession
    <2>1. Owns(j) /\ IsOnline(req[j].client)
      BY ZenonT(40) DEF TaskKeepsSession, Live
    <2>2. req[j].client \in Clients
      BY RequestType, ZenonT(40)
    <2>3. QED
      BY <2>1, <2>2, ZenonT(40) DEF EntriesKept, Owns, IsOnline
  <1>4. GoneHoldsNothing'
    BY SMTT(40) DEF GoneHoldsNothing, EntriesKept
  <1>5. QED
    BY <1>1, <1>2, <1>3, <1>4, ZenonT(40)

\* What Displace does to one connection.
LEMMA DisplaceEffect ==
  ASSUME NEW c \in Clients, NEW why, why # "no", Displace(c, why), NEW j \in Conns
  PROVE  /\ displaced'[j] = "no" => displaced[j] = "no"
         /\ displaced'[j] = "no" /\ sessions[c] # NoEntry => epoch[j] # sessions[c].epoch
         /\ sessions[c] = NoEntry \/ epoch[j] # sessions[c].epoch => displaced'[j] = displaced[j]
  BY ZenonT(40) DEF Displace

\* The epoch of an entry is the epoch of its holder only.
LEMMA HolderUnique ==
  ASSUME HoldInv, NEW c \in Clients, NEW j \in Conns, sessions[c] # NoEntry,
         epoch[j] = sessions[c].epoch
  PROVE  HeldBy(c, j)
  <1>1. PICK i \in Conns : HeldBy(c, i)
    BY ZenonT(40) DEF HoldInv, EntriesHeld
  <1>2. i = j
    BY <1>1, ZenonT(40) DEF HeldBy, HoldInv, EpochsGivenOnce
  <1>3. QED
    BY <1>1, <1>2, ZenonT(40)

\* A step of the sweeper or the admin that removes an entry.
LEMMA RemovalStep ==
  ASSUME TypeOK, HoldInv, NEW c \in Clients, NEW why \in {"sweep", "admin"},
         sessions' = [sessions EXCEPT ![c] = NoEntry],
         Displace(c, why),
         UNCHANGED <<epochCounter, epoch, req, pc, closing>>
  PROVE  HoldInv'
  <1> USE DEF HoldInv
  <1>a. sessions'[c] = NoEntry /\ \A d \in Clients \ {c} : sessions'[d] = sessions[d]
    BY ZenonT(40) DEF TypeOK
  <1>b. why # "no"
    OBVIOUS
  <1>1. EpochsGivenOnce'
    BY ZenonT(40) DEF EpochsGivenOnce
  <1>2. EntriesHeld'
    <2> SUFFICES ASSUME NEW d \in Clients, sessions'[d] # NoEntry
                 PROVE  \E j \in Conns : HeldBy(d, j)'
      BY ZenonT(40) DEF EntriesHeld
    <2>1. d # c /\ sessions'[d] = sessions[d]
      BY <1>a, ZenonT(40)
    <2>2. PICK j \in Conns : HeldBy(d, j)
      BY <2>1, ZenonT(40) DEF EntriesHeld
    <2>3. sessions[c] = NoEntry \/ epoch[j] # sessions[c].epoch
      BY <2>1, <2>2, HolderUnique, SMTT(40) DEF HeldBy
    <2>4. displaced'[j] = displaced[j]
      BY <1>b, <2>3, DisplaceEffect, ZenonT(40)
    <2>5. HeldBy(d, j)'
      BY <2>1, <2>2, <2>4, ZenonT(40) DEF HeldBy, Live
    <2>6. QED
      BY <2>5, ZenonT(40)
  <1>3. FreshNotDisplaced'
    <2> SUFFICES ASSUME NEW j \in Conns, pc[j] \in {"accepted", "insert"}
                 PROVE  displaced'[j] = "no"
      BY ZenonT(40) DEF FreshNotDisplaced
    <2>1. sessions[c] = NoEntry \/ epoch[j] # sessions[c].epoch
      BY HolderUnique, ZenonT(40) DEF HeldBy
    <2>2. QED
      BY <1>b, <2>1, DisplaceEffect, ZenonT(40) DEF FreshNotDisplaced
  <1>4. TaskKeepsSession'
    <2> SUFFICES ASSUME NEW j \in Conns, Live(j), displaced'[j] = "no"
                 PROVE  Owns(j)' /\ IsOnline(req[j].client)'
      BY ZenonT(40) DEF TaskKeepsSession, Live
    <2>1. Owns(j) /\ IsOnline(req[j].client)
      BY <1>b, DisplaceEffect, ZenonT(40) DEF TaskKeepsSession
    <2>2. req[j].client # c
      BY <1>b, <2>1, DisplaceEffect, ZenonT(40) DEF Owns
    <2>3. req[j].client \in Clients
      BY RequestType, ZenonT(40)
    <2>4. QED
      BY <1>a, <2>1, <2>2, <2>3, ZenonT(40) DEF Owns, IsOnline
  <1>5. GoneHoldsNothing'
    <2> SUFFICES ASSUME NEW j \in Conns, pc[j] \in Gone
                 PROVE  /\ displaced'[j] = "no"
                        /\ \A d \in Clients : sessions'[d] # NoEntry =>
                             sessions'[d].epoch # epoch[j]
      BY ZenonT(40) DEF GoneHoldsNothing
    <2>1. sessions[c] = NoEntry \/ epoch[j] # sessions[c].epoch
      BY ZenonT(40) DEF GoneHoldsNothing
    <2>2. displaced'[j] = "no"
      BY <1>b, <2>1, DisplaceEffect, ZenonT(40) DEF GoneHoldsNothing
    <2>3. QED
      BY <1>a, <2>2, SMTT(40) DEF GoneHoldsNothing
  <1>6. QED
    BY <1>1, <1>2, <1>3, <1>4, <1>5, ZenonT(40)

\* The entry that register inserts is that of its connection.
LEMMA NewEntryType ==
  ASSUME TypeOK, NEW k \in Conns
  PROVE  /\ NewEntry(k) \in Entry
         /\ NewEntry(k) # NoEntry
         /\ NewEntry(k).epoch = epoch[k]
         /\ NewEntry(k).clean = req[k].clean
         /\ NewEntry(k).connected = TRUE
  <1>1. NewEntry(k) \in Entry
    BY RequestType, ZenonT(40) DEF TypeOK, NewEntry, Entry, Expiries
  <1>2. NewEntry(k) # NoEntry
    BY <1>1, ZenonT(40)
  <1>3. QED
    BY <1>1, <1>2, ZenonT(40) DEF NewEntry

\* register_session gives the entry to its connection and displaces the holder.
LEMMA RegisterHold ==
  ASSUME TypeOK, HoldInv, NEW k \in Conns, RegisterInsert(k)
  PROVE  HoldInv'
  <1> DEFINE c == req[k].client
             e == NewEntry(k)
  <1>z. c \in Clients
    BY RequestType, ZenonT(40)
  <1>y. e # NoEntry /\ e.epoch = epoch[k] /\ e.clean = req[k].clean /\ e.connected
    BY NewEntryType, Zenon
  <1>0. /\ c \in Clients
        /\ e # NoEntry /\ e.epoch = epoch[k] /\ e.clean = req[k].clean /\ e.connected
    BY <1>z, <1>y, ZenonT(40)
  <1>a. /\ UNCHANGED <<epochCounter, epoch, req, closing>>
        /\ Displace(c, "takeover")
        /\ pc[k] = "insert"
        /\ sessions' = [sessions EXCEPT ![c] = e]
    BY ZenonT(40) DEF RegisterInsert
  <1>p. pc'[k] \in {"connack", "count"} /\ \A j \in Conns \ {k} : pc'[j] = pc[j]
    BY ZenonT(40) DEF RegisterInsert, Goto, TypeOK
  <1>s. sessions'[c] = e /\ \A d \in Clients \ {c} : sessions'[d] = sessions[d]
    BY <1>0, <1>a, ZenonT(40) DEF TypeOK
  <1>b. epoch[k] # 0 /\ displaced[k] = "no"
    BY <1>a, ZenonT(40) DEF HoldInv, EpochsGivenOnce, FreshNotDisplaced
  <1>c. \A j \in Conns : req[j].client \in Clients
    BY RequestType, ZenonT(40)
  <1>d. req[k].client = c
    OBVIOUS
  <1>k. sessions[c] = NoEntry \/ epoch[k] # sessions[c].epoch
    BY <1>0, <1>a, HolderUnique, ZenonT(40) DEF HeldBy
  <1>x. \A j \in Conns :
          /\ displaced'[j] = "no" => displaced[j] = "no"
          /\ displaced'[j] = "no" /\ sessions[c] # NoEntry => epoch[j] # sessions[c].epoch
          /\ sessions[c] = NoEntry \/ epoch[j] # sessions[c].epoch =>
               displaced'[j] = displaced[j]
    BY <1>a, ZenonT(40) DEF Displace
  <1> HIDE DEF e, c
  <1>1. EpochsGivenOnce'
    BY <1>a, <1>p, <1>b, ZenonT(40) DEF HoldInv, EpochsGivenOnce
  <1>2. EntriesHeld'
    <2> SUFFICES ASSUME NEW d \in Clients, sessions'[d] # NoEntry
                 PROVE  \E j \in Conns : HeldBy(d, j)'
      BY ZenonT(40) DEF EntriesHeld
    <2>1. CASE d = c
      <3>1. displaced'[k] = "no"
        BY <1>b, <1>k, <1>x, ZenonT(40)
      <3>2. Live(k)'
        BY <1>p, ZenonT(40) DEF Live
      <3>3. /\ sessions'[d].epoch = epoch[k] /\ sessions'[d].clean = req[k].clean
            /\ req[k].client = d
        BY <1>y, <1>s, <1>d, <2>1, ZenonT(40)
      <3>4. HeldBy(d, k)'
        BY <1>a, <1>p, <1>b, <3>1, <3>2, <3>3, ZenonT(40) DEF HeldBy
      <3>5. QED
        BY <3>4, ZenonT(40)
    <2>2. CASE d # c
      <3>1. sessions'[d] = sessions[d]
        BY <1>s, <2>2, ZenonT(40)
      <3>2. PICK j \in Conns : HeldBy(d, j)
        BY <3>1, ZenonT(40) DEF HoldInv, EntriesHeld
      <3>3. j # k /\ req[j].client = d
        BY <1>a, <3>2, ZenonT(40) DEF HeldBy
      <3>4. sessions[c] = NoEntry \/ epoch[j] # sessions[c].epoch
        BY <1>0, <2>2, <3>3, HolderUnique, SMTT(40) DEF HeldBy
      <3>5. displaced'[j] = displaced[j]
        BY <1>x, <3>4, ZenonT(40)
      <3>6. pc'[j] = pc[j] /\ (Live(j)' <=> Live(j))
        BY <1>a, <1>p, <3>3, ZenonT(40) DEF Live
      <3>7. HeldBy(d, j)'
        BY <1>a, <3>1, <3>2, <3>5, <3>6, ZenonT(40) DEF HeldBy
      <3>8. QED
        BY <3>7, ZenonT(40)
    <2>3. QED
      BY <2>1, <2>2, ZenonT(40)
  <1>3. FreshNotDisplaced'
    <2> SUFFICES ASSUME NEW j \in Conns, pc'[j] \in {"accepted", "insert"}
                 PROVE  displaced'[j] = "no"
      BY ZenonT(40) DEF FreshNotDisplaced
    <2>1. pc[j] \in {"accepted", "insert"}
      BY <1>p, ZenonT(40)
    <2>2. sessions[c] = NoEntry \/ epoch[j] # sessions[c].epoch
      BY <1>0, <2>1, HolderUnique, ZenonT(40) DEF HeldBy
    <2>3. displaced'[j] = displaced[j]
      BY <1>0, <1>x, <2>2, ZenonT(40)
    <2>4. QED
      BY <2>1, <2>3, ZenonT(40) DEF HoldInv, FreshNotDisplaced
  <1>4. TaskKeepsSession'
    <2> SUFFICES ASSUME NEW j \in Conns, Live(j)', displaced'[j] = "no"
                 PROVE  Owns(j)' /\ IsOnline(req[j].client)'
      BY <1>a, ZenonT(40) DEF TaskKeepsSession
    <2>1. CASE j = k
      BY <1>0, <1>a, <1>s, <1>d, <2>1, ZenonT(40) DEF Owns, IsOnline
    <2>2. CASE j # k
      <3>0. Live(j)
        BY <1>a, <1>p, <2>2, ZenonT(40) DEF Live
      <3>1. /\ displaced[j] = "no"
            /\ sessions[c] # NoEntry => epoch[j] # sessions[c].epoch
        BY <1>x, ZenonT(40)
      <3>2. Owns(j) /\ IsOnline(req[j].client)
        BY <3>0, <3>1, ZenonT(40) DEF HoldInv, TaskKeepsSession
      <3>3. req[j].client # c
        BY <3>1, <3>2, ZenonT(40) DEF Owns
      <3>4. sessions'[req[j].client] = sessions[req[j].client]
        BY <1>c, <1>s, <3>3, ZenonT(40)
      <3>5. QED
        BY <1>a, <3>2, <3>4, ZenonT(40) DEF Owns, IsOnline
    <2>3. QED
      BY <2>1, <2>2, ZenonT(40)
  <1>5. GoneHoldsNothing'
    <2> SUFFICES ASSUME NEW j \in Conns, pc'[j] \in Gone
                 PROVE  /\ displaced'[j] = "no"
                        /\ \A d \in Clients : sessions'[d] # NoEntry =>
                             sessions'[d].epoch # epoch[j]
      BY <1>a, ZenonT(40) DEF GoneHoldsNothing
    <2>1. j # k /\ pc[j] \in Gone
      BY <1>p, ZenonT(40) DEF Gone
    <2>2. /\ displaced[j] = "no"
          /\ \A d \in Clients : sessions[d] # NoEntry => sessions[d].epoch # epoch[j]
      BY <2>1, ZenonT(40) DEF HoldInv, GoneHoldsNothing
    <2>3. displaced'[j] = "no"
      BY <1>0, <1>x, <2>2, ZenonT(40)
    <2>4. epoch[j] # epoch[k]
      BY <1>b, <2>1, ZenonT(40) DEF HoldInv, EpochsGivenOnce
    <2>5. QED
      BY <1>0, <1>s, <2>2, <2>3, <2>4, ZenonT(40)
  <1>6. QED
    BY <1>1, <1>2, <1>3, <1>4, <1>5, ZenonT(40) DEF HoldInv

\* A connection that is accepted gets an epoch nobody has.
LEMMA ConnectHold ==
  ASSUME TypeOK, HoldInv, NEW k \in Conns, Connect(k)
  PROVE  HoldInv'
  <1>0. epochCounter \in Nat /\ epoch \in [Conns -> Nat]
    BY ZenonT(40) DEF TypeOK
  <1>1. /\ pc[k] = "accepted"
        /\ epochCounter' = epochCounter + 1
        /\ UNCHANGED <<sessions, req, displaced, closing>>
    BY ZenonT(40) DEF Connect, histVars
  <1>p. pc'[k] = "insert" /\ \A j \in Conns \ {k} : pc'[j] = pc[j]
    BY ZenonT(40) DEF Connect, Goto, TypeOK
  <1>e. epoch'[k] = epochCounter + 1 /\ \A j \in Conns \ {k} : epoch'[j] = epoch[j]
    BY <1>0, ZenonT(40) DEF Connect
  <1>k. epoch[k] = 0 /\ \A j \in Conns : epoch[j] <= epochCounter
    BY <1>1, ZenonT(40) DEF HoldInv, EpochsGivenOnce
  <1>2. EpochsGivenOnce'
    <2>1. \A j \in Conns : epoch'[j] <= epochCounter'
      BY <1>0, <1>1, <1>e, <1>k, SMTT(40)
    <2>2. \A j \in Conns : pc'[j] = "accepted" => epoch'[j] = 0
      BY <1>p, <1>e, ZenonT(40) DEF HoldInv, EpochsGivenOnce
    <2>3. \A j \in Conns : pc'[j] \notin {"accepted", "done"} => epoch'[j] # 0
      BY <1>0, <1>p, <1>e, SMTT(40) DEF HoldInv, EpochsGivenOnce
    <2>4. ASSUME NEW i \in Conns, NEW j \in Conns, epoch'[i] = epoch'[j], epoch'[j] # 0
          PROVE  i = j
      BY <1>0, <1>e, <1>k, <2>4, SMTT(40) DEF HoldInv, EpochsGivenOnce
    <2>5. QED
      BY <2>1, <2>2, <2>3, <2>4, ZenonT(40) DEF EpochsGivenOnce
  <1>3. EntriesHeld'
    <2> SUFFICES ASSUME NEW c \in Clients, sessions[c] # NoEntry
                 PROVE  \E j \in Conns : HeldBy(c, j)'
      BY <1>1, ZenonT(40) DEF EntriesHeld
    <2>1. PICK j \in Conns : HeldBy(c, j)
      BY ZenonT(40) DEF HoldInv, EntriesHeld
    <2>2. j # k
      BY <1>1, <2>1, ZenonT(40) DEF HeldBy
    <2>3. HeldBy(c, j)'
      BY <1>1, <1>p, <1>e, <2>1, <2>2, ZenonT(40) DEF HeldBy, Live
    <2>4. QED
      BY <2>3, ZenonT(40)
  <1>4. FreshNotDisplaced'
    BY <1>1, <1>p, ZenonT(40) DEF HoldInv, FreshNotDisplaced
  <1>5. TaskKeepsSession'
    <2> SUFFICES ASSUME NEW j \in Conns, Live(j)', displaced[j] = "no"
                 PROVE  Owns(j)' /\ IsOnline(req[j].client)'
      BY <1>1, ZenonT(40) DEF TaskKeepsSession
    <2>1. j # k /\ Live(j)
      BY <1>1, <1>p, ZenonT(40) DEF Live
    <2>2. Owns(j) /\ IsOnline(req[j].client)
      BY <2>1, ZenonT(40) DEF HoldInv, TaskKeepsSession
    <2>3. QED
      BY <1>1, <1>e, <2>1, <2>2, ZenonT(40) DEF Owns, IsOnline
  <1>6. GoneHoldsNothing'
    <2> SUFFICES ASSUME NEW j \in Conns, pc'[j] \in Gone
                 PROVE  /\ displaced[j] = "no"
                        /\ \A d \in Clients : sessions[d] # NoEntry =>
                             sessions[d].epoch # epoch'[j]
      BY <1>1, ZenonT(40) DEF GoneHoldsNothing
    <2>1. j # k /\ pc[j] \in Gone
      BY <1>p, ZenonT(40) DEF Gone
    <2>2. QED
      BY <1>e, <2>1, ZenonT(40) DEF HoldInv, GoneHoldsNothing
  <1>7. QED
    BY <1>2, <1>3, <1>4, <1>5, <1>6, ZenonT(40) DEF HoldInv

\* Rejecting a connection before it registered.
LEMMA RejectHold ==
  ASSUME TypeOK, HoldInv, NEW k \in Conns, Reject(k)
  PROVE  HoldInv'
  <1>1. /\ pc[k] = "accepted"
        /\ UNCHANGED <<sessions, epochCounter, epoch, req, displaced, closing>>
    BY ZenonT(40) DEF Reject, histVars, mapVars
  <1>p. pc'[k] = "done" /\ \A j \in Conns \ {k} : pc'[j] = pc[j]
    BY ZenonT(40) DEF Reject, Goto, TypeOK
  <1>2. \A j \in Conns : Live(j)' <=> Live(j)
    BY <1>1, <1>p, ZenonT(40) DEF Live
  <1>3. EpochsGivenOnce'
    BY <1>1, <1>p, ZenonT(40) DEF HoldInv, EpochsGivenOnce
  <1>4. EntriesHeld'
    <2> SUFFICES ASSUME NEW c \in Clients, sessions[c] # NoEntry
                 PROVE  \E j \in Conns : HeldBy(c, j)'
      BY <1>1, ZenonT(40) DEF EntriesHeld
    <2>1. PICK j \in Conns : HeldBy(c, j)
      BY ZenonT(40) DEF HoldInv, EntriesHeld
    <2>2. HeldBy(c, j)'
      BY <1>1, <1>p, <1>2, <2>1, ZenonT(40) DEF HeldBy
    <2>3. QED
      BY <2>2, ZenonT(40)
  <1>5. FreshNotDisplaced'
    BY <1>1, <1>p, ZenonT(40) DEF HoldInv, FreshNotDisplaced
  <1>6. TaskKeepsSession'
    BY <1>1, <1>2, ZenonT(40) DEF HoldInv, TaskKeepsSession, Owns, IsOnline
  <1>7. GoneHoldsNothing'
    BY <1>1, <1>p, ZenonT(40) DEF HoldInv, GoneHoldsNothing, Gone
  <1>8. QED
    BY <1>3, <1>4, <1>5, <1>6, <1>7, ZenonT(40) DEF HoldInv

\* A connection whose epoch is in the map holds that entry.
LEMMA OwnerHolds ==
  ASSUME TypeOK, HoldInv, NEW k \in Conns, Owns(k), pc[k] \notin {"accepted", "done"}
  PROVE  HeldBy(req[k].client, k)
  <1>1. epoch[k] # 0 /\ req[k].client \in Clients
    BY RequestType, ZenonT(40) DEF HoldInv, EpochsGivenOnce
  <1>2. PICK j \in Conns : HeldBy(req[k].client, j)
    BY <1>1, ZenonT(40) DEF HoldInv, EntriesHeld, Owns
  <1>3. j = k
    BY <1>1, <1>2, ZenonT(40) DEF HeldBy, Owns, HoldInv, EpochsGivenOnce
  <1>4. QED
    BY <1>2, <1>3, ZenonT(40)

\* Two connections of one client do not both own its entry.
LEMMA OneOwner ==
  ASSUME TypeOK, HoldInv, NEW j \in Conns, NEW k \in Conns, Owns(j), Owns(k),
         req[j].client = req[k].client, pc[k] \notin {"accepted", "done"}
  PROVE  j = k
  <1>1. epoch[j] = epoch[k] /\ epoch[k] # 0
    BY ZenonT(40) DEF Owns, HoldInv, EpochsGivenOnce
  <1>2. QED
    BY <1>1, ZenonT(40) DEF HoldInv, EpochsGivenOnce

(***************************************************************************)
(* The steps that give a session up, and all the others.                   *)
(***************************************************************************)

\* A connection gives up its own session: mark_offline or remove_if_epoch.
LEMMA MarkOfflineHold ==
  ASSUME TypeOK, HoldInv, NEW k \in Conns, MarkOffline(k)
  PROVE  HoldInv'
  <1> DEFINE c == req[k].client
  <1>1. /\ pc[k] = "cleanup"
        /\ UNCHANGED <<epochCounter, epoch, req, displaced, closing>>
    BY ZenonT(40) DEF MarkOffline, histVars
  <1>p. pc'[k] = "recheck" /\ \A j \in Conns \ {k} : pc'[j] = pc[j]
    BY ZenonT(40) DEF MarkOffline, Goto, TypeOK
  <1>d. req[k].client = c /\ c \in Clients
    BY RequestType, ZenonT(40)
  <1>o. Owns(k) <=> sessions[c] # NoEntry /\ sessions[c].epoch = epoch[k]
    BY ZenonT(40) DEF Owns
  <1>h. \A j \in Conns \ {k} : Live(j)' <=> Live(j)
    BY <1>1, <1>p, ZenonT(40) DEF Live
  <1>l. Live(k) /\ ~Live(k)'
    BY <1>1, <1>p, ZenonT(40) DEF Live
  <1>2. CASE ~(Owns(k) /\ sessions[c].connected)
    <2>1. sessions' = sessions
      BY <1>2, ZenonT(40) DEF MarkOffline
    <2>2. ~Owns(k)
      <3>1. Owns(k) => HeldBy(c, k)
        BY <1>1, OwnerHolds, ZenonT(40)
      <3>2. Owns(k) => IsOnline(c)
        BY <1>l, <3>1, ZenonT(40) DEF HoldInv, TaskKeepsSession, HeldBy
      <3>3. QED
        BY <1>2, <3>2, ZenonT(40) DEF IsOnline
    <2>3. LocalMove(k)
      BY <1>1, <1>p, <1>l, <2>2, ZenonT(40) DEF LocalMove, Gone
    <2>4. QED
      BY <2>1, <2>3, LocalStay, ZenonT(40)
  <1>3. CASE Owns(k) /\ sessions[c].connected
    <2>0. sessions[c] \in Entry
      BY <1>3, <1>d, <1>o, ZenonT(40) DEF TypeOK
    <2>1. /\ sessions'[c] = [sessions[c] EXCEPT !.connected = FALSE]
          /\ \A d \in Clients \ {c} : sessions'[d] = sessions[d]
      BY <1>3, <1>d, ZenonT(40) DEF MarkOffline, TypeOK
    <2> HIDE DEF c
    <2>2. /\ sessions'[c].epoch = epoch[k]
          /\ sessions'[c].clean = sessions[c].clean
          /\ sessions'[c].connected = FALSE
      BY <1>3, <1>o, <2>0, <2>1, ZenonT(40) DEF Entry
    <2>3. EpochsGivenOnce'
      BY <1>1, <1>p, ZenonT(40) DEF HoldInv, EpochsGivenOnce
    <2>4. EntriesHeld'
      <3> SUFFICES ASSUME NEW d \in Clients, sessions'[d] # NoEntry
                   PROVE  \E j \in Conns : HeldBy(d, j)'
        BY ZenonT(40) DEF EntriesHeld
      <3>1. sessions[d] # NoEntry
        BY <1>3, <1>o, <2>1, ZenonT(40)
      <3>2. PICK j \in Conns : HeldBy(d, j)
        BY <3>1, ZenonT(40) DEF HoldInv, EntriesHeld
      <3>3. pc'[j] \notin {"accepted", "insert"}
        BY <1>p, <3>2, ZenonT(40) DEF HeldBy
      <3>4. CASE d = c
        <4>1. epoch[j] = epoch[k]
          BY <1>3, <1>o, <3>2, <3>4, ZenonT(40) DEF HeldBy
        <4>2. HeldBy(d, j)'
          BY <1>1, <2>2, <3>2, <3>3, <3>4, <4>1, ZenonT(40) DEF HeldBy
        <4>3. QED
          BY <4>2, ZenonT(40)
      <3>5. CASE d # c
        <4>1. j # k
          BY <1>d, <3>2, <3>5, ZenonT(40) DEF HeldBy
        <4>2. HeldBy(d, j)'
          BY <1>1, <1>h, <2>1, <3>2, <3>3, <3>5, <4>1, ZenonT(40) DEF HeldBy
        <4>3. QED
          BY <4>2, ZenonT(40)
      <3>6. QED
        BY <3>4, <3>5, ZenonT(40)
    <2>5. FreshNotDisplaced'
      BY <1>1, <1>p, ZenonT(40) DEF HoldInv, FreshNotDisplaced
    <2>6. TaskKeepsSession'
      <3> SUFFICES ASSUME NEW j \in Conns, Live(j)', displaced[j] = "no"
                   PROVE  Owns(j)' /\ IsOnline(req[j].client)'
        BY <1>1, ZenonT(40) DEF TaskKeepsSession
      <3>1. j # k /\ Live(j)
        BY <1>h, <1>l, ZenonT(40)
      <3>2. Owns(j) /\ IsOnline(req[j].client)
        BY <3>1, ZenonT(40) DEF HoldInv, TaskKeepsSession
      <3>3. req[j].client # c
        BY <1>1, <1>3, <1>d, <3>1, <3>2, OneOwner, ZenonT(40)
      <3>4. sessions'[req[j].client] = sessions[req[j].client]
        BY <2>1, <3>3, RequestType, ZenonT(40)
      <3>5. QED
        BY <1>1, <3>2, <3>4, ZenonT(40) DEF Owns, IsOnline
    <2>7. GoneHoldsNothing'
      <3> SUFFICES ASSUME NEW j \in Conns, pc'[j] \in Gone
                   PROVE  /\ displaced[j] = "no"
                          /\ \A d \in Clients : sessions'[d] # NoEntry =>
                               sessions'[d].epoch # epoch[j]
        BY <1>1, ZenonT(40) DEF GoneHoldsNothing
      <3>1. pc[j] \in Gone
        BY <1>p, ZenonT(40) DEF Gone
      <3>2. /\ displaced[j] = "no"
            /\ \A d \in Clients : sessions[d] # NoEntry => sessions[d].epoch # epoch[j]
        BY <3>1, ZenonT(40) DEF HoldInv, GoneHoldsNothing
      <3>3. sessions[c].epoch = epoch[k] /\ sessions[c] # NoEntry
        BY <1>3, <1>o, ZenonT(40)
      <3>4. epoch[k] # epoch[j]
        BY <1>d, <3>2, <3>3, ZenonT(40)
      <3>5. ASSUME NEW d \in Clients, sessions'[d] # NoEntry
            PROVE  sessions'[d].epoch # epoch[j]
        <4>1. CASE d = c
          BY <2>2, <3>4, <4>1, ZenonT(40)
        <4>2. CASE d # c
          BY <2>1, <3>2, <3>5, <4>2, ZenonT(40)
        <4>3. QED
          BY <4>1, <4>2, ZenonT(40)
      <3>6. QED
        BY <3>2, <3>5, ZenonT(40)
    <2>8. QED
      BY <2>3, <2>4, <2>5, <2>6, <2>7, ZenonT(40) DEF HoldInv
  <1>4. QED
    BY <1>2, <1>3, ZenonT(40)

\* remove_if_epoch removes the entry of its own connection only.
LEMMA RemoveIfEpochHold ==
  ASSUME TypeOK, HoldInv, NEW k \in Conns, RemoveIfEpoch(k)
  PROVE  HoldInv'
  <1> DEFINE c == req[k].client
  <1>1. /\ pc[k] \in {"cleanup", "remove"}
        /\ UNCHANGED <<epochCounter, epoch, req, displaced, closing>>
    BY ZenonT(40) DEF RemoveIfEpoch, histVars
  <1>p. /\ pc'[k] \in IF Owns(k) THEN {"uncount", "unsubscribe_all"} ELSE {"done"}
        /\ \A j \in Conns \ {k} : pc'[j] = pc[j]
    BY ZenonT(40) DEF RemoveIfEpoch, Goto, TypeOK
  <1>d. req[k].client = c /\ c \in Clients
    BY RequestType, ZenonT(40)
  <1>h. \A j \in Conns \ {k} : Live(j)' <=> Live(j)
    BY <1>1, <1>p, ZenonT(40) DEF Live
  <1>l. ~Live(k)'
    BY <1>p, ZenonT(40) DEF Live
  <1>2. CASE ~Owns(k)
    <2>1. sessions' = sessions
      BY <1>2, ZenonT(40) DEF RemoveIfEpoch
    <2>2. LocalMove(k)
      BY <1>1, <1>2, <1>p, <1>l, ZenonT(40) DEF LocalMove, Gone
    <2>3. QED
      BY <2>1, <2>2, LocalStay, ZenonT(40)
  <1>3. CASE Owns(k)
    <2>1. sessions'[c] = NoEntry /\ \A d \in Clients \ {c} : sessions'[d] = sessions[d]
      BY <1>3, <1>d, ZenonT(40) DEF RemoveIfEpoch, TypeOK
    <2>2. HeldBy(c, k)
      BY <1>1, <1>3, OwnerHolds, ZenonT(40)
    <2> HIDE DEF c
    <2>3. EpochsGivenOnce'
      BY <1>1, <1>p, <1>3, ZenonT(40) DEF HoldInv, EpochsGivenOnce
    <2>4. EntriesHeld'
      <3> SUFFICES ASSUME NEW d \in Clients, sessions'[d] # NoEntry
                   PROVE  \E j \in Conns : HeldBy(d, j)'
        BY ZenonT(40) DEF EntriesHeld
      <3>1. d # c /\ sessions'[d] = sessions[d]
        BY <2>1, ZenonT(40)
      <3>2. PICK j \in Conns : HeldBy(d, j)
        BY <3>1, ZenonT(40) DEF HoldInv, EntriesHeld
      <3>3. j # k
        BY <1>d, <3>1, <3>2, ZenonT(40) DEF HeldBy
      <3>4. HeldBy(d, j)'
        BY <1>1, <1>p, <1>h, <3>1, <3>2, <3>3, ZenonT(40) DEF HeldBy
      <3>5. QED
        BY <3>4, ZenonT(40)
    <2>5. FreshNotDisplaced'
      BY <1>1, <1>p, <1>3, ZenonT(40) DEF HoldInv, FreshNotDisplaced
    <2>6. TaskKeepsSession'
      <3> SUFFICES ASSUME NEW j \in Conns, Live(j)', displaced[j] = "no"
                   PROVE  Owns(j)' /\ IsOnline(req[j].client)'
        BY <1>1, ZenonT(40) DEF TaskKeepsSession
      <3>1. j # k /\ Live(j)
        BY <1>h, <1>l, ZenonT(40)
      <3>2. Owns(j) /\ IsOnline(req[j].client)
        BY <3>1, ZenonT(40) DEF HoldInv, TaskKeepsSession
      <3>3. req[j].client # c
        BY <1>1, <1>3, <1>d, <3>1, <3>2, OneOwner, ZenonT(40)
      <3>4. sessions'[req[j].client] = sessions[req[j].client]
        BY <2>1, <3>3, RequestType, ZenonT(40)
      <3>5. QED
        BY <1>1, <3>2, <3>4, ZenonT(40) DEF Owns, IsOnline
    <2>7. GoneHoldsNothing'
      <3> SUFFICES ASSUME NEW j \in Conns, pc'[j] \in Gone
                   PROVE  /\ displaced[j] = "no"
                          /\ \A d \in Clients : sessions'[d] # NoEntry =>
                               sessions'[d].epoch # epoch[j]
        BY <1>1, ZenonT(40) DEF GoneHoldsNothing
      <3>1. CASE j # k
        <4>1. pc[j] \in Gone
          BY <1>p, <3>1, ZenonT(40)
        <4>2. QED
          BY <2>1, <4>1, ZenonT(40) DEF HoldInv, GoneHoldsNothing
      <3>2. CASE j = k
        <4>1. displaced[k] = "no"
          BY <2>2, ZenonT(40) DEF HeldBy
        <4>2. ASSUME NEW d \in Clients, sessions'[d] # NoEntry
              PROVE  sessions'[d].epoch # epoch[k]
          <5>1. d # c /\ sessions'[d] = sessions[d]
            BY <2>1, <4>2, ZenonT(40)
          <5>2. epoch[k] = sessions[d].epoch => HeldBy(d, k)
            BY <4>2, <5>1, HolderUnique, ZenonT(40)
          <5>3. QED
            BY <1>d, <5>1, <5>2, ZenonT(40) DEF HeldBy
        <4>3. QED
          BY <3>2, <4>1, <4>2, ZenonT(40)
      <3>3. QED
        BY <3>1, <3>2, ZenonT(40)
    <2>8. QED
      BY <2>3, <2>4, <2>5, <2>6, <2>7, ZenonT(40) DEF HoldInv
  <1>4. QED
    BY <1>2, <1>3, ZenonT(40)

\* Input keeps who holds the entries.
LEMMA InputHold ==
  ASSUME TypeOK, HoldInv, NEW k \in Conns, Input(k)
  PROVE  HoldInv'
  <1>0. pc \in [Conns -> Labels] /\ closing \in [Conns -> Reasons]
    BY ZenonT(40) DEF TypeOK
  <1>1. CASE Reject(k)
    BY <1>1, RejectHold, ZenonT(40)
  <1>2. CASE Connect(k)
    BY <1>2, ConnectHold, ZenonT(40)
  <1>3. CASE Abnormal(k)
    <2>1. LocalMove(k) /\ sessions' = sessions
      BY <1>0, <1>3, ZenonT(40) DEF Abnormal, mapVars, histVars,
         Goto, Gone, Live, LocalMove
    <2>2. QED
      BY <2>1, LocalStay, ZenonT(40)
  <1>4. CASE Disconnect(k)
    <2>1. LocalMove(k) /\ sessions' = sessions
      BY <1>0, <1>4, ZenonT(40) DEF Disconnect, mapVars, histVars,
         Goto, Gone, Live, LocalMove
    <2>2. QED
      BY <2>1, LocalStay, ZenonT(40)
  <1>5. ASSUME NEW F \in SUBSET Filters, Subscribe(k, F) \/ Unsubscribe(k, F)
        PROVE  HoldInv'
    <2>1. CASE Subscribe(k, F)
      <3>1. LocalMove(k) /\ sessions' = sessions
        BY <1>0, <2>1, ZenonT(40) DEF Subscribe, ReceivePacket, mapVars, histVars,
           Goto, Gone, Live, LocalMove
      <3>2. QED
        BY <3>1, LocalStay, ZenonT(40)
    <2>2. CASE Unsubscribe(k, F)
      <3>1. LocalMove(k) /\ sessions' = sessions
        BY <1>0, <2>2, ZenonT(40) DEF Unsubscribe, ReceivePacket, mapVars, histVars,
           Goto, Gone, Live, LocalMove
      <3>2. QED
        BY <3>1, LocalStay, ZenonT(40)
    <2>3. QED
      BY <1>5, <2>1, <2>2, ZenonT(40)
  <1>6. QED
    BY <1>1, <1>2, <1>3, <1>4, <1>5, ZenonT(40) DEF Input

\* take_will and clear_will change nothing but a will.
LEMMA WillKeepsEntries ==
  ASSUME TypeOK, NEW k \in Conns, TakeWill(k) \/ ClearWill(k)
  PROVE  EntriesKept
  <1> DEFINE c == req[k].client
  <1>1. CASE ~Owns(k)
    <2>1. sessions' = sessions
      BY <1>1, ZenonT(40) DEF TakeWill, ClearWill
    <2>2. QED
      BY <2>1, ZenonT(40) DEF EntriesKept
  <1>2. CASE Owns(k)
    <2>1. c \in Clients /\ sessions[c] \in Entry
      BY <1>2, RequestType, ZenonT(40) DEF Owns, TypeOK
    <2>2. sessions' = [sessions EXCEPT ![c].will = NoWill]
      BY <1>2, ZenonT(40) DEF TakeWill, ClearWill
    <2>3. /\ sessions'[c] = [sessions[c] EXCEPT !.will = NoWill]
          /\ \A d \in Clients \ {c} : sessions'[d] = sessions[d]
      BY <2>1, <2>2, ZenonT(40) DEF TypeOK
    <2> HIDE DEF c
    <2>4. [sessions[c] EXCEPT !.will = NoWill] \in Entry
      BY <2>1, EntryUpdate, NoWill \in Conns \cup {NoWill}, Zenon
    <2>5. sessions[c] # NoEntry /\ sessions'[c] # NoEntry
      BY <2>1, <2>3, <2>4, ZenonT(40)
    <2>6. /\ sessions'[c].epoch = sessions[c].epoch
          /\ sessions'[c].clean = sessions[c].clean
          /\ sessions'[c].connected = sessions[c].connected
      BY <2>1, <2>3, ZenonT(40) DEF Entry
    <2>7. \A d \in Clients : d # c => sessions'[d] = sessions[d]
      BY <2>3, ZenonT(40)
    <2>8. QED
      BY <2>5, <2>6, <2>7, ZenonT(40) DEF EntriesKept
  <1>3. QED
    BY <1>1, <1>2, ZenonT(40)

\* Taking or clearing a will keeps who holds the entries.
LEMMA WillHold ==
  ASSUME TypeOK, HoldInv, NEW k \in Conns, TakeWill(k) \/ ClearWill(k)
  PROVE  HoldInv'
  <1>0. pc \in [Conns -> Labels]
    BY ZenonT(40) DEF TypeOK
  <1>1. /\ pc[k] \in {"take_will", "clear_will"}
        /\ UNCHANGED <<epochCounter, epoch, req, displaced, closing>>
    BY ZenonT(40) DEF TakeWill, ClearWill, histVars
  <1>2. /\ pc'[k] \in {"cleanup", "publish_will"}
        /\ \A j \in Conns \ {k} : pc'[j] = pc[j]
    BY <1>0, ZenonT(40) DEF TakeWill, ClearWill, Goto
  <1>3. LocalMove(k)
    BY <1>1, <1>2, ZenonT(40) DEF Live, Gone, LocalMove
  <1>4. QED
    BY <1>3, WillKeepsEntries, LocalStep, ZenonT(40)

\* Every step of a connection task keeps who holds the entries.
LEMMA TaskHold ==
  ASSUME TypeOK, PhaseOK, HoldInv, NEW k \in Conns, Task(k)
  PROVE  HoldInv'
  <1>0. pc \in [Conns -> Labels] /\ closing \in [Conns -> Reasons]
    BY ZenonT(40) DEF TypeOK
  <1>a. /\ pc[k] \in {"subscribe", "unsubscribe"} => closing[k] = "no"
        /\ pc[k] \in {"publish_will", "expiry"} => closing[k] # "no"
    BY ZenonT(40) DEF PhaseOK
  <1>1. CASE RegisterInsert(k)
    BY <1>1, RegisterHold, ZenonT(40)
  <1>2. CASE MarkOffline(k)
    BY <1>2, MarkOfflineHold, ZenonT(40)
  <1>3. CASE RemoveIfEpoch(k)
    BY <1>3, RemoveIfEpochHold, ZenonT(40)
  <1>4. CASE TakeWill(k) \/ ClearWill(k)
    BY <1>4, WillHold, ZenonT(40)
  <1>5. CASE RegisterCount(k)
    <2>1. LocalMove(k) /\ sessions' = sessions
      BY <1>0, <1>5, ZenonT(40) DEF RegisterCount, mapVars, histVars,
         Goto, Gone, Live, LocalMove
    <2>2. QED
      BY <2>1, LocalStay, ZenonT(40)
  <1>6. CASE ConnackSent(k)
    <2>1. LocalMove(k) /\ sessions' = sessions
      BY <1>0, <1>6, ZenonT(40) DEF ConnackSent, mapVars, histVars,
         Goto, Gone, Live, LocalMove
    <2>2. QED
      BY <2>1, LocalStay, ZenonT(40)
  <1>7. CASE ConnackFailed(k)
    <2>1. LocalMove(k) /\ sessions' = sessions
      BY <1>0, <1>7, ZenonT(40) DEF ConnackFailed, mapVars, histVars,
         Goto, Gone, Live, LocalMove
    <2>2. QED
      BY <2>1, LocalStay, ZenonT(40)
  <1>8. CASE Replay(k)
    <2>1. LocalMove(k) /\ sessions' = sessions
      BY <1>0, <1>8, ZenonT(40) DEF Replay, mapVars, histVars,
         Goto, Gone, Live, LocalMove
    <2>2. QED
      BY <2>1, LocalStay, ZenonT(40)
  <1>9. CASE ShutdownSignal(k)
    <2>1. LocalMove(k) /\ sessions' = sessions
      BY <1>0, <1>9, ZenonT(40) DEF ShutdownSignal, mapVars, histVars,
         Goto, Gone, Live, LocalMove
    <2>2. QED
      BY <2>1, LocalStay, ZenonT(40)
  <1>10. CASE RxClosed(k)
    <2>1. LocalMove(k) /\ sessions' = sessions
      BY <1>0, <1>10, ZenonT(40) DEF RxClosed, mapVars, histVars,
         Goto, Gone, Live, LocalMove
    <2>2. QED
      BY <2>1, LocalStay, ZenonT(40)
  <1>11. CASE AckSent(k)
    <2>1. LocalMove(k) /\ sessions' = sessions
      BY <1>0, <1>11, <1>a, ZenonT(40) DEF AckSent, mapVars, histVars,
         Goto, Gone, Live, LocalMove
    <2>2. QED
      BY <2>1, LocalStay, ZenonT(40)
  <1>12. CASE PersistCheck(k)
    <2>1. LocalMove(k) /\ sessions' = sessions
      BY <1>0, <1>12, ZenonT(40) DEF PersistCheck, Return, mapVars, histVars,
         Goto, Gone, Live, LocalMove
    <2>2. QED
      BY <2>1, LocalStay, ZenonT(40)
  <1>13. CASE PersistRead(k)
    <2>1. LocalMove(k) /\ sessions' = sessions
      BY <1>0, <1>13, ZenonT(40) DEF PersistRead, Return, mapVars, histVars,
         Goto, Gone, Live, LocalMove
    <2>2. QED
      BY <2>1, LocalStay, ZenonT(40)
  <1>14. CASE PersistSave(k)
    <2>1. LocalMove(k) /\ sessions' = sessions
      BY <1>0, <1>14, ZenonT(40) DEF PersistSave, Return, mapVars, histVars,
         Goto, Gone, Live, LocalMove
    <2>2. QED
      BY <2>1, LocalStay, ZenonT(40)
  <1>15. CASE AbnormalOwns(k)
    <2>1. LocalMove(k) /\ sessions' = sessions
      BY <1>0, <1>15, ZenonT(40) DEF AbnormalOwns, mapVars, histVars,
         Goto, Gone, Live, LocalMove
    <2>2. QED
      BY <2>1, LocalStay, ZenonT(40)
  <1>16. CASE PublishWill(k)
    <2>1. LocalMove(k) /\ sessions' = sessions
      BY <1>0, <1>16, <1>a, ZenonT(40) DEF PublishWill, mapVars, histVars,
         Goto, Gone, Live, LocalMove
    <2>2. QED
      BY <2>1, LocalStay, ZenonT(40)
  <1>17. CASE CleanupOwns(k)
    <2>1. LocalMove(k) /\ sessions' = sessions
      BY <1>0, <1>17, ZenonT(40) DEF CleanupOwns, mapVars, histVars,
         Goto, Gone, Live, LocalMove
    <2>2. QED
      BY <2>1, LocalStay, ZenonT(40)
  <1>18. CASE CleanupExpired(k)
    <2>1. LocalMove(k) /\ sessions' = sessions
      BY <1>0, <1>18, <1>a, ZenonT(40) DEF CleanupExpired, mapVars, histVars,
         Goto, Gone, Live, LocalMove
    <2>2. QED
      BY <2>1, LocalStay, ZenonT(40)
  <1>19. CASE RemoveUncount(k)
    <2>1. LocalMove(k) /\ sessions' = sessions
      BY <1>0, <1>19, ZenonT(40) DEF RemoveUncount, mapVars, histVars,
         Goto, Gone, Live, LocalMove
    <2>2. QED
      BY <2>1, LocalStay, ZenonT(40)
  <1>20. CASE UnsubscribeAll(k)
    <2>1. LocalMove(k) /\ sessions' = sessions
      BY <1>0, <1>20, ZenonT(40) DEF UnsubscribeAll, mapVars, histVars,
         Goto, Gone, Live, LocalMove
    <2>2. QED
      BY <2>1, LocalStay, ZenonT(40)
  <1>21. CASE DeleteSnapshot(k)
    <2>1. LocalMove(k) /\ sessions' = sessions
      BY <1>0, <1>21, ZenonT(40) DEF DeleteSnapshot, mapVars, histVars,
         Goto, Gone, Live, LocalMove
    <2>2. QED
      BY <2>1, LocalStay, ZenonT(40)
  <1>22. ASSUME NEW f \in Filters, SubscribeOne(k, f) \/ RefuseOne(k, f) \/ UnsubscribeOne(k, f)
         PROVE  HoldInv'
    <2>1. LocalMove(k) /\ sessions' = sessions
      <3>1. pc[k] \in {"subscribe", "unsubscribe"}
        BY <1>22, ZenonT(40) DEF SubscribeOne, RefuseOne, UnsubscribeOne
      <3>2. UNCHANGED <<sessions, epochCounter, epoch, req, displaced, pc, closing>>
        BY <1>22, ZenonT(40) DEF SubscribeOne, RefuseOne, UnsubscribeOne, mapVars, histVars
      <3>3. QED
        BY <3>1, <3>2, ZenonT(40) DEF Gone, Live, LocalMove
    <2>2. QED
      BY <2>1, LocalStay, ZenonT(40)
  <1>23. QED
    BY <1>1, <1>2, <1>3, <1>4, <1>5, <1>6, <1>7, <1>8, <1>9, <1>10, <1>11, <1>12, <1>13,
       <1>14, <1>15, <1>16, <1>17, <1>18, <1>19, <1>20, <1>21, <1>22, ZenonT(40) DEF Task

\* The sweeper displaces the connection whose entry it removes.
LEMMA SweeperHold ==
  ASSUME TypeOK, HoldInv, Sweeper
  PROVE  HoldInv'
  <1> USE DEF mapVars, histVars, connVars, EntriesKept
  <1>1. CASE SweepRemove
    <2>1. sweep.id \in Clients
      BY ZenonT(40) DEF TypeOK, SweepState
    <2>2. /\ sessions' = [sessions EXCEPT ![sweep.id] = NoEntry]
          /\ Displace(sweep.id, "sweep")
          /\ UNCHANGED <<epochCounter, epoch, req, pc, closing>>
      BY <1>1, ZenonT(40) DEF SweepRemove
    <2>3. "sweep" \in {"sweep", "admin"}
      OBVIOUS
    <2>4. QED
      BY <2>1, <2>2, <2>3, RemovalStep, ZenonT(40)
  <1>2. CASE SweepTick \/ SweepDelete \/ SweepDone \/ SweepStop
    BY <1>2, QuietStep, ZenonT(40) DEF SweepTick, SweepDelete, SweepDone, SweepStop
  <1>3. ASSUME NEW c \in Clients, SweepScan(c) \/ SweepRecheck(c) \/ SweepUnsubscribe(c)
        PROVE  HoldInv'
    BY <1>3, QuietStep, ZenonT(40) DEF SweepScan, SweepRecheck, SweepUnsubscribe
  <1>4. QED
    BY <1>1, <1>2, <1>3, ZenonT(40) DEF Sweeper

\* An admin request displaces the connection whose entry it removes.
LEMMA AdminHold ==
  ASSUME TypeOK, HoldInv, Admin
  PROVE  HoldInv'
  <1> USE DEF mapVars, histVars, connVars, EntriesKept
  <1>1. CASE AdminRemove
    <2>1. admin.client \in Clients
      BY ZenonT(40) DEF TypeOK, AdminState
    <2>2. /\ sessions' = [sessions EXCEPT ![admin.client] = NoEntry]
          /\ Displace(admin.client, "admin")
          /\ UNCHANGED <<epochCounter, epoch, req, pc, closing>>
      BY <1>1, ZenonT(40) DEF AdminRemove
    <2>3. "admin" \in {"sweep", "admin"}
      OBVIOUS
    <2>4. QED
      BY <2>1, <2>2, <2>3, RemovalStep, ZenonT(40)
  <1>2. CASE AdminUnsubscribe \/ AdminUncount \/ AdminDeleteSnapshot
    BY <1>2, QuietStep, ZenonT(40) DEF AdminUnsubscribe, AdminUncount, AdminDeleteSnapshot
  <1>3. ASSUME NEW c \in Clients, AdminDelete(c)
        PROVE  HoldInv'
    BY <1>3, QuietStep, ZenonT(40) DEF AdminDelete
  <1>4. QED
    BY <1>1, <1>2, <1>3, ZenonT(40) DEF Admin

\* The passing of time keeps epoch and connected of every entry.
LEMMA ElapseKeepsEntries ==
  ASSUME TypeOK, NEW c \in Clients, Elapse(c)
  PROVE  EntriesKept
  <1>1. sessions[c] \in Entry
    BY ZenonT(40) DEF Elapse, TypeOK
  <1>2. /\ sessions'[c] = [sessions[c] EXCEPT !.aged = TRUE]
        /\ \A d \in Clients : d # c => sessions'[d] = sessions[d]
    BY ZenonT(40) DEF Elapse, TypeOK
  <1>3. sessions'[c] \in Entry
    BY <1>1, <1>2, EntryUpdate, NoWill \in Conns \cup {NoWill}, Zenon
  <1>4. sessions[c] # NoEntry /\ sessions'[c] # NoEntry
    BY <1>1, <1>3, ZenonT(40)
  <1>5. /\ sessions'[c].epoch = sessions[c].epoch
        /\ sessions'[c].clean = sessions[c].clean
        /\ sessions'[c].connected = sessions[c].connected
    BY <1>1, <1>2, ZenonT(40) DEF Entry
  <1>6. QED
    BY <1>2, <1>4, <1>5, Zenon DEF EntriesKept

\* The passing of time keeps who holds the entries.
LEMMA ElapseHold ==
  ASSUME TypeOK, HoldInv, NEW c \in Clients, Elapse(c)
  PROVE  HoldInv'
  BY ElapseKeepsEntries, QuietStep, ZenonT(40) DEF Elapse, connVars, histVars

CoreInv == TypeOK /\ PhaseOK /\ HoldInv

\* CoreInv holds at the start.
LEMMA CoreInit == Init => CoreInv
  <1>1. Init => PhaseOK
    BY ZenonT(40) DEF Init, PhaseOK
  <1>2. QED
    BY <1>1, InitType, HoldInit, ZenonT(40) DEF CoreInv

\* Every step keeps CoreInv.
LEMMA CoreStep == CoreInv /\ [Step]_stateVars => CoreInv'
  <1> SUFFICES ASSUME TypeOK, PhaseOK, HoldInv, [Step]_stateVars
               PROVE  TypeOK' /\ PhaseOK' /\ HoldInv'
    BY ZenonT(40) DEF CoreInv
  <1>1. ASSUME NEW k \in Conns, Input(k)
        PROVE  TypeOK' /\ PhaseOK' /\ HoldInv'
    BY <1>1, InputType, InputPhase, InputHold, ZenonT(40)
  <1>2. ASSUME NEW k \in Conns, Task(k)
        PROVE  TypeOK' /\ PhaseOK' /\ HoldInv'
    BY <1>2, TaskType, TaskPhase, TaskHold, ZenonT(40)
  <1>3. CASE Sweeper
    <2>1. UNCHANGED <<pc, closing, will>>
      BY <1>3, ZenonT(40) DEF Sweeper, SweepTick, SweepRemove, SweepDelete, SweepDone,
         SweepStop,
                  SweepScan, SweepRecheck, SweepUnsubscribe, connVars
    <2>2. QED
      BY <1>3, <2>1, SweeperType, SweeperHold, ZenonT(40) DEF PhaseOK
  <1>4. CASE Admin
    <2>1. UNCHANGED <<pc, closing, will>>
      BY <1>4, ZenonT(40) DEF Admin, AdminDelete, AdminUnsubscribe, AdminRemove, AdminUncount,
                  AdminDeleteSnapshot, connVars
    <2>2. QED
      BY <1>4, <2>1, AdminType, AdminHold, ZenonT(40) DEF PhaseOK
  <1>5. ASSUME NEW c \in Clients, Elapse(c)
        PROVE  TypeOK' /\ PhaseOK' /\ HoldInv'
    <2>1. UNCHANGED <<pc, closing, will>>
      BY <1>5, ZenonT(40) DEF Elapse, connVars
    <2>2. QED
      BY <1>5, <2>1, ElapseType, ElapseHold, ZenonT(40) DEF PhaseOK
  <1>6. CASE Shutdown
    <2>1. UNCHANGED <<sessions, epochCounter, epoch, req, displaced, pc, closing, will>>
      BY <1>6, ZenonT(40) DEF Shutdown, connVars, mapVars, histVars
    <2>2. HoldInv'
      BY <2>1, QuietStep, ZenonT(40) DEF EntriesKept
    <2>3. QED
      BY <1>6, <2>1, <2>2, ShutdownType, ZenonT(40) DEF PhaseOK
  <1>7. CASE UNCHANGED stateVars
    <2>1. UNCHANGED <<sessions, epochCounter, epoch, req, displaced, pc, closing, will>>
      BY <1>7, ZenonT(40) DEF stateVars, mapVars, histVars
    <2>2. HoldInv'
      BY <2>1, QuietStep, ZenonT(40) DEF EntriesKept
    <2>3. TypeOK'
      BY <1>7, ZenonT(40) DEF stateVars, mapVars, diskVars, packetVars, histVars, bgVars, TypeOK
    <2>4. QED
      BY <2>1, <2>2, <2>3, ZenonT(40) DEF PhaseOK
  <1>8. QED
    BY <1>1, <1>2, <1>3, <1>4, <1>5, <1>6, <1>7, ZenonT(40) DEF Step

\* The end of the process changes nothing that the invariants speak of.
LEMMA StepOrExit == [Next]_vars => [Step]_stateVars
  BY ZenonT(40) DEF Next, Running, Exit, vars

\* The inductive invariant behind the theorems on sessions: types, the position
\* of every task, and which connection holds which entry of the session map.
THEOREM CoreInvariant == Spec => []CoreInv
  BY CoreInit, CoreStep, StepOrExit, PTL DEF Spec

\* Every variable keeps its type.
THEOREM TypeCorrect == Spec => []TypeOK
  <1>1. CoreInv => TypeOK
    BY ZenonT(40) DEF CoreInv
  <1>2. QED
    BY <1>1, CoreInvariant, PTL

\* A connected session is always served by a task that is still running and
\* that will give the session up.
THEOREM OnlineSessionsServed == Spec => []OnlineSessionHasTask
  <1>1. CoreInv => OnlineSessionHasTask
    <2> SUFFICES ASSUME EntriesHeld, NEW c \in Clients, IsOnline(c)
                 PROVE  \E k \in Conns : req[k].client = c /\ Owns(k) /\ Live(k)
      BY ZenonT(40) DEF CoreInv, HoldInv, OnlineSessionHasTask
    <2>1. PICK k \in Conns : HeldBy(c, k)
      BY ZenonT(40) DEF EntriesHeld, IsOnline
    <2>2. QED
      BY <2>1, ZenonT(40) DEF HeldBy, IsOnline, Owns
  <1>2. QED
    BY <1>1, CoreInvariant, PTL

\* A running connection keeps its session unless it was taken over, swept or
\* deleted.
THEOREM SessionsKept == Spec => []TaskKeepsSession
  <1>1. CoreInv => TaskKeepsSession
    BY ZenonT(40) DEF CoreInv, HoldInv
  <1>2. QED
    BY <1>1, CoreInvariant, PTL

\* A connection that lost its session never removes subscriptions or snapshots.
THEOREM DisplacedHarmless == Spec => []DisplacedNeverUnsubscribes
  <1>1. CoreInv => DisplacedNeverUnsubscribes
    BY ZenonT(40) DEF CoreInv, HoldInv, GoneHoldsNothing, Gone, DisplacedNeverUnsubscribes
  <1>2. QED
    BY <1>1, CoreInvariant, PTL

(***************************************************************************)
(* The session map implements SessionOwnership.  A connection that inserts *)
(* its entry claims the client, whoever owned it; mark_offline and every   *)
(* removal of a connected entry release it; everything else stutters.      *)
(***************************************************************************)

\* The owner of a client is the one connection with the epoch of its entry.
OwnerFacts ==
    /\ \A c \in Clients : ~IsOnline(c) => Owner[c] = NoWill
    /\ \A c \in Clients : IsOnline(c) => Owner[c] \in Conns
    /\ \A c \in Clients, k \in Conns :
         IsOnline(c) => (Owner[c] = k <=> epoch[k] = sessions[c].epoch)

\* The owner read from the map is the connection of the epoch in the entry.
LEMMA OwnerIs == CoreInv => OwnerFacts
  <1> SUFFICES ASSUME CoreInv PROVE OwnerFacts
    OBVIOUS
  <1>1. ASSUME NEW c \in Clients, IsOnline(c)
        PROVE  /\ Holder(c) \in Conns
               /\ \A k \in Conns : Holder(c) = k <=> epoch[k] = sessions[c].epoch
    <2>1. PICK k \in Conns : epoch[k] = sessions[c].epoch /\ epoch[k] # 0
      BY <1>1, SMTT(40) DEF CoreInv, HoldInv, EntriesHeld, HeldBy, IsOnline
    <2>2. Holder(c) \in Conns /\ epoch[Holder(c)] = sessions[c].epoch
      BY <2>1, ZenonT(40) DEF Holder
    <2>3. \A j \in Conns : epoch[j] = sessions[c].epoch => j = k
      BY <2>1, ZenonT(40) DEF CoreInv, HoldInv, EpochsGivenOnce
    <2>4. QED
      BY <2>1, <2>2, <2>3, ZenonT(40)
  <1>2. \A c \in Clients : Owner[c] = IF IsOnline(c) THEN Holder(c) ELSE NoWill
    BY ZenonT(40) DEF Owner
  <1>3. QED
    BY <1>1, <1>2, ZenonT(40) DEF OwnerFacts

\* A step that leaves epochs, owners and registrations alone stutters.
LEMMA OwnershipKept ==
  ASSUME CoreInv, CoreInv', EntriesKept, UNCHANGED epoch,
         \A j \in Conns : pc'[j] = "insert" <=> pc[j] = "insert"
  PROVE  UNCHANGED <<Owner, Claimed>>
  <1>1. Claimed' = Claimed
    BY ZenonT(40) DEF Claimed
  <1>2. OwnerFacts /\ OwnerFacts'
    BY OwnerIs, PTL, ZenonT(40)
  <1>3. \A c \in Clients : Owner'[c] = Owner[c]
    BY <1>2, SMTT(40) DEF OwnerFacts, EntriesKept, IsOnline
  <1>4. Owner' = Owner
    BY <1>3, ZenonT(40) DEF Owner
  <1>5. QED
    BY <1>1, <1>4, ZenonT(40)

\* A step after which the entry of one client is no longer connected.
LEMMA OwnershipReleased ==
  ASSUME CoreInv, CoreInv', NEW c \in Clients, UNCHANGED epoch,
         \A j \in Conns : pc'[j] = "insert" <=> pc[j] = "insert",
         ~IsOnline(c)',
         \A d \in Clients \ {c} : sessions'[d] = sessions[d]
  PROVE  [Ownership!Next]_(Ownership!ownVars)
  <1>1. Claimed' = Claimed
    BY ZenonT(40) DEF Claimed
  <1>2. OwnerFacts /\ OwnerFacts'
    BY OwnerIs, PTL, ZenonT(40)
  <1>3. \A d \in Clients \ {c} : Owner'[d] = Owner[d]
    BY <1>2, SMTT(40) DEF OwnerFacts, IsOnline
  <1>4. Owner'[c] = NoWill
    BY <1>2, ZenonT(40) DEF OwnerFacts
  <1>5. Owner' = [Owner EXCEPT ![c] = NoWill]
    BY <1>3, <1>4, Zenon DEF Owner
  <1>6. CASE Owner[c] = NoWill
    <2>1. Owner' = Owner
      BY <1>5, <1>6, ZenonT(40) DEF Owner
    <2>2. QED
      BY <1>1, <2>1, ZenonT(40) DEF Ownership!ownVars
  <1>7. CASE Owner[c] # NoWill
    BY <1>1, <1>5, <1>7, ZenonT(40) DEF Ownership!Release, Ownership!Next
  <1>8. QED
    BY <1>6, <1>7, ZenonT(40)

\* register_session is a claim of SessionOwnership.
LEMMA OwnershipClaimed ==
  ASSUME CoreInv, CoreInv', NEW k \in Conns, RegisterInsert(k)
  PROVE  Ownership!Next
  <1>0. PICK c \in Clients : c = req[k].client
    BY RequestType, ZenonT(40) DEF CoreInv
  <1>1. /\ sessions' = [sessions EXCEPT ![c] = NewEntry(k)]
        /\ pc[k] = "insert" /\ pc'[k] # "insert"
        /\ \A j \in Conns \ {k} : pc'[j] = pc[j]
        /\ UNCHANGED epoch
        /\ epoch[k] # 0
    BY <1>0, ZenonT(40) DEF CoreInv, TypeOK, RegisterInsert, Goto, HoldInv, EpochsGivenOnce
  <1>2. Claimed' = Claimed \cup {k} /\ k \notin Claimed
    BY <1>1, ZenonT(40) DEF Claimed
  <1>3. /\ \A d \in Clients \ {c} : sessions'[d] = sessions[d]
        /\ sessions'[c] = NewEntry(k)
    BY <1>0, <1>1, ZenonT(40) DEF CoreInv, TypeOK
  <1>4. IsOnline(c)' /\ sessions'[c].epoch = epoch[k]
    BY <1>3, NewEntryType, Zenon DEF IsOnline, CoreInv
  <1>5. OwnerFacts /\ OwnerFacts'
    BY OwnerIs, PTL, ZenonT(40)
  <1>6. \A d \in Clients \ {c} : Owner'[d] = Owner[d]
    BY <1>1, <1>3, <1>5, SMTT(40) DEF OwnerFacts, IsOnline
  <1>7. Owner'[c] = k
    BY <1>0, <1>1, <1>4, <1>5, SMTT(40) DEF OwnerFacts
  <1>8. Owner' = [Owner EXCEPT ![c] = k]
    BY <1>6, <1>7, ZenonT(40) DEF Owner
  <1>9. Ownership!Claim(c, k)
    BY <1>2, <1>8, ZenonT(40) DEF Ownership!Claim
  <1>10. QED
    BY <1>0, <1>9, ZenonT(40) DEF Ownership!Next

\* Every step is a claim, a release or a stutter of SessionOwnership.
LEMMA OwnershipStep ==
  ASSUME CoreInv, CoreInv', [Step]_stateVars
  PROVE  [Ownership!Next]_(Ownership!ownVars)
  <1> USE DEF mapVars, histVars, connVars, bgVars, Goto, EntriesKept
  <1> DEFINE Goal == [Ownership!Next]_(Ownership!ownVars)
  <1>s. ASSUME UNCHANGED <<Owner, Claimed>> PROVE Goal
    BY <1>s, ZenonT(40) DEF Ownership!ownVars
  <1>q. ASSUME UNCHANGED <<sessions, epoch, pc>> PROVE Goal
    BY <1>q, SMTT(40) DEF Ownership!ownVars, Owner, Holder, IsOnline, Claimed
  <1> HIDE DEF Goal
  <1>1. ASSUME Sweeper PROVE Goal
    <2>1. CASE SweepRemove
      <3>0. PICK c \in Clients : c = sweep.id
        BY ZenonT(40) DEF SweepState, CoreInv, TypeOK
      <3>1. ~IsOnline(c)' /\ \A d \in Clients \ {c} : sessions'[d] = sessions[d]
        BY <2>1, <3>0, ZenonT(40) DEF SweepRemove, IsOnline, CoreInv, TypeOK
      <3>2. QED
        BY <2>1, <3>1, OwnershipReleased, ZenonT(40) DEF SweepRemove, Goal
    <2>2. CASE SweepTick \/ SweepDelete \/ SweepDone \/ SweepStop
      BY <2>2, <1>q, ZenonT(40) DEF SweepTick, SweepDelete, SweepDone, SweepStop
    <2>3. ASSUME NEW c \in Clients, SweepScan(c) \/ SweepRecheck(c) \/ SweepUnsubscribe(c)
          PROVE  Goal
      BY <2>3, <1>q, ZenonT(40) DEF SweepScan, SweepRecheck, SweepUnsubscribe
    <2>4. QED
      BY <1>1, <2>1, <2>2, <2>3, ZenonT(40) DEF Sweeper
  <1>2. ASSUME Admin PROVE Goal
    <2>1. CASE AdminRemove
      <3>0. PICK c \in Clients : c = admin.client
        BY ZenonT(40) DEF AdminState, CoreInv, TypeOK
      <3>1. ~IsOnline(c)' /\ \A d \in Clients \ {c} : sessions'[d] = sessions[d]
        BY <2>1, <3>0, ZenonT(40) DEF AdminRemove, IsOnline, CoreInv, TypeOK
      <3>2. QED
        BY <2>1, <3>1, OwnershipReleased, ZenonT(40) DEF AdminRemove, Goal
    <2>2. CASE AdminUnsubscribe \/ AdminUncount \/ AdminDeleteSnapshot
      BY <2>2, <1>q, ZenonT(40) DEF AdminUnsubscribe, AdminUncount, AdminDeleteSnapshot
    <2>3. ASSUME NEW c \in Clients, AdminDelete(c)
          PROVE  Goal
      BY <2>3, <1>q, ZenonT(40) DEF AdminDelete
    <2>4. QED
      BY <1>2, <2>1, <2>2, <2>3, ZenonT(40) DEF Admin
  <1>3. ASSUME NEW c \in Clients, Elapse(c)
        PROVE  Goal
    <2>1. EntriesKept
      BY <1>3, ElapseKeepsEntries, ZenonT(40) DEF CoreInv
    <2>2. UNCHANGED <<epoch, pc>>
      BY <1>3, ZenonT(40) DEF Elapse
    <2>3. QED
      BY <2>1, <2>2, <1>s, OwnershipKept, ZenonT(40)
  <1>4. ASSUME Shutdown PROVE Goal
    BY <1>4, <1>q, ZenonT(40) DEF Shutdown
  <1>5. ASSUME UNCHANGED stateVars PROVE Goal
    BY <1>5, <1>q, ZenonT(40) DEF stateVars
  <1>t. /\ TypeOK
        /\ pc \in [Conns -> Labels] /\ epoch \in [Conns -> Nat] /\ epochCounter \in Nat
        /\ sessions \in [Clients -> Entry \cup {NoEntry}]
    BY ZenonT(40) DEF CoreInv, TypeOK
  <1>6. ASSUME NEW k \in Conns, Input(k)
        PROVE  Goal
    <2>1. CASE Reject(k)
      BY <2>1, <1>s, <1>t, OwnershipKept, ZenonT(40) DEF Reject
    <2>2. CASE Connect(k)
      <3>1. /\ UNCHANGED sessions
            /\ epoch[k] = 0 /\ pc[k] # "insert" /\ pc'[k] = "insert"
            /\ epoch'[k] = epochCounter + 1
            /\ \A j \in Conns \ {k} : epoch'[j] = epoch[j] /\ pc'[j] = pc[j]
        BY <2>2, <1>t, ZenonT(40) DEF Connect, CoreInv, HoldInv, EpochsGivenOnce
      <3>2. Claimed' = Claimed
        BY <3>1, ZenonT(40) DEF Claimed
      <3>3. OwnerFacts /\ OwnerFacts'
        BY OwnerIs, PTL, ZenonT(40)
      <3>4. \A c \in Clients : IsOnline(c) =>
               \E j \in Conns \ {k} : epoch[j] = sessions[c].epoch
        BY <3>1, <1>t, SMTT(40) DEF IsOnline, CoreInv, HoldInv, EntriesHeld, HeldBy
      <3>5. \A c \in Clients : Owner'[c] = Owner[c]
        <4> TAKE c \in Clients
        <4>1. CASE IsOnline(c)
          BY <3>1, <3>3, <3>4, <4>1, SMTT(40) DEF OwnerFacts, IsOnline
        <4>2. CASE ~IsOnline(c)
          BY <3>1, <3>3, <4>2, ZenonT(40) DEF OwnerFacts, IsOnline
        <4>3. QED
          BY <4>1, <4>2, ZenonT(40)
      <3>6. Owner' = Owner
        BY <3>5, ZenonT(40) DEF Owner
      <3>7. QED
        BY <3>2, <3>6, <1>s, ZenonT(40)
    <2>3. CASE Abnormal(k) \/ Disconnect(k)
      BY <2>3, <1>s, <1>t, OwnershipKept, ZenonT(40) DEF Abnormal, Disconnect
    <2>4. ASSUME NEW F \in SUBSET Filters, Subscribe(k, F) \/ Unsubscribe(k, F)
          PROVE  Goal
      BY <2>4, <1>s, <1>t, OwnershipKept, ZenonT(40) DEF Subscribe, Unsubscribe, ReceivePacket
    <2>5. QED
      BY <1>6, <2>1, <2>2, <2>3, <2>4, ZenonT(40) DEF Input
  <1>7. ASSUME NEW k \in Conns, Task(k)
        PROVE  Goal
    <2>0. req[k].client \in Clients
      BY <1>t, RequestType, Zenon
    <2>1. CASE RegisterInsert(k)
      BY <2>1, OwnershipClaimed, ZenonT(40) DEF Goal
    <2>2. CASE MarkOffline(k)
      <3>0. PICK c \in Clients : c = req[k].client
        BY <2>0, ZenonT(40)
      <3>1. CASE Owns(k) /\ sessions[c].connected
        <4>1. /\ sessions' = [sessions EXCEPT ![c].connected = FALSE]
              /\ UNCHANGED epoch
              /\ \A j \in Conns : pc'[j] = "insert" <=> pc[j] = "insert"
          BY <2>2, <3>0, <3>1, <1>t, ZenonT(40) DEF MarkOffline
        <4>2. sessions[c] \in Entry
          BY <3>0, <3>1, <1>t, ZenonT(40) DEF Owns
        <4>3. ~IsOnline(c)' /\ \A d \in Clients \ {c} : sessions'[d] = sessions[d]
          BY <4>1, <4>2, <1>t, ZenonT(40) DEF IsOnline, Entry
        <4>4. QED
          BY <4>1, <4>3, OwnershipReleased, ZenonT(40) DEF Goal
      <3>2. CASE ~(Owns(k) /\ sessions[c].connected)
        BY <2>2, <3>0, <3>2, <1>s, <1>t, OwnershipKept, ZenonT(40) DEF MarkOffline
      <3>3. QED
        BY <3>1, <3>2, ZenonT(40)
    <2>3. CASE RemoveIfEpoch(k)
      <3>0. PICK c \in Clients : c = req[k].client
        BY <2>0, ZenonT(40)
      <3>1. CASE Owns(k)
        <4>1. /\ sessions' = [sessions EXCEPT ![c] = NoEntry]
              /\ UNCHANGED epoch
              /\ \A j \in Conns : pc'[j] = "insert" <=> pc[j] = "insert"
          BY <2>3, <3>0, <3>1, <1>t, ZenonT(40) DEF RemoveIfEpoch
        <4>2. ~IsOnline(c)' /\ \A d \in Clients \ {c} : sessions'[d] = sessions[d]
          BY <4>1, <1>t, ZenonT(40) DEF IsOnline
        <4>3. QED
          BY <4>1, <4>2, OwnershipReleased, ZenonT(40) DEF Goal
      <3>2. CASE ~Owns(k)
        BY <2>3, <3>0, <3>2, <1>s, <1>t, OwnershipKept, ZenonT(40) DEF RemoveIfEpoch
      <3>3. QED
        BY <3>1, <3>2, ZenonT(40)
    <2>4. CASE TakeWill(k) \/ ClearWill(k)
      <3>1. EntriesKept
        BY <2>4, <1>t, WillKeepsEntries, ZenonT(40)
      <3>2. UNCHANGED epoch /\ \A j \in Conns : pc'[j] = "insert" <=> pc[j] = "insert"
        BY <2>4, <1>t, ZenonT(40) DEF TakeWill, ClearWill
      <3>3. QED
        BY <3>1, <3>2, <1>s, OwnershipKept, ZenonT(40)
    <2>5. CASE RegisterCount(k) \/ RemoveUncount(k)
      BY <2>5, <1>s, <1>t, OwnershipKept, ZenonT(40) DEF RegisterCount, RemoveUncount
    <2>6. CASE ConnackSent(k) \/ ConnackFailed(k) \/ Replay(k) \/ ShutdownSignal(k) \/ RxClosed(k)
      BY <2>6, <1>s, <1>t, OwnershipKept, ZenonT(40) DEF ConnackSent, ConnackFailed, Replay,
         ShutdownSignal, RxClosed
    <2>7. CASE AckSent(k) \/ PersistCheck(k) \/ PersistRead(k) \/ PersistSave(k)
      BY <2>7, <1>s, <1>t, OwnershipKept, ZenonT(40) DEF AckSent, PersistCheck, PersistRead,
         PersistSave, Return
    <2>8. CASE AbnormalOwns(k) \/ PublishWill(k) \/ CleanupOwns(k) \/ CleanupExpired(k)
      BY <2>8, <1>s, <1>t, OwnershipKept, ZenonT(40) DEF AbnormalOwns, PublishWill, CleanupOwns,
         CleanupExpired
    <2>9. CASE UnsubscribeAll(k) \/ DeleteSnapshot(k)
      BY <2>9, <1>s, <1>t, OwnershipKept, ZenonT(40) DEF UnsubscribeAll, DeleteSnapshot
    <2>10. ASSUME NEW f \in Filters, SubscribeOne(k, f) \/ RefuseOne(k, f) \/ UnsubscribeOne(k, f)
           PROVE  Goal
      BY <2>10, <1>q, ZenonT(40) DEF SubscribeOne, RefuseOne, UnsubscribeOne
    <2>11. QED
      BY <1>7, <2>1, <2>2, <2>3, <2>4, <2>5, <2>6, <2>7, <2>8, <2>9, <2>10, ZenonT(40) DEF
         Task
  <1>8. QED
    BY <1>1, <1>2, <1>3, <1>4, <1>5, <1>6, <1>7, ZenonT(40) DEF Step, Goal

\* The connection tasks, the sweeper and the admin together implement the
\* ownership promise of the session epochs.
THEOREM OwnershipImplemented == Spec => ImplementsOwnership
  <1>1. Init => Ownership!Init
    BY SMTT(40) DEF Init, Ownership!Init, Owner, Claimed, IsOnline
  <1>2. CoreInv /\ CoreInv' /\ [Step]_stateVars => [Ownership!Next]_(Ownership!ownVars)
    BY OwnershipStep, ZenonT(40)
  <1>3. QED
    BY <1>1, <1>2, CoreInvariant, StepOrExit, PTL DEF Spec, ImplementsOwnership,
       Ownership!Spec

(***************************************************************************)
(* The last will.  WillFiredRight needs what is true of the will on its    *)
(* way: in the entry of its connection, in the hand of on_abnormal_        *)
(* disconnect, published.  A will never changes hands, and a connection    *)
(* that has one and was not displaced has it in its entry until it is      *)
(* taken, and has fired it once it is past on_abnormal_disconnect.         *)
(***************************************************************************)

Firing == {"abnormal", "take_will", "publish_will"}

\* The connection has registered and its will was not taken or cleared.
Armed(k) ==
    \/ pc[k] \in {"count", "connack", "replay", "main", "subscribe", "unsubscribe",
                  "abnormal", "take_will"}
    \/ pc[k] \in {"persist", "read_subs", "save"} /\ closing[k] = "no"

OwnWill(k) == IF req[k].will THEN {k, NoWill} ELSE {NoWill}

WillOf(k) ==
    /\ \A c \in Clients : sessions[c] # NoEntry /\ sessions[c].epoch = epoch[k] =>
         sessions[c].will \in OwnWill(k)
    /\ will[k] \in OwnWill(k)
    /\ fired[k] \subseteq {k}
    /\ fired[k] # {} => req[k].will /\ closing[k] = "abnormal"
    /\ pc[k] \in Firing => closing[k] = "abnormal"
    /\ displaced[k] = "no" /\ req[k].will /\ Armed(k) => sessions[req[k].client].will = k
    /\ displaced[k] = "no" /\ req[k].will /\ closing[k] = "abnormal" /\ pc[k] \notin Firing =>
         fired[k] = {k}

WillInv == \A k \in Conns : WillOf(k)

\* A step leaves the entry of k, if it still has one, with the will it had.
WillKept(k) ==
    \A c \in Clients : sessions'[c] # NoEntry /\ sessions'[c].epoch = epoch[k] =>
        /\ sessions[c] # NoEntry /\ sessions[c].epoch = epoch[k]
        /\ sessions'[c].will = sessions[c].will

\* Where a step may take task k without touching its will.
Steers(k) ==
    /\ Armed(k)' => Armed(k)
    /\ closing'[k] = closing[k] \/ closing[k] = "no"
    /\ pc'[k] \in Firing => closing'[k] = "abnormal"
    /\ closing'[k] = "abnormal" /\ pc'[k] \notin Firing =>
         (closing[k] = "abnormal" /\ pc[k] \notin Firing) \/ displaced[k] # "no"

\* A will that may still fire is in the entry of its connection.
LEMMA ArmedLive ==
  ASSUME CoreInv, NEW k \in Conns, displaced[k] = "no", Armed(k)
  PROVE  Owns(k)
  <1>1. Live(k)
    BY ZenonT(40) DEF Armed, Live
  <1>2. QED
    BY <1>1, ZenonT(40) DEF CoreInv, HoldInv, TaskKeepsSession

\* A step that leaves will, entry and position of a connection alone keeps WillOf.
LEMMA WillStays ==
  ASSUME CoreInv, CoreInv', NEW k \in Conns, WillOf(k), WillKept(k), Steers(k),
         req' = req, epoch'[k] = epoch[k], will'[k] = will[k], fired'[k] = fired[k],
         displaced'[k] = "no" => displaced[k] = "no"
  PROVE  WillOf(k)'
  <1>1. OwnWill(k)' = OwnWill(k)
    BY ZenonT(40) DEF OwnWill
  <1>2. \A c \in Clients : sessions'[c] # NoEntry /\ sessions'[c].epoch = epoch'[k] =>
          sessions'[c].will \in OwnWill(k)'
    BY <1>1, ZenonT(40) DEF WillOf, WillKept
  <1>3. /\ will'[k] \in OwnWill(k)'
        /\ fired'[k] \subseteq {k}
    BY <1>1, ZenonT(40) DEF WillOf
  <1>4. fired'[k] # {} => req'[k].will /\ closing'[k] = "abnormal"
    <2>1. fired[k] # {} => closing[k] # "no"
      BY SMTT(40) DEF WillOf
    <2>2. QED
      BY <2>1, ZenonT(40) DEF WillOf, Steers
  <1>5. pc'[k] \in Firing => closing'[k] = "abnormal"
    BY ZenonT(40) DEF Steers
  <1>6. displaced'[k] = "no" /\ req'[k].will /\ Armed(k)' => sessions'[req'[k].client].will = k
    <2> SUFFICES ASSUME displaced'[k] = "no", req[k].will, Armed(k)'
                 PROVE  sessions'[req[k].client].will = k
      BY ZenonT(40)
    <2>1. sessions[req[k].client].will = k
      BY ZenonT(40) DEF WillOf, Steers
    <2>2. Owns(k)'
      <3>1. Live(k)'
        BY ZenonT(40) DEF Armed, Live
      <3>2. QED
        BY <3>1, ZenonT(40) DEF CoreInv, HoldInv, TaskKeepsSession
    <2>3. sessions'[req[k].client] # NoEntry /\ sessions'[req[k].client].epoch = epoch[k]
      BY <2>2, ZenonT(40) DEF Owns
    <2>4. req[k].client \in Clients
      BY RequestType, ZenonT(40) DEF CoreInv
    <2>5. QED
      BY <2>1, <2>3, <2>4, ZenonT(40) DEF WillKept
  <1>7. displaced'[k] = "no" /\ req'[k].will /\ closing'[k] = "abnormal" /\ pc'[k] \notin Firing
          => fired'[k] = {k}
    BY ZenonT(40) DEF WillOf, Steers
  <1>8. QED
    BY <1>2, <1>3, <1>4, <1>5, <1>6, <1>7, ZenonT(40) DEF WillOf

\* A connection that a step of somebody else leaves alone.
LEMMA WillBystander ==
  ASSUME CoreInv, CoreInv', NEW k \in Conns, WillOf(k), WillKept(k),
         req' = req, epoch'[k] = epoch[k], will'[k] = will[k], fired'[k] = fired[k],
         displaced'[k] = "no" => displaced[k] = "no",
         pc'[k] = pc[k], closing'[k] = closing[k]
  PROVE  WillOf(k)'
  <1>1. Steers(k)
    BY ZenonT(40) DEF Steers, Armed, WillOf
  <1>2. QED
    BY <1>1, WillStays, ZenonT(40)

\* A task moves and touches neither an entry nor a will.
MovesOnly(k) ==
    /\ UNCHANGED <<sessions, epoch, req, displaced, will, fired>>
    /\ \A j \in Conns \ {k} : pc'[j] = pc[j] /\ closing'[j] = closing[j]

\* A step of one connection that touches no will keeps WillInv.
LEMMA WillMove ==
  ASSUME CoreInv, CoreInv', WillInv, NEW k \in Conns, MovesOnly(k), Steers(k)
  PROVE  WillInv'
  <1> SUFFICES ASSUME NEW j \in Conns PROVE WillOf(j)'
    BY ZenonT(40) DEF WillInv
  <1>1. /\ WillOf(j) /\ WillKept(j)
        /\ req' = req /\ epoch'[j] = epoch[j] /\ will'[j] = will[j] /\ fired'[j] = fired[j]
        /\ displaced'[j] = "no" => displaced[j] = "no"
    BY ZenonT(40) DEF WillInv, WillKept, MovesOnly
  <1>2. CASE j = k
    BY <1>1, <1>2, WillStays, ZenonT(40)
  <1>3. CASE j # k
    <2>1. pc'[j] = pc[j] /\ closing'[j] = closing[j]
      BY <1>3, ZenonT(40) DEF MovesOnly
    <2>2. QED
      BY <1>1, <2>1, WillBystander, ZenonT(40)
  <1>4. QED
    BY <1>2, <1>3, ZenonT(40)

\* An entry is marked, aged or removed; every other entry keeps its will.
LEMMA WillUntouched ==
  ASSUME CoreInv, CoreInv', WillInv,
         \A j \in Conns : WillKept(j),
         \A j \in Conns : displaced'[j] = "no" => displaced[j] = "no",
         UNCHANGED <<epoch, req, pc, closing, will, fired>>
  PROVE  WillInv'
  BY WillBystander, ZenonT(40) DEF WillInv

\* Input keeps every will where it belongs.
LEMMA InputWill ==
  ASSUME CoreInv, CoreInv', WillInv, NEW k \in Conns, Input(k)
  PROVE  WillInv'
  <1>0. pc \in [Conns -> Labels] /\ closing \in [Conns -> Reasons] /\ epoch \in [Conns -> Nat]
    BY ZenonT(40) DEF CoreInv, TypeOK
  <1>a. /\ pc[k] \in {"accepted", "replay", "main", "subscribe", "unsubscribe"} => closing[k] = "no"
        /\ WillOf(k)
    BY ZenonT(40) DEF CoreInv, PhaseOK, WillInv
  <1>1. CASE Reject(k)
    <2>1. MovesOnly(k)
      BY <1>0, <1>1, ZenonT(40) DEF Reject, Goto, MovesOnly, mapVars, histVars
    <2>2. Steers(k)
      <3>1. pc[k] = "accepted" /\ pc'[k] = "done" /\ closing'[k] = closing[k]
        BY <1>0, <1>1, ZenonT(40) DEF Reject, Goto
      <3>2. closing[k] = "no"
        BY <1>a, <3>1, SMTT(40)
      <3>3. QED
        BY <3>1, <3>2, SMTT(40) DEF Steers, Armed, Firing
    <2>3. QED
      BY <2>1, <2>2, WillMove, ZenonT(40)
  <1>2. CASE Abnormal(k)
    <2>1. MovesOnly(k)
      BY <1>0, <1>2, ZenonT(40) DEF Abnormal, Goto, MovesOnly, mapVars, histVars
    <2>2. Steers(k)
      <3>1. /\ pc[k] \in {"replay", "main", "subscribe", "unsubscribe"}
            /\ pc'[k] = "abnormal" /\ closing'[k] = "abnormal"
        BY <1>0, <1>2, ZenonT(40) DEF Abnormal, Goto
      <3>2. closing[k] = "no"
        BY <1>a, <3>1, SMTT(40)
      <3>3. QED
        BY <3>1, <3>2, SMTT(40) DEF Steers, Armed, Firing
    <2>3. QED
      BY <2>1, <2>2, WillMove, ZenonT(40)
  <1>3. CASE Disconnect(k)
    <2>1. MovesOnly(k)
      BY <1>0, <1>3, ZenonT(40) DEF Disconnect, Goto, MovesOnly, mapVars, histVars
    <2>2. Steers(k)
      <3>1. pc[k] = "main" /\ pc'[k] = "clear_will" /\ closing'[k] = "disconnect"
        BY <1>0, <1>3, ZenonT(40) DEF Disconnect, Goto
      <3>2. closing[k] = "no"
        BY <1>a, <3>1, SMTT(40)
      <3>3. QED
        BY <3>1, <3>2, SMTT(40) DEF Steers, Armed, Firing
    <2>3. QED
      BY <2>1, <2>2, WillMove, ZenonT(40)
  <1>4. ASSUME NEW F \in SUBSET Filters, Subscribe(k, F) \/ Unsubscribe(k, F)
        PROVE  WillInv'
    <2>1. PICK label \in {"subscribe", "unsubscribe"} : ReceivePacket(k, F, label)
      BY <1>4, ZenonT(40) DEF Subscribe, Unsubscribe
    <2>2. MovesOnly(k)
      BY <1>0, <2>1, ZenonT(40) DEF ReceivePacket, Goto, MovesOnly, mapVars, histVars
    <2>3. Steers(k)
      <3>1. pc[k] = "main" /\ pc'[k] = label /\ closing'[k] = closing[k]
        BY <1>0, <2>1, ZenonT(40) DEF ReceivePacket, Goto
      <3>2. closing[k] = "no"
        BY <1>a, <3>1, SMTT(40)
      <3>3. QED
        BY <3>1, <3>2, SMTT(40) DEF Steers, Armed, Firing
    <2>4. QED
      BY <2>2, <2>3, WillMove, ZenonT(40)
  <1>5. CASE Connect(k)
    <2>1. /\ pc[k] = "accepted" /\ pc'[k] = "insert"
          /\ UNCHANGED <<sessions, req, closing, will, fired, displaced>>
          /\ \A j \in Conns \ {k} : pc'[j] = pc[j] /\ epoch'[j] = epoch[j]
      BY <1>0, <1>5, ZenonT(40) DEF Connect, Goto, histVars
    <2>2. \A j \in Conns \ {k} : WillOf(j)'
      <3> SUFFICES ASSUME NEW j \in Conns \ {k} PROVE WillOf(j)'
        OBVIOUS
      <3>1. WillOf(j) /\ WillKept(j)
        BY <2>1, ZenonT(40) DEF WillInv, WillKept
      <3>2. QED
        BY <2>1, <3>1, WillBystander, ZenonT(40)
    <2>3. WillOf(k)'
      <3>1. \A c \in Clients : sessions'[c] # NoEntry => sessions'[c].epoch # epoch'[k]
        <4> SUFFICES ASSUME NEW c \in Clients, sessions'[c] # NoEntry, sessions'[c].epoch = epoch'[k]
                     PROVE  FALSE
          OBVIOUS
        <4>1. PICK i \in Conns : HeldBy(c, i)'
          BY ZenonT(40) DEF CoreInv, HoldInv, EntriesHeld
        <4>2. i = k
          BY <4>1, ZenonT(40) DEF HeldBy, CoreInv, HoldInv, EpochsGivenOnce
        <4>3. QED
          BY <2>1, <4>1, <4>2, ZenonT(40) DEF HeldBy
      <3>2. OwnWill(k)' = OwnWill(k)
        BY <2>1, ZenonT(40) DEF OwnWill
      <3>3. closing'[k] = "no" /\ pc'[k] \notin Firing /\ ~Armed(k)' /\ fired'[k] = {}
        BY <1>a, <2>1, SMTT(40) DEF Firing, Armed, WillOf
      <3>4. closing'[k] # "abnormal"
        BY <3>3, SMTT(40)
      <3>5. QED
        BY <1>a, <2>1, <3>1, <3>2, <3>3, <3>4, ZenonT(40) DEF WillOf
    <2>4. QED
      BY <2>2, <2>3, ZenonT(40) DEF WillInv
  <1>6. QED
    BY <1>1, <1>2, <1>3, <1>4, <1>5, ZenonT(40) DEF Input

\* register() puts the will of the connection into its own new entry.
LEMMA RegisterWill ==
  ASSUME CoreInv, CoreInv', WillInv, NEW k \in Conns, RegisterInsert(k)
  PROVE  WillInv'
  <1>1. PICK c, e : c = req[k].client /\ e = NewEntry(k)
    BY ZenonT(40)
  <1>2. c \in Clients /\ e.epoch = epoch[k] /\ e # NoEntry /\ epoch[k] # 0
        /\ closing[k] = "no" /\ WillOf(k)
    <2>1. pc[k] = "insert"
      BY ZenonT(40) DEF RegisterInsert
    <2>2. QED
      BY <1>1, <2>1, RequestType, NewEntryType, ZenonT(40)
         DEF CoreInv, HoldInv, EpochsGivenOnce, PhaseOK, WillInv
  <1>3. e.will = IF req[k].will THEN k ELSE NoWill
    BY <1>1, ZenonT(40) DEF NewEntry
  <1>4. /\ sessions'[c] = e /\ \A d \in Clients : d # c => sessions'[d] = sessions[d]
        /\ UNCHANGED <<epoch, req, closing, will, fired>>
        /\ Displace(c, "takeover")
    BY <1>1, <1>2, ZenonT(40) DEF RegisterInsert, CoreInv, TypeOK
  <1>5. pc'[k] \in {"connack", "count"} /\ \A j \in Conns \ {k} : pc'[j] = pc[j]
    BY ZenonT(40) DEF RegisterInsert, Goto, CoreInv, TypeOK
  <1>6. ASSUME NEW j \in Conns, j # k PROVE WillOf(j)'
    <2>1. WillKept(j)
      <3> SUFFICES ASSUME NEW d \in Clients, sessions'[d] # NoEntry, sessions'[d].epoch = epoch[j]
                   PROVE  /\ sessions[d] # NoEntry /\ sessions[d].epoch = epoch[j]
                          /\ sessions'[d].will = sessions[d].will
        BY ZenonT(40) DEF WillKept
      <3>1. d # c
        BY <1>2, <1>4, <1>6, ZenonT(40) DEF CoreInv, HoldInv, EpochsGivenOnce
      <3>2. QED
        BY <1>4, <3>1, ZenonT(40)
    <2>2. displaced'[j] = "no" => displaced[j] = "no"
      <3>1. "takeover" # "no"
        BY SMTT(40)
      <3>2. QED
        BY <1>4, <3>1, ZenonT(40) DEF Displace
    <2>3. QED
      BY <1>4, <1>5, <1>6, <2>1, <2>2, WillBystander, ZenonT(40) DEF WillInv
  <1>7. WillOf(k)'
    <2>1. \A d \in Clients : sessions'[d] # NoEntry /\ sessions'[d].epoch = epoch'[k] => d = c
      <3> SUFFICES ASSUME NEW d \in Clients, sessions'[d] # NoEntry, sessions'[d].epoch = epoch'[k]
                   PROVE  d = c
        OBVIOUS
      <3>1. PICK i \in Conns : HeldBy(d, i)'
        BY ZenonT(40) DEF CoreInv, HoldInv, EntriesHeld
      <3>2. i = k
        BY <3>1, ZenonT(40) DEF HeldBy, CoreInv, HoldInv, EpochsGivenOnce
      <3>3. QED
        BY <1>1, <1>4, <3>1, <3>2, ZenonT(40) DEF HeldBy
    <2>2. OwnWill(k)' = OwnWill(k) /\ e.will \in OwnWill(k)
      BY <1>3, <1>4, ZenonT(40) DEF OwnWill
    <2>3. closing'[k] = "no" /\ closing'[k] # "abnormal" /\ pc'[k] \notin Firing /\ fired'[k] = {}
      BY <1>2, <1>4, <1>5, SMTT(40) DEF Firing, WillOf
    <2>4. req'[k].will => sessions'[req'[k].client].will = k
      BY <1>1, <1>3, <1>4, ZenonT(40)
    <2>5. QED
      BY <1>2, <1>4, <2>1, <2>2, <2>3, <2>4, ZenonT(40) DEF WillOf
  <1>8. QED
    BY <1>6, <1>7, ZenonT(40) DEF WillInv

\* take_will and clear_will reach only the will of the connection that calls.
LEMMA WillReached ==
  ASSUME CoreInv, CoreInv', WillInv, NEW k \in Conns, TakeWill(k) \/ ClearWill(k)
  PROVE  /\ \A j \in Conns : j # k => WillOf(j)'
         /\ \A c \in Clients : sessions'[c] # NoEntry /\ sessions'[c].epoch = epoch'[k] =>
              sessions'[c].will \in OwnWill(k)'
  <1>1. PICK c : c = req[k].client
    BY ZenonT(40)
  <1>2. /\ UNCHANGED <<epoch, req, closing, fired, displaced>>
        /\ \A j \in Conns : j # k => pc'[j] = pc[j] /\ will'[j] = will[j]
        /\ sessions' = IF Owns(k) THEN [sessions EXCEPT ![c].will = NoWill] ELSE sessions
    BY <1>1, ZenonT(40) DEF TakeWill, ClearWill, Goto, histVars, CoreInv, TypeOK
  <1>3. epoch[k] # 0 /\ c \in Clients
    <2>1. pc[k] \notin {"accepted", "done"}
      BY SMTT(40) DEF TakeWill, ClearWill
    <2>2. QED
      BY <1>1, <2>1, RequestType, ZenonT(40) DEF CoreInv, HoldInv, EpochsGivenOnce
  <1>4. /\ Owns(k) => /\ sessions[c] # NoEntry /\ sessions[c].epoch = epoch[k]
                      /\ sessions[c] \in Entry
                      /\ sessions'[c] = [sessions[c] EXCEPT !.will = NoWill]
        /\ ~Owns(k) => sessions'[c] = sessions[c]
        /\ \A d \in Clients : d # c => sessions'[d] = sessions[d]
    BY <1>1, <1>2, <1>3, ZenonT(40) DEF Owns, CoreInv, TypeOK
  <1>5. Owns(k) => sessions'[c].epoch = epoch[k] /\ sessions'[c].will = NoWill
    BY <1>4, ZenonT(40) DEF Entry
  <1>6. ASSUME NEW j \in Conns, j # k PROVE WillOf(j)'
    <2>1. epoch[j] # epoch[k]
      BY <1>3, <1>6, ZenonT(40) DEF CoreInv, HoldInv, EpochsGivenOnce
    <2>2. WillKept(j)
      BY <1>4, <1>5, <2>1, ZenonT(40) DEF WillKept
    <2>3. QED
      BY <1>2, <1>6, <2>2, WillBystander, ZenonT(40) DEF WillInv
  <1>7. OwnWill(k)' = OwnWill(k) /\ NoWill \in OwnWill(k)
    BY <1>2, ZenonT(40) DEF OwnWill
  <1>8. ASSUME NEW d \in Clients, sessions'[d] # NoEntry, sessions'[d].epoch = epoch[k]
        PROVE  sessions'[d].will \in OwnWill(k)
    <2>1. CASE d = c /\ Owns(k)
      BY <1>5, <1>7, <2>1, ZenonT(40)
    <2>2. CASE d # c \/ ~Owns(k)
      <3>1. sessions'[d] = sessions[d]
        BY <1>4, <2>2, ZenonT(40)
      <3>2. QED
        BY <1>8, <3>1, ZenonT(40) DEF WillInv, WillOf
    <2>3. QED
      BY <2>1, <2>2, ZenonT(40)
  <1>9. QED
    BY <1>2, <1>6, <1>7, <1>8, ZenonT(40)

\* take_will moves the will of its own epoch into the hand of the task.
LEMMA TakeWillWill ==
  ASSUME CoreInv, CoreInv', WillInv, NEW k \in Conns, TakeWill(k)
  PROVE  WillInv'
  <1>1. PICK c, w : c = req[k].client /\ w = IF Owns(k) THEN sessions[c].will ELSE NoWill
    BY ZenonT(40)
  <1>2. /\ pc[k] = "take_will"
        /\ UNCHANGED <<epoch, req, closing, fired, displaced>>
        /\ will'[k] = w
        /\ pc'[k] = IF w = NoWill THEN "cleanup" ELSE "publish_will"
    BY <1>1, ZenonT(40) DEF TakeWill, Goto, histVars, CoreInv, TypeOK
  <1>3. c \in Clients /\ WillOf(k) /\ closing[k] = "abnormal"
    BY <1>1, <1>2, RequestType, ZenonT(40) DEF CoreInv, WillInv, WillOf, Firing
  <1>4. OwnWill(k)' = OwnWill(k) /\ w \in OwnWill(k)
    <2>1. NoWill \in OwnWill(k) /\ OwnWill(k)' = OwnWill(k)
      BY <1>2, ZenonT(40) DEF OwnWill
    <2>2. Owns(k) => sessions[c].will \in OwnWill(k)
      BY <1>1, <1>3, ZenonT(40) DEF Owns, WillOf
    <2>3. QED
      BY <1>1, <2>1, <2>2, ZenonT(40)
  <1>5. displaced[k] = "no" /\ req[k].will => w = k
    <2> SUFFICES ASSUME displaced[k] = "no", req[k].will PROVE w = k
      OBVIOUS
    <2>1. Armed(k)
      BY <1>2, ZenonT(40) DEF Armed
    <2>2. Owns(k) /\ sessions[c].will = k
      BY <1>1, <1>3, <2>1, ArmedLive, ZenonT(40) DEF WillOf
    <2>3. QED
      BY <1>1, <2>2, ZenonT(40)
  <1>6. k # NoWill
    BY ZenonT(40)
  <1>7. ~Armed(k)' /\ (pc'[k] \notin Firing => w = NoWill)
    BY <1>2, SMTT(40) DEF Armed, Firing
  <1>8. WillOf(k)'
    BY <1>2, <1>3, <1>4, <1>5, <1>6, <1>7, WillReached, ZenonT(40) DEF WillOf
  <1>9. QED
    BY <1>8, WillReached, ZenonT(40) DEF WillInv

\* clear_will drops the will of its own epoch.
LEMMA ClearWillWill ==
  ASSUME CoreInv, CoreInv', WillInv, NEW k \in Conns, ClearWill(k)
  PROVE  WillInv'
  <1>1. /\ pc[k] = "clear_will" /\ pc'[k] = "cleanup"
        /\ UNCHANGED <<epoch, req, closing, fired, displaced, will>>
    BY ZenonT(40) DEF ClearWill, Goto, histVars, CoreInv, TypeOK
  <1>2. WillOf(k) /\ OwnWill(k)' = OwnWill(k)
    BY <1>1, ZenonT(40) DEF WillInv, OwnWill
  <1>3. ~Armed(k)' /\ pc'[k] \notin Firing /\ pc[k] \notin Firing
    BY <1>1, SMTT(40) DEF Armed, Firing
  <1>4. WillOf(k)'
    BY <1>1, <1>2, <1>3, WillReached, ZenonT(40) DEF WillOf
  <1>5. QED
    BY <1>4, WillReached, ZenonT(40) DEF WillInv

\* The will in hand is published, once.
LEMMA PublishWillWill ==
  ASSUME CoreInv, CoreInv', WillInv, NEW k \in Conns, PublishWill(k)
  PROVE  WillInv'
  <1>1. /\ pc[k] = "publish_will" /\ pc'[k] = "cleanup"
        /\ UNCHANGED <<sessions, epoch, req, closing, displaced, will>>
        /\ fired'[k] = fired[k] \cup {will[k]}
        /\ \A j \in Conns : j # k => pc'[j] = pc[j] /\ fired'[j] = fired[j]
    <2>1. pc \in [Conns -> Labels] /\ fired \in [Conns -> SUBSET Conns]
      BY ZenonT(40) DEF CoreInv, TypeOK
    <2>2. QED
      BY <2>1, ZenonT(40) DEF PublishWill, Goto, mapVars
  <1>2. WillOf(k) /\ closing[k] = "abnormal" /\ will[k] # NoWill
    <2>1. WillOf(k) /\ will[k] # NoWill
      BY <1>1, ZenonT(40) DEF WillInv, CoreInv, PhaseOK
    <2>2. pc[k] \in Firing
      BY <1>1, ZenonT(40) DEF Firing
    <2>3. QED
      BY <2>1, <2>2, ZenonT(40) DEF WillOf
  <1>3. will[k] = k /\ req[k].will
    BY <1>2, ZenonT(40) DEF WillOf, OwnWill
  <1>4. fired'[k] = {k}
    BY <1>1, <1>2, <1>3, ZenonT(40) DEF WillOf
  <1>5. ~Armed(k)' /\ pc'[k] \notin Firing
    BY <1>1, SMTT(40) DEF Armed, Firing
  <1>6. WillOf(k)'
    <2>1. OwnWill(k)' = OwnWill(k)
      BY <1>1, ZenonT(40) DEF OwnWill
    <2>2. QED
      BY <1>1, <1>2, <1>3, <1>4, <1>5, <2>1, ZenonT(40) DEF WillOf
  <1>7. ASSUME NEW j \in Conns, j # k PROVE WillOf(j)'
    <2>1. WillKept(j)
      BY <1>1, ZenonT(40) DEF WillKept
    <2>2. QED
      BY <1>1, <1>7, <2>1, WillBystander, ZenonT(40) DEF WillInv
  <1>8. QED
    BY <1>6, <1>7, ZenonT(40) DEF WillInv

\* mark_offline and remove_if_epoch leave every will that stays where it is.
LEMMA GiveUpWill ==
  ASSUME CoreInv, CoreInv', WillInv, NEW k \in Conns, MarkOffline(k) \/ RemoveIfEpoch(k)
  PROVE  WillInv'
  <1>1. PICK c : c = req[k].client
    BY ZenonT(40)
  <1>2. c \in Clients
    BY <1>1, RequestType, ZenonT(40) DEF CoreInv
  <1>3. /\ pc[k] \in {"cleanup", "remove"}
        /\ UNCHANGED <<epoch, req, closing, fired, displaced, will>>
    BY ZenonT(40) DEF MarkOffline, RemoveIfEpoch, histVars
  <1>4. /\ pc'[k] \in {"recheck", "uncount", "unsubscribe_all", "done"}
        /\ \A j \in Conns : j # k => pc'[j] = pc[j]
    BY ZenonT(40) DEF MarkOffline, RemoveIfEpoch, Goto, CoreInv, TypeOK
  <1>5. \A d \in Clients : sessions'[d] # NoEntry =>
          /\ sessions[d] # NoEntry
          /\ sessions'[d].epoch = sessions[d].epoch
          /\ sessions'[d].will = sessions[d].will
    <2> SUFFICES ASSUME NEW d \in Clients, sessions'[d] # NoEntry, sessions'[d] # sessions[d]
                 PROVE  /\ sessions[d] # NoEntry
                        /\ sessions'[d].epoch = sessions[d].epoch
                        /\ sessions'[d].will = sessions[d].will
      BY ZenonT(40)
    <2>1. sessions \in [Clients -> Entry \cup {NoEntry}]
      BY ZenonT(40) DEF CoreInv, TypeOK
    <2>2. Owns(k) /\ sessions' = [sessions EXCEPT ![c].connected = FALSE]
      <3>1. CASE MarkOffline(k)
        BY <1>1, <3>1, ZenonT(40) DEF MarkOffline
      <3>2. CASE RemoveIfEpoch(k)
        <4>1. sessions' = [sessions EXCEPT ![c] = NoEntry] \/ sessions' = sessions
          BY <1>1, <3>2, ZenonT(40) DEF RemoveIfEpoch
        <4>2. QED
          BY <1>2, <2>1, <4>1, ZenonT(40)
      <3>3. QED
        BY <3>1, <3>2, ZenonT(40)
    <2>3. sessions[c] \in Entry
      BY <1>1, <1>2, <2>1, <2>2, ZenonT(40) DEF Owns
    <2>4. d = c /\ sessions'[c] = [sessions[c] EXCEPT !.connected = FALSE]
      BY <1>2, <2>1, <2>2, ZenonT(40)
    <2>5. QED
      BY <2>3, <2>4, ZenonT(40) DEF Entry
  <1>6. \A j \in Conns : WillKept(j)
    BY <1>5, ZenonT(40) DEF WillKept
  <1>7. Steers(k)
    <2>1. ~Armed(k)' /\ pc'[k] \notin Firing /\ pc[k] \notin Firing
      BY <1>3, <1>4, SMTT(40) DEF Armed, Firing
    <2>2. QED
      BY <1>3, <2>1, ZenonT(40) DEF Steers
  <1>8. ASSUME NEW j \in Conns PROVE WillOf(j)'
    <2>1. CASE j = k
      BY <1>3, <1>6, <1>7, <2>1, WillStays, ZenonT(40) DEF WillInv
    <2>2. CASE j # k
      BY <1>3, <1>4, <1>6, <2>2, WillBystander, ZenonT(40) DEF WillInv
    <2>3. QED
      BY <2>1, <2>2, ZenonT(40)
  <1>9. QED
    BY <1>8, ZenonT(40) DEF WillInv

\* The steps of a task that touch neither an entry nor a will.
LEMMA OtherTaskWill ==
  ASSUME CoreInv, CoreInv', WillInv, NEW k \in Conns,
         \/ ConnackSent(k) \/ ConnackFailed(k) \/ Replay(k) \/ RegisterCount(k)
         \/ ShutdownSignal(k) \/ RxClosed(k) \/ AckSent(k) \/ PersistCheck(k)
         \/ PersistRead(k) \/ PersistSave(k) \/ AbnormalOwns(k) \/ CleanupOwns(k)
         \/ CleanupExpired(k) \/ RemoveUncount(k) \/ UnsubscribeAll(k) \/ DeleteSnapshot(k)
         \/ \E f \in Filters : SubscribeOne(k, f) \/ RefuseOne(k, f) \/ UnsubscribeOne(k, f)
  PROVE  WillInv'
  <1>0. pc \in [Conns -> Labels] /\ closing \in [Conns -> Reasons]
    BY ZenonT(40) DEF CoreInv, TypeOK
  <1>a. /\ pc[k] \in {"connack", "replay", "main", "subscribe", "unsubscribe"} => closing[k] = "no"
        /\ pc[k] = "expiry" => closing[k] # "no"
        /\ WillOf(k)
    BY ZenonT(40) DEF CoreInv, PhaseOK, WillInv
  <1>1. CASE ConnackSent(k)
    <2>1. MovesOnly(k)
      BY <1>0, <1>1, ZenonT(40) DEF ConnackSent, Goto, MovesOnly, mapVars, histVars
    <2>2. Steers(k)
      <3>1. /\ pc[k] = "connack"
            /\ pc'[k] = "replay"
            /\ closing' = closing
        BY <1>0, <1>1, ZenonT(40) DEF ConnackSent, Goto
      <3>2. QED
        BY <1>a, <3>1, SMTT(40) DEF Steers, Armed, Firing
    <2>3. QED
      BY <2>1, <2>2, WillMove, ZenonT(40)
  <1>2. CASE ConnackFailed(k)
    <2>1. MovesOnly(k)
      BY <1>0, <1>2, ZenonT(40) DEF ConnackFailed, Goto, MovesOnly, mapVars, histVars
    <2>2. Steers(k)
      <3>1. /\ pc[k] = "connack"
            /\ pc'[k] = "cleanup"
            /\ closing'[k] = "connack"
        BY <1>0, <1>2, ZenonT(40) DEF ConnackFailed, Goto
      <3>2. QED
        BY <1>a, <3>1, SMTT(40) DEF Steers, Armed, Firing
    <2>3. QED
      BY <2>1, <2>2, WillMove, ZenonT(40)
  <1>3. CASE Replay(k)
    <2>1. MovesOnly(k)
      BY <1>0, <1>3, ZenonT(40) DEF Replay, Goto, MovesOnly, mapVars, histVars
    <2>2. Steers(k)
      <3>1. /\ pc[k] = "replay"
            /\ pc'[k] = "main"
            /\ closing' = closing
        BY <1>0, <1>3, ZenonT(40) DEF Replay, Goto
      <3>2. QED
        BY <1>a, <3>1, SMTT(40) DEF Steers, Armed, Firing
    <2>3. QED
      BY <2>1, <2>2, WillMove, ZenonT(40)
  <1>4. CASE RegisterCount(k)
    <2>1. MovesOnly(k)
      BY <1>0, <1>4, ZenonT(40) DEF RegisterCount, Goto, MovesOnly, mapVars, histVars
    <2>2. Steers(k)
      <3>1. /\ pc[k] = "count"
            /\ pc'[k] = "connack"
            /\ closing' = closing
        BY <1>0, <1>4, ZenonT(40) DEF RegisterCount, Goto
      <3>2. QED
        BY <1>a, <3>1, SMTT(40) DEF Steers, Armed, Firing
    <2>3. QED
      BY <2>1, <2>2, WillMove, ZenonT(40)
  <1>5. CASE ShutdownSignal(k)
    <2>1. MovesOnly(k)
      BY <1>0, <1>5, ZenonT(40) DEF ShutdownSignal, Goto, MovesOnly, mapVars, histVars
    <2>2. Steers(k)
      <3>1. /\ pc[k] \in {"replay", "main"}
            /\ pc'[k] = "cleanup"
            /\ closing'[k] = "shutdown"
        BY <1>0, <1>5, ZenonT(40) DEF ShutdownSignal, Goto
      <3>2. QED
        BY <1>a, <3>1, SMTT(40) DEF Steers, Armed, Firing
    <2>3. QED
      BY <2>1, <2>2, WillMove, ZenonT(40)
  <1>6. CASE RxClosed(k)
    <2>1. MovesOnly(k)
      BY <1>0, <1>6, ZenonT(40) DEF RxClosed, Goto, MovesOnly, mapVars, histVars
    <2>2. Steers(k)
      <3>1. /\ pc[k] = "main"
            /\ pc'[k] = "done"
            /\ closing'[k] = "rx_closed"
        BY <1>0, <1>6, ZenonT(40) DEF RxClosed, Goto
      <3>2. QED
        BY <1>a, <3>1, SMTT(40) DEF Steers, Armed, Firing
    <2>3. QED
      BY <2>1, <2>2, WillMove, ZenonT(40)
  <1>7. CASE AckSent(k)
    <2>1. MovesOnly(k)
      BY <1>0, <1>7, ZenonT(40) DEF AckSent, Goto, MovesOnly, mapVars, histVars
    <2>2. Steers(k)
      <3>1. /\ pc[k] \in {"subscribe", "unsubscribe"}
            /\ pc'[k] = "persist"
            /\ closing' = closing
        BY <1>0, <1>7, ZenonT(40) DEF AckSent, Goto
      <3>2. QED
        BY <1>a, <3>1, SMTT(40) DEF Steers, Armed, Firing
    <2>3. QED
      BY <2>1, <2>2, WillMove, ZenonT(40)
  <1>8. CASE PersistCheck(k)
    <2>1. MovesOnly(k)
      BY <1>0, <1>8, ZenonT(40) DEF PersistCheck, Return, Goto, MovesOnly, mapVars, histVars
    <2>2. Steers(k)
      <3>1. /\ pc[k] = "persist"
            /\ pc'[k] \in {"read_subs", IF closing[k] = "no" THEN "main" ELSE "done"}
            /\ closing' = closing
        BY <1>0, <1>8, ZenonT(40) DEF PersistCheck, Return, Goto
      <3>2. QED
        BY <1>a, <3>1, SMTT(40) DEF Steers, Armed, Firing
    <2>3. QED
      BY <2>1, <2>2, WillMove, ZenonT(40)
  <1>9. CASE PersistRead(k)
    <2>1. MovesOnly(k)
      BY <1>0, <1>9, ZenonT(40) DEF PersistRead, Return, Goto, MovesOnly, mapVars, histVars
    <2>2. Steers(k)
      <3>1. /\ pc[k] = "read_subs"
            /\ pc'[k] \in {"save", IF closing[k] = "no" THEN "main" ELSE "done"}
            /\ closing' = closing
        BY <1>0, <1>9, ZenonT(40) DEF PersistRead, Return, Goto
      <3>2. QED
        BY <1>a, <3>1, SMTT(40) DEF Steers, Armed, Firing
    <2>3. QED
      BY <2>1, <2>2, WillMove, ZenonT(40)
  <1>10. CASE PersistSave(k)
    <2>1. MovesOnly(k)
      BY <1>0, <1>10, ZenonT(40) DEF PersistSave, Return, Goto, MovesOnly, mapVars, histVars
    <2>2. Steers(k)
      <3>1. /\ pc[k] = "save"
            /\ pc'[k] = IF closing[k] = "no" THEN "main" ELSE "done"
            /\ closing' = closing
        BY <1>0, <1>10, ZenonT(40) DEF PersistSave, Return, Goto
      <3>2. QED
        BY <1>a, <3>1, SMTT(40) DEF Steers, Armed, Firing
    <2>3. QED
      BY <2>1, <2>2, WillMove, ZenonT(40)
  <1>11. CASE AbnormalOwns(k)
    <2>1. MovesOnly(k)
      BY <1>0, <1>11, ZenonT(40) DEF AbnormalOwns, Goto, MovesOnly, mapVars, histVars
    <2>2. Steers(k)
      <3>1. pc[k] = "abnormal" /\ closing[k] = "abnormal" /\ closing' = closing /\ Armed(k)
        BY <1>a, <1>11, ZenonT(40) DEF AbnormalOwns, Firing, Armed, WillOf
      <3>2. pc'[k] = IF Owns(k) THEN "take_will" ELSE "cleanup"
        BY <1>0, <1>11, ZenonT(40) DEF AbnormalOwns, Goto
      <3>3. ~Owns(k) => displaced[k] # "no"
        BY <3>1, ArmedLive, ZenonT(40)
      <3>4. Owns(k) => pc'[k] \in Firing
        BY <3>2, ZenonT(40) DEF Firing
      <3>5. QED
        BY <3>1, <3>3, <3>4, ZenonT(40) DEF Steers
    <2>3. QED
      BY <2>1, <2>2, WillMove, ZenonT(40)
  <1>12. CASE CleanupOwns(k)
    <2>1. MovesOnly(k)
      BY <1>0, <1>12, ZenonT(40) DEF CleanupOwns, Goto, MovesOnly, mapVars, histVars
    <2>2. Steers(k)
      <3>1. /\ pc[k] = "recheck"
            /\ pc'[k] \in {"expiry", "done"}
            /\ closing' = closing
        BY <1>0, <1>12, ZenonT(40) DEF CleanupOwns, Goto
      <3>2. QED
        BY <1>a, <3>1, SMTT(40) DEF Steers, Armed, Firing
    <2>3. QED
      BY <2>1, <2>2, WillMove, ZenonT(40)
  <1>13. CASE CleanupExpired(k)
    <2>1. MovesOnly(k)
      BY <1>0, <1>13, ZenonT(40) DEF CleanupExpired, Goto, MovesOnly, mapVars, histVars
    <2>2. Steers(k)
      <3>1. /\ pc[k] = "expiry"
            /\ pc'[k] \in {"remove", "persist"}
            /\ closing' = closing
        BY <1>0, <1>13, ZenonT(40) DEF CleanupExpired, Goto
      <3>2. QED
        BY <1>a, <3>1, SMTT(40) DEF Steers, Armed, Firing
    <2>3. QED
      BY <2>1, <2>2, WillMove, ZenonT(40)
  <1>14. CASE RemoveUncount(k)
    <2>1. MovesOnly(k)
      BY <1>0, <1>14, ZenonT(40) DEF RemoveUncount, Goto, MovesOnly, mapVars, histVars
    <2>2. Steers(k)
      <3>1. /\ pc[k] = "uncount"
            /\ pc'[k] = "unsubscribe_all"
            /\ closing' = closing
        BY <1>0, <1>14, ZenonT(40) DEF RemoveUncount, Goto
      <3>2. QED
        BY <1>a, <3>1, SMTT(40) DEF Steers, Armed, Firing
    <2>3. QED
      BY <2>1, <2>2, WillMove, ZenonT(40)
  <1>15. CASE UnsubscribeAll(k)
    <2>1. MovesOnly(k)
      BY <1>0, <1>15, ZenonT(40) DEF UnsubscribeAll, Goto, MovesOnly, mapVars, histVars
    <2>2. Steers(k)
      <3>1. /\ pc[k] = "unsubscribe_all"
            /\ pc'[k] = "delete_snapshot"
            /\ closing' = closing
        BY <1>0, <1>15, ZenonT(40) DEF UnsubscribeAll, Goto
      <3>2. QED
        BY <1>a, <3>1, SMTT(40) DEF Steers, Armed, Firing
    <2>3. QED
      BY <2>1, <2>2, WillMove, ZenonT(40)
  <1>16. CASE DeleteSnapshot(k)
    <2>1. MovesOnly(k)
      BY <1>0, <1>16, ZenonT(40) DEF DeleteSnapshot, Goto, MovesOnly, mapVars, histVars
    <2>2. Steers(k)
      <3>1. /\ pc[k] = "delete_snapshot"
            /\ pc'[k] = "done"
            /\ closing' = closing
        BY <1>0, <1>16, ZenonT(40) DEF DeleteSnapshot, Goto
      <3>2. QED
        BY <1>a, <3>1, SMTT(40) DEF Steers, Armed, Firing
    <2>3. QED
      BY <2>1, <2>2, WillMove, ZenonT(40)
  <1>17. ASSUME NEW f \in Filters, SubscribeOne(k, f) \/ RefuseOne(k, f) \/ UnsubscribeOne(k, f)
         PROVE  WillInv'
    <2>1. UNCHANGED <<sessions, epoch, req, displaced, will, fired, pc, closing>>
      BY <1>17, ZenonT(40) DEF SubscribeOne, RefuseOne, UnsubscribeOne, mapVars, histVars
    <2>2. MovesOnly(k) /\ Steers(k)
      BY <1>a, <2>1, ZenonT(40) DEF MovesOnly, Steers, Armed, WillOf
    <2>3. QED
      BY <2>2, WillMove, ZenonT(40)
  <1>18. QED
    BY <1>1, <1>2, <1>3, <1>4, <1>5, <1>6, <1>7, <1>8, <1>9,
       <1>10, <1>11, <1>12, <1>13, <1>14, <1>15, <1>16, <1>17, ZenonT(40)

\* Every step of a connection task keeps every will where it belongs.
LEMMA TaskWill ==
  ASSUME CoreInv, CoreInv', WillInv, NEW k \in Conns, Task(k)
  PROVE  WillInv'
  BY RegisterWill, TakeWillWill, ClearWillWill, PublishWillWill, GiveUpWill, OtherTaskWill,
     ZenonT(40) DEF Task

\* The sweeper and the admin take whole entries, never a will.
LEMMA RemovalWill ==
  ASSUME CoreInv, CoreInv', WillInv, NEW c \in Clients, NEW why, why # "no",
         sessions' = [sessions EXCEPT ![c] = NoEntry], Displace(c, why),
         UNCHANGED <<epoch, req, pc, closing, will, fired>>
  PROVE  WillInv'
  <1>1. sessions'[c] = NoEntry /\ \A d \in Clients : d # c => sessions'[d] = sessions[d]
    BY ZenonT(40) DEF CoreInv, TypeOK
  <1>2. \A j \in Conns : WillKept(j)
    BY <1>1, ZenonT(40) DEF WillKept
  <1>3. \A j \in Conns : displaced'[j] = "no" => displaced[j] = "no"
    BY ZenonT(40) DEF Displace
  <1>4. QED
    BY <1>2, <1>3, WillUntouched, ZenonT(40)

\* Every step keeps every will where it belongs.
LEMMA WillStep ==
  ASSUME CoreInv, CoreInv', WillInv, [Step]_stateVars
  PROVE  WillInv'
  <1>1. CASE UNCHANGED <<sessions, displaced, epoch, req, pc, closing, will, fired>>
    <2>1. \A j \in Conns : WillKept(j)
      BY <1>1, ZenonT(40) DEF WillKept
    <2>2. QED
      BY <1>1, <2>1, WillUntouched, ZenonT(40)
  <1>2. CASE Sweeper
    <2>1. CASE SweepRemove
      <3>1. PICK c \in Clients : c = sweep.id
        BY ZenonT(40) DEF CoreInv, TypeOK, SweepState
      <3>2. "sweep" # "no"
        BY SMTT(40)
      <3>3. /\ sessions' = [sessions EXCEPT ![c] = NoEntry] /\ Displace(c, "sweep")
            /\ UNCHANGED <<epoch, req, pc, closing, will, fired>>
        BY <2>1, <3>1, ZenonT(40) DEF SweepRemove, connVars
      <3>4. QED
        BY <3>2, <3>3, RemovalWill, ZenonT(40)
    <2>2. SweepRemove \/ UNCHANGED <<sessions, displaced, epoch, req, pc, closing, will, fired>>
      BY <1>2, ZenonT(40) DEF Sweeper, SweepTick, SweepDelete, SweepDone, SweepStop,
         SweepScan, SweepRecheck, SweepUnsubscribe, connVars, mapVars, histVars
    <2>3. QED
      BY <1>1, <2>1, <2>2, ZenonT(40)
  <1>3. CASE Admin
    <2>1. CASE AdminRemove
      <3>1. PICK c \in Clients : c = admin.client
        BY ZenonT(40) DEF CoreInv, TypeOK, AdminState
      <3>2. "admin" # "no"
        BY SMTT(40)
      <3>3. /\ sessions' = [sessions EXCEPT ![c] = NoEntry] /\ Displace(c, "admin")
            /\ UNCHANGED <<epoch, req, pc, closing, will, fired>>
        BY <2>1, <3>1, ZenonT(40) DEF AdminRemove, connVars
      <3>4. QED
        BY <3>2, <3>3, RemovalWill, ZenonT(40)
    <2>2. AdminRemove \/ UNCHANGED <<sessions, displaced, epoch, req, pc, closing, will, fired>>
      BY <1>3, ZenonT(40) DEF Admin, AdminDelete, AdminUnsubscribe, AdminUncount,
         AdminDeleteSnapshot, connVars, mapVars, histVars
    <2>3. QED
      BY <1>1, <2>1, <2>2, ZenonT(40)
  <1>4. ASSUME NEW c \in Clients, Elapse(c) PROVE WillInv'
    <2>1. sessions[c] \in Entry
      BY <1>4, ZenonT(40) DEF Elapse, CoreInv, TypeOK
    <2>2. /\ sessions'[c] = [sessions[c] EXCEPT !.aged = TRUE]
          /\ \A d \in Clients : d # c => sessions'[d] = sessions[d]
          /\ UNCHANGED <<displaced, epoch, req, pc, closing, will, fired>>
      BY <1>4, ZenonT(40) DEF Elapse, CoreInv, TypeOK, connVars, histVars
    <2>3. sessions'[c].epoch = sessions[c].epoch /\ sessions'[c].will = sessions[c].will
      BY <2>1, <2>2, ZenonT(40) DEF Entry
    <2>4. sessions[c] # NoEntry
      BY <1>4, ZenonT(40) DEF Elapse
    <2>5. \A j \in Conns : WillKept(j)
      BY <2>2, <2>3, <2>4, ZenonT(40) DEF WillKept
    <2>6. QED
      BY <2>2, <2>5, WillUntouched, ZenonT(40)
  <1>5. Shutdown \/ UNCHANGED stateVars =>
          UNCHANGED <<sessions, displaced, epoch, req, pc, closing, will, fired>>
    BY ZenonT(40) DEF Shutdown, stateVars, connVars, mapVars, histVars
  <1>6. QED
    BY <1>1, <1>2, <1>3, <1>4, <1>5, InputWill, TaskWill, ZenonT(40) DEF Step

\* The last will is fired by the connection that registered it and by no other,
\* only after an abnormal end, and then always, unless the connection had lost
\* its session: take_will's comparison of the epoch is enough, for any number of
\* takeovers, sweeps and deletions between on_abnormal_disconnect's two steps.
THEOREM WillsFiredRight == Spec => []WillFiredRight
  <1>1. Init => WillInv
    <2> SUFFICES ASSUME Init, NEW k \in Conns PROVE WillOf(k)
      BY ZenonT(40) DEF WillInv
    <2>1. /\ pc[k] = "accepted" /\ closing[k] = "no" /\ fired[k] = {} /\ will[k] = NoWill
          /\ \A c \in Clients : sessions[c] = NoEntry
      BY ZenonT(40) DEF Init
    <2>2. pc[k] \notin Firing /\ ~Armed(k) /\ closing[k] # "abnormal"
      BY <2>1, SMTT(40) DEF Firing, Armed
    <2>3. QED
      BY <2>1, <2>2, ZenonT(40) DEF WillOf, OwnWill
  <1>2. WillInv => WillFiredRight
    <2> SUFFICES ASSUME WillInv, NEW k \in Conns
                 PROVE  /\ fired[k] \subseteq {k}
                        /\ fired[k] # {} => req[k].will /\ closing[k] = "abnormal"
                        /\ pc[k] = "done" /\ closing[k] = "abnormal" /\ displaced[k] = "no"
                             /\ req[k].will => fired[k] = {k}
      BY ZenonT(40) DEF WillFiredRight
    <2>1. pc[k] = "done" => pc[k] \notin Firing
      BY SMTT(40) DEF Firing
    <2>2. QED
      BY <2>1, ZenonT(40) DEF WillInv, WillOf
  <1>3. CoreInv /\ CoreInv' /\ WillInv /\ [Step]_stateVars => WillInv'
    BY WillStep, ZenonT(40)
  <1>4. QED
    BY <1>1, <1>2, <1>3, CoreInvariant, StepOrExit, PTL DEF Spec

(***************************************************************************)
(* SessionManager.online_count.                                            *)
(***************************************************************************)

\* A new member makes a finite set one larger.
LEMMA CardAdd ==
  ASSUME NEW S, NEW T, NEW x, IsFiniteSet(S), x \notin S, T = S \cup {x}
  PROVE  Cardinality(T) = Cardinality(S) + 1 /\ Cardinality(S) \in Nat
  BY FS_AddElement, FS_CardinalityType, ZenonT(40)

\* Without one of its members a finite set is one smaller.
LEMMA CardRemove ==
  ASSUME NEW S, NEW T, NEW x, IsFiniteSet(S), x \in S, T = S \ {x}
  PROVE  Cardinality(T) = Cardinality(S) - 1 /\ Cardinality(S) \in Nat
  BY FS_RemoveElement, FS_CardinalityType, ZenonT(40)

\* The sets that explain the online count are finite.
LEMMA CountsFinite ==
  /\ IsFiniteSet(Online) /\ IsFiniteSet(Counting) /\ IsFiniteSet(Uncounting)
  /\ Cardinality(Online) \in Nat
  /\ Cardinality(Counting) \in Nat
  /\ Cardinality(Uncounting) \in Nat
  <1>1. Online \subseteq Clients /\ Counting \subseteq Conns /\ Uncounting \subseteq Conns
    BY ZenonT(40) DEF Online, Counting, Uncounting
  <1>2. QED
    BY <1>1, FS_Subset, FS_CardinalityType, ZenonT(40)

\* The online count and the removals it missed are numbers.
LEMMA CountTypes ==
  ASSUME TypeOK
  PROVE  onlineCount \in Int /\ leaked \in Nat
  BY ZenonT(40) DEF TypeOK

\* The terms of the balance as numbers.
LEMMA Balanced ==
  ASSUME TypeOK, OnlineCountAccounted
  PROVE  \E o \in Int, c \in Nat, n \in Nat, u \in Nat, l \in Nat, w \in Nat :
           /\ o = onlineCount /\ c = Cardinality(Counting) /\ n = Cardinality(Online)
           /\ u = Cardinality(Uncounting) /\ l = leaked
           /\ w = IF admin.pc = "uncount" THEN 1 ELSE 0
           /\ o + c = n + u + l + w
  <1>1. PICK w \in Nat : w = IF admin.pc = "uncount" THEN 1 ELSE 0
    BY SMTT(40)
  <1>2. onlineCount + Cardinality(Counting) = Cardinality(Online) + Cardinality(Uncounting) + leaked + w
    BY <1>1, ZenonT(40) DEF OnlineCountAccounted
  <1>3. QED
    BY <1>1, <1>2, CountsFinite, CountTypes, ZenonT(40)

\* Steps that change neither the counter nor what it counts.
LEMMA CountKept ==
  ASSUME OnlineCountAccounted, EntriesKept,
         \A j \in Conns : pc'[j] = "count" <=> pc[j] = "count",
         \A j \in Conns : pc'[j] = "uncount" <=> pc[j] = "uncount",
         admin'.pc = "uncount" <=> admin.pc = "uncount",
         UNCHANGED <<onlineCount, leaked>>
  PROVE  OnlineCountAccounted'
  <1>1. Online' = Online
    BY ZenonT(40) DEF Online, IsOnline, EntriesKept
  <1>2. Counting' = Counting /\ Uncounting' = Uncounting
    BY ZenonT(40) DEF Counting, Uncounting
  <1>3. QED
    BY <1>1, <1>2, ZenonT(40) DEF OnlineCountAccounted

\* At the start nobody is online and nothing is counted.
LEMMA CountInit == Init => OnlineCountAccounted
  <1> SUFFICES ASSUME Init PROVE OnlineCountAccounted
    OBVIOUS
  <1>1. Online = {} /\ Counting = {} /\ Uncounting = {}
    BY ZenonT(40) DEF Init, Online, IsOnline, Counting, Uncounting
  <1>2. admin.pc = "idle" /\ onlineCount = 0 /\ leaked = 0
    BY ZenonT(40) DEF Init
  <1>3. QED
    BY <1>1, <1>2, FS_EmptySet, SMTT(40) DEF OnlineCountAccounted

\* register_session adds an entry before the count follows.
LEMMA RegisterInsertCount ==
  ASSUME TypeOK, OnlineCountAccounted, NEW k \in Conns, RegisterInsert(k)
  PROVE  OnlineCountAccounted'
  <1> DEFINE c == req[k].client
  <1>1. c \in Clients /\ NewEntry(k) # NoEntry /\ NewEntry(k).connected
    BY RequestType, NewEntryType, ZenonT(40)
  <1>2. /\ sessions' = [sessions EXCEPT ![c] = NewEntry(k)]
        /\ pc[k] = "insert"
        /\ pc'[k] = IF IsOnline(c) THEN "connack" ELSE "count"
        /\ \A j \in Conns \ {k} : pc'[j] = pc[j]
        /\ UNCHANGED <<onlineCount, leaked, admin>>
    BY ZenonT(40) DEF RegisterInsert, Goto, TypeOK, bgVars
  <1>3. Online' = Online \cup {c} /\ Uncounting' = Uncounting
    BY <1>1, <1>2, SMTT(40) DEF Online, IsOnline, Uncounting, TypeOK
  <1>4. CASE IsOnline(c)
    <2>1. Online' = Online /\ Counting' = Counting
      BY <1>1, <1>2, <1>3, <1>4, ZenonT(40) DEF Online, Counting
    <2>2. QED
      BY <1>2, <1>3, <2>1, ZenonT(40) DEF OnlineCountAccounted
  <1>5. CASE ~IsOnline(c)
    <2>1. c \notin Online /\ k \notin Counting /\ Counting' = Counting \cup {k}
      BY <1>2, <1>5, ZenonT(40) DEF Online, Counting
    <2>2. /\ Cardinality(Online') = Cardinality(Online) + 1
          /\ Cardinality(Counting') = Cardinality(Counting) + 1
      BY <1>3, <2>1, CardAdd, CountsFinite, ZenonT(40)
    <2>3. QED
      <3>1. PICK o \in Int, cs \in Nat, n \in Nat, u \in Nat, l \in Nat, w \in Nat :
            /\ o = onlineCount /\ cs = Cardinality(Counting) /\ n = Cardinality(Online)
            /\ u = Cardinality(Uncounting) /\ l = leaked
            /\ w = IF admin.pc = "uncount" THEN 1 ELSE 0
            /\ o + cs = n + u + l + w
        BY Balanced, ZenonT(40)
      <3>2. onlineCount' = o /\ Cardinality(Counting') = cs + 1 /\ Cardinality(Online') = n + 1
            /\ Cardinality(Uncounting') = u /\ leaked' = l
            /\ w = IF admin'.pc = "uncount" THEN 1 ELSE 0
        BY <1>2, <1>3, <2>2, <3>1, ZenonT(40)
      <3>3. o + (cs + 1) = (n + 1) + u + l + w
        BY <3>1, SMTT(40)
      <3>4. QED
        BY <3>2, <3>3, ZenonT(40) DEF OnlineCountAccounted
  <1>6. QED
    BY <1>4, <1>5, ZenonT(40)

\* register() and remove_if_epoch settle a count that is under way.
LEMMA SettleCount ==
  ASSUME TypeOK, OnlineCountAccounted, NEW k \in Conns,
         RegisterCount(k) \/ RemoveUncount(k)
  PROVE  OnlineCountAccounted'
  <1>1. UNCHANGED <<sessions, leaked, admin>>
    BY ZenonT(40) DEF RegisterCount, RemoveUncount, histVars, bgVars
  <1>2. Online' = Online
    BY <1>1, ZenonT(40) DEF Online, IsOnline
  <1>3. CASE RegisterCount(k)
    <2>1. k \in Counting /\ Counting' = Counting \ {k} /\ Uncounting' = Uncounting
      BY <1>3, ZenonT(40) DEF RegisterCount, Goto, Counting, Uncounting, TypeOK
    <2>2. Cardinality(Counting') = Cardinality(Counting) - 1
      BY <2>1, CardRemove, CountsFinite, ZenonT(40)
    <2>3. QED
      <3>1. PICK o \in Int, cs \in Nat, n \in Nat, u \in Nat, l \in Nat, w \in Nat :
            /\ o = onlineCount /\ cs = Cardinality(Counting) /\ n = Cardinality(Online)
            /\ u = Cardinality(Uncounting) /\ l = leaked
            /\ w = IF admin.pc = "uncount" THEN 1 ELSE 0
            /\ o + cs = n + u + l + w
        BY Balanced, ZenonT(40)
      <3>2. onlineCount' = o + 1 /\ Cardinality(Counting') = cs - 1 /\ Cardinality(Online') = n
            /\ Cardinality(Uncounting') = u /\ leaked' = l
            /\ w = IF admin'.pc = "uncount" THEN 1 ELSE 0
        BY <1>1, <1>2, <1>3, <2>1, <2>2, <3>1, ZenonT(40) DEF RegisterCount
      <3>3. (o + 1) + (cs - 1) = n + u + l + w
        BY <3>1, SMTT(40)
      <3>4. QED
        BY <3>2, <3>3, ZenonT(40) DEF OnlineCountAccounted
  <1>4. CASE RemoveUncount(k)
    <2>1. k \in Uncounting /\ Uncounting' = Uncounting \ {k} /\ Counting' = Counting
      BY <1>4, ZenonT(40) DEF RemoveUncount, Goto, Counting, Uncounting, TypeOK
    <2>2. Cardinality(Uncounting') = Cardinality(Uncounting) - 1
      BY <2>1, CardRemove, CountsFinite, ZenonT(40)
    <2>3. QED
      <3>1. PICK o \in Int, cs \in Nat, n \in Nat, u \in Nat, l \in Nat, w \in Nat :
            /\ o = onlineCount /\ cs = Cardinality(Counting) /\ n = Cardinality(Online)
            /\ u = Cardinality(Uncounting) /\ l = leaked
            /\ w = IF admin.pc = "uncount" THEN 1 ELSE 0
            /\ o + cs = n + u + l + w
        BY Balanced, ZenonT(40)
      <3>2. onlineCount' = o - 1 /\ Cardinality(Counting') = cs /\ Cardinality(Online') = n
            /\ Cardinality(Uncounting') = u - 1 /\ leaked' = l
            /\ w = IF admin'.pc = "uncount" THEN 1 ELSE 0
        BY <1>1, <1>2, <1>4, <2>1, <2>2, <3>1, ZenonT(40) DEF RemoveUncount
      <3>3. (o - 1) + cs = n + (u - 1) + l + w
        BY <3>1, SMTT(40)
      <3>4. QED
        BY <3>2, <3>3, ZenonT(40) DEF OnlineCountAccounted
  <1>5. QED
    BY <1>3, <1>4, ZenonT(40)

\* mark_offline changes the entry before the count follows.
LEMMA MarkOfflineCount ==
  ASSUME TypeOK, OnlineCountAccounted, NEW k \in Conns, MarkOffline(k)
  PROVE  OnlineCountAccounted'
  <1> DEFINE c == req[k].client
  <1>1. /\ UNCHANGED <<leaked, admin>>
        /\ Counting' = Counting /\ Uncounting' = Uncounting
    BY ZenonT(40) DEF MarkOffline, Goto, Counting, Uncounting, TypeOK, histVars, bgVars
  <1>2. CASE ~(Owns(k) /\ sessions[c].connected)
    <2>1. UNCHANGED <<sessions, onlineCount>>
      BY <1>2, ZenonT(40) DEF MarkOffline
    <2>2. Online' = Online
      BY <2>1, ZenonT(40) DEF Online, IsOnline
    <2>3. QED
      BY <1>1, <2>1, <2>2, ZenonT(40) DEF OnlineCountAccounted
  <1>3. CASE Owns(k) /\ sessions[c].connected
    <2>1. c \in Clients /\ sessions[c] \in Entry
      BY <1>3, RequestType, ZenonT(40) DEF Owns, TypeOK
    <2>2. /\ sessions' = [sessions EXCEPT ![c].connected = FALSE]
          /\ sessions'[c] = [sessions[c] EXCEPT !.connected = FALSE]
          /\ onlineCount' = onlineCount - 1
      BY <1>3, <2>1, ZenonT(40) DEF MarkOffline, TypeOK
    <2>3. c \in Online /\ Online' = Online \ {c}
      BY <1>3, <2>1, <2>2, ZenonT(40) DEF Online, IsOnline, Owns, TypeOK, Entry
    <2>4. Cardinality(Online') = Cardinality(Online) - 1
      BY <2>3, CardRemove, CountsFinite, ZenonT(40)
    <2>5. QED
      <3>1. PICK o \in Int, cs \in Nat, n \in Nat, u \in Nat, l \in Nat, w \in Nat :
            /\ o = onlineCount /\ cs = Cardinality(Counting) /\ n = Cardinality(Online)
            /\ u = Cardinality(Uncounting) /\ l = leaked
            /\ w = IF admin.pc = "uncount" THEN 1 ELSE 0
            /\ o + cs = n + u + l + w
        BY Balanced, ZenonT(40)
      <3>2. onlineCount' = o - 1 /\ Cardinality(Counting') = cs /\ Cardinality(Online') = n - 1
            /\ Cardinality(Uncounting') = u /\ leaked' = l
            /\ w = IF admin'.pc = "uncount" THEN 1 ELSE 0
        BY <1>1, <2>2, <2>4, <3>1, ZenonT(40)
      <3>3. (o - 1) + cs = (n - 1) + u + l + w
        BY <3>1, SMTT(40)
      <3>4. QED
        BY <3>2, <3>3, ZenonT(40) DEF OnlineCountAccounted
  <1>4. QED
    BY <1>2, <1>3, ZenonT(40)

\* The set of online clients after an entry is removed.
LEMMA OnlineAfterRemoval ==
  ASSUME TypeOK, NEW c \in Clients, sessions' = [sessions EXCEPT ![c] = NoEntry]
  PROVE  /\ IsOnline(c) => Cardinality(Online') = Cardinality(Online) - 1
         /\ ~IsOnline(c) => Online' = Online
  <1>1. Online' = Online \ {c}
    BY ZenonT(40) DEF Online, IsOnline, TypeOK
  <1>2. IsOnline(c) => c \in Online
    BY ZenonT(40) DEF Online
  <1>3. ~IsOnline(c) => c \notin Online
    BY ZenonT(40) DEF Online
  <1>4. IsOnline(c) => Cardinality(Online') = Cardinality(Online) - 1
    BY <1>1, <1>2, CardRemove, CountsFinite, ZenonT(40)
  <1>5. ~IsOnline(c) => Online' = Online
    BY <1>1, <1>3, ZenonT(40)
  <1>6. QED
    BY <1>4, <1>5, ZenonT(40)

\* remove_if_epoch removes the entry before the count follows.
LEMMA RemoveIfEpochCount ==
  ASSUME TypeOK, OnlineCountAccounted, NEW k \in Conns, RemoveIfEpoch(k)
  PROVE  OnlineCountAccounted'
  <1> DEFINE c == req[k].client
  <1>1. /\ UNCHANGED <<leaked, admin, onlineCount>>
        /\ pc[k] \in {"cleanup", "remove"}
        /\ \A j \in Conns \ {k} : pc'[j] = pc[j]
    BY ZenonT(40) DEF RemoveIfEpoch, Goto, TypeOK, histVars, bgVars
  <1>2. CASE ~Owns(k)
    <2>1. sessions' = sessions /\ pc'[k] = "done"
      BY <1>2, ZenonT(40) DEF RemoveIfEpoch, Goto, TypeOK
    <2>2. QED
      BY <1>1, <2>1, CountKept, ZenonT(40) DEF EntriesKept
  <1>3. CASE Owns(k)
    <2>1. /\ c \in Clients
          /\ sessions' = [sessions EXCEPT ![c] = NoEntry]
          /\ pc'[k] = IF sessions[c].connected THEN "uncount" ELSE "unsubscribe_all"
      BY <1>3, RequestType, ZenonT(40) DEF RemoveIfEpoch, Goto, TypeOK
    <2>a. IsOnline(c) <=> sessions[c].connected
      BY <1>3, ZenonT(40) DEF Owns, IsOnline
    <2>2. Counting' = Counting
      BY <1>1, <2>1, ZenonT(40) DEF Counting
    <2>3. CASE sessions[c].connected
      <3>1. k \notin Uncounting /\ Uncounting' = Uncounting \cup {k}
        BY <1>1, <2>1, <2>3, ZenonT(40) DEF Uncounting
      <3>2. Cardinality(Uncounting') = Cardinality(Uncounting) + 1
        BY <3>1, CardAdd, CountsFinite, ZenonT(40)
      <3>3. Cardinality(Online') = Cardinality(Online) - 1
        BY <2>1, <2>a, <2>3, OnlineAfterRemoval, Zenon
      <3>4. QED
        <4>1. PICK o \in Int, cs \in Nat, n \in Nat, u \in Nat, l \in Nat, w \in Nat :
              /\ o = onlineCount /\ cs = Cardinality(Counting) /\ n = Cardinality(Online)
              /\ u = Cardinality(Uncounting) /\ l = leaked
              /\ w = IF admin.pc = "uncount" THEN 1 ELSE 0
              /\ o + cs = n + u + l + w
          BY Balanced, ZenonT(40)
        <4>2. onlineCount' = o /\ Cardinality(Counting') = cs /\ Cardinality(Online') = n - 1
              /\ Cardinality(Uncounting') = u + 1 /\ leaked' = l
              /\ w = IF admin'.pc = "uncount" THEN 1 ELSE 0
          BY <1>1, <2>2, <3>2, <3>3, <4>1, ZenonT(40)
        <4>3. o + cs = (n - 1) + (u + 1) + l + w
          BY <4>1, SMTT(40)
        <4>4. QED
          BY <4>2, <4>3, ZenonT(40) DEF OnlineCountAccounted
    <2>4. CASE ~sessions[c].connected
      <3>1. Uncounting' = Uncounting
        BY <1>1, <2>1, <2>4, ZenonT(40) DEF Uncounting
      <3>2. Online' = Online
        BY <2>1, <2>a, <2>4, OnlineAfterRemoval, Zenon
      <3>3. QED
        BY <1>1, <2>2, <3>1, <3>2, ZenonT(40) DEF OnlineCountAccounted
    <2>5. QED
      BY <2>3, <2>4, ZenonT(40)
  <1>4. QED
    BY <1>2, <1>3, ZenonT(40)

\* The sweeper removes a connected entry without touching the counter; the admin
\* settles it in a step of its own.
LEMMA BackgroundCount ==
  ASSUME TypeOK, OnlineCountAccounted, Sweeper \/ Admin
  PROVE  OnlineCountAccounted'
  <1> USE DEF mapVars, histVars, connVars, bgVars
  <1>0. /\ Sweeper => UNCHANGED <<pc, onlineCount, admin>>
        /\ Admin => UNCHANGED <<pc, leaked>>
    BY ZenonT(40) DEF Sweeper, SweepTick, SweepRemove, SweepDelete, SweepDone, SweepStop,
       SweepScan,
           SweepRecheck, SweepUnsubscribe, Admin, AdminDelete, AdminUnsubscribe,
           AdminRemove, AdminUncount, AdminDeleteSnapshot
  <1>a. Counting' = Counting /\ Uncounting' = Uncounting
    BY <1>0, ZenonT(40) DEF Counting, Uncounting
  <1>1. CASE SweepRemove
    <2>1. /\ sweep.id \in Clients
          /\ sessions' = [sessions EXCEPT ![sweep.id] = NoEntry]
          /\ IsOnline(sweep.id) => leaked' = leaked + 1
          /\ ~IsOnline(sweep.id) => leaked' = leaked
          /\ UNCHANGED <<onlineCount, admin>>
      BY <1>1, ZenonT(40) DEF SweepRemove, TypeOK, SweepState
    <2>2. /\ IsOnline(sweep.id) => Cardinality(Online') = Cardinality(Online) - 1
          /\ ~IsOnline(sweep.id) => Online' = Online
      BY <2>1, OnlineAfterRemoval, ZenonT(40)
    <2>3. QED
      BY <1>a, <2>1, <2>2, CountsFinite, CountTypes, SMTT(40) DEF OnlineCountAccounted
  <1>2. CASE AdminRemove
    <2>1. /\ admin.client \in Clients
          /\ sessions' = [sessions EXCEPT ![admin.client] = NoEntry]
          /\ admin.pc = "remove"
          /\ IsOnline(admin.client) => admin'.pc = "uncount"
          /\ ~IsOnline(admin.client) => admin'.pc = "delete_snapshot"
          /\ UNCHANGED <<onlineCount, leaked>>
      BY <1>2, ZenonT(40) DEF AdminRemove, TypeOK, AdminState
    <2>2. /\ IsOnline(admin.client) => Cardinality(Online') = Cardinality(Online) - 1
          /\ ~IsOnline(admin.client) => Online' = Online
      BY <2>1, OnlineAfterRemoval, ZenonT(40)
    <2>3. QED
      BY <1>a, <2>1, <2>2, CountsFinite, CountTypes, SMTT(40) DEF OnlineCountAccounted
  <1>3. CASE AdminUncount
    <2>1. Online' = Online
      BY <1>3, ZenonT(40) DEF AdminUncount, Online, IsOnline
    <2>2. /\ admin.pc = "uncount" /\ admin'.pc = "delete_snapshot"
          /\ onlineCount' = onlineCount - 1 /\ leaked' = leaked
      BY <1>3, ZenonT(40) DEF AdminUncount, TypeOK, AdminState
    <2>3. QED
      BY <1>a, <2>1, <2>2, CountsFinite, CountTypes, SMTT(40) DEF OnlineCountAccounted
  <1>4. CASE SweepTick \/ SweepDelete \/ SweepDone \/ SweepStop
    BY <1>4, CountKept, ZenonT(40) DEF SweepTick, SweepDelete, SweepDone, SweepStop, EntriesKept
  <1>5. ASSUME NEW c \in Clients, SweepScan(c) \/ SweepRecheck(c) \/ SweepUnsubscribe(c)
        PROVE  OnlineCountAccounted'
    BY <1>5, CountKept, ZenonT(40) DEF SweepScan, SweepRecheck, SweepUnsubscribe, EntriesKept
  <1>6. CASE AdminUnsubscribe \/ AdminDeleteSnapshot
    BY <1>6, CountKept, ZenonT(40) DEF AdminUnsubscribe, AdminDeleteSnapshot, EntriesKept,
       TypeOK, AdminState
  <1>7. ASSUME NEW c \in Clients, AdminDelete(c)
        PROVE  OnlineCountAccounted'
    BY <1>7, CountKept, ZenonT(40) DEF AdminDelete, EntriesKept
  <1>8. QED
    BY <1>1, <1>2, <1>3, <1>4, <1>5, <1>6, <1>7, ZenonT(40) DEF Sweeper, Admin

\* Input keeps the count explained.
LEMMA InputCount ==
  ASSUME TypeOK, OnlineCountAccounted, NEW k \in Conns, Input(k)
  PROVE  OnlineCountAccounted'
  <1> USE DEF mapVars, histVars, bgVars, Goto, EntriesKept
  <1>t. pc \in [Conns -> Labels]
    BY ZenonT(40) DEF TypeOK
  <1>1. CASE Reject(k) \/ Connect(k) \/ Abnormal(k) \/ Disconnect(k)
    BY <1>t, <1>1, CountKept, ZenonT(40) DEF Reject, Connect, Abnormal, Disconnect
  <1>2. ASSUME NEW F \in SUBSET Filters, Subscribe(k, F) \/ Unsubscribe(k, F)
        PROVE  OnlineCountAccounted'
    BY <1>t, <1>2, CountKept, ZenonT(40) DEF Subscribe, Unsubscribe, ReceivePacket
  <1>3. QED
    BY <1>1, <1>2, ZenonT(40) DEF Input

\* Every step of a connection task keeps the count explained.
LEMMA TaskCount ==
  ASSUME TypeOK, OnlineCountAccounted, NEW k \in Conns, Task(k)
  PROVE  OnlineCountAccounted'
  <1> USE DEF mapVars, histVars, bgVars, Goto
  <1>t. pc \in [Conns -> Labels]
    BY ZenonT(40) DEF TypeOK
  <1>1. CASE RegisterInsert(k)
    BY <1>1, RegisterInsertCount, ZenonT(40)
  <1>2. CASE RegisterCount(k) \/ RemoveUncount(k)
    BY <1>2, SettleCount, ZenonT(40)
  <1>3. CASE MarkOffline(k)
    BY <1>3, MarkOfflineCount, ZenonT(40)
  <1>4. CASE RemoveIfEpoch(k)
    BY <1>4, RemoveIfEpochCount, ZenonT(40)
  <1>5. CASE TakeWill(k) \/ ClearWill(k)
    BY <1>t, <1>5, WillKeepsEntries, CountKept, ZenonT(40) DEF TakeWill, ClearWill
  <1>6a. CASE ConnackSent(k) \/ ConnackFailed(k)
    BY <1>t, <1>6a, CountKept, ZenonT(40) DEF ConnackSent, ConnackFailed, EntriesKept
  <1>6b. CASE Replay(k) \/ ShutdownSignal(k) \/ RxClosed(k)
    BY <1>t, <1>6b, CountKept, ZenonT(40) DEF Replay, ShutdownSignal, RxClosed, EntriesKept
  <1>7. CASE AckSent(k) \/ PersistCheck(k) \/ PersistRead(k) \/ PersistSave(k)
    BY <1>t, <1>7, CountKept, ZenonT(40) DEF AckSent, PersistCheck, PersistRead, PersistSave,
       Return, EntriesKept
  <1>8. CASE AbnormalOwns(k) \/ PublishWill(k) \/ CleanupOwns(k) \/ CleanupExpired(k)
    BY <1>t, <1>8, CountKept, ZenonT(40) DEF AbnormalOwns, PublishWill, CleanupOwns,
       CleanupExpired, EntriesKept
  <1>9. CASE UnsubscribeAll(k) \/ DeleteSnapshot(k)
    BY <1>t, <1>9, CountKept, ZenonT(40) DEF UnsubscribeAll, DeleteSnapshot, EntriesKept
  <1>10. ASSUME NEW f \in Filters, SubscribeOne(k, f) \/ RefuseOne(k, f) \/ UnsubscribeOne(k, f)
         PROVE  OnlineCountAccounted'
    BY <1>t, <1>10, CountKept, ZenonT(40) DEF SubscribeOne, RefuseOne, UnsubscribeOne, EntriesKept
  <1>11. QED
    BY <1>1, <1>2, <1>3, <1>4, <1>5, <1>6a, <1>6b, <1>7, <1>8, <1>9, <1>10, ZenonT(40) DEF Task

\* Whatever registrations, takeovers, cleanups, sweeps and deletions overlap, the
\* counter is exact up to the updates under way and the sweeper's leak.
THEOREM OnlineCountExact == Spec => []OnlineCountAccounted
  <1>1. TypeOK /\ OnlineCountAccounted /\ [Step]_stateVars => OnlineCountAccounted'
    <2> SUFFICES ASSUME TypeOK, OnlineCountAccounted, [Step]_stateVars
                 PROVE  OnlineCountAccounted'
      OBVIOUS
    <2>1. ASSUME NEW k \in Conns, Input(k) \/ Task(k)
          PROVE  OnlineCountAccounted'
      BY <2>1, InputCount, TaskCount, ZenonT(40)
    <2>2. CASE Sweeper \/ Admin
      BY <2>2, BackgroundCount, ZenonT(40)
    <2>3. ASSUME NEW c \in Clients, Elapse(c)
          PROVE  OnlineCountAccounted'
      BY <2>3, ElapseKeepsEntries, CountKept, ZenonT(40) DEF Elapse, connVars, histVars, bgVars
    <2>4. CASE Shutdown
      BY <2>4, CountKept, ZenonT(40) DEF Shutdown, EntriesKept, mapVars, connVars, histVars
    <2>5. CASE UNCHANGED stateVars
      BY <2>5, CountKept, ZenonT(40) DEF stateVars, EntriesKept, mapVars, histVars, bgVars
    <2>6. QED
      BY <2>1, <2>2, <2>3, <2>4, <2>5, ZenonT(40) DEF Step
  <1>2. QED
    BY <1>1, CountInit, TypeCorrect, StepOrExit, PTL, ZenonT(40) DEF Spec
=============================================================================
