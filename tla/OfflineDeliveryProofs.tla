----------------------- MODULE OfflineDeliveryProofs -----------------------
(***************************************************************************)
(* Proofs about OfflineDelivery, for every number of messages, routers,    *)
(* registrations and restarts and every capacity: no message vanishes,     *)
(* none is sent twice between two crashes, and the messages of each router *)
(* are sent in the order of their publication.                             *)
(***************************************************************************)
EXTENDS OfflineDelivery, FiniteSetTheorems, TLAPS

----------------------------------------------------------------------------
(***************************************************************************)
(* The inductive invariant of OfflineDelivery.                             *)
(***************************************************************************)

Published == 1 .. Len(by)

Stages == {"none", "connack", "replay", "clear", "main", "closing", "done"}

Conns(P) == [at : Stages, pending : Seq(P), keys : SUBSET Messages, inflight : SUBSET P]

Deliveries(P, n) == [at : {"send", "enqueue", "push"}, msg : P, epoch : 1 .. n]

DeliveryTypeOK ==
    /\ by \in Seq(Routers) /\ Len(by) <= MaxMessages
    /\ epoch \in Epochs
    /\ entry \in [epoch : {epoch}, connected : BOOLEAN]
    /\ queue \in [Epochs -> Seq(Published)]
    /\ chan \in [Epochs -> Seq(Published)]
    /\ conn \in [Epochs -> Conns(Published)]
    /\ router \in [Routers -> Deliveries(Published, epoch) \cup {Idle}]
    /\ disk \in Seq(Published) /\ durable \in Seq(Published)
    /\ log \in [Epochs -> Seq(Published)]
    /\ restarts \in Nat

\* No epoch is used before register hands it out.
Untouched ==
    \A e \in Epochs : e > epoch =>
        queue[e] = <<>> /\ chan[e] = <<>> /\ log[e] = <<>> /\ conn[e] = Unused

\* A connection reads its channel after the replay.
ReplayedFirst == \A e \in Epochs : conn[e].at \notin {"connack", "replay"} => conn[e].pending = <<>>

\* Per router, the messages of a sequence are in the order of publication.
Rising(b, s) == \A i, j \in DOMAIN s : i < j /\ b[s[i]] = b[s[j]] => s[i] < s[j]

\* Per router, the messages of S were published before those of T.
Before(b, S, T) == \A m \in S, n \in T : b[m] = b[n] => m < n

\* In the inflight table, and not sent on this connection.
Loose(e) == conn[e].inflight \ Range(log[e])

\* The messages that a connection may still send.
Carried(e) == Range(chan[e]) \cup Range(conn[e].pending) \cup Loose(e)

\* The messages that left the replay or the channel of a connection.
Taken(e) == Range(log[e]) \cup conn[e].inflight

\* A message is given up, stranded, in the queue, known to a connection or to a router.
Found(m) ==
    \/ m \in lost \/ m \in stranded \/ m \in Range(queue[epoch])
    \/ \E e \in Epochs : m \in Taken(e) \cup Carried(e)
    \/ \E r \in Routers : router[r].at \in {"send", "enqueue"} /\ router[r].msg = m

AllFound == \A m \in Published : Found(m)

\* A router works on the last message it published, which is not on the disk.
RouterHoldsNewest ==
    \A r \in Routers : router[r] # Idle =>
        /\ by[router[r].msg] = r
        /\ \A m \in Published : by[m] = r => m <= router[r].msg
        /\ router[r].msg \notin Range(disk) \cup Range(durable)

\* Before a router hands its message over, no one else has it.
RouterHoldsAlone ==
    \A r \in Routers : router[r].at \in {"send", "enqueue"} =>
        /\ router[r].msg \notin Range(queue[epoch])
        /\ \A e \in Epochs : router[r].msg \notin Taken(e) \cup Carried(e)

StoredInOrder == Rising(by, queue[epoch]) /\ Rising(by, disk) /\ Rising(by, durable)

CarriedInOrder(e) ==
    /\ Rising(by, conn[e].pending) /\ Rising(by, chan[e])
    /\ Before(by, Range(conn[e].pending), Range(chan[e]))
    /\ Before(by, Taken(e), Range(conn[e].pending) \cup Range(chan[e]))
    /\ Loose(e) \subseteq skipped

\* No message has two ways to be sent.
OneWay ==
    /\ \A d, e \in Epochs : d # e => Carried(d) \cap Carried(e) = {}
    /\ \A e \in Epochs : Carried(e) \cap Range(queue[epoch]) = {}

Alive(m) == m \in Range(queue[epoch]) \/ \E e \in Epochs : m \in Carried(e)

\* A message that can still be sent was sent at most once per crash so far.
SendsCounted ==
    \A m \in Messages :
        /\ IsFiniteSet(Sends(m))
        /\ Cardinality(Sends(m)) <= 1 + restarts
        /\ Alive(m) => Cardinality(Sends(m)) <= restarts

Tidy ==
    /\ RouterHoldsNewest /\ RouterHoldsAlone
    /\ StoredInOrder /\ (\A e \in Epochs : CarriedInOrder(e)) /\ InOrder
    /\ OneWay /\ SendsCounted

DeliveryInv == DeliveryTypeOK /\ Untouched /\ ReplayedFirst /\ AllFound /\ Tidy

----------------------------------------------------------------------------
(***************************************************************************)
(* Sequences.                                                              *)
(***************************************************************************)

\* The members of a sequence are those at its places.
LEMMA Members1 ==
  ASSUME NEW X, NEW s \in Seq(X)
  PROVE  /\ DOMAIN s = 1 .. Len(s) /\ Len(s) \in Nat
         /\ Range(s) \in SUBSET X
         /\ \A i \in DOMAIN s : s[i] \in Range(s) /\ s[i] \in X
         /\ \A x \in Range(s) : \E i \in DOMAIN s : s[i] = x
  <1>1. DOMAIN s = 1 .. Len(s) /\ Len(s) \in Nat /\ \A i \in 1 .. Len(s) : s[i] \in X
    BY SMTT(40)
  <1>2. QED
    BY <1>1, ZenonT(40) DEF Range

\* The empty sequence has no members.
LEMMA NoMembers == Range(<<>>) = {} /\ \A b : Rising(b, <<>>)
  <1>1. DOMAIN <<>> = {}
    BY SMTT(40)
  <1>2. QED
    BY <1>1, ZenonT(40) DEF Range, Rising

\* A message at the front of a sequence in order precedes the rest.
LEMMA Taking ==
  ASSUME NEW X, NEW s \in Seq(X), s # <<>>, NEW b
  PROVE  /\ Head(s) \in Range(s) /\ Head(s) \in X /\ Tail(s) \in Seq(X)
         /\ Range(s) = Range(Tail(s)) \cup {Head(s)}
         /\ Rising(b, s) => Rising(b, Tail(s)) /\ Before(b, {Head(s)}, Range(Tail(s)))
  <1>1. PICK n \in Nat : n = Len(s)
    BY SMTT(40)
  <1>2. PICK t : t = Tail(s)
    BY ZenonT(40)
  <1>3. /\ n >= 1 /\ DOMAIN s = 1 .. n /\ t \in Seq(X) /\ DOMAIN t = 1 .. n - 1
        /\ \A i \in 1 .. n - 1 : t[i] = s[i + 1]
        /\ Head(s) = s[1]
    BY <1>1, <1>2, SMTT(40)
  <1>4. Head(s) \in Range(s) /\ Head(s) \in X
    <2>1. 1 \in DOMAIN s
      BY <1>3, SMTT(40)
    <2>2. s[1] \in Range(s)
      BY <2>1, ZenonT(40) DEF Range
    <2>3. Range(s) \in SUBSET X
      BY Members1, ZenonT(40)
    <2>4. QED
      BY <1>3, <2>2, <2>3, ZenonT(40)
  <1>5. Range(s) = Range(t) \cup {Head(s)}
    <2>1. ASSUME NEW x \in Range(t)
          PROVE  x \in Range(s)
      <3>1. PICK i \in 1 .. n - 1 : t[i] = x
        BY <1>3, ZenonT(40) DEF Range
      <3>2. i + 1 \in DOMAIN s /\ s[i + 1] = x
        BY <1>3, <3>1, SMTT(40)
      <3>3. QED
        BY <3>2, ZenonT(40) DEF Range
    <2>2. ASSUME NEW x \in Range(s), x # Head(s)
          PROVE  x \in Range(t)
      <3>1. PICK i \in 1 .. n : s[i] = x
        BY <1>3, ZenonT(40) DEF Range
      <3>2. i # 1
        BY <1>3, <2>2, <3>1, ZenonT(40)
      <3>3. PICK j : j = i - 1
        BY ZenonT(40)
      <3>4. j \in 1 .. n - 1 /\ j + 1 = i
        BY <3>2, <3>3, SMTT(40)
      <3>5. t[j] = x /\ j \in DOMAIN t
        BY <1>3, <3>1, <3>4, ZenonT(40)
      <3>6. QED
        BY <3>5, ZenonT(40) DEF Range
    <2>3. QED
      BY <1>4, <2>1, <2>2, ZenonT(40)
  <1>6. ASSUME Rising(b, s)
        PROVE  Rising(b, t) /\ Before(b, {Head(s)}, Range(t))
    <2>1. ASSUME NEW i \in DOMAIN t, NEW j \in DOMAIN t, i < j, b[t[i]] = b[t[j]]
          PROVE  t[i] < t[j]
      <3>1. PICK k, l : k = i + 1 /\ l = j + 1
        BY ZenonT(40)
      <3>2. k \in DOMAIN s /\ l \in DOMAIN s /\ k < l
        BY <1>3, <2>1, <3>1, SMTT(40)
      <3>3. t[i] = s[k] /\ t[j] = s[l]
        BY <1>3, <3>1, ZenonT(40)
      <3>4. QED
        BY <1>6, <2>1, <3>2, <3>3, ZenonT(40) DEF Rising
    <2>2. ASSUME NEW x \in Range(t), b[Head(s)] = b[x]
          PROVE  Head(s) < x
      <3>1. PICK i \in 1 .. n - 1 : t[i] = x
        BY <1>3, ZenonT(40) DEF Range
      <3>2. PICK k : k = i + 1
        BY ZenonT(40)
      <3>3. k \in DOMAIN s /\ 1 \in DOMAIN s /\ 1 < k /\ s[k] = x
        BY <1>3, <3>1, <3>2, SMTT(40)
      <3>4. QED
        BY <1>3, <1>6, <2>2, <3>3, ZenonT(40) DEF Rising
    <2>3. QED
      BY <2>1, <2>2, ZenonT(40) DEF Rising, Before
  <1>7. QED
    BY <1>2, <1>3, <1>4, <1>5, <1>6, ZenonT(40)

\* A message that everything in a sequence precedes may be appended.
LEMMA Adding ==
  ASSUME NEW X, NEW s \in Seq(X), NEW x \in X, NEW b
  PROVE  /\ Append(s, x) \in Seq(X) /\ Range(Append(s, x)) = Range(s) \cup {x}
         /\ Rising(b, s) /\ Before(b, Range(s), {x}) => Rising(b, Append(s, x))
  <1>1. PICK n \in Nat : n = Len(s)
    BY SMTT(40)
  <1>2. PICK t : t = Append(s, x)
    BY ZenonT(40)
  <1>3. /\ DOMAIN s = 1 .. n /\ t \in Seq(X) /\ DOMAIN t = 1 .. n + 1
        /\ \A i \in 1 .. n : t[i] = s[i]
        /\ t[n + 1] = x
    BY <1>1, <1>2, SMTT(40)
  <1>4. /\ \A i \in DOMAIN t : i \in DOMAIN s \/ i = n + 1
        /\ \A i \in DOMAIN s : i \in DOMAIN t
        /\ n + 1 \in DOMAIN t
    BY <1>3, SMTT(40)
  <1>5. Range(t) = Range(s) \cup {x}
    BY <1>3, <1>4, ZenonT(40) DEF Range
  <1>6. ASSUME Rising(b, s), Before(b, Range(s), {x}),
               NEW i \in DOMAIN t, NEW j \in DOMAIN t, i < j, b[t[i]] = b[t[j]]
        PROVE  t[i] < t[j]
    <2>1. i \in DOMAIN s
      BY <1>3, <1>6, SMTT(40)
    <2>2. t[i] = s[i]
      BY <1>3, <2>1, ZenonT(40)
    <2>3. CASE j \in DOMAIN s
      <3>1. t[j] = s[j]
        BY <1>3, <2>3, ZenonT(40)
      <3>2. QED
        BY <1>6, <2>1, <2>2, <2>3, <3>1, ZenonT(40) DEF Rising
    <2>4. CASE j = n + 1
      <3>1. t[j] = x
        BY <1>3, <2>4, ZenonT(40)
      <3>2. s[i] \in Range(s)
        BY <2>1, ZenonT(40) DEF Range
      <3>3. QED
        BY <1>6, <2>2, <3>1, <3>2, ZenonT(40) DEF Before
    <2>5. QED
      BY <1>4, <2>3, <2>4, ZenonT(40)
  <1>7. QED
    BY <1>2, <1>3, <1>5, <1>6, ZenonT(40) DEF Rising

\* Dropping messages from the front keeps the order of the others.
LEMMA Cutting ==
  ASSUME NEW X, NEW s \in Seq(X), NEW k \in 0 .. Len(s), NEW b
  PROVE  /\ From(s, k) \in Seq(X) /\ Range(From(s, k)) \in SUBSET Range(s)
         /\ Rising(b, s) => Rising(b, From(s, k))
  <1>1. PICK n \in Nat : n = Len(s)
    BY SMTT(40)
  <1>2. PICK t : t = From(s, k)
    BY ZenonT(40)
  <1>3. t = SubSeq(s, k + 1, n)
    BY <1>1, <1>2, ZenonT(40) DEF From
  <1>4. /\ k \in 0 .. n /\ DOMAIN s = 1 .. n /\ t \in Seq(X) /\ DOMAIN t = 1 .. n - k
        /\ \A i \in 1 .. n - k : t[i] = s[k + i]
    BY <1>1, <1>3, SMTT(40)
  <1>5. \A i \in DOMAIN t : k + i \in DOMAIN s /\ t[i] = s[k + i]
    BY <1>4, SMTT(40)
  <1>6. Range(t) \in SUBSET Range(s)
    BY <1>5, ZenonT(40) DEF Range
  <1>7. ASSUME Rising(b, s), NEW i \in DOMAIN t, NEW j \in DOMAIN t, i < j, b[t[i]] = b[t[j]]
        PROVE  t[i] < t[j]
    <2>1. PICK u, v : u = k + i /\ v = k + j
      BY ZenonT(40)
    <2>2. u < v
      BY <1>4, <1>7, <2>1, SMTT(40)
    <2>3. u \in DOMAIN s /\ v \in DOMAIN s /\ t[i] = s[u] /\ t[j] = s[v]
      BY <1>5, <2>1, ZenonT(40)
    <2>4. QED
      BY <1>7, <2>2, <2>3, ZenonT(40) DEF Rising
  <1>8. QED
    BY <1>2, <1>4, <1>6, <1>7, ZenonT(40) DEF Rising

\* enqueue keeps some of the queue, in its order, and the message at the end.
LEMMA Pushing ==
  ASSUME NEW X, NEW s \in Seq(X), NEW x \in X, NEW b
  PROVE  /\ PushBounded(s, x) \in Seq(X)
         /\ x \in Range(PushBounded(s, x))
         /\ Range(PushBounded(s, x)) \in SUBSET (Range(s) \cup {x})
         /\ Rising(b, s) /\ Before(b, Range(s), {x}) => Rising(b, PushBounded(s, x))
  <1>1. ASSUME NEW t \in Seq(X), Range(t) \in SUBSET Range(s), Rising(b, s) => Rising(b, t)
        PROVE  /\ Append(t, x) \in Seq(X)
               /\ x \in Range(Append(t, x))
               /\ Range(Append(t, x)) \in SUBSET (Range(s) \cup {x})
               /\ Rising(b, s) /\ Before(b, Range(s), {x}) => Rising(b, Append(t, x))
    <2>1. /\ Append(t, x) \in Seq(X) /\ Range(Append(t, x)) = Range(t) \cup {x}
          /\ Rising(b, t) /\ Before(b, Range(t), {x}) => Rising(b, Append(t, x))
      BY Adding, ZenonT(40)
    <2>2. Before(b, Range(s), {x}) => Before(b, Range(t), {x})
      BY <1>1, ZenonT(40) DEF Before
    <2>3. QED
      BY <1>1, <2>1, <2>2, ZenonT(40)
  <1>2. CASE Len(s) >= MaxOffline
    <2>1. PICK k : k = Len(s) + 1 - MaxOffline
      BY ZenonT(40)
    <2>2. k \in 0 .. Len(s)
      BY <1>2, <2>1, DeliveryAssumption, SMTT(40)
    <2>3. From(s, k) \in Seq(X) /\ Range(From(s, k)) \in SUBSET Range(s) /\ (Rising(b, s) => Rising(b, From(s, k)))
      BY <2>2, Cutting, ZenonT(40)
    <2>4. PushBounded(s, x) = Append(From(s, k), x)
      BY <1>2, <2>1, ZenonT(40) DEF PushBounded
    <2>5. QED
      BY <1>1, <2>3, <2>4, ZenonT(40)
  <1>3. CASE ~(Len(s) >= MaxOffline)
    <2>1. PushBounded(s, x) = Append(s, x)
      BY <1>3, ZenonT(40) DEF PushBounded
    <2>2. QED
      BY <1>1, <2>1, ZenonT(40)
  <1>4. QED
    BY <1>2, <1>3, ZenonT(40)

\* The queue that a restart fills holds messages of the disk, in their order.
LEMMA NewestOf ==
  ASSUME NEW X, NEW s \in Seq(X), NEW b
  PROVE  /\ Newest(s) \in Seq(X) /\ Range(Newest(s)) \in SUBSET Range(s)
         /\ Rising(b, s) => Rising(b, Newest(s))
  <1>1. CASE Len(s) > MaxOffline
    <2>1. PICK k : k = Len(s) - MaxOffline
      BY ZenonT(40)
    <2>2. k \in 0 .. Len(s)
      BY <1>1, <2>1, DeliveryAssumption, SMTT(40)
    <2>3. Newest(s) = From(s, k)
      BY <1>1, <2>1, ZenonT(40) DEF Newest
    <2>4. QED
      BY <2>2, <2>3, Cutting, ZenonT(40)
  <1>2. CASE ~(Len(s) > MaxOffline)
    BY <1>2, ZenonT(40) DEF Newest
  <1>3. QED
    BY <1>1, <1>2, ZenonT(40)

\* The removal of one entry leaves the others in their order.
LEMMA Keeping ==
  ASSUME NEW X, NEW s \in Seq(X), NEW i \in DOMAIN s, NEW b
  PROVE  /\ Without(s, i) \in Seq(X) /\ Range(Without(s, i)) \in SUBSET Range(s)
         /\ Rising(b, s) => Rising(b, Without(s, i))
  <1>1. PICK n \in Nat : n = Len(s) /\ DOMAIN s = 1 .. n
    BY SMTT(40)
  <1>2. PICK t : t = Without(s, i)
    BY ZenonT(40)
  <1>3. n # 0 /\ n - 1 \in Nat /\ i \in 1 .. n
    BY <1>1, SMTT(40)
  <1>4. PICK f : f = [j \in 1 .. n - 1 |-> IF j < i THEN j ELSE j + 1]
    BY ZenonT(40)
  <1>5. /\ DOMAIN f = 1 .. n - 1 /\ \A j \in 1 .. n - 1 : f[j] \in 1 .. n
        /\ \A j, k \in 1 .. n - 1 : j < k => f[j] < f[k]
    BY <1>3, <1>4, SMTT(40)
  <1>6. DOMAIN t = 1 .. n - 1 /\ \A j \in 1 .. n - 1 : t[j] = s[f[j]] /\ f[j] \in DOMAIN s
    BY <1>1, <1>2, <1>4, <1>5, ZenonT(40) DEF Without
  <1>7. \A j \in DOMAIN s : s[j] \in X
    BY Members1, ZenonT(40)
  <1>8. t \in [1 .. n - 1 -> X]
    <2>1. t = [j \in 1 .. n - 1 |-> s[IF j < i THEN j ELSE j + 1]]
      BY <1>1, <1>2, ZenonT(40) DEF Without
    <2>2. QED
      BY <1>6, <1>7, <2>1, ZenonT(40)
  <1>9. t \in Seq(X)
    BY <1>3, <1>8, SMTT(40)
  <1>10. Range(t) \in SUBSET Range(s)
    <2>1. \A j \in DOMAIN t : t[j] \in {s[k] : k \in DOMAIN s}
      BY <1>6, ZenonT(40)
    <2>2. {t[j] : j \in DOMAIN t} \in SUBSET {s[k] : k \in DOMAIN s}
      BY <2>1, ZenonT(40)
    <2>3. QED
      BY <2>2, ZenonT(40) DEF Range
  <1>11. Rising(b, s) => Rising(b, t)
    <2> SUFFICES ASSUME Rising(b, s), NEW j \in DOMAIN t, NEW k \in DOMAIN t,
                        j < k, b[t[j]] = b[t[k]]
                 PROVE  t[j] < t[k]
      BY ZenonT(40) DEF Rising
    <2>1. j \in 1 .. n - 1 /\ k \in 1 .. n - 1
      BY <1>6, ZenonT(40)
    <2>2. PICK x \in DOMAIN s, y \in DOMAIN s : x = f[j] /\ y = f[k] /\ t[j] = s[x] /\ t[k] = s[y]
      BY <1>6, <2>1, ZenonT(40)
    <2>3. x < y
      BY <1>5, <2>1, <2>2, ZenonT(40)
    <2>4. QED
      BY <2>2, <2>3, ZenonT(40) DEF Rising
  <1>12. QED
    BY <1>2, <1>9, <1>10, <1>11, ZenonT(40)

----------------------------------------------------------------------------
(***************************************************************************)
(* Steps by which messages only leave.                                     *)
(***************************************************************************)

\* The queue of the session, the disk, the deliveries of the routers and what
\* a connection has to send lose messages, if they change at all.
QueueFades ==
    Range(queue'[epoch]) \in SUBSET Range(queue[epoch]) /\ Rising(by, queue'[epoch])

DiskFades ==
    /\ Range(disk') \in SUBSET Range(disk) /\ Rising(by, disk')
    /\ Range(durable') \in SUBSET (Range(disk) \cup Range(durable)) /\ Rising(by, durable')

RouterFades(r) ==
    \/ router'[r] = Idle
    \/ /\ router[r] # Idle /\ router'[r].msg = router[r].msg
       /\ router'[r].at \in {"send", "enqueue"} => router[r].at \in {"send", "enqueue"}

ConnFades(e) ==
    /\ Range(chan'[e]) \in SUBSET Range(chan[e]) /\ Rising(by, chan'[e])
    /\ Range(conn'[e].pending) \in SUBSET Range(conn[e].pending) /\ Rising(by, conn'[e].pending)
    /\ Carried(e)' \in SUBSET Carried(e)
    /\ Taken(e)' \in SUBSET (Taken(e) \cup Carried(e))
    /\ Before(by, Taken(e)', Range(conn'[e].pending) \cup Range(chan'[e]))
    /\ Loose(e)' \in SUBSET skipped'

\* What stays as it is fades in particular.
LEMMA Still ==
  ASSUME Tidy
  PROVE  /\ queue'[epoch] = queue[epoch] => QueueFades
         /\ disk' = disk /\ durable' = durable => DiskFades
         /\ \A r \in Routers : router'[r] = router[r] => RouterFades(r)
  <1>1. Rising(by, queue[epoch]) /\ Rising(by, disk) /\ Rising(by, durable)
    BY ZenonT(40) DEF Tidy, StoredInOrder
  <1>2. queue'[epoch] = queue[epoch] => QueueFades
    BY <1>1, ZenonT(40) DEF QueueFades
  <1>3. disk' = disk /\ durable' = durable => DiskFades
    BY <1>1, ZenonT(40) DEF DiskFades
  <1>4. \A r \in Routers : router'[r] = router[r] => RouterFades(r)
    BY ZenonT(40) DEF RouterFades
  <1>5. QED
    BY <1>2, <1>3, <1>4, ZenonT(40)

\* So does a connection that sends nothing and enters nothing into its table.
LEMMA Quieter ==
  ASSUME Tidy, NEW e \in Epochs, log'[e] = log[e], skipped \in SUBSET skipped',
         Range(chan'[e]) \in SUBSET Range(chan[e]), Rising(by, chan'[e]),
         Range(conn'[e].pending) \in SUBSET Range(conn[e].pending), Rising(by, conn'[e].pending),
         conn'[e].inflight \in SUBSET conn[e].inflight
  PROVE  ConnFades(e)
  <1>1. CarriedInOrder(e)
    BY ZenonT(40) DEF Tidy
  <1>2. Loose(e)' \in SUBSET Loose(e) /\ Taken(e)' \in SUBSET Taken(e)
    BY ZenonT(40) DEF Loose, Taken
  <1>3. Carried(e)' \in SUBSET Carried(e)
    BY <1>2, ZenonT(40) DEF Carried
  <1>4. Before(by, Taken(e)', Range(conn'[e].pending) \cup Range(chan'[e]))
    BY <1>1, <1>2, ZenonT(40) DEF CarriedInOrder, Before
  <1>5. Loose(e)' \in SUBSET skipped'
    BY <1>1, <1>2, ZenonT(40) DEF CarriedInOrder
  <1>6. QED
    BY <1>2, <1>3, <1>4, <1>5, ZenonT(40) DEF ConnFades

\* A connection that does not change fades in particular.
LEMMA StillConn ==
  ASSUME Tidy, NEW e \in Epochs, log'[e] = log[e], skipped \in SUBSET skipped',
         chan'[e] = chan[e], conn'[e] = conn[e]
  PROVE  ConnFades(e)
  <1>1. Rising(by, chan[e]) /\ Rising(by, conn[e].pending)
    BY ZenonT(40) DEF Tidy, CarriedInOrder
  <1>2. /\ Range(chan'[e]) \in SUBSET Range(chan[e]) /\ Rising(by, chan'[e])
        /\ Range(conn'[e].pending) \in SUBSET Range(conn[e].pending) /\ Rising(by, conn'[e].pending)
        /\ conn'[e].inflight \in SUBSET conn[e].inflight
    BY <1>1, ZenonT(40)
  <1>3. QED
    BY <1>2, Quieter, ZenonT(40)

\* A transmission is a place in a log.
LEMMA SendsAre ==
  ASSUME NEW l, NEW m
  PROVE  \A x : x \in SendsIn(l, m)
                 <=> \E e \in Epochs : \E i \in DOMAIN l[e] : l[e][i] = m /\ x = <<e, i>>
  BY SMTT(40) DEF SendsIn

\* Connection e has one more entry in its log.
LogGrows(l, k, e, m) == k[e] = Append(l[e], m) /\ \A d \in Epochs : d # e => k[d] = l[d]

\* There is one more transmission of message m at most, and none of another.
SendsGrow(l, k, e, m) ==
    /\ SendsIn(k, m) \in SUBSET (SendsIn(l, m) \cup {<<e, Len(l[e]) + 1>>})
    /\ \A n : n # m => SendsIn(k, n) = SendsIn(l, n)

\* One more entry in a log is one more transmission, of that message alone.
LEMMA OneMoreSend ==
  ASSUME NEW X, NEW l, NEW k, NEW e \in Epochs, NEW m \in X, l[e] \in Seq(X),
         LogGrows(l, k, e, m)
  PROVE  SendsGrow(l, k, e, m)
  <1>1. PICK s, t, c : s = l[e] /\ t = Append(s, m) /\ c = Len(s)
    BY ZenonT(40)
  <1>2. s \in Seq(X)
    BY <1>1, ZenonT(40)
  <1>3. /\ DOMAIN s = 1 .. c /\ c \in Nat /\ DOMAIN t = 1 .. c + 1
        /\ \A i \in 1 .. c : t[i] = s[i]
        /\ t[c + 1] = m
    BY <1>1, <1>2, SMTT(40)
  <1>4. /\ \A i \in DOMAIN t : i \in DOMAIN s \/ i = c + 1
        /\ \A i \in DOMAIN s : i \in DOMAIN t
    BY <1>3, SMTT(40)
  <1>5. k[e] = t /\ \A d \in Epochs : d # e => k[d] = l[d]
    BY <1>1, ZenonT(40) DEF LogGrows
  <1>6. ASSUME NEW n, NEW x \in SendsIn(k, n)
        PROVE  x \in SendsIn(l, n) \/ (n = m /\ x = <<e, c + 1>>)
    <2>a. \A y : y \in SendsIn(k, n)
                   <=> \E d \in Epochs : \E i \in DOMAIN k[d] : k[d][i] = n /\ y = <<d, i>>
      BY SendsAre
    <2>1. PICK d \in Epochs : \E i \in DOMAIN k[d] : k[d][i] = n /\ x = <<d, i>>
      BY <1>6, <2>a, ZenonT(40)
    <2>i. PICK i \in DOMAIN k[d] : k[d][i] = n /\ x = <<d, i>>
      BY <2>1, ZenonT(40)
    <2>2. CASE d # e
      BY <1>5, <2>i, <2>2, SendsAre, ZenonT(40)
    <2>3. CASE d = e /\ i \in DOMAIN s
      BY <1>1, <1>3, <1>5, <2>i, <2>3, SendsAre, ZenonT(40)
    <2>4. CASE d = e /\ i = c + 1
      BY <1>3, <1>5, <2>i, <2>4, ZenonT(40)
    <2>5. QED
      BY <1>4, <1>5, <2>i, <2>2, <2>3, <2>4, ZenonT(40)
  <1>7. ASSUME NEW n, NEW x \in SendsIn(l, n)
        PROVE  x \in SendsIn(k, n)
    <2>a. \A y : y \in SendsIn(l, n)
                   <=> \E d \in Epochs : \E i \in DOMAIN l[d] : l[d][i] = n /\ y = <<d, i>>
      BY SendsAre
    <2>1. PICK d \in Epochs : \E i \in DOMAIN l[d] : l[d][i] = n /\ x = <<d, i>>
      BY <1>7, <2>a, ZenonT(40)
    <2>i. PICK i \in DOMAIN l[d] : l[d][i] = n /\ x = <<d, i>>
      BY <2>1, ZenonT(40)
    <2>2. i \in DOMAIN k[d] /\ k[d][i] = n
      BY <1>1, <1>3, <1>4, <1>5, <2>i, ZenonT(40)
    <2>3. QED
      BY <2>i, <2>2, SendsAre, ZenonT(40)
  <1>8. SendsIn(k, m) \in SUBSET (SendsIn(l, m) \cup {<<e, Len(l[e]) + 1>>})
    BY <1>1, <1>6, ZenonT(40)
  <1>9. ASSUME NEW n, n # m
        PROVE  SendsIn(k, n) = SendsIn(l, n)
    <2>1. \A x \in SendsIn(k, n) : x \in SendsIn(l, n)
      BY <1>6, <1>9, ZenonT(40)
    <2>2. \A x \in SendsIn(l, n) : x \in SendsIn(k, n)
      BY <1>7, ZenonT(40)
    <2>3. QED
      BY <2>1, <2>2, ZenonT(40)
  <1>10. QED
    BY <1>8, <1>9, ZenonT(40) DEF SendsGrow

\* Neither order nor uniqueness nor counts suffer when messages leave.
LEMMA Losing ==
  ASSUME Tidy, by' = by, log' = log, epoch' = epoch, restarts' = restarts,
         skipped \in SUBSET skipped', QueueFades, DiskFades,
         \A r \in Routers : RouterFades(r), \A e \in Epochs : ConnFades(e)
  PROVE  Tidy'
  <1>1. \A e \in Epochs : /\ Carried(e)' \in SUBSET Carried(e)
                          /\ Taken(e)' \in SUBSET (Taken(e) \cup Carried(e))
    BY ZenonT(40) DEF ConnFades
  <1>2. RouterHoldsNewest'
    <2>1. ASSUME NEW r \in Routers, router'[r] # Idle
          PROVE  /\ by[router'[r].msg] = r
                 /\ \A m \in Published : by[m] = r => m <= router'[r].msg
                 /\ router'[r].msg \notin Range(disk') \cup Range(durable')
      <3>1. router[r] # Idle /\ router'[r].msg = router[r].msg
        BY <2>1, ZenonT(40) DEF RouterFades
      <3>2. QED
        BY <3>1, ZenonT(40) DEF Tidy, RouterHoldsNewest, DiskFades
    <2>2. QED
      BY <2>1, ZenonT(40) DEF RouterHoldsNewest, Published
  <1>3. RouterHoldsAlone'
    <2>1. Idle.at \notin {"send", "enqueue"}
      BY SMTT(40) DEF Idle
    <2>2. ASSUME NEW r \in Routers, router'[r].at \in {"send", "enqueue"}
          PROVE  /\ router'[r].msg \notin Range(queue'[epoch])
                 /\ \A e \in Epochs : router'[r].msg \notin Taken(e)' \cup Carried(e)'
      <3>1. router[r].at \in {"send", "enqueue"} /\ router'[r].msg = router[r].msg
        BY <2>1, <2>2, ZenonT(40) DEF RouterFades
      <3>2. QED
        BY <1>1, <3>1, ZenonT(40) DEF Tidy, RouterHoldsAlone, QueueFades
    <2>3. QED
      BY <2>2, ZenonT(40) DEF RouterHoldsAlone
  <1>4. StoredInOrder'
    BY ZenonT(40) DEF StoredInOrder, QueueFades, DiskFades
  <1>5. ASSUME NEW e \in Epochs
        PROVE  CarriedInOrder(e)'
    <2>1. CarriedInOrder(e)
      BY ZenonT(40) DEF Tidy
    <2>2. Before(by, Range(conn'[e].pending), Range(chan'[e]))
      BY <2>1, ZenonT(40) DEF CarriedInOrder, ConnFades, Before
    <2>3. QED
      BY <2>2, ZenonT(40) DEF CarriedInOrder, ConnFades
  <1>6. InOrder'
    BY ZenonT(40) DEF Tidy, InOrder
  <1>7. OneWay'
    BY <1>1, ZenonT(40) DEF Tidy, OneWay, QueueFades
  <1>8. SendsCounted'
    <2>1. \A m \in Messages : Alive(m)' => Alive(m)
      BY <1>1, ZenonT(40) DEF Alive, QueueFades
    <2>2. \A m \in Messages : Sends(m)' = Sends(m)
      BY ZenonT(40) DEF Sends
    <2>3. \A m \in Messages : /\ IsFiniteSet(Sends(m)) /\ Cardinality(Sends(m)) <= 1 + restarts
                              /\ Alive(m) => Cardinality(Sends(m)) <= restarts
      BY ZenonT(40) DEF Tidy, SendsCounted
    <2>4. \A m \in Messages : /\ IsFiniteSet(Sends(m)') /\ Cardinality(Sends(m)') <= 1 + restarts'
                              /\ Alive(m)' => Cardinality(Sends(m)') <= restarts'
      BY <2>1, <2>2, <2>3, ZenonT(40)
    <2>5. QED
      BY <2>4, ZenonT(40) DEF SendsCounted
  <1>9. QED
    BY <1>2, <1>3, <1>4, <1>5, <1>6, <1>7, <1>8, ZenonT(40) DEF Tidy

----------------------------------------------------------------------------
(***************************************************************************)
(* Steps that send a message.                                              *)
(***************************************************************************)

\* A set with at most one element more has at most one element more.
LEMMA OneMore ==
  ASSUME NEW S, IsFiniteSet(S), NEW x, NEW T \in SUBSET (S \cup {x}), NEW c \in Nat,
         Cardinality(S) <= c
  PROVE  IsFiniteSet(T) /\ Cardinality(T) <= 1 + c
  <1>1. PICK U : U = S \cup {x}
    BY ZenonT(40)
  <1>2. IsFiniteSet(U) /\ (Cardinality(U) = Cardinality(S) \/ Cardinality(U) = Cardinality(S) + 1)
    BY <1>1, FS_AddElement, ZenonT(40)
  <1>3. IsFiniteSet(T) /\ Cardinality(T) <= Cardinality(U)
    BY <1>1, <1>2, FS_Subset, ZenonT(40)
  <1>4. PICK t, u, k : t = Cardinality(T) /\ u = Cardinality(U) /\ k = Cardinality(S)
    BY ZenonT(40)
  <1>5. t \in Nat /\ u \in Nat /\ k \in Nat
    BY <1>2, <1>3, <1>4, FS_CardinalityType, ZenonT(40)
  <1>6. t <= u /\ (u = k \/ u = k + 1) /\ k <= c
    BY <1>2, <1>3, <1>4, ZenonT(40)
  <1>7. t <= 1 + c
    BY <1>5, <1>6, SMTT(40)
  <1>8. QED
    BY <1>3, <1>4, <1>7, ZenonT(40)

\* Messages of a router are in order, but for those in K.
RisingBut(b, K, s) ==
    \A i, j \in DOMAIN s : i < j /\ b[s[i]] = b[s[j]] /\ {s[i], s[j]} \cap K = {} => s[i] < s[j]

\* A log stays in order when a message is added that its messages precede, or
\* whose first transmission a timer had cancelled.
LEMMA LoggedInOrder ==
  ASSUME NEW X, NEW s \in Seq(X), NEW m \in X, NEW b, NEW K,
         RisingBut(b, K, s), m \in K \/ Before(b, Range(s), {m})
  PROVE  RisingBut(b, K, Append(s, m))
  <1>t. PICK t : t = Append(s, m)
    BY ZenonT(40)
  <1>1. PICK n \in Nat : n = Len(s)
    BY SMTT(40)
  <1>2. /\ DOMAIN s = 1 .. n /\ DOMAIN t = 1 .. n + 1
        /\ \A i \in 1 .. n : t[i] = s[i]
        /\ t[n + 1] = m
    BY <1>1, <1>t, SMTT(40)
  <1>3. SUFFICES ASSUME NEW i \in DOMAIN t, NEW j \in DOMAIN t, i < j, b[t[i]] = b[t[j]],
                        {t[i], t[j]} \cap K = {}
                 PROVE  t[i] < t[j]
    BY <1>t, ZenonT(40) DEF RisingBut
  <1>4. i \in DOMAIN s /\ (j \in DOMAIN s \/ j = n + 1)
    BY <1>2, <1>3, SMTT(40)
  <1>5. t[i] = s[i]
    BY <1>2, <1>4, ZenonT(40)
  <1>6. CASE j \in DOMAIN s
    <2>1. t[j] = s[j]
      BY <1>2, <1>6, ZenonT(40)
    <2>2. b[s[i]] = b[s[j]] /\ {s[i], s[j]} \cap K = {}
      BY <1>3, <1>5, <2>1, ZenonT(40)
    <2>3. s[i] < s[j]
      BY <1>3, <1>4, <1>6, <2>2, ZenonT(40) DEF RisingBut
    <2>4. QED
      BY <1>5, <2>1, <2>3, ZenonT(40)
  <1>7. CASE j = n + 1
    <2>1. t[j] = m
      BY <1>2, <1>7, ZenonT(40)
    <2>2. m \notin K
      BY <1>3, <2>1, ZenonT(40)
    <2>3. s[i] \in Range(s)
      BY <1>4, ZenonT(40) DEF Range
    <2>4. QED
      BY <1>3, <1>5, <2>1, <2>2, <2>3, ZenonT(40) DEF Before
  <1>8. QED
    BY <1>4, <1>6, <1>7, ZenonT(40)

\* Connection e sends message m, which it carries and which precedes the rest.
SendingStep(e, m) ==
    /\ m \in Carried(e)
    /\ UNCHANGED <<by, epoch, queue, router, disk, durable, skipped, restarts>>
    /\ log'[e] = Append(log[e], m)
    /\ \A d \in Epochs : d # e => log'[d] = log[d] /\ chan'[d] = chan[d] /\ conn'[d] = conn[d]
    /\ Range(chan'[e]) \in SUBSET Range(chan[e]) /\ Rising(by, chan'[e])
    /\ Range(conn'[e].pending) \in SUBSET Range(conn[e].pending) /\ Rising(by, conn'[e].pending)
    /\ conn'[e].inflight \in SUBSET (conn[e].inflight \cup {m})
    /\ Before(by, {m}, Range(conn'[e].pending) \cup Range(chan'[e]))
    /\ m \in skipped \/ Before(by, Range(log[e]), {m})

\* Neither order nor uniqueness nor counts suffer from such a step.
LEMMA Sending ==
  ASSUME Tidy, NEW e \in Epochs, NEW m \in Published, SendingStep(e, m),
         log[e] \in Seq(Published), Published \in SUBSET Messages, restarts \in Nat
  PROVE  Tidy'
  <1>u. /\ by' = by /\ epoch' = epoch /\ queue' = queue /\ router' = router /\ disk' = disk
        /\ durable' = durable /\ skipped' = skipped /\ restarts' = restarts
    BY ZenonT(40) DEF SendingStep
  <1>v. /\ m \in Carried(e) /\ log'[e] = Append(log[e], m)
        /\ \A d \in Epochs : d # e => log'[d] = log[d] /\ chan'[d] = chan[d] /\ conn'[d] = conn[d]
        /\ m \in skipped \/ Before(by, Range(log[e]), {m})
    BY ZenonT(40) DEF SendingStep
  <1>w. /\ Range(chan'[e]) \in SUBSET Range(chan[e]) /\ Rising(by, chan'[e])
        /\ Range(conn'[e].pending) \in SUBSET Range(conn[e].pending) /\ Rising(by, conn'[e].pending)
        /\ conn'[e].inflight \in SUBSET (conn[e].inflight \cup {m})
        /\ Before(by, {m}, Range(conn'[e].pending) \cup Range(chan'[e]))
    BY ZenonT(40) DEF SendingStep
  <1>m. ~(m < m)
    BY SMTT(40) DEF Published
  <1>1. Range(log'[e]) = Range(log[e]) \cup {m}
    <2>1. Range(Append(log[e], m)) = Range(log[e]) \cup {m}
      BY Adding, ZenonT(40)
    <2>2. QED
      BY <1>v, <2>1, ZenonT(40)
  <1>2. m \notin Range(conn'[e].pending) \cup Range(chan'[e])
    BY <1>m, <1>w, ZenonT(40) DEF Before
  <1>3. /\ Loose(e)' \in SUBSET Loose(e) /\ m \notin Loose(e)'
        /\ Taken(e)' \in SUBSET (Taken(e) \cup {m})
    BY <1>1, <1>w, ZenonT(40) DEF Loose, Taken
  <1>4. Carried(e)' \in SUBSET Carried(e) /\ m \notin Carried(e)'
    BY <1>2, <1>3, <1>w, ZenonT(40) DEF Carried
  <1>5. \A d \in Epochs : d # e => Loose(d)' = Loose(d) /\ Carried(d)' = Carried(d) /\ Taken(d)' = Taken(d)
    BY <1>v, ZenonT(40) DEF Loose, Carried, Taken
  <1>6. \A d \in Epochs : Carried(d)' \in SUBSET Carried(d)
    BY <1>4, <1>5, ZenonT(40)
  <1>7. RouterHoldsNewest'
    BY <1>u, ZenonT(40) DEF Tidy, RouterHoldsNewest, Published
  <1>8. RouterHoldsAlone'
    <2>1. ASSUME NEW r \in Routers, router[r].at \in {"send", "enqueue"}, NEW d \in Epochs
          PROVE  router[r].msg \notin Taken(d)' \cup Carried(d)'
      <3>1. router[r].msg \notin Taken(d) \cup Carried(d) /\ router[r].msg # m
        BY <1>v, <2>1, ZenonT(40) DEF Tidy, RouterHoldsAlone
      <3>2. QED
        <4>1. Taken(d)' \in SUBSET (Taken(d) \cup {m})
          BY <1>3, <1>5, ZenonT(40)
        <4>2. QED
          BY <1>6, <3>1, <4>1, ZenonT(40)
    <2>2. QED
      BY <1>u, <2>1, ZenonT(40) DEF Tidy, RouterHoldsAlone
  <1>9. StoredInOrder'
    BY <1>u, ZenonT(40) DEF Tidy, StoredInOrder
  <1>10. ASSUME NEW d \in Epochs
         PROVE  CarriedInOrder(d)'
    <2>1. CarriedInOrder(d)
      BY ZenonT(40) DEF Tidy
    <2>2. CASE d # e
      <3>1. chan'[d] = chan[d] /\ conn'[d] = conn[d] /\ Loose(d)' = Loose(d) /\ Taken(d)' = Taken(d)
        BY <1>5, <1>v, <2>2, ZenonT(40)
      <3>2. QED
        BY <1>u, <2>1, <3>1, ZenonT(40) DEF CarriedInOrder
    <2>3. CASE d = e
      <3>1. Before(by, Range(conn'[e].pending), Range(chan'[e]))
        BY <1>w, <2>1, <2>3, ZenonT(40) DEF CarriedInOrder, Before
      <3>2. Before(by, Taken(e)', Range(conn'[e].pending) \cup Range(chan'[e]))
        BY <1>3, <1>w, <2>1, <2>3, ZenonT(40) DEF CarriedInOrder, Before
      <3>3. Loose(e)' \in SUBSET skipped
        BY <1>3, <2>1, <2>3, ZenonT(40) DEF CarriedInOrder
      <3>4. QED
        BY <1>u, <1>w, <2>3, <3>1, <3>2, <3>3, ZenonT(40) DEF CarriedInOrder
    <2>4. QED
      BY <2>2, <2>3, ZenonT(40)
  <1>11. InOrder'
    <2>1. ASSUME NEW d \in Epochs
          PROVE  RisingBut(by, skipped, log'[d])
      <3>1. RisingBut(by, skipped, log[d])
        BY ZenonT(40) DEF Tidy, InOrder, RisingBut
      <3>2. CASE d # e
        BY <1>v, <3>1, <3>2, ZenonT(40)
      <3>3. CASE d = e
        <4>1. RisingBut(by, skipped, Append(log[e], m))
          BY <1>v, <3>1, <3>3, LoggedInOrder, ZenonT(40)
        <4>2. QED
          BY <1>v, <3>3, <4>1, ZenonT(40)
      <3>4. QED
        BY <3>2, <3>3, ZenonT(40)
    <2>2. QED
      BY <1>u, <2>1, ZenonT(40) DEF InOrder, RisingBut
  <1>12. OneWay'
    BY <1>u, <1>6, ZenonT(40) DEF Tidy, OneWay
  <1>13. SendsCounted'
    <2>1. /\ SendsIn(log', m) \in SUBSET (SendsIn(log, m) \cup {<<e, Len(log[e]) + 1>>})
          /\ \A n : n # m => SendsIn(log', n) = SendsIn(log, n)
      <3>1. LogGrows(log, log', e, m)
        BY <1>v, ZenonT(40) DEF LogGrows
      <3>2. QED
        <4>1. SendsGrow(log, log', e, m)
          BY <3>1, OneMoreSend, ZenonT(40)
        <4>2. QED
          BY <4>1, ZenonT(40) DEF SendsGrow
    <2>2. \A n \in Messages : Alive(n)' => Alive(n)
      BY <1>u, <1>6, ZenonT(40) DEF Alive
    <2>3. Alive(m) /\ m \in Messages
      BY <1>v, ZenonT(40) DEF Alive
    <2>4. ~Alive(m)'
      <3>1. m \notin Range(queue[epoch]) /\ \A d \in Epochs : d # e => m \notin Carried(d)
        BY <1>v, ZenonT(40) DEF Tidy, OneWay
      <3>2. QED
        BY <1>u, <1>4, <1>5, <3>1, ZenonT(40) DEF Alive
    <2>5. \A n \in Messages : /\ IsFiniteSet(SendsIn(log, n)) /\ Cardinality(SendsIn(log, n)) <= 1 + restarts
                              /\ Alive(n) => Cardinality(SendsIn(log, n)) <= restarts
      BY ZenonT(40) DEF Tidy, SendsCounted, Sends
    <2>6. IsFiniteSet(SendsIn(log, m)) /\ Cardinality(SendsIn(log, m)) <= restarts
      BY <2>3, <2>5, ZenonT(40)
    <2>7. IsFiniteSet(SendsIn(log', m)) /\ Cardinality(SendsIn(log', m)) <= 1 + restarts
      BY <2>1, <2>6, OneMore, ZenonT(40)
    <2>8. \A n \in Messages : /\ IsFiniteSet(SendsIn(log', n)) /\ Cardinality(SendsIn(log', n)) <= 1 + restarts
                              /\ Alive(n)' => Cardinality(SendsIn(log', n)) <= restarts
      BY <2>1, <2>2, <2>4, <2>5, <2>7, ZenonT(40)
    <2>9. QED
      BY <1>u, <2>8, ZenonT(40) DEF SendsCounted, Sends
  <1>14. QED
    BY <1>7, <1>8, <1>9, <1>10, <1>11, <1>12, <1>13, ZenonT(40) DEF Tidy

----------------------------------------------------------------------------
(***************************************************************************)
(* What each step does to a connection.                                    *)
(***************************************************************************)

\* What the type invariant says of the members of a connection.
LEMMA ConnTypes ==
  ASSUME DeliveryTypeOK, NEW e \in Epochs
  PROVE  /\ conn[e].pending \in Seq(Published) /\ conn[e].inflight \in SUBSET Published
         /\ conn[e].at \in Stages /\ conn[e].keys \in SUBSET Messages
         /\ chan[e] \in Seq(Published) /\ log[e] \in Seq(Published) /\ queue[e] \in Seq(Published)
         /\ Range(conn[e].pending) \in SUBSET Published /\ Range(chan[e]) \in SUBSET Published
         /\ Range(log[e]) \in SUBSET Published /\ Range(queue[e]) \in SUBSET Published
  <1>1. conn[e] \in Conns(Published)
    BY ZenonT(40) DEF DeliveryTypeOK
  <1>2. /\ conn[e].pending \in Seq(Published) /\ conn[e].inflight \in SUBSET Published
        /\ conn[e].at \in Stages /\ conn[e].keys \in SUBSET Messages
    BY <1>1, ZenonT(40) DEF Conns
  <1>3. chan[e] \in Seq(Published) /\ log[e] \in Seq(Published) /\ queue[e] \in Seq(Published)
    BY ZenonT(40) DEF DeliveryTypeOK
  <1>4. \A s \in Seq(Published) : Range(s) \in SUBSET Published
    BY Members1, ZenonT(40)
  <1>5. QED
    BY <1>2, <1>3, <1>4, ZenonT(40)

\* The messages published so far are some of all messages.
LEMMA PublishedAre ==
  ASSUME DeliveryTypeOK
  PROVE  Published \in SUBSET Messages /\ DOMAIN by = Published /\ Len(by) \in Nat
  <1>1. by \in Seq(Routers) /\ Len(by) <= MaxMessages /\ MaxMessages \in Nat
    BY DeliveryAssumption, ZenonT(40) DEF DeliveryTypeOK
  <1>2. QED
    BY <1>1, SMTT(40) DEF Published, Messages

\* Connection e, and no other, moves to another stage, replay and table.
ConnBecomes(e, a, p, i) ==
    /\ conn' \in [Epochs -> Conns(Published)]
    /\ \A d \in Epochs : d # e => conn'[d] = conn[d]
    /\ conn'[e].at = a /\ conn'[e].pending = p /\ conn'[e].inflight = i

\* The message that a connection takes, from the replay or from the channel, is
\* entered into the table of inflight messages unless its QoS is 0.
LEMMA Tracked ==
  ASSUME DeliveryTypeOK, NEW e \in Epochs, NEW m \in Published
  PROVE  /\ Track(e, m) \in SUBSET Published
         /\ Track(e, m) \in SUBSET (conn[e].inflight \cup {m})
         /\ conn[e].inflight \in SUBSET Track(e, m)
         /\ m \in QoS0 \/ m \in Track(e, m)
  BY ConnTypes, ZenonT(40) DEF Track

\* The head of the replay is a message, and so are the ones behind it.
LEMMA PendingTaken ==
  ASSUME DeliveryTypeOK, NEW e \in Epochs, conn[e].pending # <<>>
  PROVE  Head(conn[e].pending) \in Published /\ Tail(conn[e].pending) \in Seq(Published)
  BY ConnTypes, Taking, ZenonT(40)

\* Handlers that move a connection on.
LEMMA ConnackEffect ==
  ASSUME DeliveryTypeOK, NEW e \in Epochs, Connack(e)
  PROVE  ConnBecomes(e, "replay", conn[e].pending, conn[e].inflight)
  BY ZenonT(40) DEF DeliveryTypeOK, Connack, ConnBecomes, Conns, Stages

\* Replay takes the front of the pending messages and sends or drops it.
LEMMA ReplayEffect ==
  ASSUME DeliveryTypeOK, NEW e \in Epochs, Replay(e), NEW m, m = Head(conn[e].pending)
  PROVE  \/ /\ Sendable(e, m) /\ log' = [log EXCEPT ![e] = Append(@, m)] /\ lost' = lost
            /\ ConnBecomes(e, "replay", Tail(conn[e].pending), Track(e, m))
         \/ /\ ~Sendable(e, m) /\ log' = log /\ lost' = lost \cup {m}
            /\ ConnBecomes(e, "replay", Tail(conn[e].pending), conn[e].inflight)
  <1>1. PICK t, i : t = Tail(conn[e].pending) /\ i = Track(e, m)
    BY ZenonT(40)
  <1>2. t \in Seq(Published) /\ i \in SUBSET Published
    <2>1. conn[e].pending # <<>>
      BY ZenonT(40) DEF Replay
    <2>2. m \in Published /\ t \in Seq(Published)
      <3>1. Head(conn[e].pending) \in Published /\ Tail(conn[e].pending) \in Seq(Published)
        BY <2>1, PendingTaken, ZenonT(40)
      <3>2. QED
        BY <1>1, <3>1, ZenonT(40)
    <2>3. \A n \in Published : Track(e, n) \in SUBSET Published
      BY Tracked, ZenonT(40)
    <2>4. QED
      BY <1>1, <2>2, <2>3, ZenonT(40)
  <1>3. CASE Sendable(e, m)
    <2>1. conn' = [conn EXCEPT ![e].pending = t, ![e].inflight = i] /\ conn[e].at = "replay"
      BY <1>1, <1>3, ZenonT(40) DEF Replay
    <2>2. ConnBecomes(e, "replay", t, i)
      BY <1>2, <2>1, ZenonT(40) DEF DeliveryTypeOK, ConnBecomes, Conns
    <2>3. QED
      BY <1>1, <1>3, <2>2, ZenonT(40) DEF Replay
  <1>4. CASE ~Sendable(e, m)
    <2>1. conn' = [conn EXCEPT ![e].pending = t] /\ conn[e].at = "replay"
      BY <1>1, <1>4, ZenonT(40) DEF Replay
    <2>2. ConnBecomes(e, "replay", t, conn[e].inflight)
      BY <1>2, <2>1, ZenonT(40) DEF DeliveryTypeOK, ConnBecomes, Conns
    <2>3. QED
      BY <1>1, <1>4, <2>2, ZenonT(40) DEF Replay
  <1>5. QED
    BY <1>3, <1>4, ZenonT(40)

\* The timer that cancels a send leaves the message to the inflight table.
LEMMA ReplayTickEffect ==
  ASSUME DeliveryTypeOK, NEW e \in Epochs, ReplayTick(e), NEW m, m = Head(conn[e].pending)
  PROVE  ConnBecomes(e, "replay", Tail(conn[e].pending), Track(e, m))
  <1>1. PICK t, i : t = Tail(conn[e].pending) /\ i = Track(e, m)
    BY ZenonT(40)
  <1>2. t \in Seq(Published) /\ i \in SUBSET Published
    <2>1. conn[e].pending # <<>>
      BY ZenonT(40) DEF ReplayTick
    <2>2. m \in Published /\ t \in Seq(Published)
      <3>1. Head(conn[e].pending) \in Published /\ Tail(conn[e].pending) \in Seq(Published)
        BY <2>1, PendingTaken, ZenonT(40)
      <3>2. QED
        BY <1>1, <3>1, ZenonT(40)
    <2>3. \A n \in Published : Track(e, n) \in SUBSET Published
      BY Tracked, ZenonT(40)
    <2>4. QED
      BY <1>1, <2>2, <2>3, ZenonT(40)
  <1>3. conn' = [conn EXCEPT ![e].pending = t, ![e].inflight = i] /\ conn[e].at = "replay"
    BY <1>1, ZenonT(40) DEF ReplayTick
  <1>4. ConnBecomes(e, "replay", t, i)
    BY <1>2, <1>3, ZenonT(40) DEF DeliveryTypeOK, ConnBecomes, Conns
  <1>5. QED
    BY <1>1, <1>4, ZenonT(40)

\* The scan only moves the connection on.
LEMMA ScanDiskEffect ==
  ASSUME DeliveryTypeOK, NEW e \in Epochs, ScanDisk(e)
  PROVE  ConnBecomes(e, "clear", conn[e].pending, conn[e].inflight)
  <1>1. PICK k : k = Range(disk)
    BY ZenonT(40)
  <1>2. k \in SUBSET Messages
    <2>1. disk \in Seq(Published)
      BY ZenonT(40) DEF DeliveryTypeOK
    <2>2. Range(disk) \in SUBSET Published
      BY <2>1, Members1, ZenonT(40)
    <2>3. QED
      BY <1>1, <2>2, PublishedAre, ZenonT(40)
  <1>3. conn' = [conn EXCEPT ![e].at = "clear", ![e].keys = k]
    BY <1>1, ZenonT(40) DEF ScanDisk
  <1>4. QED
    BY <1>2, <1>3, ZenonT(40) DEF DeliveryTypeOK, ConnBecomes, Conns, Stages

\* The removal takes an entry from the disk.
LEMMA RemoveKeyEffect ==
  ASSUME DeliveryTypeOK, NEW e \in Epochs, RemoveKey(e), NEW b
  PROVE  /\ disk' \in Seq(Published) /\ Range(disk') \in SUBSET Range(disk)
         /\ Rising(b, disk) => Rising(b, disk')
  <1>1. PICK i \in DOMAIN disk : disk' = Without(disk, i)
    BY ZenonT(40) DEF RemoveKey, Remaining
  <1>2. disk \in Seq(Published)
    BY ZenonT(40) DEF DeliveryTypeOK
  <1>3. /\ Without(disk, i) \in Seq(Published) /\ Range(Without(disk, i)) \in SUBSET Range(disk)
        /\ Rising(b, disk) => Rising(b, Without(disk, i))
    BY <1>2, Keeping, ZenonT(40)
  <1>4. QED
    BY <1>1, <1>3, ZenonT(40)

\* The end of the removal moves the connection on.
LEMMA ClearDoneEffect ==
  ASSUME DeliveryTypeOK, NEW e \in Epochs, ClearDone(e)
  PROVE  ConnBecomes(e, "main", conn[e].pending, conn[e].inflight)
  BY ZenonT(40) DEF ClearDone, DeliveryTypeOK, ConnBecomes, Conns, Stages

\* Deliver takes the front of the channel and sends or drops it.
LEMMA DeliverEffect ==
  ASSUME DeliveryTypeOK, NEW e \in Epochs, Deliver(e), NEW m, m = Head(chan[e])
  PROVE  /\ m \in Published /\ chan' \in [Epochs -> Seq(Published)]
         /\ chan'[e] = Tail(chan[e]) /\ \A d \in Epochs : d # e => chan'[d] = chan[d]
         /\ \/ /\ Sendable(e, m) /\ log' = [log EXCEPT ![e] = Append(@, m)] /\ lost' = lost
               /\ ConnBecomes(e, "main", conn[e].pending, Track(e, m))
            \/ /\ ~Sendable(e, m) /\ log' = log /\ lost' = lost \cup {m}
               /\ ConnBecomes(e, "main", conn[e].pending, conn[e].inflight)
  <1>1. PICK t, i : t = Tail(chan[e]) /\ i = Track(e, m)
    BY ZenonT(40)
  <1>2. chan[e] # <<>> /\ conn[e].at = "main" /\ chan[e] \in Seq(Published)
    BY ConnTypes, ZenonT(40) DEF Deliver
  <1>3. m \in Published /\ t \in Seq(Published)
    BY <1>1, <1>2, Taking, ZenonT(40)
  <1>4. i \in SUBSET Published
    BY <1>1, <1>3, Tracked, ZenonT(40)
  <1>5. chan' = [chan EXCEPT ![e] = t]
    BY <1>1, ZenonT(40) DEF Deliver
  <1>6. /\ chan' \in [Epochs -> Seq(Published)]
        /\ chan'[e] = t /\ \A d \in Epochs : d # e => chan'[d] = chan[d]
    BY <1>3, <1>5, ZenonT(40) DEF DeliveryTypeOK
  <1>7. CASE Sendable(e, m)
    <2>1. conn' = [conn EXCEPT ![e].inflight = i] /\ log' = [log EXCEPT ![e] = Append(@, m)] /\ lost' = lost
      BY <1>1, <1>7, ZenonT(40) DEF Deliver
    <2>2. ConnBecomes(e, "main", conn[e].pending, i)
      BY <1>2, <1>4, <2>1, ZenonT(40) DEF DeliveryTypeOK, ConnBecomes, Conns
    <2>3. QED
      BY <1>1, <1>3, <1>6, <1>7, <2>1, <2>2, ZenonT(40)
  <1>8. CASE ~Sendable(e, m)
    <2>1. conn' = conn /\ log' = log /\ lost' = lost \cup {m}
      BY <1>8, ZenonT(40) DEF Deliver
    <2>2. ConnBecomes(e, "main", conn[e].pending, conn[e].inflight)
      BY <1>2, <2>1, ZenonT(40) DEF DeliveryTypeOK, ConnBecomes
    <2>3. QED
      BY <1>1, <1>3, <1>6, <1>8, <2>1, <2>2, ZenonT(40)
  <1>9. QED
    BY <1>7, <1>8, ZenonT(40)

\* An acknowledgement takes a message from the inflight table.
LEMMA AcknowledgeEffect ==
  ASSUME DeliveryTypeOK, NEW e \in Epochs, NEW m, Acknowledge(e, m)
  PROVE  ConnBecomes(e, "main", conn[e].pending, conn[e].inflight \ {m})
  <1>1. PICK i : i = conn[e].inflight \ {m}
    BY ZenonT(40)
  <1>2. i \in SUBSET Published
    BY <1>1, ConnTypes, ZenonT(40)
  <1>3. conn' = [conn EXCEPT ![e].inflight = i] /\ conn[e].at = "main"
    BY <1>1, ZenonT(40) DEF Acknowledge
  <1>4. ConnBecomes(e, "main", conn[e].pending, i)
    BY <1>2, <1>3, ZenonT(40) DEF DeliveryTypeOK, ConnBecomes, Conns
  <1>5. QED
    BY <1>1, <1>4, ZenonT(40)

\* A failed connection gives up what it has not sent.
LEMMA FailEffect ==
  ASSUME DeliveryTypeOK, NEW e \in Epochs, Fail(e)
  PROVE  /\ ConnBecomes(e, "closing", <<>>, {})
         /\ entry' \in [epoch : {epoch}, connected : BOOLEAN]
  <1>1. <<>> \in Seq(Published)
    BY SMTT(40)
  <1>2. ConnBecomes(e, "closing", <<>>, {})
    BY <1>1, ZenonT(40) DEF Fail, DeliveryTypeOK, ConnBecomes, Conns, Stages
  <1>3. entry' = entry \/ entry' = [entry EXCEPT !.connected = FALSE]
    BY ZenonT(40) DEF Fail
  <1>4. entry' \in [epoch : {epoch}, connected : BOOLEAN]
    BY <1>3, ZenonT(40) DEF DeliveryTypeOK
  <1>5. QED
    BY <1>2, <1>4, ZenonT(40)

\* The receiver goes, and the channel with it.
LEMMA DropReceiverEffect ==
  ASSUME DeliveryTypeOK, NEW e \in Epochs, DropReceiver(e)
  PROVE  /\ ConnBecomes(e, "done", conn[e].pending, conn[e].inflight)
         /\ chan' \in [Epochs -> Seq(Published)]
         /\ chan'[e] = <<>> /\ \A d \in Epochs : d # e => chan'[d] = chan[d]
  <1>1. <<>> \in Seq(Published)
    BY SMTT(40)
  <1>2. ConnBecomes(e, "done", conn[e].pending, conn[e].inflight)
    BY ZenonT(40) DEF DropReceiver, DeliveryTypeOK, ConnBecomes, Conns, Stages
  <1>3. QED
    BY <1>1, <1>2, ZenonT(40) DEF DropReceiver, DeliveryTypeOK

\* The end of the channel ends the connection and its inflight table.
LEMMA ChannelEndsEffect ==
  ASSUME DeliveryTypeOK, NEW e \in Epochs, ChannelEnds(e)
  PROVE  ConnBecomes(e, "done", conn[e].pending, {})
  BY ZenonT(40) DEF ChannelEnds, DeliveryTypeOK, ConnBecomes, Conns, Stages

----------------------------------------------------------------------------
(***************************************************************************)
(* The steps of a connection preserve the invariant.                       *)
(***************************************************************************)

\* Only connection e, and the disk, change.
ConnOnly(e) ==
    /\ conn[e].at # "none"
    /\ conn'[e].at \notin {"connack", "replay"} => conn'[e].pending = <<>>
    /\ UNCHANGED <<by, stranded, epoch, queue, router, restarts>>
    /\ entry' \in [epoch : {epoch}, connected : BOOLEAN]
    /\ conn' \in [Epochs -> Conns(Published)]
    /\ chan' \in [Epochs -> Seq(Published)]
    /\ log' \in [Epochs -> Seq(Published)]
    /\ \A d \in Epochs : d # e => conn'[d] = conn[d] /\ chan'[d] = chan[d] /\ log'[d] = log[d]
    /\ disk' \in Seq(Published) /\ durable' \in Seq(Published)

\* What connection e knew, it still knows or has given up.
NoneForgotten(e) ==
    /\ lost \in SUBSET lost'
    /\ Taken(e) \cup Carried(e) \in SUBSET (lost' \cup Taken(e)' \cup Carried(e)')

\* A step of one connection that forgets no message keeps types and places.
LEMMA ConnOnlyKeeps ==
  ASSUME DeliveryTypeOK, Untouched, ReplayedFirst, AllFound,
         NEW e \in Epochs, ConnOnly(e), NoneForgotten(e)
  PROVE  DeliveryTypeOK' /\ Untouched' /\ ReplayedFirst' /\ AllFound'
  <1>1. /\ by' = by /\ epoch' = epoch /\ queue' = queue /\ router' = router /\ restarts' = restarts
        /\ stranded' = stranded
        /\ entry' \in [epoch : {epoch}, connected : BOOLEAN]
        /\ conn' \in [Epochs -> Conns(Published)]
        /\ chan' \in [Epochs -> Seq(Published)]
        /\ log' \in [Epochs -> Seq(Published)]
        /\ disk' \in Seq(Published) /\ durable' \in Seq(Published)
    BY ZenonT(40) DEF ConnOnly
  <1>2. Published' = Published
    BY <1>1, ZenonT(40) DEF Published
  <1>3. DeliveryTypeOK'
    BY <1>1, <1>2, ZenonT(40) DEF DeliveryTypeOK
  <1>4. Untouched'
    <2>1. Unused.at = "none"
      BY ZenonT(40) DEF Unused
    <2>2. conn[e] # Unused
      BY <2>1, ZenonT(40) DEF ConnOnly
    <2>3. ~(e > epoch)
      BY <2>2, ZenonT(40) DEF Untouched
    <2>4. \A d \in Epochs : d > epoch => conn'[d] = conn[d] /\ chan'[d] = chan[d] /\ log'[d] = log[d]
      BY <2>3, ZenonT(40) DEF ConnOnly
    <2>5. QED
      BY <1>1, <2>4, ZenonT(40) DEF Untouched
  <1>5. ASSUME NEW m \in Published
        PROVE  Found(m)'
    <2>1. Found(m)
      BY ZenonT(40) DEF AllFound
    <2>2. \A d \in Epochs : d # e => Taken(d)' = Taken(d) /\ Carried(d)' = Carried(d)
      BY ZenonT(40) DEF ConnOnly, Taken, Carried, Loose
    <2>3. CASE m \in lost \/ m \in stranded \/ m \in Range(queue[epoch])
      BY <1>1, <2>3, ZenonT(40) DEF Found, NoneForgotten
    <2>4. CASE \E d \in Epochs : m \in Taken(d) \cup Carried(d)
      <3>1. PICK d \in Epochs : m \in Taken(d) \cup Carried(d)
        BY <2>4, ZenonT(40)
      <3>2. m \in lost' \/ m \in Taken(d)' \cup Carried(d)'
        BY <2>2, <3>1, ZenonT(40) DEF NoneForgotten
      <3>3. QED
        BY <3>2, ZenonT(40) DEF Found
    <2>5. CASE \E r \in Routers : router[r].at \in {"send", "enqueue"} /\ router[r].msg = m
      BY <1>1, <2>5, ZenonT(40) DEF Found
    <2>6. QED
      BY <2>1, <2>3, <2>4, <2>5, ZenonT(40) DEF Found
  <1>6. ReplayedFirst'
    BY ZenonT(40) DEF ReplayedFirst, ConnOnly
  <1>7. QED
    BY <1>2, <1>3, <1>4, <1>5, <1>6, ZenonT(40) DEF AllFound

\* A step of one connection that sends nothing.
LEMMA FadeStep ==
  ASSUME DeliveryInv, NEW e \in Epochs, ConnOnly(e), NoneForgotten(e), ConnFades(e), DiskFades,
         log' = log, skipped \in SUBSET skipped'
  PROVE  DeliveryInv'
  <1>1. DeliveryTypeOK /\ Untouched /\ ReplayedFirst /\ AllFound /\ Tidy
    BY ZenonT(40) DEF DeliveryInv
  <1>2. DeliveryTypeOK' /\ Untouched' /\ ReplayedFirst' /\ AllFound'
    BY <1>1, ConnOnlyKeeps, ZenonT(40)
  <1>3. by' = by /\ epoch' = epoch /\ queue' = queue /\ router' = router /\ restarts' = restarts
    BY ZenonT(40) DEF ConnOnly
  <1>4. /\ queue'[epoch] = queue[epoch] => QueueFades
        /\ \A r \in Routers : router'[r] = router[r] => RouterFades(r)
    BY <1>1, Still, ZenonT(40)
  <1>5. QueueFades /\ \A r \in Routers : RouterFades(r)
    BY <1>3, <1>4, ZenonT(40)
  <1>6. \A d \in Epochs : d # e => chan'[d] = chan[d] /\ conn'[d] = conn[d]
    BY ZenonT(40) DEF ConnOnly
  <1>7. \A d \in Epochs : ConnFades(d)
    <2>1. ASSUME NEW d \in Epochs, d # e
          PROVE  ConnFades(d)
      BY <1>1, <1>6, <2>1, StillConn, ZenonT(40)
    <2>2. QED
      BY <2>1, ZenonT(40)
  <1>8. Tidy'
    BY <1>1, <1>3, <1>5, <1>7, Losing, ZenonT(40)
  <1>9. QED
    BY <1>2, <1>8, ZenonT(40) DEF DeliveryInv

\* A step of one connection that sends a message.
LEMMA SendStep ==
  ASSUME DeliveryInv, NEW e \in Epochs, NEW m \in Published, ConnOnly(e), NoneForgotten(e),
         SendingStep(e, m)
  PROVE  DeliveryInv'
  <1>1. DeliveryTypeOK /\ Untouched /\ ReplayedFirst /\ AllFound /\ Tidy
    BY ZenonT(40) DEF DeliveryInv
  <1>2. DeliveryTypeOK' /\ Untouched' /\ ReplayedFirst' /\ AllFound'
    BY <1>1, ConnOnlyKeeps, ZenonT(40)
  <1>3. log[e] \in Seq(Published) /\ Published \in SUBSET Messages /\ restarts \in Nat
    <2>1. log[e] \in Seq(Published) /\ restarts \in Nat
      BY <1>1, ZenonT(40) DEF DeliveryTypeOK
    <2>2. QED
      BY <1>1, <2>1, PublishedAre, ZenonT(40)
  <1>4. Tidy'
    BY <1>1, <1>3, Sending, ZenonT(40)
  <1>5. QED
    BY <1>2, <1>4, ZenonT(40) DEF DeliveryInv

\* What the invariant says of the order on one connection.
LEMMA OrderOn ==
  ASSUME DeliveryInv, NEW e \in Epochs
  PROVE  /\ DeliveryTypeOK /\ Tidy
         /\ conn[e].at \notin {"connack", "replay"} => conn[e].pending = <<>>
         /\ Rising(by, conn[e].pending) /\ Rising(by, chan[e])
         /\ Before(by, Range(conn[e].pending), Range(chan[e]))
         /\ Before(by, Taken(e), Range(conn[e].pending) \cup Range(chan[e]))
         /\ Loose(e) \in SUBSET skipped
  BY ZenonT(40) DEF DeliveryInv, ReplayedFirst, Tidy, CarriedInOrder

\* A step that only moves connection e on.
LEMMA StageStep ==
  ASSUME DeliveryInv, NEW e \in Epochs, NEW a, conn[e].at # "none",
         ConnBecomes(e, a, conn[e].pending, conn[e].inflight),
         a = "replay" \/ conn[e].pending = <<>>,
         UNCHANGED <<entry, epoch, queue, chan, router, by, stranded, log, lost, skipped, restarts>>,
         disk' \in Seq(Published), durable' \in Seq(Published), DiskFades
  PROVE  DeliveryInv'
  <1>1. DeliveryTypeOK
    BY ZenonT(40) DEF DeliveryInv
  <1>2. ConnOnly(e)
    BY <1>1, ZenonT(40) DEF DeliveryTypeOK, ConnOnly, ConnBecomes
  <1>3. conn'[e].pending = conn[e].pending /\ conn'[e].inflight = conn[e].inflight /\ chan' = chan /\ log' = log
    BY ZenonT(40) DEF ConnBecomes
  <1>4. Taken(e)' = Taken(e) /\ Carried(e)' = Carried(e)
    BY <1>3, ZenonT(40) DEF Taken, Carried, Loose
  <1>5. NoneForgotten(e)
    BY <1>4, ZenonT(40) DEF NoneForgotten
  <1>6. ConnFades(e)
    <2>1. Tidy /\ Rising(by, conn[e].pending) /\ Rising(by, chan[e])
      BY OrderOn, ZenonT(40)
    <2>2. /\ Range(chan'[e]) \in SUBSET Range(chan[e]) /\ Rising(by, chan'[e])
          /\ Range(conn'[e].pending) \in SUBSET Range(conn[e].pending) /\ Rising(by, conn'[e].pending)
          /\ conn'[e].inflight \in SUBSET conn[e].inflight /\ log'[e] = log[e] /\ skipped \in SUBSET skipped'
      BY <1>3, <2>1, ZenonT(40)
    <2>3. QED
      BY <2>1, <2>2, Quieter, ZenonT(40)
  <1>7. QED
    BY <1>2, <1>3, <1>5, <1>6, FadeStep, ZenonT(40)

\* The disk as it is.
LEMMA DiskStill ==
  ASSUME DeliveryInv, disk' = disk, durable' = durable
  PROVE  disk' \in Seq(Published) /\ durable' \in Seq(Published) /\ DiskFades
  <1>1. DeliveryTypeOK /\ Tidy
    BY ZenonT(40) DEF DeliveryInv
  <1>2. DiskFades
    BY <1>1, Still, ZenonT(40)
  <1>3. QED
    BY <1>1, <1>2, ZenonT(40) DEF DeliveryTypeOK

\* The CONNACK disturbs no message.
LEMMA ConnackKeeps ==
  ASSUME DeliveryInv, NEW e \in Epochs, Connack(e)
  PROVE  DeliveryInv'
  <1>1. DeliveryTypeOK
    BY ZenonT(40) DEF DeliveryInv
  <1>2. ConnBecomes(e, "replay", conn[e].pending, conn[e].inflight)
    BY <1>1, ConnackEffect, ZenonT(40)
  <1>3. /\ conn[e].at # "none" /\ disk' = disk /\ durable' = durable
        /\ UNCHANGED <<entry, epoch, queue, chan, router, by, stranded, log, lost, skipped, restarts>>
    BY SMTT(40) DEF Connack, sessionVars, routerVars, diskVars
  <1>4. QED
    BY <1>2, <1>3, DiskStill, StageStep, ZenonT(40)

\* Nor does the scan of the disk.
LEMMA ScanDiskKeeps ==
  ASSUME DeliveryInv, NEW e \in Epochs, ScanDisk(e)
  PROVE  DeliveryInv'
  <1>1. DeliveryTypeOK
    BY ZenonT(40) DEF DeliveryInv
  <1>2. ConnBecomes(e, "clear", conn[e].pending, conn[e].inflight)
    BY <1>1, ScanDiskEffect, ZenonT(40)
  <1>3. /\ conn[e].at # "none" /\ disk' = disk /\ durable' = durable
        /\ conn[e].pending = <<>>
        /\ UNCHANGED <<entry, epoch, queue, chan, router, by, stranded, log, lost, skipped, restarts>>
    BY SMTT(40) DEF ScanDisk, sessionVars, routerVars, diskVars
  <1>4. QED
    BY <1>2, <1>3, DiskStill, StageStep, ZenonT(40)

\* The end of the removal disturbs no message either.
LEMMA ClearDoneKeeps ==
  ASSUME DeliveryInv, NEW e \in Epochs, ClearDone(e)
  PROVE  DeliveryInv'
  <1>1. DeliveryTypeOK
    BY ZenonT(40) DEF DeliveryInv
  <1>2. ConnBecomes(e, "main", conn[e].pending, conn[e].inflight)
    BY <1>1, ClearDoneEffect, ZenonT(40)
  <1>3. /\ conn[e].at # "none" /\ disk' = disk /\ durable' = durable
        /\ UNCHANGED <<entry, epoch, queue, chan, router, by, stranded, log, lost, skipped, restarts>>
    BY SMTT(40) DEF ClearDone, sessionVars, routerVars, diskVars
  <1>4. conn[e].pending = <<>>
    <2>1. conn[e].at \notin {"connack", "replay"}
      BY SMTT(40) DEF ClearDone
    <2>2. QED
      BY <2>1, OrderOn, ZenonT(40)
  <1>5. QED
    BY <1>2, <1>3, <1>4, DiskStill, StageStep, ZenonT(40)

\* The replay takes its first message m and leaves the others, t.
FirstOfReplay(e, m, t) ==
    /\ m \in Published /\ t \in Seq(Published) /\ m \in Range(conn[e].pending)
    /\ Range(conn[e].pending) = Range(t) \cup {m} /\ Range(t) \in SUBSET Range(conn[e].pending)
    /\ Rising(by, t) /\ Before(by, {m}, Range(t) \cup Range(chan[e]))
    /\ Before(by, Range(log[e]), {m})

\* The first message of the replay precedes the rest and the channel.
LEMMA ReplayTakes ==
  ASSUME DeliveryInv, NEW e \in Epochs, conn[e].pending # <<>>
  PROVE  FirstOfReplay(e, Head(conn[e].pending), Tail(conn[e].pending))
  <1>1. PICK s, m, t : s = conn[e].pending /\ m = Head(conn[e].pending) /\ t = Tail(conn[e].pending)
    BY ZenonT(40)
  <1>2. DeliveryTypeOK
    BY OrderOn, ZenonT(40)
  <1>3. s \in Seq(Published) /\ s # <<>> /\ m = Head(s) /\ t = Tail(s)
    BY <1>1, <1>2, ConnTypes, ZenonT(40)
  <1>4. Rising(by, s) /\ Before(by, Range(s), Range(chan[e])) /\ Before(by, Taken(e), Range(s) \cup Range(chan[e]))
    BY <1>1, OrderOn, ZenonT(40)
  <1>5. /\ Head(s) \in Range(s) /\ Head(s) \in Published /\ Tail(s) \in Seq(Published)
        /\ Range(s) = Range(Tail(s)) \cup {Head(s)}
        /\ Rising(by, s) => Rising(by, Tail(s)) /\ Before(by, {Head(s)}, Range(Tail(s)))
    BY <1>3, Taking, ZenonT(40)
  <1>6. /\ m \in Range(s) /\ m \in Published /\ t \in Seq(Published)
        /\ Range(s) = Range(t) \cup {m} /\ Rising(by, t) /\ Before(by, {m}, Range(t))
    BY <1>3, <1>4, <1>5, ZenonT(40)
  <1>7. Before(by, {m}, Range(t) \cup Range(chan[e]))
    BY <1>4, <1>6, ZenonT(40) DEF Before
  <1>8. Before(by, Range(log[e]), {m})
    BY <1>4, <1>6, ZenonT(40) DEF Before, Taken
  <1>9. Range(t) \in SUBSET Range(s)
    BY <1>6, ZenonT(40)
  <1>10. FirstOfReplay(e, m, t)
    BY <1>1, <1>6, <1>7, <1>8, <1>9, ZenonT(40) DEF FirstOfReplay
  <1>11. QED
    BY <1>1, <1>10, ZenonT(40)

\* A log that grows by a message.
LEMMA LogExtended ==
  ASSUME DeliveryTypeOK, NEW e \in Epochs, NEW m \in Published, log' = [log EXCEPT ![e] = Append(@, m)]
  PROVE  /\ log' \in [Epochs -> Seq(Published)] /\ log'[e] = Append(log[e], m)
         /\ \A d \in Epochs : d # e => log'[d] = log[d]
         /\ Range(log'[e]) = Range(log[e]) \cup {m}
  <1>1. PICK t : t = Append(log[e], m)
    BY ZenonT(40)
  <1>2. log[e] \in Seq(Published)
    BY ConnTypes, ZenonT(40)
  <1>3. Append(log[e], m) \in Seq(Published) /\ Range(Append(log[e], m)) = Range(log[e]) \cup {m}
    BY <1>2, Adding, ZenonT(40)
  <1>4. log' = [log EXCEPT ![e] = t]
    BY <1>1, ZenonT(40)
  <1>5. log' \in [Epochs -> Seq(Published)] /\ log'[e] = t /\ \A d \in Epochs : d # e => log'[d] = log[d]
    BY <1>1, <1>3, <1>4, ZenonT(40) DEF DeliveryTypeOK
  <1>6. QED
    BY <1>1, <1>3, <1>5, ZenonT(40)

\* A replayed message leaves its only place, and comes after what was sent.
LEMMA ReplayKeeps ==
  ASSUME DeliveryInv, NEW e \in Epochs, Replay(e)
  PROVE  DeliveryInv'
  <1>1. PICK m, t : m = Head(conn[e].pending) /\ t = Tail(conn[e].pending)
    BY ZenonT(40)
  <1>2. /\ conn[e].pending # <<>> /\ conn[e].at # "none" /\ disk' = disk /\ durable' = durable
        /\ UNCHANGED <<entry, epoch, queue, chan, router, by, stranded, skipped, restarts>>
    BY SMTT(40) DEF Replay, sessionVars, routerVars, diskVars
  <1>3. /\ m \in Published /\ t \in Seq(Published) /\ m \in Range(conn[e].pending)
        /\ Range(conn[e].pending) = Range(t) \cup {m} /\ Range(t) \in SUBSET Range(conn[e].pending)
        /\ Rising(by, t) /\ Before(by, {m}, Range(t) \cup Range(chan[e]))
        /\ Before(by, Range(log[e]), {m})
    <2>1. FirstOfReplay(e, Head(conn[e].pending), Tail(conn[e].pending))
      BY <1>2, ReplayTakes, ZenonT(40)
    <2>2. QED
      BY <1>1, <2>1, ZenonT(40) DEF FirstOfReplay
  <1>4. DeliveryTypeOK /\ Tidy /\ Rising(by, chan[e])
    BY OrderOn, ZenonT(40)
  <1>5. disk' \in Seq(Published) /\ durable' \in Seq(Published) /\ DiskFades
    BY <1>2, DiskStill, ZenonT(40)
  <1>6. CASE /\ log' = [log EXCEPT ![e] = Append(@, m)] /\ lost' = lost
             /\ ConnBecomes(e, "replay", t, Track(e, m))
    <2>1. /\ log' \in [Epochs -> Seq(Published)] /\ log'[e] = Append(log[e], m)
          /\ \A d \in Epochs : d # e => log'[d] = log[d]
          /\ Range(log'[e]) = Range(log[e]) \cup {m}
      BY <1>3, <1>4, <1>6, LogExtended, ZenonT(40)
    <2>2. /\ conn' \in [Epochs -> Conns(Published)] /\ \A d \in Epochs : d # e => conn'[d] = conn[d]
          /\ conn'[e].at = "replay" /\ conn'[e].pending = t /\ conn'[e].inflight = Track(e, m)
      BY <1>6, ZenonT(40) DEF ConnBecomes
    <2>3. ConnOnly(e)
      BY <1>2, <1>4, <1>5, <2>1, <2>2, ZenonT(40) DEF ConnOnly, DeliveryTypeOK
    <2>4. conn'[e].inflight \in SUBSET (conn[e].inflight \cup {m}) /\ conn[e].inflight \in SUBSET conn'[e].inflight
      BY <1>3, <1>4, <2>2, Tracked, ZenonT(40)
    <2>5. NoneForgotten(e)
      BY <1>2, <1>3, <1>6, <2>1, <2>2, <2>4, ZenonT(40) DEF NoneForgotten, Taken, Carried, Loose
    <2>6. SendingStep(e, m)
      <3>1. m \in Carried(e)
        BY <1>3, ZenonT(40) DEF Carried
      <3>2. QED
        BY <1>2, <1>3, <1>4, <2>1, <2>2, <2>4, <3>1, ZenonT(40) DEF SendingStep
    <2>7. QED
      BY <1>3, <2>3, <2>5, <2>6, SendStep, ZenonT(40)
  <1>7. CASE /\ log' = log /\ lost' = lost \cup {m}
             /\ ConnBecomes(e, "replay", t, conn[e].inflight)
    <2>1. /\ conn' \in [Epochs -> Conns(Published)] /\ \A d \in Epochs : d # e => conn'[d] = conn[d]
          /\ conn'[e].at = "replay" /\ conn'[e].pending = t /\ conn'[e].inflight = conn[e].inflight
      BY <1>7, ZenonT(40) DEF ConnBecomes
    <2>2. ConnOnly(e)
      BY <1>2, <1>4, <1>5, <1>7, <2>1, ZenonT(40) DEF ConnOnly, DeliveryTypeOK
    <2>3. NoneForgotten(e)
      BY <1>2, <1>3, <1>7, <2>1, ZenonT(40) DEF NoneForgotten, Taken, Carried, Loose
    <2>4. ConnFades(e)
      BY <1>2, <1>3, <1>4, <1>7, <2>1, Quieter, ZenonT(40)
    <2>5. QED
      BY <1>2, <1>5, <1>7, <2>2, <2>3, <2>4, FadeStep, ZenonT(40)
  <1>8. QED
    BY <1>1, <1>4, <1>6, <1>7, ReplayEffect, ZenonT(40)

\* A cancelled message can be sent from the inflight table only, and is exempt
\* from the order.
LEMMA ReplayTickKeeps ==
  ASSUME DeliveryInv, NEW e \in Epochs, ReplayTick(e)
  PROVE  DeliveryInv'
  <1>1. PICK m, t : m = Head(conn[e].pending) /\ t = Tail(conn[e].pending)
    BY ZenonT(40)
  <1>2. /\ conn[e].pending # <<>> /\ conn[e].at # "none" /\ disk' = disk /\ durable' = durable
        /\ UNCHANGED <<entry, epoch, queue, chan, router, by, stranded, log, restarts>>
    BY SMTT(40) DEF ReplayTick, sessionVars, routerVars, diskVars
  <1>3. /\ m \in Published /\ t \in Seq(Published) /\ m \in Range(conn[e].pending)
        /\ Range(conn[e].pending) = Range(t) \cup {m} /\ Range(t) \in SUBSET Range(conn[e].pending)
        /\ Rising(by, t) /\ Before(by, {m}, Range(t) \cup Range(chan[e]))
    <2>1. FirstOfReplay(e, Head(conn[e].pending), Tail(conn[e].pending))
      BY <1>2, ReplayTakes, ZenonT(40)
    <2>2. QED
      BY <1>1, <2>1, ZenonT(40) DEF FirstOfReplay
  <1>4. /\ DeliveryTypeOK /\ Tidy /\ Rising(by, chan[e]) /\ Loose(e) \in SUBSET skipped
        /\ Before(by, Taken(e), Range(conn[e].pending) \cup Range(chan[e]))
    BY OrderOn, ZenonT(40)
  <1>5. disk' \in Seq(Published) /\ durable' \in Seq(Published) /\ DiskFades
    BY <1>2, DiskStill, ZenonT(40)
  <1>6. skipped' = skipped \cup {m} /\ lost' = lost \cup ({m} \cap QoS0)
    BY <1>1, ZenonT(40) DEF ReplayTick
  <1>7. /\ conn' \in [Epochs -> Conns(Published)] /\ \A d \in Epochs : d # e => conn'[d] = conn[d]
        /\ conn'[e].at = "replay" /\ conn'[e].pending = t /\ conn'[e].inflight = Track(e, m)
    <2>1. ConnBecomes(e, "replay", t, Track(e, m))
      BY <1>1, <1>4, ReplayTickEffect, ZenonT(40)
    <2>2. QED
      BY <2>1, ZenonT(40) DEF ConnBecomes
  <1>8. ConnOnly(e)
    BY <1>2, <1>4, <1>5, <1>7, ZenonT(40) DEF ConnOnly, DeliveryTypeOK
  <1>9. /\ conn'[e].inflight \in SUBSET (conn[e].inflight \cup {m}) /\ conn[e].inflight \in SUBSET conn'[e].inflight
        /\ m \in QoS0 \/ m \in conn'[e].inflight
    <2>1. /\ Track(e, m) \in SUBSET (conn[e].inflight \cup {m}) /\ conn[e].inflight \in SUBSET Track(e, m)
          /\ m \in QoS0 \/ m \in Track(e, m)
      BY ZenonT(40) DEF Track
    <2>2. QED
      BY <1>7, <2>1, ZenonT(40)
  <1>10. NoneForgotten(e)
    <2>1. lost \in SUBSET lost' /\ (m \in lost' \/ m \in conn'[e].inflight)
      BY <1>6, <1>9, ZenonT(40)
    <2>2. chan'[e] = chan[e] /\ log'[e] = log[e]
      BY <1>2, ZenonT(40)
    <2>3. QED
      BY <1>3, <1>7, <1>9, <2>1, <2>2, ZenonT(40) DEF NoneForgotten, Taken, Carried, Loose
  <1>11. ConnFades(e)
    <2>1. chan'[e] = chan[e] /\ log'[e] = log[e]
      BY <1>2, ZenonT(40)
    <2>2. Taken(e)' \in SUBSET (Taken(e) \cup {m}) /\ Loose(e)' \in SUBSET (Loose(e) \cup {m})
      BY <1>9, <2>1, ZenonT(40) DEF Taken, Loose
    <2>3. m \in Carried(e)
      BY <1>3, ZenonT(40) DEF Carried
    <2>4. Carried(e)' \in SUBSET Carried(e)
      BY <1>3, <1>7, <2>1, <2>2, <2>3, ZenonT(40) DEF Carried
    <2>5. Before(by, Taken(e)', Range(t) \cup Range(chan[e]))
      BY <1>3, <1>4, <2>2, ZenonT(40) DEF Before
    <2>6. Loose(e)' \in SUBSET skipped'
      BY <1>4, <1>6, <2>2, ZenonT(40)
    <2>7. QED
      BY <1>3, <1>4, <1>7, <2>1, <2>2, <2>3, <2>4, <2>5, <2>6, ZenonT(40) DEF ConnFades
  <1>12. QED
    BY <1>2, <1>5, <1>6, <1>8, <1>10, <1>11, FadeStep, ZenonT(40)

\* The channel is read once the replay is over: its front comes next.
LEMMA DeliverKeeps ==
  ASSUME DeliveryInv, NEW e \in Epochs, Deliver(e)
  PROVE  DeliveryInv'
  <1>1. PICK m, s, t : s = chan[e] /\ m = Head(s) /\ t = Tail(s)
    BY ZenonT(40)
  <1>2. /\ s # <<>> /\ conn[e].at # "none" /\ disk' = disk /\ durable' = durable
        /\ UNCHANGED <<entry, epoch, queue, router, by, stranded, skipped, restarts>>
    <2>1. /\ conn[e].at # "none" /\ disk' = disk /\ durable' = durable
          /\ UNCHANGED <<entry, epoch, queue, router, by, stranded, skipped, restarts>>
      BY SMTT(40) DEF Deliver, sessionVars, routerVars, diskVars
    <2>2. QED
      BY <1>1, <2>1, ZenonT(40) DEF Deliver
  <1>p. conn[e].pending = <<>>
    <2>1. conn[e].at \notin {"connack", "replay"}
      BY SMTT(40) DEF Deliver
    <2>2. QED
      BY <2>1, OrderOn, ZenonT(40)
  <1>3. /\ DeliveryTypeOK /\ Tidy /\ Rising(by, s) /\ Rising(by, conn[e].pending)
        /\ Before(by, Range(conn[e].pending), Range(s))
        /\ Before(by, Taken(e), Range(conn[e].pending) \cup Range(s))
    BY <1>1, OrderOn, ZenonT(40)
  <1>4. s \in Seq(Published)
    BY <1>1, <1>3, ConnTypes, ZenonT(40)
  <1>5. /\ m \in Range(s) /\ m \in Published /\ t \in Seq(Published)
        /\ Range(s) = Range(t) \cup {m} /\ Rising(by, t) /\ Before(by, {m}, Range(t))
    <2>1. /\ Head(s) \in Range(s) /\ Head(s) \in Published /\ Tail(s) \in Seq(Published)
          /\ Range(s) = Range(Tail(s)) \cup {Head(s)}
          /\ Rising(by, s) => Rising(by, Tail(s)) /\ Before(by, {Head(s)}, Range(Tail(s)))
      BY <1>2, <1>4, Taking, ZenonT(40)
    <2>2. QED
      BY <1>1, <1>3, <2>1, ZenonT(40)
  <1>6. disk' \in Seq(Published) /\ durable' \in Seq(Published) /\ DiskFades
    BY <1>2, DiskStill, ZenonT(40)
  <1>7. /\ chan' \in [Epochs -> Seq(Published)] /\ chan'[e] = t
        /\ \A d \in Epochs : d # e => chan'[d] = chan[d]
        /\ \/ /\ log' = [log EXCEPT ![e] = Append(@, m)] /\ lost' = lost
              /\ ConnBecomes(e, "main", conn[e].pending, Track(e, m))
           \/ /\ log' = log /\ lost' = lost \cup {m}
              /\ ConnBecomes(e, "main", conn[e].pending, conn[e].inflight)
    <2>1. m = Head(chan[e]) /\ t = Tail(chan[e])
      BY <1>1, ZenonT(40)
    <2>2. QED
      BY <1>3, <2>1, DeliverEffect, ZenonT(40)
  <1>8. CASE /\ log' = [log EXCEPT ![e] = Append(@, m)] /\ lost' = lost
             /\ ConnBecomes(e, "main", conn[e].pending, Track(e, m))
    <2>1. /\ log' \in [Epochs -> Seq(Published)] /\ log'[e] = Append(log[e], m)
          /\ \A d \in Epochs : d # e => log'[d] = log[d]
          /\ Range(log'[e]) = Range(log[e]) \cup {m}
      BY <1>3, <1>5, <1>8, LogExtended, ZenonT(40)
    <2>2. /\ conn' \in [Epochs -> Conns(Published)] /\ \A d \in Epochs : d # e => conn'[d] = conn[d]
          /\ conn'[e].pending = conn[e].pending /\ conn'[e].inflight = Track(e, m)
      BY <1>8, ZenonT(40) DEF ConnBecomes
    <2>3. ConnOnly(e)
      BY <1>2, <1>p, <1>3, <1>6, <1>7, <2>1, <2>2, ZenonT(40) DEF ConnOnly, DeliveryTypeOK
    <2>4. conn'[e].inflight \in SUBSET (conn[e].inflight \cup {m}) /\ conn[e].inflight \in SUBSET conn'[e].inflight
      BY <2>2, ZenonT(40) DEF Track
    <2>5. lost' = lost
      BY <1>8, ZenonT(40)
    <2>6. NoneForgotten(e)
      BY <1>1, <1>5, <1>7, <2>1, <2>2, <2>4, <2>5, ZenonT(40) DEF NoneForgotten, Taken, Carried, Loose
    <2>7. SendingStep(e, m)
      <3>1. m \in Carried(e)
        BY <1>1, <1>5, ZenonT(40) DEF Carried
      <3>2. Before(by, Range(log[e]), {m})
        BY <1>3, <1>5, ZenonT(40) DEF Before, Taken
      <3>3. Before(by, {m}, Range(conn[e].pending) \cup Range(t))
        BY <1>5, <1>p, NoMembers, ZenonT(40) DEF Before
      <3>4. QED
        BY <1>1, <1>2, <1>3, <1>5, <1>7, <2>1, <2>2, <2>4, <3>1, <3>2, <3>3, ZenonT(40) DEF SendingStep
    <2>8. QED
      BY <1>5, <2>3, <2>6, <2>7, SendStep, ZenonT(40)
  <1>9. CASE /\ log' = log /\ lost' = lost \cup {m}
             /\ ConnBecomes(e, "main", conn[e].pending, conn[e].inflight)
    <2>1. /\ conn' \in [Epochs -> Conns(Published)] /\ \A d \in Epochs : d # e => conn'[d] = conn[d]
          /\ conn'[e].pending = conn[e].pending /\ conn'[e].inflight = conn[e].inflight
      BY <1>9, ZenonT(40) DEF ConnBecomes
    <2>2. ConnOnly(e)
      BY <1>2, <1>p, <1>3, <1>6, <1>7, <1>9, <2>1, ZenonT(40) DEF ConnOnly, DeliveryTypeOK
    <2>3. lost' = lost \cup {m} /\ log'[e] = log[e]
      BY <1>9, ZenonT(40)
    <2>4. NoneForgotten(e)
      BY <1>1, <1>5, <1>7, <2>1, <2>3, ZenonT(40) DEF NoneForgotten, Taken, Carried, Loose
    <2>5. /\ Range(chan'[e]) \in SUBSET Range(chan[e]) /\ Rising(by, chan'[e])
          /\ Range(conn'[e].pending) \in SUBSET Range(conn[e].pending) /\ Rising(by, conn'[e].pending)
          /\ conn'[e].inflight \in SUBSET conn[e].inflight /\ skipped \in SUBSET skipped'
      BY <1>1, <1>2, <1>3, <1>5, <1>7, <2>1, ZenonT(40)
    <2>6. ConnFades(e)
      BY <1>3, <2>3, <2>5, Quieter, ZenonT(40)
    <2>7. QED
      BY <1>2, <1>6, <1>9, <2>2, <2>4, <2>6, FadeStep, ZenonT(40)
  <1>10. QED
    BY <1>7, <1>8, <1>9, ZenonT(40)

\* A step of one connection by which only replay, channel and table shrink.
LEMMA ShrinkStep ==
  ASSUME DeliveryInv, NEW e \in Epochs, ConnOnly(e), NoneForgotten(e),
         UNCHANGED <<log, skipped, disk, durable>>,
         Range(chan'[e]) \in SUBSET Range(chan[e]), Rising(by, chan'[e]),
         Range(conn'[e].pending) \in SUBSET Range(conn[e].pending), Rising(by, conn'[e].pending),
         conn'[e].inflight \in SUBSET conn[e].inflight
  PROVE  DeliveryInv'
  <1>1. Tidy
    BY ZenonT(40) DEF DeliveryInv
  <1>2. log' = log /\ log'[e] = log[e] /\ skipped \in SUBSET skipped' /\ disk' = disk /\ durable' = durable
    BY ZenonT(40)
  <1>3. ConnFades(e)
    BY <1>1, <1>2, Quieter, ZenonT(40)
  <1>4. DiskFades
    BY <1>2, DiskStill, ZenonT(40)
  <1>5. QED
    BY <1>2, <1>3, <1>4, FadeStep, ZenonT(40)

\* What is acknowledged was sent.
LEMMA AcknowledgeKeeps ==
  ASSUME DeliveryInv, NEW e \in Epochs, NEW m, Acknowledge(e, m)
  PROVE  DeliveryInv'
  <1>1. /\ conn[e].at = "main" /\ m \in Range(log[e])
        /\ UNCHANGED <<entry, epoch, queue, chan, router, by, stranded, log, lost, skipped, restarts, disk, durable>>
    BY ZenonT(40) DEF Acknowledge, sessionVars, routerVars, diskVars
  <1>2. /\ DeliveryTypeOK /\ Rising(by, conn[e].pending) /\ Rising(by, chan[e])
        /\ conn[e].at \notin {"connack", "replay"} => conn[e].pending = <<>>
    BY OrderOn, ZenonT(40)
  <1>3. conn[e].at # "none" /\ conn[e].pending = <<>>
    BY <1>1, <1>2, SMTT(40)
  <1>4. /\ conn' \in [Epochs -> Conns(Published)] /\ \A d \in Epochs : d # e => conn'[d] = conn[d]
        /\ conn'[e].pending = conn[e].pending /\ conn'[e].inflight = conn[e].inflight \ {m}
    <2>1. ConnBecomes(e, "main", conn[e].pending, conn[e].inflight \ {m})
      BY <1>2, AcknowledgeEffect, ZenonT(40)
    <2>2. QED
      BY <2>1, ZenonT(40) DEF ConnBecomes
  <1>5. ConnOnly(e)
    BY <1>1, <1>2, <1>3, <1>4, ZenonT(40) DEF ConnOnly, DeliveryTypeOK
  <1>6. chan'[e] = chan[e] /\ log'[e] = log[e] /\ lost' = lost
    BY <1>1, ZenonT(40)
  <1>7. NoneForgotten(e)
    BY <1>1, <1>4, <1>6, ZenonT(40) DEF NoneForgotten, Taken, Carried, Loose
  <1>8. QED
    BY <1>1, <1>2, <1>4, <1>5, <1>6, <1>7, ShrinkStep, ZenonT(40)

\* A failing connection names what it gives up; what it sent stays sent.
LEMMA FailKeeps ==
  ASSUME DeliveryInv, NEW e \in Epochs, Fail(e)
  PROVE  DeliveryInv'
  <1>1. /\ UNCHANGED <<epoch, queue, chan, router, by, stranded, log, skipped, restarts, disk, durable>>
        /\ lost' = lost \cup Range(conn[e].pending) \cup (conn[e].inflight \ Range(log[e]))
    BY ZenonT(40) DEF Fail, routerVars, diskVars
  <1>2. DeliveryTypeOK /\ Rising(by, chan[e])
    BY OrderOn, ZenonT(40)
  <1>3. conn[e].at # "none"
    BY SMTT(40) DEF Fail
  <1>4. /\ conn' \in [Epochs -> Conns(Published)] /\ \A d \in Epochs : d # e => conn'[d] = conn[d]
        /\ conn'[e].pending = <<>> /\ conn'[e].inflight = {}
        /\ entry' \in [epoch : {epoch}, connected : BOOLEAN]
    <2>1. ConnBecomes(e, "closing", <<>>, {}) /\ entry' \in [epoch : {epoch}, connected : BOOLEAN]
      BY <1>2, FailEffect, ZenonT(40)
    <2>2. QED
      BY <2>1, ZenonT(40) DEF ConnBecomes
  <1>5. ConnOnly(e)
    BY <1>1, <1>2, <1>3, <1>4, ZenonT(40) DEF ConnOnly, DeliveryTypeOK
  <1>6. chan'[e] = chan[e] /\ log'[e] = log[e]
    BY <1>1, ZenonT(40)
  <1>7. NoneForgotten(e)
    BY <1>1, <1>4, <1>6, ZenonT(40) DEF NoneForgotten, Taken, Carried, Loose
  <1>8. Range(conn'[e].pending) \in SUBSET Range(conn[e].pending) /\ Rising(by, conn'[e].pending)
    BY <1>4, NoMembers, ZenonT(40)
  <1>9. QED
    BY <1>1, <1>2, <1>4, <1>5, <1>6, <1>7, <1>8, ShrinkStep, ZenonT(40)

\* So does the receiver that is dropped.
LEMMA DropReceiverKeeps ==
  ASSUME DeliveryInv, NEW e \in Epochs, DropReceiver(e)
  PROVE  DeliveryInv'
  <1>1. /\ conn[e].at = "closing" /\ lost' = lost \cup Range(chan[e])
        /\ UNCHANGED <<entry, epoch, queue, router, by, stranded, log, skipped, restarts, disk, durable>>
    BY ZenonT(40) DEF DropReceiver, sessionVars, routerVars, diskVars
  <1>2. /\ DeliveryTypeOK /\ Rising(by, conn[e].pending)
        /\ conn[e].at \notin {"connack", "replay"} => conn[e].pending = <<>>
    BY OrderOn, ZenonT(40)
  <1>3. conn[e].at # "none" /\ conn[e].pending = <<>>
    BY <1>1, <1>2, SMTT(40)
  <1>4. /\ conn' \in [Epochs -> Conns(Published)] /\ \A d \in Epochs : d # e => conn'[d] = conn[d]
        /\ conn'[e].pending = conn[e].pending /\ conn'[e].inflight = conn[e].inflight
        /\ chan' \in [Epochs -> Seq(Published)]
        /\ chan'[e] = <<>> /\ \A d \in Epochs : d # e => chan'[d] = chan[d]
    <2>1. /\ ConnBecomes(e, "done", conn[e].pending, conn[e].inflight)
          /\ chan' \in [Epochs -> Seq(Published)]
          /\ chan'[e] = <<>> /\ \A d \in Epochs : d # e => chan'[d] = chan[d]
      BY <1>2, DropReceiverEffect, ZenonT(40)
    <2>2. QED
      BY <2>1, ZenonT(40) DEF ConnBecomes
  <1>5. ConnOnly(e)
    BY <1>1, <1>2, <1>3, <1>4, ZenonT(40) DEF ConnOnly, DeliveryTypeOK
  <1>6. log'[e] = log[e]
    BY <1>1, ZenonT(40)
  <1>7. NoneForgotten(e)
    BY <1>1, <1>4, <1>6, ZenonT(40) DEF NoneForgotten, Taken, Carried, Loose
  <1>8. Range(chan'[e]) \in SUBSET Range(chan[e]) /\ Rising(by, chan'[e])
    BY <1>4, NoMembers, ZenonT(40)
  <1>9. QED
    BY <1>1, <1>2, <1>4, <1>5, <1>7, <1>8, ShrinkStep, ZenonT(40)

\* So does the connection whose channel ended.
LEMMA ChannelEndsKeeps ==
  ASSUME DeliveryInv, NEW e \in Epochs, ChannelEnds(e)
  PROVE  DeliveryInv'
  <1>1. /\ conn[e].at = "main" /\ lost' = lost \cup (conn[e].inflight \ Range(log[e]))
        /\ UNCHANGED <<entry, epoch, queue, chan, router, by, stranded, log, skipped, restarts, disk, durable>>
    BY ZenonT(40) DEF ChannelEnds, sessionVars, routerVars, diskVars
  <1>2. /\ DeliveryTypeOK /\ Rising(by, conn[e].pending) /\ Rising(by, chan[e])
        /\ conn[e].at \notin {"connack", "replay"} => conn[e].pending = <<>>
    BY OrderOn, ZenonT(40)
  <1>3. conn[e].at # "none" /\ conn[e].pending = <<>>
    BY <1>1, <1>2, SMTT(40)
  <1>4. /\ conn' \in [Epochs -> Conns(Published)] /\ \A d \in Epochs : d # e => conn'[d] = conn[d]
        /\ conn'[e].pending = conn[e].pending /\ conn'[e].inflight = {}
    <2>1. ConnBecomes(e, "done", conn[e].pending, {})
      BY <1>2, ChannelEndsEffect, ZenonT(40)
    <2>2. QED
      BY <2>1, ZenonT(40) DEF ConnBecomes
  <1>5. ConnOnly(e)
    BY <1>1, <1>2, <1>3, <1>4, ZenonT(40) DEF ConnOnly, DeliveryTypeOK
  <1>6. chan'[e] = chan[e] /\ log'[e] = log[e]
    BY <1>1, ZenonT(40)
  <1>7. NoneForgotten(e)
    BY <1>1, <1>4, <1>6, ZenonT(40) DEF NoneForgotten, Taken, Carried, Loose
  <1>8. QED
    BY <1>1, <1>2, <1>4, <1>5, <1>6, <1>7, ShrinkStep, ZenonT(40)

\* A retransmission of what the timer had cancelled is its first transmission.
LEMMA RetransmitKeeps ==
  ASSUME DeliveryInv, NEW e \in Epochs, NEW m, Retransmit(e, m)
  PROVE  DeliveryInv'
  <1>1. /\ conn[e].at = "main" /\ m \in Loose(e) /\ log' = [log EXCEPT ![e] = Append(@, m)]
        /\ UNCHANGED <<entry, epoch, queue, chan, conn, router, by, stranded, lost, skipped, restarts, disk, durable>>
    BY ZenonT(40) DEF Retransmit, Loose, sessionVars, routerVars, diskVars
  <1>2. /\ DeliveryTypeOK /\ Rising(by, conn[e].pending) /\ Rising(by, chan[e])
        /\ Before(by, Taken(e), Range(conn[e].pending) \cup Range(chan[e]))
        /\ conn[e].at \notin {"connack", "replay"} => conn[e].pending = <<>>
        /\ Loose(e) \in SUBSET skipped
    BY OrderOn, ZenonT(40)
  <1>3. conn[e].at # "none" /\ conn[e].pending = <<>>
    BY <1>1, <1>2, SMTT(40)
  <1>4. m \in Published /\ m \in skipped /\ m \in Carried(e) /\ m \in Taken(e)
    <2>1. conn[e].inflight \in SUBSET Published
      BY <1>2, ConnTypes, ZenonT(40)
    <2>2. QED
      BY <1>1, <1>2, <2>1, ZenonT(40) DEF Loose, Carried, Taken
  <1>5. /\ log' \in [Epochs -> Seq(Published)] /\ log'[e] = Append(log[e], m)
        /\ \A d \in Epochs : d # e => log'[d] = log[d]
        /\ Range(log'[e]) = Range(log[e]) \cup {m}
    BY <1>1, <1>2, <1>4, LogExtended, ZenonT(40)
  <1>6. ConnOnly(e)
    BY <1>1, <1>2, <1>3, <1>5, ZenonT(40) DEF ConnOnly, DeliveryTypeOK
  <1>7. chan'[e] = chan[e] /\ conn'[e] = conn[e] /\ lost' = lost
    BY <1>1, ZenonT(40)
  <1>8. NoneForgotten(e)
    BY <1>5, <1>7, ZenonT(40) DEF NoneForgotten, Taken, Carried, Loose
  <1>9. Before(by, {m}, Range(conn[e].pending) \cup Range(chan[e]))
    BY <1>2, <1>4, ZenonT(40) DEF Before
  <1>10. SendingStep(e, m)
    <2>1. conn'[e].pending = conn[e].pending /\ conn'[e].inflight = conn[e].inflight
      BY <1>7, ZenonT(40)
    <2>2. QED
      BY <1>1, <1>2, <1>4, <1>5, <1>7, <1>9, <2>1, ZenonT(40) DEF SendingStep
  <1>11. QED
    BY <1>4, <1>6, <1>8, <1>10, SendStep, ZenonT(40)

----------------------------------------------------------------------------
(***************************************************************************)
(* The storage engine and the router.                                      *)
(***************************************************************************)

\* Nothing changes on any connection.
ConnsStill == UNCHANGED <<entry, epoch, chan, conn, log, skipped, restarts>>

\* When no connection changes, the types of the rest, and where each message is
\* found, decide.
LEMMA RouterTypes ==
  ASSUME DeliveryInv, ConnsStill, UNCHANGED <<by>>,
         queue' \in [Epochs -> Seq(Published)],
         \A e \in Epochs : e > epoch => queue'[e] = queue[e],
         router' \in [Routers -> Deliveries(Published, epoch) \cup {Idle}],
         disk' \in Seq(Published), durable' \in Seq(Published)
  PROVE  DeliveryTypeOK' /\ Untouched' /\ ReplayedFirst'
  <1>1. /\ entry' = entry /\ epoch' = epoch /\ chan' = chan /\ conn' = conn /\ log' = log
        /\ restarts' = restarts /\ by' = by
    BY ZenonT(40) DEF ConnsStill
  <1>2. Published' = Published
    BY <1>1, ZenonT(40) DEF Published
  <1>3. DeliveryTypeOK /\ Untouched /\ ReplayedFirst
    BY ZenonT(40) DEF DeliveryInv
  <1>4. DeliveryTypeOK'
    BY <1>1, <1>2, <1>3, ZenonT(40) DEF DeliveryTypeOK
  <1>5. Untouched'
    BY <1>1, <1>3, ZenonT(40) DEF Untouched
  <1>6. ReplayedFirst'
    BY <1>1, <1>3, ZenonT(40) DEF ReplayedFirst
  <1>7. QED
    BY <1>4, <1>5, <1>6, ZenonT(40)

\* Connections that do not change know what they knew.
LEMMA ConnsKnow ==
  ASSUME ConnsStill
  PROVE  \A e \in Epochs : Taken(e)' = Taken(e) /\ Carried(e)' = Carried(e) /\ Loose(e)' = Loose(e)
  BY ZenonT(40) DEF ConnsStill, Taken, Carried, Loose

\* Order, uniqueness and counts when messages leave routers, queue and disk.
LEMMA RouterFade ==
  ASSUME Tidy, ConnsStill, by' = by, QueueFades, DiskFades, \A r \in Routers : RouterFades(r)
  PROVE  Tidy'
  <1>1. \A e \in Epochs : ConnFades(e)
    <2>1. ASSUME NEW e \in Epochs
          PROVE  ConnFades(e)
      <3>1. log'[e] = log[e] /\ skipped \in SUBSET skipped' /\ chan'[e] = chan[e] /\ conn'[e] = conn[e]
        BY ZenonT(40) DEF ConnsStill
      <3>2. QED
        BY <3>1, StillConn, ZenonT(40)
    <2>2. QED
      BY <2>1, ZenonT(40)
  <1>2. log' = log /\ epoch' = epoch /\ restarts' = restarts /\ skipped \in SUBSET skipped'
    BY ZenonT(40) DEF ConnsStill
  <1>3. QED
    BY <1>1, <1>2, Losing, ZenonT(40)

\* The entries that remain on the disk are in order, and no router holds one.
LEMMA RemoveKeyKeeps ==
  ASSUME DeliveryInv, NEW e \in Epochs, RemoveKey(e)
  PROVE  DeliveryInv'
  <1>1. DeliveryTypeOK /\ Tidy /\ AllFound
    BY ZenonT(40) DEF DeliveryInv
  <1>2. ConnsStill /\ UNCHANGED <<by, router, queue, lost, stranded, durable>>
    BY ZenonT(40) DEF RemoveKey, ConnsStill, sessionVars, routerVars
  <1>3. /\ disk' \in Seq(Published) /\ Range(disk') \in SUBSET Range(disk)
        /\ Rising(by, disk) => Rising(by, disk')
    BY <1>1, RemoveKeyEffect, ZenonT(40)
  <1>4. DeliveryTypeOK' /\ Untouched' /\ ReplayedFirst'
    BY <1>1, <1>2, <1>3, RouterTypes, ZenonT(40) DEF DeliveryTypeOK
  <1>5. AllFound'
    <2>1. Published' = Published
      BY <1>2, ZenonT(40) DEF Published
    <2>2. QED
      BY <1>1, <1>2, <2>1, ConnsKnow, ZenonT(40) DEF AllFound, Found, ConnsStill
  <1>6. Tidy'
    <2>1. DiskFades
      BY <1>1, <1>2, <1>3, ZenonT(40) DEF DiskFades, Tidy, StoredInOrder
    <2>2. QueueFades /\ \A r \in Routers : RouterFades(r)
      BY <1>1, <1>2, Still, ZenonT(40)
    <2>3. QED
      BY <1>1, <1>2, <2>1, <2>2, RouterFade, ZenonT(40)
  <1>7. QED
    BY <1>4, <1>5, <1>6, ZenonT(40) DEF DeliveryInv

\* What the engine writes out is in the order of the disk.
LEMMA FlushKeeps ==
  ASSUME DeliveryInv, Flush
  PROVE  DeliveryInv'
  <1>1. DeliveryTypeOK /\ Tidy /\ AllFound
    BY ZenonT(40) DEF DeliveryInv
  <1>2. ConnsStill /\ UNCHANGED <<by, router, queue, lost, stranded>> /\ disk' = disk /\ durable' = disk
    BY ZenonT(40) DEF Flush, ConnsStill, sessionVars, routerVars
  <1>3. DeliveryTypeOK' /\ Untouched' /\ ReplayedFirst'
    BY <1>1, <1>2, RouterTypes, ZenonT(40) DEF DeliveryTypeOK
  <1>4. AllFound'
    <2>1. Published' = Published
      BY <1>2, ZenonT(40) DEF Published
    <2>2. QED
      BY <1>1, <1>2, <2>1, ConnsKnow, ZenonT(40) DEF AllFound, Found, ConnsStill
  <1>5. Tidy'
    <2>1. DiskFades
      BY <1>1, <1>2, ZenonT(40) DEF DiskFades, Tidy, StoredInOrder
    <2>2. QueueFades /\ \A r \in Routers : RouterFades(r)
      BY <1>1, <1>2, Still, ZenonT(40)
    <2>3. QED
      BY <1>1, <1>2, <2>1, <2>2, RouterFade, ZenonT(40)
  <1>6. QED
    BY <1>3, <1>4, <1>5, ZenonT(40) DEF DeliveryInv

\* What the type invariant says of a router at work.
LEMMA RouterAtWork ==
  ASSUME DeliveryTypeOK, NEW r \in Routers, router[r].at # "idle"
  PROVE  /\ router[r] \in Deliveries(Published, epoch) /\ router[r] # Idle
         /\ router[r].msg \in Published /\ router[r].epoch \in 1 .. epoch
         /\ router[r].epoch \in Epochs /\ ~(router[r].epoch > epoch)
  <1>1. Idle.at = "idle"
    BY ZenonT(40) DEF Idle
  <1>2. router[r] \in Deliveries(Published, epoch) /\ router[r] # Idle
    BY <1>1, ZenonT(40) DEF DeliveryTypeOK
  <1>3. router[r].msg \in Published /\ router[r].epoch \in 1 .. epoch
    BY <1>2, ZenonT(40) DEF Deliveries
  <1>4. PICK e : e = router[r].epoch
    BY ZenonT(40)
  <1>5. e \in 1 .. epoch /\ epoch \in Epochs /\ MaxEpochs \in Nat
    BY <1>3, <1>4, DeliveryAssumption, ZenonT(40) DEF DeliveryTypeOK
  <1>6. e \in Epochs /\ ~(e > epoch)
    BY <1>5, SMTT(40) DEF Epochs
  <1>7. QED
    BY <1>2, <1>3, <1>4, <1>6, ZenonT(40)

\* A refused message stays with its router.
LEMMA SendRefusedKeeps ==
  ASSUME DeliveryInv, NEW r \in Routers, SendRefused(r)
  PROVE  DeliveryInv'
  <1>1. DeliveryTypeOK /\ Tidy /\ AllFound
    BY ZenonT(40) DEF DeliveryInv
  <1>2. ConnsStill /\ UNCHANGED <<by, queue, lost, stranded, disk, durable>>
    BY ZenonT(40) DEF SendRefused, ConnsStill, sessionVars, diskVars
  <1>3. router[r].at = "send" /\ router' = [router EXCEPT ![r].at = "enqueue"]
    BY ZenonT(40) DEF SendRefused
  <1>4. router[r].at # "idle"
    BY <1>3, SMTT(40)
  <1>5. router[r] \in Deliveries(Published, epoch) /\ router[r] # Idle
    BY <1>1, <1>4, RouterAtWork, ZenonT(40)
  <1>6. /\ router' \in [Routers -> Deliveries(Published, epoch) \cup {Idle}]
        /\ \A s \in Routers : s # r => router'[s] = router[s]
        /\ router'[r].at = "enqueue" /\ router'[r].msg = router[r].msg
    <2>1. PICK x : x = [router[r] EXCEPT !.at = "enqueue"]
      BY ZenonT(40)
    <2>2. x \in Deliveries(Published, epoch) /\ x.at = "enqueue" /\ x.msg = router[r].msg
      BY <1>5, <2>1, ZenonT(40) DEF Deliveries
    <2>3. router' = [router EXCEPT ![r] = x]
      BY <1>1, <1>3, <2>1, ZenonT(40) DEF DeliveryTypeOK
    <2>4. QED
      BY <1>1, <2>2, <2>3, ZenonT(40) DEF DeliveryTypeOK
  <1>7. DeliveryTypeOK' /\ Untouched' /\ ReplayedFirst'
    BY <1>1, <1>2, <1>6, RouterTypes, ZenonT(40) DEF DeliveryTypeOK
  <1>8. AllFound'
    <2>1. Published' = Published
      BY <1>2, ZenonT(40) DEF Published
    <2>2. ASSUME NEW s \in Routers, router[s].at \in {"send", "enqueue"}
          PROVE  router'[s].at \in {"send", "enqueue"} /\ router'[s].msg = router[s].msg
      BY <1>6, <2>2, ZenonT(40)
    <2>3. QED
      BY <1>1, <1>2, <2>1, <2>2, ConnsKnow, ZenonT(40) DEF AllFound, Found, ConnsStill
  <1>9. Tidy'
    <2>1. DiskFades /\ QueueFades /\ \A s \in Routers : router'[s] = router[s] => RouterFades(s)
      BY <1>1, <1>2, Still, ZenonT(40)
    <2>2. RouterFades(r)
      BY <1>3, <1>5, <1>6, ZenonT(40) DEF RouterFades
    <2>3. \A s \in Routers : RouterFades(s)
      BY <1>6, <2>1, <2>2, ZenonT(40)
    <2>4. QED
      BY <1>1, <1>2, <2>1, <2>3, RouterFade, ZenonT(40)
  <1>10. QED
    BY <1>7, <1>8, <1>9, ZenonT(40) DEF DeliveryInv

\* Two routers never work on the same message.
LEMMA OthersDiffer ==
  ASSUME Tidy, NEW r \in Routers, NEW s \in Routers, r # s, router[r] # Idle, router[s] # Idle
  PROVE  router[s].msg # router[r].msg
  <1>1. by[router[r].msg] = r /\ by[router[s].msg] = s
    BY ZenonT(40) DEF Tidy, RouterHoldsNewest
  <1>2. QED
    BY <1>1, ZenonT(40)

\* The message of a router comes after all others, as far as they are its own.
LEMMA NewestLast ==
  ASSUME DeliveryTypeOK, Tidy, NEW r \in Routers, router[r] # Idle, NEW m, m = router[r].msg, m \in Published,
         NEW S \in SUBSET Published, m \notin S
  PROVE  Before(by, S, {m})
  <1>1. by[m] = r /\ \A n \in Published : by[n] = r => n <= m
    BY ZenonT(40) DEF Tidy, RouterHoldsNewest
  <1>2. \A n \in S : by[n] = by[m] => n <= m /\ n # m /\ n \in Published
    BY <1>1, ZenonT(40)
  <1>3. \A n \in S : by[n] = by[m] => n < m
    <2>1. ASSUME NEW n \in S, by[n] = by[m]
          PROVE  n < m
      <3>1. n <= m /\ n # m /\ n \in Published
        BY <1>2, <2>1, ZenonT(40)
      <3>2. QED
        BY <3>1, SMTT(40) DEF Published, DeliveryTypeOK
    <2>2. QED
      BY <2>1, ZenonT(40)
  <1>4. QED
    BY <1>3, ZenonT(40) DEF Before

\* A router that is done leaves the deliveries of the others as they are.
LEMMA RouterDone ==
  ASSUME DeliveryTypeOK, NEW r \in Routers, router' = [router EXCEPT ![r] = Idle]
  PROVE  /\ router' \in [Routers -> Deliveries(Published, epoch) \cup {Idle}]
         /\ router'[r] = Idle
         /\ \A s \in Routers : s # r => router'[s] = router[s]
         /\ \A s \in Routers : router'[s] # Idle => s # r
         /\ \A s \in Routers : router'[s].at \in {"send", "enqueue"} => router'[s] # Idle
  <1>1. \A x : x = Idle => x.at \notin {"send", "enqueue"}
    BY SMTT(40) DEF Idle
  <1>2. router' \in [Routers -> Deliveries(Published, epoch) \cup {Idle}]
    BY ZenonT(40) DEF DeliveryTypeOK
  <1>3. router'[r] = Idle /\ \A s \in Routers : s # r => router'[s] = router[s]
    BY ZenonT(40) DEF DeliveryTypeOK
  <1>4. QED
    BY <1>1, <1>2, <1>3, ZenonT(40)

\* The newest message of a router goes behind its earlier ones on the disk.
LEMMA PushOfflineKeeps ==
  ASSUME DeliveryInv, NEW r \in Routers, PushOffline(r)
  PROVE  DeliveryInv'
  <1>1. DeliveryTypeOK /\ Tidy /\ AllFound
    BY ZenonT(40) DEF DeliveryInv
  <1>2. ConnsStill /\ UNCHANGED <<by, queue, lost, stranded, durable>>
    BY ZenonT(40) DEF PushOffline, ConnsStill, sessionVars
  <1>3. /\ router[r].at = "push" /\ router' = [router EXCEPT ![r] = Idle]
        /\ disk' = Append(disk, router[r].msg) \/ disk' = disk
    BY ZenonT(40) DEF PushOffline
  <1>4. router[r].at # "idle" /\ router[r].at \notin {"send", "enqueue"}
    BY <1>3, SMTT(40)
  <1>5. PICK m : m = router[r].msg
    BY ZenonT(40)
  <1>6. m \in Published /\ router[r] # Idle
    BY <1>1, <1>4, <1>5, RouterAtWork, ZenonT(40)
  <1>7. /\ router' \in [Routers -> Deliveries(Published, epoch) \cup {Idle}]
        /\ router'[r] = Idle
        /\ \A s \in Routers : s # r => router'[s] = router[s]
        /\ \A s \in Routers : router'[s] # Idle => s # r
        /\ \A s \in Routers : router'[s].at \in {"send", "enqueue"} => router'[s] # Idle
    BY <1>1, <1>3, RouterDone, ZenonT(40)
  <1>8. /\ disk \in Seq(Published)
        /\ Append(disk, m) \in Seq(Published) /\ Range(Append(disk, m)) = Range(disk) \cup {m}
        /\ Rising(by, disk) /\ Before(by, Range(disk), {m}) => Rising(by, Append(disk, m))
    <2>1. disk \in Seq(Published)
      BY <1>1, ZenonT(40) DEF DeliveryTypeOK
    <2>2. QED
      BY <1>6, <2>1, Adding, ZenonT(40)
  <1>9. DeliveryTypeOK' /\ Untouched' /\ ReplayedFirst'
    <2>1. disk' \in Seq(Published)
      BY <1>3, <1>5, <1>8, ZenonT(40)
    <2>2. QED
      BY <1>1, <1>2, <1>7, <2>1, RouterTypes, ZenonT(40) DEF DeliveryTypeOK
  <1>10. AllFound'
    <2>1. Published' = Published
      BY <1>2, ZenonT(40) DEF Published
    <2>2. ASSUME NEW s \in Routers, router[s].at \in {"send", "enqueue"}
          PROVE  router'[s] = router[s]
      BY <1>4, <1>7, <2>2, ZenonT(40)
    <2>3. QED
      BY <1>1, <1>2, <2>1, <2>2, ConnsKnow, ZenonT(40) DEF AllFound, Found, ConnsStill
  <1>11. \A s \in Routers : RouterFades(s)
    BY <1>1, <1>7, Still, ZenonT(40) DEF RouterFades
  <1>12. CASE disk' = disk
    <2>1. DiskFades /\ QueueFades
      BY <1>1, <1>2, <1>12, Still, ZenonT(40)
    <2>2. Tidy'
      BY <1>1, <1>2, <1>11, <2>1, RouterFade, ZenonT(40)
    <2>3. QED
      BY <1>9, <1>10, <2>2, ZenonT(40) DEF DeliveryInv
  <1>13. CASE disk' = Append(disk, m)
    <2>1. RouterHoldsNewest /\ RouterHoldsAlone /\ StoredInOrder
      BY <1>1, ZenonT(40) DEF Tidy
    <2>2. Range(disk) \in SUBSET Published /\ m \notin Range(disk)
      <3>1. m \notin Range(disk)
        BY <1>5, <1>6, <2>1, ZenonT(40) DEF RouterHoldsNewest
      <3>2. QED
        BY <1>8, <3>1, Members1, ZenonT(40)
    <2>3. Rising(by, disk')
      <3>1. Before(by, Range(disk), {m})
        BY <1>1, <1>5, <1>6, <2>2, NewestLast, ZenonT(40)
      <3>2. QED
        BY <1>8, <1>13, <2>1, <3>1, ZenonT(40) DEF StoredInOrder
    <2>4. by' = by /\ Published' = Published /\ epoch' = epoch /\ queue' = queue /\ durable' = durable
      BY <1>2, ZenonT(40) DEF Published, ConnsStill
    <2>5. RouterHoldsNewest'
      <3>1. ASSUME NEW s \in Routers, router'[s] # Idle
            PROVE  router'[s] = router[s] /\ router[s] # Idle /\ router[s].msg # m
        <4>1. s # r /\ router'[s] = router[s] /\ router[s] # Idle
          BY <1>7, <3>1, ZenonT(40)
        <4>2. QED
          BY <1>1, <1>5, <1>6, <4>1, OthersDiffer, ZenonT(40)
      <3>2. QED
        BY <1>8, <1>13, <2>1, <2>4, <3>1, ZenonT(40) DEF RouterHoldsNewest
    <2>6. RouterHoldsAlone'
      BY <1>2, <1>7, <2>1, <2>4, ConnsKnow, ZenonT(40) DEF RouterHoldsAlone
    <2>7. StoredInOrder'
      BY <2>1, <2>3, <2>4, ZenonT(40) DEF StoredInOrder
    <2>8. /\ (\A e \in Epochs : CarriedInOrder(e)) /\ InOrder /\ OneWay /\ SendsCounted
          /\ log' = log /\ skipped' = skipped /\ conn' = conn /\ chan' = chan /\ restarts' = restarts
      BY <1>1, <1>2, ZenonT(40) DEF Tidy, ConnsStill
    <2>9. (\A e \in Epochs : CarriedInOrder(e)')
      BY <1>2, <2>4, <2>8, ConnsKnow, ZenonT(40) DEF CarriedInOrder
    <2>10. InOrder'
      BY <2>4, <2>8, ZenonT(40) DEF InOrder
    <2>11. OneWay'
      BY <1>2, <2>4, <2>8, ConnsKnow, ZenonT(40) DEF OneWay
    <2>12. SendsCounted'
      BY <1>2, <2>4, <2>8, ConnsKnow, ZenonT(40) DEF SendsCounted, Sends, Alive
    <2>13. Tidy'
      BY <2>5, <2>6, <2>7, <2>9, <2>10, <2>11, <2>12, ZenonT(40) DEF Tidy
    <2>14. QED
      BY <1>9, <1>10, <2>13, ZenonT(40) DEF DeliveryInv
  <1>14. QED
    BY <1>3, <1>5, <1>12, <1>13, ZenonT(40)

\* Router r hands its message m over to the queue or to a connection.
HandOver(r, m) ==
    /\ router[r].at \in {"send", "enqueue"} /\ router[r].msg = m
    /\ router'[r] = Idle \/ (router'[r].at = "push" /\ router'[r].msg = m)
    /\ \A s \in Routers : s # r => router'[s] = router[s]
    /\ by' = by /\ epoch' = epoch /\ log' = log /\ skipped' = skipped /\ restarts' = restarts
    /\ disk' = disk /\ durable' = durable
    /\ \A e \in Epochs : Taken(e)' = Taken(e) /\ Carried(e)' \in SUBSET (Carried(e) \cup {m})
    /\ Range(queue'[epoch]) \in SUBSET (Range(queue[epoch]) \cup {m})
    /\ \A d, e \in Epochs : m \in Carried(d)' /\ m \in Carried(e)' => d = e
    /\ \A e \in Epochs : m \in Carried(e)' => m \notin Range(queue'[epoch])
    /\ Rising(by, queue'[epoch])
    /\ \A e \in Epochs : CarriedInOrder(e)'

\* Order, uniqueness and counts after a router handed its message over.
LEMMA HandedOver ==
  ASSUME DeliveryTypeOK, Tidy, NEW r \in Routers, NEW m, HandOver(r, m)
  PROVE  Tidy'
  <1>1. /\ RouterHoldsNewest /\ RouterHoldsAlone /\ StoredInOrder
        /\ InOrder /\ OneWay /\ SendsCounted
    BY ZenonT(40) DEF Tidy
  <1>2. /\ router[r].at \in {"send", "enqueue"} /\ router[r].msg = m
        /\ \A s \in Routers : s # r => router'[s] = router[s]
        /\ by' = by /\ epoch' = epoch /\ log' = log /\ skipped' = skipped /\ restarts' = restarts
        /\ disk' = disk /\ durable' = durable
    BY ZenonT(40) DEF HandOver
  <1>3. router'[r] = Idle \/ (router'[r].at = "push" /\ router'[r].msg = m)
    BY ZenonT(40) DEF HandOver
  <1>4. /\ \A e \in Epochs : Taken(e)' = Taken(e) /\ Carried(e)' \in SUBSET (Carried(e) \cup {m})
        /\ Range(queue'[epoch]) \in SUBSET (Range(queue[epoch]) \cup {m})
    BY ZenonT(40) DEF HandOver
  <1>5. /\ \A d, e \in Epochs : m \in Carried(d)' /\ m \in Carried(e)' => d = e
        /\ \A e \in Epochs : m \in Carried(e)' => m \notin Range(queue'[epoch])
    BY ZenonT(40) DEF HandOver
  <1>6. router'[r].at \notin {"send", "enqueue"}
    <2>1. Idle.at \notin {"send", "enqueue"}
      BY SMTT(40) DEF Idle
    <2>2. ASSUME NEW x, x = "push"
          PROVE  x \notin {"send", "enqueue"}
      BY <2>2, SMTT(40)
    <2>3. QED
      BY <1>3, <2>1, <2>2, ZenonT(40)
  <1>7. router[r] # Idle
    <2>1. \A x : x = Idle => x.at \notin {"send", "enqueue"}
      BY SMTT(40) DEF Idle
    <2>2. QED
      BY <1>2, <2>1, ZenonT(40)
  <1>8. Published' = Published
    BY <1>2, ZenonT(40) DEF Published
  <1>9. m \notin Range(queue[epoch]) /\ \A e \in Epochs : m \notin Taken(e) \cup Carried(e)
    BY <1>1, <1>2, ZenonT(40) DEF RouterHoldsAlone
  <1>10. RouterHoldsNewest'
    <2>1. ASSUME NEW s \in Routers, router'[s] # Idle
          PROVE  router[s] # Idle /\ router'[s].msg = router[s].msg
      BY <1>2, <1>3, <1>7, <2>1, ZenonT(40)
    <2>2. QED
      BY <1>1, <1>2, <1>8, <2>1, ZenonT(40) DEF RouterHoldsNewest
  <1>11. RouterHoldsAlone'
    <2>1. ASSUME NEW s \in Routers, router'[s].at \in {"send", "enqueue"}
          PROVE  /\ router'[s] = router[s] /\ router[s].at \in {"send", "enqueue"}
                 /\ router[s].msg # m
      <3>1. s # r
        BY <1>6, <2>1, ZenonT(40)
      <3>2. router'[s] = router[s] /\ router[s].at \in {"send", "enqueue"}
        BY <1>2, <2>1, <3>1, ZenonT(40)
      <3>3. router[s] # Idle
        <4>1. \A x : x = Idle => x.at \notin {"send", "enqueue"}
          BY SMTT(40) DEF Idle
        <4>2. QED
          BY <3>2, <4>1, ZenonT(40)
      <3>4. QED
        BY <1>2, <1>7, <3>1, <3>2, <3>3, OthersDiffer, ZenonT(40)
    <2>2. ASSUME NEW s \in Routers, router'[s].at \in {"send", "enqueue"}
          PROVE  /\ router'[s].msg \notin Range(queue'[epoch])
                 /\ \A e \in Epochs : router'[s].msg \notin Taken(e)' \cup Carried(e)'
      <3>1. PICK n : n = router[s].msg
        BY ZenonT(40)
      <3>2. n # m /\ router'[s].msg = n
        BY <2>1, <2>2, <3>1, ZenonT(40)
      <3>3. n \notin Range(queue[epoch]) /\ \A e \in Epochs : n \notin Taken(e) \cup Carried(e)
        BY <1>1, <2>1, <2>2, <3>1, ZenonT(40) DEF RouterHoldsAlone
      <3>4. QED
        BY <1>4, <3>2, <3>3, ZenonT(40)
    <2>3. QED
      BY <1>2, <2>2, ZenonT(40) DEF RouterHoldsAlone
  <1>12. StoredInOrder'
    BY <1>1, <1>2, ZenonT(40) DEF StoredInOrder, HandOver
  <1>13. InOrder'
    BY <1>1, <1>2, ZenonT(40) DEF InOrder
  <1>14. OneWay'
    <2>1. ASSUME NEW d \in Epochs, NEW e \in Epochs, d # e, NEW n \in Carried(d)', n \in Carried(e)'
          PROVE  FALSE
      <3>1. CASE n = m
        BY <1>5, <2>1, <3>1, ZenonT(40)
      <3>2. CASE n # m
        <4>1. n \in Carried(d) /\ n \in Carried(e)
          BY <1>4, <2>1, <3>2, ZenonT(40)
        <4>2. QED
          BY <1>1, <2>1, <4>1, ZenonT(40) DEF OneWay
      <3>3. QED
        BY <3>1, <3>2, ZenonT(40)
    <2>2. ASSUME NEW e \in Epochs, NEW n \in Carried(e)', n \in Range(queue'[epoch])
          PROVE  FALSE
      <3>1. CASE n = m
        BY <1>5, <2>2, <3>1, ZenonT(40)
      <3>2. CASE n # m
        <4>1. n \in Carried(e) /\ n \in Range(queue[epoch])
          BY <1>4, <2>2, <3>2, ZenonT(40)
        <4>2. QED
          BY <1>1, <4>1, ZenonT(40) DEF OneWay
      <3>3. QED
        BY <3>1, <3>2, ZenonT(40)
    <2>3. QED
      BY <1>2, <2>1, <2>2, ZenonT(40) DEF OneWay
  <1>15. SendsCounted'
    <2>1. Cardinality(Sends(m)) = 0
      <3>1. \A x : x \notin SendsIn(log, m)
        <4>1. \A e \in Epochs : m \notin Range(log[e])
          BY <1>9, ZenonT(40) DEF Taken
        <4>2. \A e \in Epochs : \A i \in DOMAIN log[e] : log[e][i] # m
          BY <4>1, ZenonT(40) DEF Range
        <4>3. \A x : x \in SendsIn(log, m)
                 <=> \E e \in Epochs : \E i \in DOMAIN log[e] : log[e][i] = m /\ x = <<e, i>>
          BY SendsAre
        <4>4. QED
          BY <4>2, <4>3, ZenonT(40)
      <3>2. SendsIn(log, m) = {}
        BY <3>1, ZenonT(40)
      <3>3. Cardinality({}) = 0
        BY FS_EmptySet, ZenonT(40)
      <3>4. QED
        BY <3>2, <3>3, ZenonT(40) DEF Sends
    <2>2. 0 <= restarts
      BY SMTT(40) DEF DeliveryTypeOK
    <2>3. ASSUME NEW n \in Messages, Alive(n)'
          PROVE  Cardinality(Sends(n)) <= restarts
      <3>1. CASE n = m
        BY <2>1, <2>2, <3>1, ZenonT(40)
      <3>2. CASE n # m
        <4>1. Alive(n)
          BY <1>2, <1>4, <2>3, <3>2, ZenonT(40) DEF Alive
        <4>2. QED
          BY <1>1, <4>1, ZenonT(40) DEF SendsCounted
      <3>3. QED
        BY <3>1, <3>2, ZenonT(40)
    <2>4. \A n \in Messages : Sends(n)' = Sends(n)
      BY <1>2, ZenonT(40) DEF Sends
    <2>5. QED
      BY <1>1, <1>2, <2>3, <2>4, ZenonT(40) DEF SendsCounted
  <1>16. \A e \in Epochs : CarriedInOrder(e)'
    BY ZenonT(40) DEF HandOver
  <1>17. QED
    BY <1>10, <1>11, <1>12, <1>13, <1>14, <1>15, <1>16, ZenonT(40) DEF Tidy

\* A router hands its message to one channel, behind its earlier ones.
LEMMA TrySendKeeps ==
  ASSUME DeliveryInv, NEW r \in Routers, TrySend(r)
  PROVE  DeliveryInv'
  <1>1. DeliveryTypeOK /\ Tidy /\ AllFound /\ Untouched /\ ReplayedFirst
    BY ZenonT(40) DEF DeliveryInv
  <1>2. PICK e, m : e = router[r].epoch /\ m = router[r].msg
    BY ZenonT(40)
  <1>3. /\ router[r].at = "send" /\ chan' = [chan EXCEPT ![e] = Append(@, m)]
        /\ router' = [router EXCEPT ![r] = Idle]
        /\ entry' = entry /\ epoch' = epoch /\ queue' = queue /\ conn' = conn /\ by' = by
        /\ disk' = disk /\ durable' = durable /\ log' = log /\ lost' = lost /\ stranded' = stranded
        /\ skipped' = skipped /\ restarts' = restarts
    BY <1>2, ZenonT(40) DEF TrySend, sessionVars, diskVars
  <1>4. router[r].at # "idle" /\ router[r].at \in {"send", "enqueue"}
    BY <1>3, SMTT(40)
  <1>5. e \in Epochs /\ m \in Published /\ router[r] # Idle /\ ~(e > epoch)
    BY <1>1, <1>2, <1>4, RouterAtWork, ZenonT(40)
  <1>6. /\ router' \in [Routers -> Deliveries(Published, epoch) \cup {Idle}]
        /\ router'[r] = Idle
        /\ \A s \in Routers : s # r => router'[s] = router[s]
    BY <1>1, <1>3, RouterDone, ZenonT(40)
  <1>7. /\ chan[e] \in Seq(Published)
        /\ Append(chan[e], m) \in Seq(Published) /\ Range(Append(chan[e], m)) = Range(chan[e]) \cup {m}
        /\ Rising(by, chan[e]) /\ Before(by, Range(chan[e]), {m}) => Rising(by, Append(chan[e], m))
    <2>1. chan[e] \in Seq(Published)
      BY <1>1, <1>5, ZenonT(40) DEF DeliveryTypeOK
    <2>2. QED
      BY <1>5, <2>1, Adding, ZenonT(40)
  <1>8. /\ chan' \in [Epochs -> Seq(Published)]
        /\ chan'[e] = Append(chan[e], m)
        /\ \A d \in Epochs : d # e => chan'[d] = chan[d]
    BY <1>1, <1>3, <1>5, <1>7, ZenonT(40) DEF DeliveryTypeOK
  <1>9. Published' = Published
    BY <1>3, ZenonT(40) DEF Published
  <1>10. DeliveryTypeOK'
    BY <1>1, <1>3, <1>6, <1>8, <1>9, ZenonT(40) DEF DeliveryTypeOK
  <1>11. Untouched'
    BY <1>1, <1>3, <1>5, <1>8, ZenonT(40) DEF Untouched
  <1>12. ReplayedFirst'
    BY <1>1, <1>3, ZenonT(40) DEF ReplayedFirst
  <1>13. /\ \A d \in Epochs : Taken(d)' = Taken(d) /\ Loose(d)' = Loose(d)
         /\ \A d \in Epochs : d # e => Carried(d)' = Carried(d)
         /\ Carried(e)' = Carried(e) \cup {m}
    <2>1. \A d \in Epochs : Taken(d)' = Taken(d) /\ Loose(d)' = Loose(d)
      BY <1>3, ZenonT(40) DEF Taken, Loose
    <2>2. \A d \in Epochs : d # e => Carried(d)' = Carried(d)
      BY <1>3, <1>8, <2>1, ZenonT(40) DEF Carried
    <2>3. Carried(e)' = Carried(e) \cup {m}
      BY <1>3, <1>5, <1>7, <1>8, <2>1, ZenonT(40) DEF Carried
    <2>4. QED
      BY <2>1, <2>2, <2>3, ZenonT(40)
  <1>14. AllFound'
    <2>1. ASSUME NEW n \in Published
          PROVE  Found(n)'
      <3>1. Found(n)
        BY <1>1, ZenonT(40) DEF AllFound
      <3>2. CASE n = m
        BY <1>5, <1>13, <3>2, ZenonT(40) DEF Found
      <3>3. CASE n # m
        <4>1. \A s \in Routers : router[s].msg = n => router'[s] = router[s]
          BY <1>2, <1>6, <3>3, ZenonT(40)
        <4>2. \A d \in Epochs : n \in Taken(d) \cup Carried(d) => n \in Taken(d)' \cup Carried(d)'
          BY <1>13, ZenonT(40)
        <4>3. QED
          BY <1>3, <3>1, <4>1, <4>2, ZenonT(40) DEF Found
      <3>4. QED
        BY <3>2, <3>3, ZenonT(40)
    <2>2. QED
      BY <1>9, <2>1, ZenonT(40) DEF AllFound
  <1>15. \A d \in Epochs : CarriedInOrder(d)'
    <2>1. ASSUME NEW d \in Epochs, d # e
          PROVE  CarriedInOrder(d)'
      <3>1. CarriedInOrder(d)
        BY <1>1, ZenonT(40) DEF Tidy
      <3>2. QED
        BY <1>3, <1>8, <1>13, <2>1, <3>1, ZenonT(40) DEF CarriedInOrder
    <2>2. CarriedInOrder(e)'
      <3>1. CarriedInOrder(e)
        BY <1>1, <1>5, ZenonT(40) DEF Tidy
      <3>2. m \notin Taken(e) \cup Carried(e)
        BY <1>1, <1>2, <1>4, <1>5, ZenonT(40) DEF Tidy, RouterHoldsAlone
      <3>3. PICK S : S = Range(chan[e]) \cup Range(conn[e].pending) \cup Taken(e)
        BY ZenonT(40)
      <3>4. S \in SUBSET Published /\ m \notin S
        <4>1. conn[e].pending \in Seq(Published) /\ conn[e].inflight \in SUBSET Published
          BY <1>1, <1>5, ConnTypes, ZenonT(40)
        <4>2. log[e] \in Seq(Published)
          BY <1>1, <1>5, ZenonT(40) DEF DeliveryTypeOK
        <4>3. /\ Range(chan[e]) \in SUBSET Published /\ Range(conn[e].pending) \in SUBSET Published
              /\ Range(log[e]) \in SUBSET Published
          BY <1>7, <4>1, <4>2, Members1, ZenonT(40)
        <4>4. QED
          BY <3>2, <3>3, <4>1, <4>3, ZenonT(40) DEF Taken, Carried
      <3>5. Before(by, S, {m})
        BY <1>1, <1>2, <1>5, <3>4, NewestLast, ZenonT(40)
      <3>6. \A n \in S : by[n] = by[m] => n < m
        BY <3>5, ZenonT(40) DEF Before
      <3>7. Rising(by, chan'[e])
        <4>1. Before(by, Range(chan[e]), {m})
          BY <3>3, <3>6, ZenonT(40) DEF Before
        <4>2. QED
          BY <1>7, <1>8, <3>1, <4>1, ZenonT(40) DEF CarriedInOrder
      <3>8. Range(chan'[e]) = Range(chan[e]) \cup {m}
        BY <1>7, <1>8, ZenonT(40)
      <3>9. Before(by, Range(conn[e].pending), Range(chan'[e]))
        <4>1. Before(by, Range(conn[e].pending), Range(chan[e]))
          BY <3>1, ZenonT(40) DEF CarriedInOrder
        <4>2. QED
          BY <3>3, <3>6, <3>8, <4>1, ZenonT(40) DEF Before
      <3>10. Before(by, Taken(e), Range(conn[e].pending) \cup Range(chan'[e]))
        <4>1. Before(by, Taken(e), Range(conn[e].pending) \cup Range(chan[e]))
          BY <3>1, ZenonT(40) DEF CarriedInOrder
        <4>2. QED
          BY <3>3, <3>6, <3>8, <4>1, ZenonT(40) DEF Before
      <3>11. QED
        BY <1>3, <1>5, <1>13, <3>1, <3>7, <3>9, <3>10, ZenonT(40) DEF CarriedInOrder
    <2>3. QED
      BY <2>1, <2>2, ZenonT(40)
  <1>16. HandOver(r, m)
    <2>1. m \notin Range(queue[epoch]) /\ \A d \in Epochs : m \notin Carried(d)
      BY <1>1, <1>2, <1>4, ZenonT(40) DEF Tidy, RouterHoldsAlone
    <2>2. Rising(by, queue'[epoch])
      BY <1>1, <1>3, ZenonT(40) DEF Tidy, StoredInOrder
    <2>3. \A d \in Epochs : m \in Carried(d)' => d = e
      BY <1>13, <2>1, ZenonT(40)
    <2>4. \A d \in Epochs : Taken(d)' = Taken(d) /\ Carried(d)' \in SUBSET (Carried(d) \cup {m})
      BY <1>13, ZenonT(40)
    <2>5. QED
      BY <1>2, <1>3, <1>4, <1>6, <1>15, <2>1, <2>2, <2>3, <2>4, ZenonT(40) DEF HandOver
  <1>17. Tidy'
    BY <1>1, <1>16, HandedOver, ZenonT(40)
  <1>18. QED
    BY <1>10, <1>11, <1>12, <1>14, <1>17, ZenonT(40) DEF DeliveryInv

\* The ttl passes for messages at the front of the queue only.
LEMMA ExpirableAre ==
  ASSUME NEW q, Len(q) \in Nat, NEW k \in Expirable(q)
  PROVE  k \in 0 .. Len(q)
  BY SMTT(40) DEF Expirable

\* A router hands its message to the queue of the session, behind its earlier
\* ones; in a queue that register has replaced it is stranded.
LEMMA EnqueueKeeps ==
  ASSUME DeliveryInv, NEW r \in Routers, Enqueue(r)
  PROVE  DeliveryInv'
  <1>1. DeliveryTypeOK /\ Tidy /\ AllFound
    BY ZenonT(40) DEF DeliveryInv
  <1>2. PICK e, m : e = router[r].epoch /\ m = router[r].msg
    BY ZenonT(40)
  <1>3. /\ router[r].at = "enqueue" /\ router' = [router EXCEPT ![r].at = "push"]
        /\ ConnsStill /\ by' = by /\ disk' = disk /\ durable' = durable
    BY ZenonT(40) DEF Enqueue, ConnsStill, diskVars
  <1>4. PICK k \in Expirable(queue[e]) :
          /\ queue' = [queue EXCEPT ![e] = PushBounded(From(queue[e], k), m)]
          /\ lost' = lost \cup (Range(queue[e]) \ Range(queue'[e]))
          /\ stranded' = IF e = entry.epoch THEN stranded ELSE stranded \cup {m}
    BY <1>2, ZenonT(40) DEF Enqueue
  <1>5. router[r].at # "idle" /\ router[r].at \in {"send", "enqueue"}
    BY <1>3, SMTT(40)
  <1>6. e \in Epochs /\ m \in Published /\ router[r] # Idle /\ ~(e > epoch) /\ entry.epoch = epoch
    <2>1. entry.epoch = epoch
      BY <1>1, ZenonT(40) DEF DeliveryTypeOK
    <2>2. QED
      BY <1>1, <1>2, <1>5, <2>1, RouterAtWork, ZenonT(40)
  <1>7. /\ router' \in [Routers -> Deliveries(Published, epoch) \cup {Idle}]
        /\ \A s \in Routers : s # r => router'[s] = router[s]
        /\ router'[r].at = "push" /\ router'[r].msg = m
    <2>1. PICK x : x = [router[r] EXCEPT !.at = "push"]
      BY ZenonT(40)
    <2>2. router[r] \in Deliveries(Published, epoch)
      BY <1>1, <1>5, RouterAtWork, ZenonT(40)
    <2>3. x \in Deliveries(Published, epoch) /\ x.at = "push" /\ x.msg = m
      BY <1>2, <2>1, <2>2, ZenonT(40) DEF Deliveries
    <2>4. router' = [router EXCEPT ![r] = x]
      BY <1>1, <1>3, <2>1, ZenonT(40) DEF DeliveryTypeOK
    <2>5. QED
      BY <1>1, <2>3, <2>4, ZenonT(40) DEF DeliveryTypeOK
  <1>8. queue[e] \in Seq(Published) /\ queue \in [Epochs -> Seq(Published)]
    BY <1>1, <1>6, ZenonT(40) DEF DeliveryTypeOK
  <1>9. PICK p : p = PushBounded(From(queue[e], k), m)
    BY ZenonT(40)
  <1>10. /\ p \in Seq(Published) /\ m \in Range(p) /\ Range(p) \in SUBSET (Range(queue[e]) \cup {m})
         /\ Rising(by, queue[e]) /\ Before(by, Range(queue[e]), {m}) => Rising(by, p)
    <2>1. k \in 0 .. Len(queue[e])
      BY <1>4, <1>8, ExpirableAre, Members1, ZenonT(40)
    <2>2. PICK t : t = From(queue[e], k)
      BY ZenonT(40)
    <2>3. /\ t \in Seq(Published) /\ Range(t) \in SUBSET Range(queue[e])
          /\ Rising(by, queue[e]) => Rising(by, t)
      BY <1>8, <2>1, <2>2, Cutting, ZenonT(40)
    <2>4. /\ PushBounded(t, m) \in Seq(Published)
          /\ m \in Range(PushBounded(t, m))
          /\ Range(PushBounded(t, m)) \in SUBSET (Range(t) \cup {m})
          /\ Rising(by, t) /\ Before(by, Range(t), {m}) => Rising(by, PushBounded(t, m))
      BY <1>6, <2>3, Pushing, ZenonT(40)
    <2>5. Before(by, Range(queue[e]), {m}) => Before(by, Range(t), {m})
      BY <2>3, ZenonT(40) DEF Before
    <2>6. QED
      BY <1>9, <2>2, <2>3, <2>4, <2>5, ZenonT(40)
  <1>11. /\ queue' \in [Epochs -> Seq(Published)] /\ queue'[e] = p
         /\ \A d \in Epochs : d # e => queue'[d] = queue[d]
    BY <1>4, <1>6, <1>8, <1>9, <1>10, ZenonT(40)
  <1>12. DeliveryTypeOK' /\ Untouched' /\ ReplayedFirst'
    <2>1. \A d \in Epochs : d > epoch => queue'[d] = queue[d]
      BY <1>6, <1>11, ZenonT(40)
    <2>2. disk' \in Seq(Published) /\ durable' \in Seq(Published)
      BY <1>1, <1>3, ZenonT(40) DEF DeliveryTypeOK
    <2>3. QED
      BY <1>3, <1>7, <1>11, <2>1, <2>2, RouterTypes, ZenonT(40)
  <1>13. Published' = Published /\ epoch' = epoch /\ epoch \in Epochs
    BY <1>1, <1>3, ZenonT(40) DEF Published, ConnsStill, DeliveryTypeOK
  <1>14. AllFound'
    <2>1. stranded \in SUBSET stranded' /\ (m \in stranded' \/ m \in Range(queue'[epoch]))
      BY <1>4, <1>6, <1>10, <1>11, ZenonT(40)
    <2>2. lost \in SUBSET lost' /\ Range(queue[e]) \in SUBSET (lost' \cup Range(queue'[e]))
      BY <1>4, ZenonT(40)
    <2>3. Range(queue[epoch]) \in SUBSET (lost' \cup Range(queue'[epoch]))
      BY <1>11, <1>13, <2>2, ZenonT(40)
    <2>4. ASSUME NEW n \in Published
          PROVE  Found(n)'
      <3>1. Found(n)
        BY <1>1, ZenonT(40) DEF AllFound
      <3>2. CASE n = m
        BY <1>13, <2>1, <3>2, ZenonT(40) DEF Found
      <3>3. CASE n # m
        <4>1. \A s \in Routers : router[s].msg = n => router'[s] = router[s]
          BY <1>2, <1>7, <3>3, ZenonT(40)
        <4>2. \A d \in Epochs : Taken(d)' = Taken(d) /\ Carried(d)' = Carried(d)
          BY <1>3, ConnsKnow, ZenonT(40)
        <4>3. QED
          BY <1>13, <2>1, <2>2, <2>3, <3>1, <4>1, <4>2, ZenonT(40) DEF Found
      <3>4. QED
        BY <3>2, <3>3, ZenonT(40)
    <2>5. QED
      BY <1>13, <2>4, ZenonT(40) DEF AllFound
  <1>15. CASE e # epoch
    <2>1. QueueFades /\ DiskFades
      <3>1. queue'[epoch] = queue[epoch]
        BY <1>11, <1>13, <1>15, ZenonT(40)
      <3>2. QED
        BY <1>1, <1>3, <3>1, Still, ZenonT(40)
    <2>2. \A s \in Routers : RouterFades(s)
      <3>1. RouterFades(r)
        BY <1>2, <1>5, <1>6, <1>7, ZenonT(40) DEF RouterFades
      <3>2. QED
        BY <1>1, <1>7, <3>1, Still, ZenonT(40)
    <2>3. Tidy'
      BY <1>1, <1>3, <2>1, <2>2, RouterFade, ZenonT(40)
    <2>4. QED
      BY <1>12, <1>14, <2>3, ZenonT(40) DEF DeliveryInv
  <1>16. CASE e = epoch
    <2>1. m \notin Range(queue[epoch]) /\ \A d \in Epochs : m \notin Carried(d)
      BY <1>1, <1>2, <1>5, ZenonT(40) DEF Tidy, RouterHoldsAlone
    <2>2. Rising(by, queue'[epoch])
      <3>1. Range(queue[epoch]) \in SUBSET Published
        BY <1>8, <1>16, Members1, ZenonT(40)
      <3>2. Before(by, Range(queue[epoch]), {m})
        BY <1>1, <1>2, <1>6, <2>1, <3>1, NewestLast, ZenonT(40)
      <3>3. Rising(by, queue[epoch])
        BY <1>1, ZenonT(40) DEF Tidy, StoredInOrder
      <3>4. QED
        BY <1>10, <1>11, <1>16, <3>2, <3>3, ZenonT(40)
    <2>3. Range(queue'[epoch]) \in SUBSET (Range(queue[epoch]) \cup {m})
      BY <1>10, <1>11, <1>16, ZenonT(40)
    <2>4. \A d \in Epochs : Taken(d)' = Taken(d) /\ Carried(d)' = Carried(d) /\ Loose(d)' = Loose(d)
      BY <1>3, ConnsKnow, ZenonT(40)
    <2>5. \A d \in Epochs : CarriedInOrder(d)'
      BY <1>1, <1>3, <2>4, ZenonT(40) DEF Tidy, CarriedInOrder, ConnsStill
    <2>6. log' = log /\ skipped' = skipped /\ restarts' = restarts
      BY <1>3, ZenonT(40) DEF ConnsStill
    <2>7. HandOver(r, m)
      BY <1>2, <1>3, <1>5, <1>7, <1>13, <2>1, <2>2, <2>3, <2>4, <2>5, <2>6, ZenonT(40) DEF HandOver
    <2>8. Tidy'
      BY <1>1, <2>7, HandedOver, ZenonT(40)
    <2>9. QED
      BY <1>12, <1>14, <2>8, ZenonT(40) DEF DeliveryInv
  <1>17. QED
    BY <1>15, <1>16, ZenonT(40)

\* The routers of the messages so far are those in b and c alike.
Agree(b, c, P) == \A m \in P : b[m] = c[m]

\* Order among messages depends on the routers of these messages only.
LEMMA OldOrder ==
  ASSUME NEW P, NEW b, NEW c, Agree(b, c, P)
  PROVE  /\ \A s \in Seq(P) : Rising(b, s) => Rising(c, s)
         /\ \A S, T \in SUBSET P : Before(b, S, T) => Before(c, S, T)
  <1>1. \A m \in P : b[m] = c[m]
    BY ZenonT(40) DEF Agree
  <1>2. ASSUME NEW s \in Seq(P), Rising(b, s)
        PROVE  Rising(c, s)
    <2>1. \A i \in DOMAIN s : s[i] \in P
      BY Members1, ZenonT(40)
    <2>2. QED
      BY <1>1, <1>2, <2>1, ZenonT(40) DEF Rising
  <1>3. ASSUME NEW S \in SUBSET P, NEW T \in SUBSET P, Before(b, S, T)
        PROVE  Before(c, S, T)
    BY <1>1, <1>3, ZenonT(40) DEF Before
  <1>4. QED
    BY <1>2, <1>3, ZenonT(40)

\* More messages, more connections: what was typed stays typed.
LEMMA TypesGrow ==
  ASSUME NEW P, NEW Q, P \in SUBSET Q
  PROVE  Seq(P) \in SUBSET Seq(Q) /\ Conns(P) \in SUBSET Conns(Q)
  <1>1. \A s \in Seq(P) : s \in Seq(Q)
    BY SMTT(40)
  <1>2. Conns(P) \in SUBSET Conns(Q)
    BY <1>1, ZenonT(40) DEF Conns
  <1>3. QED
    BY <1>1, <1>2, ZenonT(40)

\* Nor does a delivery lose its type when messages or epochs are added.
LEMMA DeliveriesGrow ==
  ASSUME NEW P, NEW Q, P \in SUBSET Q, NEW n \in Nat, NEW k \in Nat, n <= k
  PROVE  Deliveries(P, n) \in SUBSET Deliveries(Q, k)
  <1>1. 1 .. n \in SUBSET (1 .. k)
    BY SMTT(40)
  <1>2. QED
    BY <1>1, ZenonT(40) DEF Deliveries

\* Everything known so far is known about published messages.
LEMMA AllPublished ==
  ASSUME DeliveryTypeOK
  PROVE  /\ Range(queue[epoch]) \in SUBSET Published
         /\ Range(disk) \in SUBSET Published /\ Range(durable) \in SUBSET Published
         /\ \A e \in Epochs : /\ Taken(e) \in SUBSET Published /\ Carried(e) \in SUBSET Published
                              /\ Range(conn[e].pending) \in SUBSET Published
                              /\ Range(chan[e]) \in SUBSET Published
  <1>1. queue[epoch] \in Seq(Published) /\ disk \in Seq(Published) /\ durable \in Seq(Published)
    BY ZenonT(40) DEF DeliveryTypeOK
  <1>2. /\ Range(queue[epoch]) \in SUBSET Published
        /\ Range(disk) \in SUBSET Published /\ Range(durable) \in SUBSET Published
    BY <1>1, Members1, ZenonT(40)
  <1>3. ASSUME NEW e \in Epochs
        PROVE  /\ Taken(e) \in SUBSET Published /\ Carried(e) \in SUBSET Published
               /\ Range(conn[e].pending) \in SUBSET Published
               /\ Range(chan[e]) \in SUBSET Published
    <2>1. /\ conn[e].pending \in Seq(Published) /\ conn[e].inflight \in SUBSET Published
          /\ chan[e] \in Seq(Published) /\ log[e] \in Seq(Published)
      <3>1. chan[e] \in Seq(Published) /\ log[e] \in Seq(Published)
        BY ZenonT(40) DEF DeliveryTypeOK
      <3>2. QED
        BY <3>1, ConnTypes, ZenonT(40)
    <2>2. /\ Range(chan[e]) \in SUBSET Published /\ Range(conn[e].pending) \in SUBSET Published
          /\ Range(log[e]) \in SUBSET Published
      BY <2>1, Members1, ZenonT(40)
    <2>3. QED
      BY <2>1, <2>2, ZenonT(40) DEF Taken, Carried, Loose
  <1>4. QED
    BY <1>2, <1>3, ZenonT(40)

\* Router r has one more message, m.
PublishStep(r, m) ==
    /\ m \notin Published /\ Published' = Published \cup {m} /\ \A n \in Published : n <= m
    /\ m <= m
    /\ Agree(by, by', Published) /\ by'[m] = r
    /\ by' \in Seq(Routers) /\ Len(by') <= MaxMessages
    /\ router[r] = Idle
    /\ router'[r] \in Deliveries(Published', epoch) /\ router'[r].msg = m
    /\ router'[r].at \in {"send", "enqueue"}
    /\ \A s \in Routers : s # r => router'[s] = router[s]
    /\ router' \in [Routers -> Deliveries(Published', epoch) \cup {Idle}]
    /\ ConnsStill /\ queue' = queue /\ disk' = disk /\ durable' = durable /\ lost' = lost
    /\ stranded' = stranded

\* The next message is Len(by) + 1.
LEMMA PublishEffect ==
  ASSUME DeliveryInv, NEW r \in Routers, Publish(r)
  PROVE  PublishStep(r, Len(by) + 1)
  <1>1. DeliveryTypeOK
    BY ZenonT(40) DEF DeliveryInv
  <1>2. PICK b : b = by'
    BY ZenonT(40)
  <1>3. PICK n \in Nat : n = Len(by)
    BY <1>1, SMTT(40) DEF DeliveryTypeOK
  <1>4. PICK m : m = n + 1
    BY ZenonT(40)
  <1>5. by \in Seq(Routers) /\ b = Append(by, r)
    BY <1>1, <1>2, ZenonT(40) DEF DeliveryTypeOK, Publish
  <1>6. b \in Seq(Routers) /\ Len(b) = m /\ b[m] = r /\ \A i \in 1 .. n : by[i] = b[i]
    BY <1>3, <1>4, <1>5, SMTT(40)
  <1>7. m <= MaxMessages
    <2>1. PICK p \in Plans : n < Len(p)
      BY <1>3, ZenonT(40) DEF Publish, Due
    <2>2. p \in Seq(Routers) /\ Len(p) <= MaxMessages /\ MaxMessages \in Nat
      BY DeliveryAssumption, ZenonT(40)
    <2>3. QED
      BY <1>4, <2>1, <2>2, SMTT(40)
  <1>8. Published = 1 .. n /\ Published' = 1 .. m
    BY <1>2, <1>3, <1>6, ZenonT(40) DEF Published
  <1>9. m \notin 1 .. n /\ 1 .. m = (1 .. n) \cup {m} /\ (\A i \in 1 .. n : i <= m) /\ m <= m /\ m \in 1 .. m
    BY <1>4, SMTT(40)
  <1>10. /\ router[r] = Idle
         /\ router' = [router EXCEPT ![r] = [at |-> IF entry.connected THEN "send" ELSE "enqueue",
                                             msg |-> m, epoch |-> entry.epoch]]
         /\ ConnsStill /\ queue' = queue /\ disk' = disk /\ durable' = durable /\ lost' = lost
         /\ stranded' = stranded
    BY <1>3, <1>4, ZenonT(40) DEF Publish, ConnsStill, sessionVars, diskVars
  <1>11. PICK x : x = [at |-> IF entry.connected THEN "send" ELSE "enqueue", msg |-> m, epoch |-> entry.epoch]
    BY ZenonT(40)
  <1>12. x \in Deliveries(Published', epoch) /\ x.msg = m /\ x.at \in {"send", "enqueue"}
    <2>1. entry.epoch = epoch /\ epoch \in Epochs /\ MaxEpochs \in Nat
      BY <1>1, DeliveryAssumption, ZenonT(40) DEF DeliveryTypeOK
    <2>2. epoch \in 1 .. epoch
      BY <2>1, SMTT(40) DEF Epochs
    <2>3. m \in Published'
      BY <1>8, <1>9, ZenonT(40)
    <2>4. QED
      BY <1>11, <2>1, <2>2, <2>3, ZenonT(40) DEF Deliveries
  <1>13. Deliveries(Published, epoch) \in SUBSET Deliveries(Published', epoch)
    BY <1>8, <1>9, ZenonT(40) DEF Deliveries
  <1>14. /\ router'[r] = x /\ \A s \in Routers : s # r => router'[s] = router[s]
         /\ router' \in [Routers -> Deliveries(Published', epoch) \cup {Idle}]
    BY <1>1, <1>10, <1>11, <1>12, <1>13, ZenonT(40) DEF DeliveryTypeOK
  <1>15. PublishStep(r, m)
    <2>1. m \notin Published /\ Published' = Published \cup {m} /\ (\A i \in Published : i <= m)
      BY <1>8, <1>9, ZenonT(40)
    <2>2. Agree(by, by', Published) /\ by'[m] = r /\ by' \in Seq(Routers) /\ Len(by') <= MaxMessages
      BY <1>2, <1>6, <1>7, <1>8, ZenonT(40) DEF Agree
    <2>3. QED
      BY <1>9, <1>10, <1>12, <1>14, <2>1, <2>2, ZenonT(40) DEF PublishStep
  <1>16. QED
    BY <1>3, <1>4, <1>15, ZenonT(40)

\* A new message is the last of its router, and nobody else has it.
LEMMA PublishKeeps ==
  ASSUME DeliveryInv, NEW r \in Routers, Publish(r)
  PROVE  DeliveryInv'
  <1>1. DeliveryTypeOK /\ Tidy /\ AllFound /\ Untouched /\ ReplayedFirst
    BY ZenonT(40) DEF DeliveryInv
  <1>2. PICK m : PublishStep(r, m)
    BY PublishEffect, ZenonT(40)
  <1>3. /\ m \notin Published /\ Published' = Published \cup {m} /\ \A n \in Published : n <= m
        /\ m <= m /\ Agree(by, by', Published) /\ by'[m] = r
        /\ by' \in Seq(Routers) /\ Len(by') <= MaxMessages
    BY <1>2, ZenonT(40) DEF PublishStep
  <1>4. /\ router[r] = Idle /\ router'[r].msg = m /\ router'[r].at \in {"send", "enqueue"}
        /\ \A s \in Routers : s # r => router'[s] = router[s]
        /\ router' \in [Routers -> Deliveries(Published', epoch) \cup {Idle}]
    BY <1>2, ZenonT(40) DEF PublishStep
  <1>5. /\ entry' = entry /\ epoch' = epoch /\ chan' = chan /\ conn' = conn /\ log' = log
        /\ skipped' = skipped /\ restarts' = restarts
        /\ queue' = queue /\ disk' = disk /\ durable' = durable /\ lost' = lost /\ ConnsStill
        /\ stranded' = stranded
    BY <1>2, ZenonT(40) DEF PublishStep, ConnsStill
  <1>6. DeliveryTypeOK'
    <2>1. Seq(Published) \in SUBSET Seq(Published') /\ Conns(Published) \in SUBSET Conns(Published')
      <3>1. PICK P, Q : P = Published /\ Q = Published' /\ P \in SUBSET Q
        BY <1>3, ZenonT(40)
      <3>2. Seq(P) \in SUBSET Seq(Q) /\ Conns(P) \in SUBSET Conns(Q)
        BY <3>1, TypesGrow, ZenonT(40)
      <3>3. QED
        BY <3>1, <3>2, ZenonT(40)
    <2>2. /\ queue' \in [Epochs -> Seq(Published')] /\ chan' \in [Epochs -> Seq(Published')]
          /\ log' \in [Epochs -> Seq(Published')] /\ conn' \in [Epochs -> Conns(Published')]
      BY <1>1, <1>5, <2>1, ZenonT(40) DEF DeliveryTypeOK
    <2>3. disk' \in Seq(Published') /\ durable' \in Seq(Published')
      BY <1>1, <1>5, <2>1, ZenonT(40) DEF DeliveryTypeOK
    <2>4. QED
      BY <1>1, <1>3, <1>4, <1>5, <2>2, <2>3, ZenonT(40) DEF DeliveryTypeOK
  <1>7. Untouched'
    BY <1>1, <1>5, ZenonT(40) DEF Untouched
  <1>8. ReplayedFirst'
    BY <1>1, <1>5, ZenonT(40) DEF ReplayedFirst
  <1>9. \A e \in Epochs : Taken(e)' = Taken(e) /\ Carried(e)' = Carried(e) /\ Loose(e)' = Loose(e)
    BY <1>5, ConnsKnow, ZenonT(40)
  <1>10. router[r].at \notin {"send", "enqueue"} /\ router'[r] # Idle
    <2>1. \A x : x = Idle => x.at \notin {"send", "enqueue"}
      BY SMTT(40) DEF Idle
    <2>2. QED
      BY <1>4, <2>1, ZenonT(40)
  <1>11. AllFound'
    <2>1. ASSUME NEW n \in Published
          PROVE  Found(n)'
      <3>1. Found(n)
        BY <1>1, ZenonT(40) DEF AllFound
      <3>2. \A s \in Routers : router[s].at \in {"send", "enqueue"} => router'[s] = router[s]
        BY <1>4, <1>10, ZenonT(40)
      <3>3. QED
        BY <1>5, <1>9, <3>1, <3>2, ZenonT(40) DEF Found
    <2>2. Found(m)'
      BY <1>4, ZenonT(40) DEF Found
    <2>3. QED
      BY <1>3, <2>1, <2>2, ZenonT(40) DEF AllFound
  <1>12. /\ Range(queue[epoch]) \in SUBSET Published
         /\ Range(disk) \in SUBSET Published /\ Range(durable) \in SUBSET Published
         /\ \A e \in Epochs : /\ Taken(e) \in SUBSET Published /\ Carried(e) \in SUBSET Published
                              /\ Range(conn[e].pending) \in SUBSET Published
                              /\ Range(chan[e]) \in SUBSET Published
    BY <1>1, AllPublished, ZenonT(40)
  <1>13. /\ RouterHoldsNewest /\ RouterHoldsAlone /\ StoredInOrder
         /\ (\A e \in Epochs : CarriedInOrder(e)) /\ InOrder /\ OneWay /\ SendsCounted
    BY <1>1, ZenonT(40) DEF Tidy
  <1>14. RouterHoldsNewest'
    <2>1. /\ by'[router'[r].msg] = r
          /\ \A n \in Published' : by'[n] = r => n <= router'[r].msg
          /\ router'[r].msg \notin Range(disk') \cup Range(durable')
      BY <1>3, <1>4, <1>5, <1>12, ZenonT(40)
    <2>2. ASSUME NEW s \in Routers, s # r, router'[s] # Idle
          PROVE  /\ by'[router'[s].msg] = s
                 /\ \A n \in Published' : by'[n] = s => n <= router'[s].msg
                 /\ router'[s].msg \notin Range(disk') \cup Range(durable')
      <3>1. router'[s] = router[s] /\ router[s] # Idle
        BY <1>4, <2>2, ZenonT(40)
      <3>2. PICK k : k = router[s].msg
        BY ZenonT(40)
      <3>3. /\ by[k] = s /\ (\A n \in Published : by[n] = s => n <= k)
            /\ k \notin Range(disk) \cup Range(durable)
        BY <1>13, <3>1, <3>2, ZenonT(40) DEF RouterHoldsNewest
      <3>4. router[s] \in Deliveries(Published, epoch)
        BY <1>1, <3>1, ZenonT(40) DEF DeliveryTypeOK
      <3>5. k \in Published
        BY <3>2, <3>4, ZenonT(40) DEF Deliveries
      <3>6. \A n \in Published : by'[n] = by[n]
        BY <1>3, ZenonT(40) DEF Agree
      <3>7. \A n \in Published' : by'[n] = s => n <= k
        BY <1>3, <2>2, <3>3, <3>6, ZenonT(40)
      <3>8. QED
        BY <1>5, <3>1, <3>2, <3>3, <3>5, <3>6, <3>7, ZenonT(40)
    <2>3. QED
      BY <2>1, <2>2, ZenonT(40) DEF RouterHoldsNewest
  <1>15. RouterHoldsAlone'
    <2>1. m \notin Range(queue[epoch]) /\ \A e \in Epochs : m \notin Taken(e) \cup Carried(e)
      BY <1>3, <1>12, ZenonT(40)
    <2>2. QED
      BY <1>4, <1>5, <1>9, <1>13, <2>1, ZenonT(40) DEF RouterHoldsAlone
  <1>16. /\ \A s \in Seq(Published) : Rising(by, s) => Rising(by', s)
         /\ \A S, T \in SUBSET Published : Before(by, S, T) => Before(by', S, T)
    <2>1. PICK P, c : P = Published /\ c = by'
      BY ZenonT(40)
    <2>2. Agree(by, c, P)
      BY <1>3, <2>1, ZenonT(40)
    <2>3. /\ \A s \in Seq(P) : Rising(by, s) => Rising(c, s)
          /\ \A S, T \in SUBSET P : Before(by, S, T) => Before(c, S, T)
      BY <2>2, OldOrder, ZenonT(40)
    <2>4. QED
      BY <2>1, <2>3, ZenonT(40)
  <1>17. StoredInOrder'
    <2>1. queue[epoch] \in Seq(Published) /\ disk \in Seq(Published) /\ durable \in Seq(Published)
      BY <1>1, ZenonT(40) DEF DeliveryTypeOK
    <2>2. QED
      BY <1>5, <1>13, <1>16, <2>1, ZenonT(40) DEF StoredInOrder
  <1>18. ASSUME NEW e \in Epochs
         PROVE  CarriedInOrder(e)'
    <2>1. conn[e].pending \in Seq(Published) /\ chan[e] \in Seq(Published)
      <3>1. chan[e] \in Seq(Published)
        BY <1>1, ZenonT(40) DEF DeliveryTypeOK
      <3>2. QED
        BY <1>1, <3>1, ConnTypes, ZenonT(40)
    <2>2. PICK S, T, U : S = Range(conn[e].pending) /\ T = Range(chan[e]) /\ U = Taken(e)
      BY ZenonT(40)
    <2>3. S \in SUBSET Published /\ T \in SUBSET Published /\ U \in SUBSET Published /\ S \cup T \in SUBSET Published
      BY <1>12, <2>2, ZenonT(40)
    <2>4. /\ Rising(by, conn[e].pending) /\ Rising(by, chan[e]) /\ Loose(e) \subseteq skipped
          /\ Before(by, S, T) /\ Before(by, U, S \cup T)
      BY <1>13, <2>2, ZenonT(40) DEF CarriedInOrder
    <2>5. /\ Rising(by', conn[e].pending) /\ Rising(by', chan[e])
          /\ Before(by', S, T) /\ Before(by', U, S \cup T)
      BY <1>16, <2>1, <2>3, <2>4, ZenonT(40)
    <2>6. QED
      BY <1>5, <1>9, <2>2, <2>4, <2>5, ZenonT(40) DEF CarriedInOrder
  <1>19. InOrder'
    <2>1. \A e \in Epochs : \A i \in DOMAIN log[e] : log[e][i] \in Published
      <3>1. \A e \in Epochs : log[e] \in Seq(Published)
        BY <1>1, ZenonT(40) DEF DeliveryTypeOK
      <3>2. QED
        BY <3>1, Members1, ZenonT(40)
    <2>2. \A e \in Epochs : \A i \in DOMAIN log[e] : by'[log[e][i]] = by[log[e][i]]
      BY <1>3, <2>1, ZenonT(40) DEF Agree
    <2>3. QED
      BY <1>5, <1>13, <2>2, ZenonT(40) DEF InOrder
  <1>20. OneWay'
    BY <1>5, <1>9, <1>13, ZenonT(40) DEF OneWay
  <1>21. SendsCounted'
    BY <1>5, <1>9, <1>13, ZenonT(40) DEF SendsCounted, Sends, Alive
  <1>22. Tidy'
    BY <1>14, <1>15, <1>17, <1>18, <1>19, <1>20, <1>21, ZenonT(40) DEF Tidy
  <1>23. QED
    BY <1>6, <1>7, <1>8, <1>11, <1>22, ZenonT(40) DEF DeliveryInv

----------------------------------------------------------------------------
(***************************************************************************)
(* register and the restart.                                               *)
(***************************************************************************)

\* The entry of epoch e replaces the one before; p is what its connection replays.
NewEntry(e, p) ==
    /\ epoch' = e /\ e \in Epochs /\ epoch < e /\ epoch <= e
    /\ \A d \in Epochs : d > e => d > epoch /\ d # epoch /\ d # e
    /\ entry' \in [epoch : {e}, connected : BOOLEAN]
    /\ queue' \in [Epochs -> Seq(Published)] /\ queue'[e] = <<>>
    /\ \A d \in Epochs : d > e => queue'[d] = queue[d]
    /\ p \in Seq(Published) /\ Range(p) \in SUBSET Range(queue[epoch]) /\ Rising(by, p)
    /\ conn' \in [Epochs -> Conns(Published)]
    /\ conn'[e].at = "connack" /\ conn'[e].pending = p /\ conn'[e].inflight = {}
    /\ \A d \in Epochs : d # e => conn'[d] = conn[d]
    /\ chan[e] = <<>> /\ log[e] = <<>>
    /\ lost' = lost \cup (Range(queue[epoch]) \ Range(p))
    /\ UNCHANGED <<chan, router, by, stranded, disk, durable, log, skipped, restarts>>

\* An epoch that was never used has nothing to send.
LEMMA UnusedIs == \A x : x = Unused => x.inflight = {} /\ x.pending = <<>>
  BY SMTT(40) DEF Unused

\* register hands out the next epoch and drains the queue into its replay.
LEMMA RegisterEffect ==
  ASSUME DeliveryInv, Register
  PROVE  \E p : NewEntry(epoch + 1, p)
  <1>1. DeliveryTypeOK /\ Untouched /\ Tidy
    BY ZenonT(40) DEF DeliveryInv
  <1>2. PICK e, q, o : e = epoch + 1 /\ q = queue[epoch] /\ o = epoch
    BY ZenonT(40)
  <1>3. entry.epoch = o /\ o \in Epochs /\ MaxEpochs \in Nat /\ q \in Seq(Published) /\ Rising(by, q)
    BY <1>1, <1>2, DeliveryAssumption, ZenonT(40) DEF DeliveryTypeOK, Tidy, StoredInOrder
  <1>4. /\ e \in Epochs /\ epoch' = e /\ entry' = [epoch |-> e, connected |-> TRUE]
        /\ queue' = [queue EXCEPT ![o] = <<>>]
        /\ UNCHANGED <<chan, router, by, stranded, disk, durable, log, skipped, restarts>>
    BY <1>2, <1>3, ZenonT(40) DEF Register, routerVars, diskVars
  <1>5. PICK k \in Expirable(q) :
          /\ conn' = [conn EXCEPT ![e].at = "connack", ![e].pending = From(q, k)]
          /\ lost' = lost \cup (Range(q) \ Range(From(q, k)))
    BY <1>2, <1>3, ZenonT(40) DEF Register
  <1>6. PICK p : p = From(q, k)
    BY ZenonT(40)
  <1>7. p \in Seq(Published) /\ Range(p) \in SUBSET Range(q) /\ Rising(by, p)
    <2>1. k \in 0 .. Len(q)
      BY <1>3, ExpirableAre, Members1, ZenonT(40)
    <2>2. QED
      BY <1>3, <1>6, <2>1, Cutting, ZenonT(40)
  <1>8. /\ o < e /\ o <= e /\ o # e /\ e > o
        /\ \A d \in Epochs : d > e => d > o /\ d # o /\ d # e
    BY <1>2, <1>3, <1>4, SMTT(40) DEF Epochs
  <1>9. queue[e] = <<>> /\ chan[e] = <<>> /\ log[e] = <<>> /\ conn[e] = Unused
    BY <1>1, <1>2, <1>4, <1>8, ZenonT(40) DEF Untouched
  <1>10. queue' \in [Epochs -> Seq(Published)] /\ queue'[e] = <<>> /\ \A d \in Epochs : d # o => queue'[d] = queue[d]
    <2>1. <<>> \in Seq(Published)
      BY SMTT(40)
    <2>2. queue \in [Epochs -> Seq(Published)]
      BY <1>1, ZenonT(40) DEF DeliveryTypeOK
    <2>3. QED
      BY <1>3, <1>4, <1>8, <1>9, <2>1, <2>2, ZenonT(40)
  <1>11. /\ conn' \in [Epochs -> Conns(Published)]
         /\ conn'[e].at = "connack" /\ conn'[e].pending = p /\ conn'[e].inflight = {}
         /\ \A d \in Epochs : d # e => conn'[d] = conn[d]
    <2>1. PICK x : x = [conn[e] EXCEPT !.at = "connack", !.pending = p]
      BY ZenonT(40)
    <2>2. conn \in [Epochs -> Conns(Published)] /\ conn[e] \in Conns(Published)
      BY <1>1, <1>4, ZenonT(40) DEF DeliveryTypeOK
    <2>3. conn[e].inflight = {}
      BY <1>9, UnusedIs, ZenonT(40)
    <2>4. x \in Conns(Published) /\ x.at = "connack" /\ x.pending = p /\ x.inflight = {}
      BY <1>7, <2>1, <2>2, <2>3, ZenonT(40) DEF Conns, Stages
    <2>5. conn' = [conn EXCEPT ![e] = x]
      BY <1>4, <1>5, <1>6, <2>1, <2>2, ZenonT(40)
    <2>6. QED
      BY <1>4, <2>2, <2>4, <2>5, ZenonT(40)
  <1>12. entry' \in [epoch : {e}, connected : BOOLEAN]
    BY <1>4, ZenonT(40)
  <1>13. lost' = lost \cup (Range(q) \ Range(p))
    BY <1>5, <1>6, ZenonT(40)
  <1>14. NewEntry(e, p)
    BY <1>2, <1>4, <1>7, <1>8, <1>9, <1>10, <1>11, <1>12, <1>13, ZenonT(40) DEF NewEntry
  <1>15. QED
    BY <1>2, <1>14, ZenonT(40)

\* The drained messages are in the replay of the new connection and nowhere else.
LEMMA RegisterKeeps ==
  ASSUME DeliveryInv, Register
  PROVE  DeliveryInv'
  <1>1. DeliveryTypeOK /\ Untouched /\ ReplayedFirst /\ AllFound /\ Tidy
    BY ZenonT(40) DEF DeliveryInv
  <1>2. PICK e, p : NewEntry(e, p)
    BY RegisterEffect, ZenonT(40)
  <1>3. /\ epoch' = e /\ e \in Epochs /\ epoch <= e
        /\ \A d \in Epochs : d > e => d > epoch /\ d # epoch /\ d # e
        /\ entry' \in [epoch : {e}, connected : BOOLEAN]
    BY <1>2, ZenonT(40) DEF NewEntry
  <1>4. /\ queue' \in [Epochs -> Seq(Published)] /\ queue'[e] = <<>>
        /\ \A d \in Epochs : d > e => queue'[d] = queue[d]
        /\ p \in Seq(Published) /\ Range(p) \in SUBSET Range(queue[epoch]) /\ Rising(by, p)
    BY <1>2, ZenonT(40) DEF NewEntry
  <1>5. /\ conn' \in [Epochs -> Conns(Published)]
        /\ conn'[e].at = "connack" /\ conn'[e].pending = p /\ conn'[e].inflight = {}
        /\ \A d \in Epochs : d # e => conn'[d] = conn[d]
        /\ chan[e] = <<>> /\ log[e] = <<>>
        /\ lost' = lost \cup (Range(queue[epoch]) \ Range(p))
    BY <1>2, ZenonT(40) DEF NewEntry
  <1>6. /\ chan' = chan /\ router' = router /\ by' = by /\ disk' = disk /\ durable' = durable
        /\ stranded' = stranded
        /\ log' = log /\ skipped' = skipped /\ restarts' = restarts
    BY <1>2, ZenonT(40) DEF NewEntry
  <1>7. Published' = Published
    BY <1>6, ZenonT(40) DEF Published
  <1>8. DeliveryTypeOK'
    <2>1. Deliveries(Published, epoch) \in SUBSET Deliveries(Published, e)
      <3>1. epoch \in Nat /\ e \in Nat
        BY <1>1, <1>3, DeliveryAssumption, SMTT(40) DEF DeliveryTypeOK, Epochs
      <3>2. QED
        BY <1>3, <3>1, DeliveriesGrow, ZenonT(40)
    <2>2. router' \in [Routers -> Deliveries(Published, e) \cup {Idle}]
      BY <1>1, <1>6, <2>1, ZenonT(40) DEF DeliveryTypeOK
    <2>3. QED
      BY <1>1, <1>3, <1>4, <1>5, <1>6, <1>7, <2>2, ZenonT(40) DEF DeliveryTypeOK
  <1>9. Untouched'
    <2>1. ASSUME NEW d \in Epochs, d > e
          PROVE  queue'[d] = <<>> /\ chan'[d] = <<>> /\ log'[d] = <<>> /\ conn'[d] = Unused
      BY <1>1, <1>3, <1>4, <1>5, <1>6, <2>1, ZenonT(40) DEF Untouched
    <2>2. QED
      BY <1>3, <2>1, ZenonT(40) DEF Untouched
  <1>10. ReplayedFirst'
    <2>1. conn'[e].at \in {"connack", "replay"}
      BY <1>5, ZenonT(40)
    <2>2. QED
      BY <1>1, <1>5, <2>1, ZenonT(40) DEF ReplayedFirst
  <1>11. /\ \A d \in Epochs : d # e => Taken(d)' = Taken(d) /\ Carried(d)' = Carried(d) /\ Loose(d)' = Loose(d)
         /\ Taken(e)' = {} /\ Carried(e)' = Range(p) /\ Loose(e)' = {}
    <2>1. \A d \in Epochs : d # e => Taken(d)' = Taken(d) /\ Carried(d)' = Carried(d) /\ Loose(d)' = Loose(d)
      BY <1>5, <1>6, ZenonT(40) DEF Taken, Carried, Loose
    <2>2. Range(log'[e]) = {} /\ Range(chan'[e]) = {} /\ Range(conn'[e].pending) = Range(p)
      BY <1>5, <1>6, NoMembers, ZenonT(40)
    <2>3. Taken(e)' = {} /\ Loose(e)' = {}
      BY <1>5, <2>2, ZenonT(40) DEF Taken, Loose
    <2>4. Carried(e)' = Range(p)
      BY <2>2, <2>3, ZenonT(40) DEF Carried
    <2>5. QED
      BY <2>1, <2>3, <2>4, ZenonT(40)
  <1>12. Taken(e) \cup Carried(e) = {}
    <2>1. conn[e] = Unused
      <3>1. epoch < e
        BY <1>2, ZenonT(40) DEF NewEntry
      <3>2. e > epoch
        BY <3>1, <1>1, <1>3, DeliveryAssumption, SMTT(40) DEF DeliveryTypeOK, Epochs
      <3>3. QED
        BY <1>1, <1>3, <3>2, ZenonT(40) DEF Untouched
    <2>2. conn[e].inflight = {} /\ conn[e].pending = <<>>
      BY <2>1, UnusedIs, ZenonT(40)
    <2>3. QED
      BY <1>5, <2>2, NoMembers, ZenonT(40) DEF Taken, Carried, Loose
  <1>13. Range(queue'[e]) = {} /\ Rising(by, queue'[e])
    BY <1>4, NoMembers, ZenonT(40)
  <1>14. AllFound'
    <2>1. ASSUME NEW n \in Published
          PROVE  Found(n)'
      <3>1. Found(n)
        BY <1>1, ZenonT(40) DEF AllFound
      <3>2. CASE n \in lost \/ n \in stranded
        BY <1>5, <1>6, <3>2, ZenonT(40) DEF Found
      <3>3. CASE n \in Range(queue[epoch])
        BY <1>3, <1>5, <1>11, <3>3, ZenonT(40) DEF Found
      <3>4. CASE \E d \in Epochs : n \in Taken(d) \cup Carried(d)
        <4>1. PICK d \in Epochs : n \in Taken(d) \cup Carried(d)
          BY <3>4, ZenonT(40)
        <4>2. n \in Taken(d)' \cup Carried(d)'
          BY <1>11, <1>12, <4>1, ZenonT(40)
        <4>3. QED
          BY <4>2, ZenonT(40) DEF Found
      <3>5. CASE \E s \in Routers : router[s].at \in {"send", "enqueue"} /\ router[s].msg = n
        BY <1>6, <3>5, ZenonT(40) DEF Found
      <3>6. QED
        BY <3>1, <3>2, <3>3, <3>4, <3>5, ZenonT(40) DEF Found
    <2>2. QED
      BY <1>7, <2>1, ZenonT(40) DEF AllFound
  <1>15. /\ RouterHoldsNewest /\ RouterHoldsAlone /\ StoredInOrder
         /\ (\A d \in Epochs : CarriedInOrder(d)) /\ InOrder /\ OneWay /\ SendsCounted
    BY <1>1, ZenonT(40) DEF Tidy
  <1>16. RouterHoldsNewest'
    BY <1>6, <1>7, <1>15, ZenonT(40) DEF RouterHoldsNewest
  <1>17. RouterHoldsAlone'
    <2>1. ASSUME NEW s \in Routers, router[s].at \in {"send", "enqueue"}
          PROVE  /\ router[s].msg \notin Range(queue'[e])
                 /\ \A d \in Epochs : router[s].msg \notin Taken(d)' \cup Carried(d)'
      <3>1. /\ router[s].msg \notin Range(queue[epoch])
            /\ \A d \in Epochs : router[s].msg \notin Taken(d) \cup Carried(d)
        BY <1>15, <2>1, ZenonT(40) DEF RouterHoldsAlone
      <3>2. QED
        BY <1>4, <1>11, <1>13, <3>1, ZenonT(40)
    <2>2. QED
      BY <1>3, <1>6, <2>1, ZenonT(40) DEF RouterHoldsAlone
  <1>18. StoredInOrder'
    BY <1>3, <1>6, <1>13, <1>15, ZenonT(40) DEF StoredInOrder
  <1>19. \A d \in Epochs : CarriedInOrder(d)'
    <2>1. ASSUME NEW d \in Epochs, d # e
          PROVE  CarriedInOrder(d)'
      <3>1. CarriedInOrder(d)
        BY <1>15, ZenonT(40)
      <3>2. QED
        BY <1>5, <1>6, <1>11, <2>1, <3>1, ZenonT(40) DEF CarriedInOrder
    <2>2. CarriedInOrder(e)'
      <3>1. Rising(by, chan'[e]) /\ Range(chan'[e]) = {}
        BY <1>5, <1>6, NoMembers, ZenonT(40)
      <3>2. Before(by, Range(conn'[e].pending), Range(chan'[e]))
        BY <3>1, ZenonT(40) DEF Before
      <3>3. Before(by, Taken(e)', Range(conn'[e].pending) \cup Range(chan'[e]))
        BY <1>11, ZenonT(40) DEF Before
      <3>4. QED
        BY <1>4, <1>5, <1>6, <1>11, <3>1, <3>2, <3>3, ZenonT(40) DEF CarriedInOrder
    <2>3. QED
      BY <2>1, <2>2, ZenonT(40)
  <1>20. InOrder'
    BY <1>6, <1>15, ZenonT(40) DEF InOrder
  <1>21. OneWay'
    <2>1. \A d \in Epochs : d # e => Carried(d) \cap Range(p) = {}
      BY <1>4, <1>15, ZenonT(40) DEF OneWay
    <2>2. \A c, d \in Epochs : c # d => Carried(c)' \cap Carried(d)' = {}
      <3>1. ASSUME NEW c \in Epochs, NEW d \in Epochs, c # d
            PROVE  Carried(c)' \cap Carried(d)' = {}
        <4>1. CASE c = e
          BY <1>11, <2>1, <3>1, <4>1, ZenonT(40)
        <4>2. CASE d = e
          BY <1>11, <2>1, <3>1, <4>2, ZenonT(40)
        <4>3. CASE c # e /\ d # e
          BY <1>11, <1>15, <3>1, <4>3, ZenonT(40) DEF OneWay
        <4>4. QED
          BY <4>1, <4>2, <4>3, ZenonT(40)
      <3>2. QED
        BY <3>1, ZenonT(40)
    <2>3. QED
      BY <1>3, <1>13, <2>2, ZenonT(40) DEF OneWay
  <1>22. SendsCounted'
    <2>1. ASSUME NEW n \in Messages, Alive(n)'
          PROVE  Alive(n)
      <3>1. \E d \in Epochs : n \in Carried(d)'
        BY <1>3, <1>13, <2>1, ZenonT(40) DEF Alive
      <3>2. PICK d \in Epochs : n \in Carried(d)'
        BY <3>1, ZenonT(40)
      <3>3. CASE d = e
        BY <1>4, <1>11, <3>2, <3>3, ZenonT(40) DEF Alive
      <3>4. CASE d # e
        BY <1>11, <3>2, <3>4, ZenonT(40) DEF Alive
      <3>5. QED
        BY <3>3, <3>4, ZenonT(40)
    <2>2. \A n \in Messages : Sends(n)' = Sends(n)
      BY <1>6, ZenonT(40) DEF Sends
    <2>3. QED
      BY <1>6, <1>15, <2>1, <2>2, ZenonT(40) DEF SendsCounted
  <1>23. Tidy'
    BY <1>16, <1>17, <1>18, <1>19, <1>20, <1>21, <1>22, ZenonT(40) DEF Tidy
  <1>24. QED
    BY <1>8, <1>9, <1>10, <1>14, <1>23, ZenonT(40) DEF DeliveryInv

\* After a crash: q is the queue of the new entry, and nothing else is in memory.
NewBroker(e, q) ==
    /\ epoch' = e /\ e \in Epochs /\ restarts' = restarts + 1
    /\ entry' \in [epoch : {e}, connected : BOOLEAN]
    /\ q \in Seq(Published) /\ Range(q) \in SUBSET Range(durable) /\ Rising(by, q)
    /\ queue' \in [Epochs -> Seq(Published)] /\ queue'[e] = q
    /\ \A d \in Epochs : d > e => queue'[d] = <<>> /\ log[d] = <<>> /\ conn'[d] = Unused
    /\ chan' \in [Epochs -> Seq(Published)] /\ conn' \in [Epochs -> Conns(Published)]
    /\ \A d \in Epochs : chan'[d] = <<>> /\ conn'[d].pending = <<>> /\ conn'[d].inflight = {}
    /\ router' = [r \in Routers |-> Idle] /\ disk' \in Seq(Published) /\ Rising(by, disk')
    /\ lost' = lost \cup (Published \ (Sent \cup Range(q)))
    /\ UNCHANGED <<by, durable, log, skipped>>

\* What drain_offline leaves and returns at the start is in the order of the disk.
LEMMA DrainedIs ==
  ASSUME durable \in Seq(Published), Rising(by, durable), NEW d \in DrainedAtStart
  PROVE  /\ d.queue \in Seq(Published) /\ Range(d.queue) \in SUBSET Range(durable) /\ Rising(by, d.queue)
         /\ d.disk \in Seq(Published) /\ Rising(by, d.disk)
  <1>1. <<>> \in Seq(Published) /\ Len(durable) \in Nat
    BY SMTT(40)
  <1>2. CASE d = [queue |-> Newest(durable), disk |-> <<>>]
    <2>1. d.queue = Newest(durable) /\ d.disk = <<>>
      BY <1>2, ZenonT(40)
    <2>2. /\ Newest(durable) \in Seq(Published) /\ Range(Newest(durable)) \in SUBSET Range(durable)
          /\ Rising(by, Newest(durable))
      BY NewestOf, ZenonT(40)
    <2>3. Rising(by, <<>>)
      BY NoMembers, ZenonT(40)
    <2>4. QED
      BY <1>1, <2>1, <2>2, <2>3, ZenonT(40)
  <1>3. CASE \E k \in 0 .. Len(durable) - 1 : d = [queue |-> <<>>, disk |-> From(durable, k)]
    <2>1. PICK k \in 0 .. Len(durable) - 1 : d = [queue |-> <<>>, disk |-> From(durable, k)]
      BY <1>3, ZenonT(40)
    <2>2. d.queue = <<>> /\ d.disk = From(durable, k)
      BY <2>1, ZenonT(40)
    <2>3. k \in 0 .. Len(durable)
      BY <1>1, SMTT(40)
    <2>4. From(durable, k) \in Seq(Published) /\ Rising(by, From(durable, k))
      BY <2>3, Cutting, ZenonT(40)
    <2>5. QED
      BY <1>1, <2>2, <2>4, NoMembers, ZenonT(40)
  <1>4. QED
    BY <1>2, <1>3, ZenonT(40) DEF DrainedAtStart

\* A restart leaves the log of the past and the newest messages of the disk.
LEMMA RestartEffect ==
  ASSUME DeliveryInv, Restart
  PROVE  \E q : NewBroker(epoch + 1, q)
  <1>1. DeliveryTypeOK /\ Untouched /\ Tidy
    BY ZenonT(40) DEF DeliveryInv
  <1>2. PICK e, o : e = epoch + 1 /\ o = epoch
    BY ZenonT(40)
  <1>3. /\ o \in Epochs /\ MaxEpochs \in Nat /\ durable \in Seq(Published) /\ Rising(by, durable)
        /\ by \in Seq(Routers)
    BY <1>1, <1>2, DeliveryAssumption, ZenonT(40) DEF DeliveryTypeOK, Tidy, StoredInOrder
  <1>4. /\ e \in Epochs /\ epoch' = e /\ restarts' = restarts + 1
        /\ entry' = [epoch |-> e, connected |-> FALSE]
        /\ router' = [r \in Routers |-> Idle]
        /\ UNCHANGED <<by, durable, log, skipped>>
    BY <1>2, ZenonT(40) DEF Restart
  <1>d. PICK x \in DrainedAtStart :
          /\ queue' = [d \in Epochs |-> IF d = e THEN x.queue ELSE <<>>]
          /\ disk' = x.disk
          /\ lost' = lost \cup (DOMAIN by \ (Sent \cup Range(x.queue)))
    BY <1>2, ZenonT(40) DEF Restart
  <1>q. PICK q : q = x.queue
    BY ZenonT(40)
  <1>5. /\ queue' = [d \in Epochs |-> IF d = e THEN q ELSE <<>>]
        /\ chan' = [d \in Epochs |-> <<>>]
        /\ conn' = [d \in Epochs |-> IF d <= e THEN [Unused EXCEPT !.at = "done"] ELSE Unused]
        /\ lost' = lost \cup (DOMAIN by \ (Sent \cup Range(q)))
    BY <1>2, <1>d, <1>q, ZenonT(40) DEF Restart
  <1>6. /\ q \in Seq(Published) /\ Range(q) \in SUBSET Range(durable) /\ Rising(by, q)
        /\ disk' \in Seq(Published) /\ Rising(by, disk')
    BY <1>3, <1>d, <1>q, DrainedIs, ZenonT(40)
  <1>7. \A d \in Epochs : d > e => d > o /\ d # e /\ ~(d <= e)
    BY <1>2, <1>3, <1>4, SMTT(40) DEF Epochs
  <1>8. <<>> \in Seq(Published)
    BY SMTT(40)
  <1>9. /\ queue' \in [Epochs -> Seq(Published)] /\ queue'[e] = q
        /\ \A d \in Epochs : d # e => queue'[d] = <<>>
    BY <1>4, <1>5, <1>6, <1>8, ZenonT(40)
  <1>10. chan' \in [Epochs -> Seq(Published)] /\ \A d \in Epochs : chan'[d] = <<>>
    BY <1>5, <1>8, ZenonT(40)
  <1>11. /\ conn' \in [Epochs -> Conns(Published)]
         /\ \A d \in Epochs : conn'[d].pending = <<>> /\ conn'[d].inflight = {}
         /\ \A d \in Epochs : d > e => conn'[d] = Unused
    <2>1. PICK u, v : u = Unused /\ v = [Unused EXCEPT !.at = "done"]
      BY ZenonT(40)
    <2>2. u \in Conns(Published) /\ u.pending = <<>> /\ u.inflight = {}
      <3>1. Unused \in Conns(Published)
        BY <1>8, ZenonT(40) DEF Unused, Conns, Stages
      <3>2. QED
        BY <2>1, <3>1, UnusedIs, ZenonT(40)
    <2>3. v \in Conns(Published) /\ v.pending = <<>> /\ v.inflight = {}
      <3>1. v = [u EXCEPT !.at = "done"]
        BY <2>1, ZenonT(40)
      <3>2. QED
        BY <2>2, <3>1, ZenonT(40) DEF Conns, Stages
    <2>4. conn' = [d \in Epochs |-> IF d <= e THEN v ELSE u]
      BY <1>5, <2>1, ZenonT(40)
    <2>5. QED
      BY <1>7, <2>1, <2>2, <2>3, <2>4, ZenonT(40)
  <1>12. \A d \in Epochs : d > e => log[d] = <<>>
    BY <1>1, <1>2, <1>7, ZenonT(40) DEF Untouched
  <1>13. DOMAIN by = Published
    BY <1>3, SMTT(40) DEF Published
  <1>14. lost' = lost \cup (Published \ (Sent \cup Range(q)))
    BY <1>5, <1>13, ZenonT(40)
  <1>15. entry' \in [epoch : {e}, connected : BOOLEAN]
    BY <1>4, ZenonT(40)
  <1>16. NewBroker(e, q)
    BY <1>4, <1>6, <1>7, <1>9, <1>10, <1>11, <1>12, <1>14, <1>15, ZenonT(40) DEF NewBroker
  <1>17. QED
    BY <1>2, <1>16, ZenonT(40)

\* After a crash the messages of the disk may be sent once more, in order.
LEMMA RestartKeeps ==
  ASSUME DeliveryInv, Restart
  PROVE  DeliveryInv'
  <1>1. DeliveryTypeOK /\ Untouched /\ ReplayedFirst /\ AllFound /\ Tidy
    BY ZenonT(40) DEF DeliveryInv
  <1>2. PICK e, q : NewBroker(e, q)
    BY RestartEffect, ZenonT(40)
  <1>3. /\ epoch' = e /\ e \in Epochs /\ restarts' = restarts + 1
        /\ entry' \in [epoch : {e}, connected : BOOLEAN]
        /\ q \in Seq(Published) /\ Range(q) \in SUBSET Range(durable) /\ Rising(by, q)
        /\ queue' \in [Epochs -> Seq(Published)] /\ queue'[e] = q
    BY <1>2, ZenonT(40) DEF NewBroker
  <1>4. /\ \A d \in Epochs : d > e => queue'[d] = <<>> /\ log[d] = <<>> /\ conn'[d] = Unused
        /\ chan' \in [Epochs -> Seq(Published)] /\ conn' \in [Epochs -> Conns(Published)]
        /\ \A d \in Epochs : chan'[d] = <<>> /\ conn'[d].pending = <<>> /\ conn'[d].inflight = {}
    BY <1>2, ZenonT(40) DEF NewBroker
  <1>5. /\ router' = [r \in Routers |-> Idle] /\ disk' \in Seq(Published) /\ Rising(by, disk')
        /\ lost' = lost \cup (Published \ (Sent \cup Range(q)))
        /\ by' = by /\ durable' = durable /\ log' = log /\ skipped' = skipped
    BY <1>2, ZenonT(40) DEF NewBroker
  <1>6. Published' = Published
    BY <1>5, ZenonT(40) DEF Published
  <1>7. \A r \in Routers : router'[r] = Idle /\ router'[r].at \notin {"send", "enqueue"}
    <2>1. \A x : x = Idle => x.at \notin {"send", "enqueue"}
      BY SMTT(40) DEF Idle
    <2>2. QED
      BY <1>5, <2>1, ZenonT(40)
  <1>8. DeliveryTypeOK'
    <2>1. restarts' \in Nat
      BY <1>1, <1>3, SMTT(40) DEF DeliveryTypeOK
    <2>2. disk' \in Seq(Published)
      BY <1>5, ZenonT(40)
    <2>3. router' \in [Routers -> Deliveries(Published, e) \cup {Idle}]
      BY <1>5, ZenonT(40)
    <2>4. QED
      BY <1>1, <1>3, <1>4, <1>5, <1>6, <2>1, <2>2, <2>3, ZenonT(40) DEF DeliveryTypeOK
  <1>9. Untouched'
    BY <1>3, <1>4, <1>5, ZenonT(40) DEF Untouched
  <1>10. ReplayedFirst'
    BY <1>4, ZenonT(40) DEF ReplayedFirst
  <1>11. \A d \in Epochs : /\ Taken(d)' = Range(log[d]) /\ Carried(d)' = {} /\ Loose(d)' = {}
                           /\ Range(chan'[d]) = {} /\ Range(conn'[d].pending) = {}
                           /\ Rising(by, chan'[d]) /\ Rising(by, conn'[d].pending)
    <2>1. \A d \in Epochs : Taken(d)' = Range(log[d]) /\ Loose(d)' = {}
      BY <1>4, <1>5, ZenonT(40) DEF Taken, Loose
    <2>2. \A d \in Epochs : Range(chan'[d]) = {} /\ Range(conn'[d].pending) = {}
      BY <1>4, NoMembers, ZenonT(40)
    <2>3. \A d \in Epochs : Carried(d)' = {}
      BY <2>1, <2>2, ZenonT(40) DEF Carried
    <2>4. \A d \in Epochs : Rising(by, chan'[d]) /\ Rising(by, conn'[d].pending)
      BY <1>4, NoMembers, ZenonT(40)
    <2>5. QED
      BY <2>1, <2>2, <2>3, <2>4, ZenonT(40)
  <1>12. AllFound'
    <2>1. ASSUME NEW n \in Published
          PROVE  Found(n)'
      <3>1. CASE n \in Sent
        <4>1. PICK d \in Epochs : n \in Range(log[d])
          BY <3>1, ZenonT(40) DEF Sent
        <4>2. QED
          BY <1>11, <4>1, ZenonT(40) DEF Found
      <3>2. CASE n \in Range(q)
        BY <1>3, <3>2, ZenonT(40) DEF Found
      <3>3. CASE n \notin Sent \cup Range(q)
        BY <1>5, <3>3, ZenonT(40) DEF Found
      <3>4. QED
        BY <3>1, <3>2, <3>3, ZenonT(40)
    <2>2. QED
      BY <1>6, <2>1, ZenonT(40) DEF AllFound
  <1>13. StoredInOrder /\ InOrder /\ SendsCounted
    BY <1>1, ZenonT(40) DEF Tidy
  <1>14. RouterHoldsNewest' /\ RouterHoldsAlone'
    BY <1>7, ZenonT(40) DEF RouterHoldsNewest, RouterHoldsAlone
  <1>15. StoredInOrder'
    <2>1. Rising(by, disk')
      BY <1>5, ZenonT(40)
    <2>2. QED
      BY <1>3, <1>5, <1>13, <2>1, ZenonT(40) DEF StoredInOrder
  <1>16. ASSUME NEW d \in Epochs
         PROVE  CarriedInOrder(d)'
    <2>1. Before(by, Range(conn'[d].pending), Range(chan'[d]))
      BY <1>11, ZenonT(40) DEF Before
    <2>2. Before(by, Taken(d)', Range(conn'[d].pending) \cup Range(chan'[d]))
      BY <1>11, ZenonT(40) DEF Before
    <2>3. Loose(d)' \subseteq skipped'
      BY <1>11, ZenonT(40)
    <2>4. QED
      BY <1>5, <1>11, <2>1, <2>2, <2>3, ZenonT(40) DEF CarriedInOrder
  <1>17. InOrder'
    BY <1>5, <1>13, ZenonT(40) DEF InOrder
  <1>18. OneWay'
    BY <1>11, ZenonT(40) DEF OneWay
  <1>19. SendsCounted'
    <2>1. ASSUME NEW n \in Messages
          PROVE  /\ IsFiniteSet(Sends(n)) /\ Cardinality(Sends(n)) <= 1 + (restarts + 1)
                 /\ Cardinality(Sends(n)) <= restarts + 1
      <3>1. IsFiniteSet(Sends(n)) /\ Cardinality(Sends(n)) <= 1 + restarts
        BY <1>13, ZenonT(40) DEF SendsCounted
      <3>2. PICK c \in Nat : c = Cardinality(Sends(n))
        BY <3>1, FS_CardinalityType, ZenonT(40)
      <3>3. c <= 1 + restarts /\ restarts \in Nat
        BY <1>1, <3>1, <3>2, ZenonT(40) DEF DeliveryTypeOK
      <3>4. c <= 1 + (restarts + 1) /\ c <= restarts + 1
        BY <3>3, SMTT(40)
      <3>5. QED
        BY <3>1, <3>2, <3>4, ZenonT(40)
    <2>2. \A n \in Messages : Sends(n)' = Sends(n)
      BY <1>5, ZenonT(40) DEF Sends
    <2>3. QED
      BY <1>3, <2>1, <2>2, ZenonT(40) DEF SendsCounted
  <1>20. Tidy'
    BY <1>14, <1>15, <1>16, <1>17, <1>18, <1>19, ZenonT(40) DEF Tidy
  <1>21. QED
    BY <1>8, <1>9, <1>10, <1>12, <1>20, ZenonT(40) DEF DeliveryInv

----------------------------------------------------------------------------
(***************************************************************************)
(* The theorems.                                                           *)
(***************************************************************************)

\* A broker that has just loaded the snapshot satisfies the invariant.
LEMMA InitDelivery == Init => DeliveryInv
  <1> SUFFICES ASSUME Init
               PROVE  DeliveryInv
    OBVIOUS
  <1>1. /\ entry = [epoch |-> 1, connected |-> FALSE] /\ epoch = 1
        /\ queue = [e \in Epochs |-> <<>>] /\ chan = [e \in Epochs |-> <<>>]
        /\ router = [r \in Routers |-> Idle] /\ disk = <<>> /\ durable = <<>>
        /\ log = [e \in Epochs |-> <<>>] /\ by = <<>>
        /\ restarts = 0
        /\ conn = [e \in Epochs |-> IF e = 1 THEN [Unused EXCEPT !.at = "done"] ELSE Unused]
    BY ZenonT(40) DEF Init
  <1>2. <<>> \in Seq(Published) /\ <<>> \in Seq(Routers) /\ Len(<<>>) = 0
    BY SMTT(40)
  <1>3. 1 \in Epochs /\ 0 <= MaxMessages /\ 0 \in Nat /\ \A e \in Epochs : e > 1 => e # 1
    BY DeliveryAssumption, SMTT(40) DEF Epochs
  <1>4. Published = {}
    <2>1. Published = 1 .. 0
      BY <1>1, <1>2, ZenonT(40) DEF Published
    <2>2. QED
      BY <2>1, SMTT(40)
  <1>5. /\ conn \in [Epochs -> Conns(Published)]
        /\ \A e \in Epochs : conn[e].pending = <<>> /\ conn[e].inflight = {}
        /\ \A e \in Epochs : e > 1 => conn[e] = Unused
    <2>1. PICK u, v : u = Unused /\ v = [Unused EXCEPT !.at = "done"]
      BY ZenonT(40)
    <2>2. u \in Conns(Published) /\ u.pending = <<>> /\ u.inflight = {}
      <3>1. Unused \in Conns(Published)
        BY <1>2, ZenonT(40) DEF Unused, Conns, Stages
      <3>2. QED
        BY <2>1, <3>1, UnusedIs, ZenonT(40)
    <2>3. v \in Conns(Published) /\ v.pending = <<>> /\ v.inflight = {}
      <3>1. v = [u EXCEPT !.at = "done"]
        BY <2>1, ZenonT(40)
      <3>2. QED
        BY <2>2, <3>1, ZenonT(40) DEF Conns, Stages
    <2>4. conn = [d \in Epochs |-> IF d = 1 THEN v ELSE u]
      BY <1>1, <2>1, ZenonT(40)
    <2>5. QED
      BY <1>3, <2>1, <2>2, <2>3, <2>4, ZenonT(40)
  <1>6. DeliveryTypeOK
    <2>1. entry \in [epoch : {epoch}, connected : BOOLEAN]
      BY <1>1, ZenonT(40)
    <2>2. /\ queue \in [Epochs -> Seq(Published)] /\ chan \in [Epochs -> Seq(Published)]
          /\ log \in [Epochs -> Seq(Published)]
      BY <1>1, <1>2, ZenonT(40)
    <2>3. router \in [Routers -> Deliveries(Published, epoch) \cup {Idle}]
      BY <1>1, ZenonT(40)
    <2>4. QED
      BY <1>1, <1>2, <1>3, <1>5, <2>1, <2>2, <2>3, ZenonT(40) DEF DeliveryTypeOK
  <1>7. Untouched
    BY <1>1, <1>5, ZenonT(40) DEF Untouched
  <1>8. ReplayedFirst
    BY <1>5, ZenonT(40) DEF ReplayedFirst
  <1>9. AllFound
    BY <1>4, ZenonT(40) DEF AllFound
  <1>10. \A r \in Routers : router[r] = Idle /\ router[r].at \notin {"send", "enqueue"}
    <2>1. \A x : x = Idle => x.at \notin {"send", "enqueue"}
      BY SMTT(40) DEF Idle
    <2>2. QED
      BY <1>1, <2>1, ZenonT(40)
  <1>11. \A e \in Epochs : /\ queue[e] = <<>> /\ chan[e] = <<>> /\ log[e] = <<>>
                           /\ Range(queue[e]) = {} /\ Taken(e) = {} /\ Carried(e) = {} /\ Loose(e) = {}
    <2>1. \A e \in Epochs : queue[e] = <<>> /\ chan[e] = <<>> /\ log[e] = <<>>
      BY <1>1, ZenonT(40)
    <2>2. \A e \in Epochs : /\ Range(queue[e]) = {} /\ Range(chan[e]) = {} /\ Range(log[e]) = {}
                            /\ Range(conn[e].pending) = {}
      BY <1>5, <2>1, NoMembers, ZenonT(40)
    <2>3. QED
      BY <1>5, <2>1, <2>2, ZenonT(40) DEF Taken, Carried, Loose
  <1>12. RouterHoldsNewest /\ RouterHoldsAlone
    BY <1>10, ZenonT(40) DEF RouterHoldsNewest, RouterHoldsAlone
  <1>13. StoredInOrder
    BY <1>1, <1>3, <1>11, NoMembers, ZenonT(40) DEF StoredInOrder
  <1>14. ASSUME NEW e \in Epochs
         PROVE  CarriedInOrder(e)
    <2>1. Rising(by, conn[e].pending) /\ Rising(by, chan[e])
      BY <1>5, <1>11, NoMembers, ZenonT(40)
    <2>2. Range(conn[e].pending) = {}
      BY <1>5, NoMembers, ZenonT(40)
    <2>3. QED
      BY <1>11, <2>1, <2>2, ZenonT(40) DEF CarriedInOrder, Before
  <1>15. InOrder
    <2>1. \A e \in Epochs : DOMAIN log[e] = {}
      <3>1. DOMAIN <<>> = {}
        BY SMTT(40)
      <3>2. QED
        BY <1>11, <3>1, ZenonT(40)
    <2>2. QED
      BY <2>1, ZenonT(40) DEF InOrder
  <1>16. OneWay
    BY <1>11, ZenonT(40) DEF OneWay
  <1>17. SendsCounted
    <2>1. ASSUME NEW m \in Messages
          PROVE  Sends(m) = {}
      <3>1. \A e \in Epochs : DOMAIN log[e] = {}
        <4>1. DOMAIN <<>> = {}
          BY SMTT(40)
        <4>2. QED
          BY <1>11, <4>1, ZenonT(40)
      <3>2. \A x : x \in SendsIn(log, m)
                 <=> \E e \in Epochs : \E i \in DOMAIN log[e] : log[e][i] = m /\ x = <<e, i>>
        BY SendsAre
      <3>3. QED
        BY <3>1, <3>2, ZenonT(40) DEF Sends
    <2>2. IsFiniteSet({}) /\ Cardinality({}) = 0
      BY FS_EmptySet, ZenonT(40)
    <2>3. 0 <= 1 + restarts /\ 0 <= restarts
      BY <1>1, SMTT(40)
    <2>4. QED
      BY <2>1, <2>2, <2>3, ZenonT(40) DEF SendsCounted
  <1>18. Tidy
    BY <1>12, <1>13, <1>14, <1>15, <1>16, <1>17, ZenonT(40) DEF Tidy
  <1>19. QED
    BY <1>6, <1>7, <1>8, <1>9, <1>18, ZenonT(40) DEF DeliveryInv

\* A step that changes nothing keeps the invariant.
LEMMA StutterKeeps ==
  ASSUME DeliveryInv, UNCHANGED vars
  PROVE  DeliveryInv'
  <1>1. DeliveryTypeOK /\ Tidy /\ AllFound
    BY ZenonT(40) DEF DeliveryInv
  <1>2. ConnsStill /\ UNCHANGED <<by, router, queue, lost, stranded, disk, durable>>
    BY ZenonT(40) DEF vars, ConnsStill, sessionVars, routerVars, diskVars
  <1>3. DeliveryTypeOK' /\ Untouched' /\ ReplayedFirst'
    BY <1>1, <1>2, RouterTypes, ZenonT(40) DEF DeliveryTypeOK
  <1>4. AllFound'
    <2>1. Published' = Published
      BY <1>2, ZenonT(40) DEF Published
    <2>2. QED
      BY <1>1, <1>2, <2>1, ConnsKnow, ZenonT(40) DEF AllFound, Found, ConnsStill
  <1>5. QueueFades /\ DiskFades /\ \A r \in Routers : RouterFades(r)
    BY <1>1, <1>2, Still, ZenonT(40)
  <1>6. Tidy'
    BY <1>1, <1>2, <1>5, RouterFade, ZenonT(40)
  <1>7. QED
    BY <1>3, <1>4, <1>6, ZenonT(40) DEF DeliveryInv

\* Every step of a router, a connection, register, the engine or a crash keeps it.
LEMMA DeliveryStep == DeliveryInv /\ [Next]_vars => DeliveryInv'
  <1> SUFFICES ASSUME DeliveryInv, [Next]_vars
               PROVE  DeliveryInv'
    OBVIOUS
  <1>1. ASSUME NEW r \in Routers, Publish(r) \/ RouterStep(r)
        PROVE  DeliveryInv'
    BY <1>1, PublishKeeps, TrySendKeeps, SendRefusedKeeps, EnqueueKeeps, PushOfflineKeeps, ZenonT(40)
       DEF RouterStep
  <1>2. ASSUME NEW e \in Epochs, ConnectionStep(e)
        PROVE  DeliveryInv'
    <2>1. CASE Connack(e) \/ Replay(e) \/ ScanDisk(e) \/ RemoveKey(e) \/ ClearDone(e)
      BY <2>1, ConnackKeeps, ReplayKeeps, ScanDiskKeeps, RemoveKeyKeeps, ClearDoneKeeps, ZenonT(40)
    <2>2. CASE Deliver(e) \/ DropReceiver(e) \/ ChannelEnds(e)
      BY <2>2, DeliverKeeps, DropReceiverKeeps, ChannelEndsKeeps, ZenonT(40)
    <2>3. CASE \E m \in Messages : Acknowledge(e, m) \/ Retransmit(e, m)
      BY <2>3, AcknowledgeKeeps, RetransmitKeeps, ZenonT(40)
    <2>4. QED
      BY <1>2, <2>1, <2>2, <2>3, ZenonT(40) DEF ConnectionStep
  <1>3. ASSUME NEW e \in Epochs, ReplayTick(e) \/ Fail(e)
        PROVE  DeliveryInv'
    BY <1>3, ReplayTickKeeps, FailKeeps, ZenonT(40)
  <1>4. CASE Register \/ Flush \/ Restart
    BY <1>4, RegisterKeeps, FlushKeeps, RestartKeeps, ZenonT(40)
  <1>5. CASE UNCHANGED vars
    BY <1>5, StutterKeeps, ZenonT(40)
  <1>6. QED
    BY <1>1, <1>2, <1>3, <1>4, <1>5, ZenonT(40) DEF Next

\* The inductive invariant of the delivery to a persistent session holds in every
\* reachable state: types, where each message is, who may still send it, and order.
THEOREM DeliveryInvariant == Spec => []DeliveryInv
  BY InitDelivery, DeliveryStep, PTL DEF Spec

\* Where the invariant finds a message, NothingVanishes does.
LEMMA FoundIs == DeliveryInv => NothingVanishes
  <1> SUFFICES ASSUME DeliveryInv, NEW m \in DOMAIN by
               PROVE  m \in Sent \cup lost \cup stranded \cup Waiting
    BY ZenonT(40) DEF NothingVanishes
  <1>1. DeliveryTypeOK /\ AllFound
    BY ZenonT(40) DEF DeliveryInv
  <1>2. entry.epoch = epoch /\ by \in Seq(Routers)
    BY <1>1, ZenonT(40) DEF DeliveryTypeOK
  <1>3. m \in Published
    BY <1>2, SMTT(40) DEF Published
  <1>4. Found(m)
    BY <1>1, <1>3, ZenonT(40) DEF AllFound
  <1>5. CASE m \in lost \/ m \in stranded \/ m \in Range(queue[epoch])
    BY <1>2, <1>5, ZenonT(40) DEF Waiting
  <1>6. CASE \E e \in Epochs : m \in Taken(e) \cup Carried(e)
    <2>1. PICK e \in Epochs : m \in Taken(e) \cup Carried(e)
      BY <1>6, ZenonT(40)
    <2>2. m \in Range(log[e]) \/ m \in Range(chan[e]) \cup Range(conn[e].pending) \cup conn[e].inflight
      BY <2>1, ZenonT(40) DEF Taken, Carried, Loose
    <2>3. QED
      BY <2>2, ZenonT(40) DEF Sent, Waiting
  <1>7. CASE \E r \in Routers : router[r].at \in {"send", "enqueue"} /\ router[r].msg = m
    <2>1. PICK p \in Routers : router[p].at \in {"send", "enqueue"} /\ router[p].msg = m
      BY <1>7, ZenonT(40)
    <2>2. p \in {s \in Routers : router[s].at \in {"send", "enqueue"}}
      BY <2>1, ZenonT(40)
    <2>3. m \in {router[r].msg : r \in {s \in Routers : router[s].at \in {"send", "enqueue"}}}
      BY <2>1, <2>2, ZenonT(40)
    <2>4. m \in Waiting
      BY <2>3, ZenonT(40) DEF Waiting
    <2>5. QED
      BY <2>4, ZenonT(40)
  <1>8. QED
    BY <1>4, <1>5, <1>6, <1>7, ZenonT(40) DEF Found

\* deliver_or_enqueue and register lose no message in between: each one published
\* was sent, given up, put into a queue that register had replaced or still waits,
\* whatever routers, connections, takeovers, failing writes and restarts do.
THEOREM NoMessageVanishes == Spec => []NothingVanishes
  <1>1. DeliveryInv => NothingVanishes
    BY FoundIs
  <1>2. QED
    BY <1>1, DeliveryInvariant, PTL

\* register drains the queue and replaces the entry at once, so that no message
\* is sent more than once, and once more for every restart of the broker.
THEOREM SentOnceEachRun == Spec => []SentOncePerRun
  <1>1. DeliveryInv => SentOncePerRun
    BY ZenonT(40) DEF DeliveryInv, Tidy, SendsCounted, SentOncePerRun
  <1>2. QED
    BY <1>1, DeliveryInvariant, PTL

\* The messages of one router arrive on every connection in the order of their
\* publication: the replay, then the channel, except what a timer cancelled first.
THEOREM DeliveredInOrder == Spec => []InOrder
  <1>1. DeliveryInv => InOrder
    BY ZenonT(40) DEF DeliveryInv, Tidy
  <1>2. QED
    BY <1>1, DeliveryInvariant, PTL
=============================================================================
