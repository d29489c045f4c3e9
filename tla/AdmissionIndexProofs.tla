------------------------ MODULE AdmissionIndexProofs ------------------------
(***************************************************************************)
(* What the tasks of the broker share and touch in separate steps.         *)
(*                                                                         *)
(* Admission: its counters are exact and its limits hold unless two        *)
(* decisions overlapped, for every set of connections, listeners,          *)
(* addresses and security sections.                                        *)
(*                                                                         *)
(* SubscriptionIndex: the reverse index follows the tree for every client  *)
(* that one task acts for, and shared subscriptions deal their messages    *)
(* out evenly, for any number of clients, tasks, filters and QoS levels.   *)
(***************************************************************************)
EXTENDS Admission, SubscriptionIndex, FiniteSetTheorems, TLAPS

Phases ==
    {"new", "vetted", "loaded", "handshake", "checked", "counted", "pending",
     "promoted", "online", "failing", "unguarded", "closing", "gone"}

HalfOpen == {"pending", "failing", "unguarded"}
Open == {"online"}
OnCounter == {"counted", "pending", "promoted", "online", "failing", "closing"}
Taken == {"checked", "counted", "pending", "promoted", "online", "failing", "closing"}
Entered == {"handshake", "checked", "counted", "pending", "promoted", "online",
            "failing", "unguarded"}

\* The connections of an address that are in one of the phases of S.
At(S, i) == {c \in In(S) : IpOf[c] = i}

TypeOK ==
    /\ policy.enabled \in BOOLEAN /\ policy.maxPerIp \in Nat
    /\ ipCount \in [Ips -> Nat]
    /\ current \in Nat /\ pending \in Nat
    /\ phase \in [Conns -> Phases]
    /\ seen \in [Conns -> Nat]
    /\ reloads \in Nat

\* As long as nothing raced, what a listener loaded is not below
\* connections_current, and no connection is between the two gauges.
LoadedInv ==
    ~raced => \A c \in In({"loaded"}) : current <= seen[c] /\ In({"promoted"}) = {}

\* The limits, with the connection that has passed the second check and is
\* about to be counted.
RoomInv == ~raced => Cardinality(In(Entered)) <= MaxConnections
AddressInv ==
    reloads = 0 /\ CountsIps =>
        \A i \in Ips \ racedIp :
            Cardinality(At(Taken, i)) <= policy.maxPerIp

\* The three conjuncts of CountersExact.
PendingExact == pending = Cardinality(In(HalfOpen))
CurrentExact == current = Cardinality(In(Open))
IpExact ==
    reloads = 0 => \A i \in Ips :
        ipCount[i] = IF CountsIps THEN Cardinality(At(OnCounter, i)) ELSE 0

\* The inductive invariant.
AdmissionInv ==
    /\ TypeOK
    /\ PendingExact /\ CurrentExact /\ IpExact
    /\ LoadedInv /\ RoomInv /\ AddressInv

-----------------------------------------------------------------------------
(* What moving one connection does to the sets that are counted.           *)

\* A new member makes a finite set one larger.
LEMMA CardAdd ==
  ASSUME NEW S, NEW T, NEW x, IsFiniteSet(S), x \notin S, T = S \cup {x}
  PROVE  Cardinality(T) = Cardinality(S) + 1
  BY FS_AddElement, ZenonT(40)

\* Without one of its members a finite set is one smaller.
LEMMA CardRemove ==
  ASSUME NEW S, NEW T, NEW x, IsFiniteSet(S), x \in S, T = S \ {x}
  PROVE  Cardinality(T) = Cardinality(S) - 1
  BY FS_RemoveElement, ZenonT(40)

\* The connections at given positions can be counted, per address too.
LEMMA CardTypes ==
  ASSUME NEW S
  PROVE  /\ IsFiniteSet(In(S)) /\ Cardinality(In(S)) \in Nat
         /\ \A i : IsFiniteSet(At(S, i)) /\ Cardinality(At(S, i)) \in Nat
  <1>1. In(S) \subseteq Conns /\ \A i : At(S, i) \subseteq Conns
    BY ZenonT(40) DEF In, At
  <1>2. QED
    BY <1>1, ConnsFinite, FS_Subset, FS_CardinalityType, ZenonT(40)

\* The same in the next state.
LEMMA CardTypesNext ==
  ASSUME NEW S
  PROVE  /\ IsFiniteSet(In(S)') /\ Cardinality(In(S)') \in Nat
         /\ \A i : IsFiniteSet(At(S, i)') /\ Cardinality(At(S, i)') \in Nat
  <1>1. In(S)' \subseteq Conns /\ \A i : At(S, i)' \subseteq Conns
    BY ZenonT(40) DEF In, At
  <1>2. QED
    BY <1>1, ConnsFinite, FS_Subset, FS_CardinalityType, ZenonT(40)

\* A connection that moves changes only its own membership.
LEMMA Moved ==
  ASSUME TypeOK, NEW c \in Conns, NEW p, Goto(c, p), NEW S
  PROVE  \A d \in Conns : d \in In(S)' <=> IF d = c THEN p \in S ELSE d \in In(S)
  <1>1. \A d \in Conns : phase'[d] = IF d = c THEN p ELSE phase[d]
    BY SMTT(40) DEF TypeOK, Goto
  <1>2. QED
    BY <1>1, ZenonT(40) DEF In

\* A move within or outside the positions S leaves their connections as they are.
LEMMA Stays ==
  ASSUME TypeOK, NEW c \in Conns, NEW p, Goto(c, p), NEW S,
         p \in S <=> phase[c] \in S
  PROVE  In(S)' = In(S) /\ \A i : At(S, i)' = At(S, i)
  <1>1. \A d \in Conns : d \in In(S)' <=> d \in In(S)
    BY Moved, ZenonT(40) DEF In
  <1>2. In(S) \subseteq Conns /\ In(S)' \subseteq Conns
    BY ZenonT(40) DEF In
  <1>3. In(S)' = In(S)
    BY <1>1, <1>2, ZenonT(40)
  <1>4. QED
    BY <1>3, ZenonT(40) DEF At

\* A move into S adds one connection, at the address of the one that moves.
LEMMA Gains ==
  ASSUME TypeOK, NEW c \in Conns, NEW p, Goto(c, p), NEW S,
         p \in S, phase[c] \notin S
  PROVE  /\ In(S)' = In(S) \cup {c}
         /\ Cardinality(In(S)') = Cardinality(In(S)) + 1
         /\ Cardinality(At(S, IpOf[c])') = Cardinality(At(S, IpOf[c])) + 1
         /\ \A i : i # IpOf[c] => At(S, i)' = At(S, i)
  <1>1. \A d \in Conns : d \in In(S)' <=> d \in In(S) \/ d = c
    BY Moved, ZenonT(40)
  <1>2. In(S) \subseteq Conns /\ In(S)' \subseteq Conns /\ c \notin In(S)
    BY ZenonT(40) DEF In
  <1>3. In(S)' = In(S) \cup {c}
    BY <1>1, <1>2, ZenonT(40)
  <1>4. At(S, IpOf[c])' = At(S, IpOf[c]) \cup {c} /\ c \notin At(S, IpOf[c])
    BY <1>2, <1>3, ZenonT(40) DEF At
  <1>5. \A i : i # IpOf[c] => At(S, i)' = At(S, i)
    BY <1>3, ZenonT(40) DEF At
  <1>6. IsFiniteSet(In(S)) /\ IsFiniteSet(At(S, IpOf[c]))
    BY CardTypes, ZenonT(40)
  <1>7. Cardinality(In(S)') = Cardinality(In(S)) + 1
    BY <1>2, <1>3, <1>6, CardAdd, ZenonT(40)
  <1>8. Cardinality(At(S, IpOf[c])') = Cardinality(At(S, IpOf[c])) + 1
    BY <1>4, <1>6, CardAdd, ZenonT(40)
  <1>9. QED
    BY <1>3, <1>5, <1>7, <1>8, ZenonT(40)

\* A move out of S removes one connection, at the address of the one that moves.
LEMMA Loses ==
  ASSUME TypeOK, NEW c \in Conns, NEW p, Goto(c, p), NEW S,
         p \notin S, phase[c] \in S
  PROVE  /\ In(S)' = In(S) \ {c}
         /\ Cardinality(In(S)') = Cardinality(In(S)) - 1
         /\ Cardinality(At(S, IpOf[c])') = Cardinality(At(S, IpOf[c])) - 1
         /\ \A i : i # IpOf[c] => At(S, i)' = At(S, i)
  <1>1. \A d \in Conns : d \in In(S)' <=> d \in In(S) /\ d # c
    BY Moved, ZenonT(40)
  <1>2. In(S) \subseteq Conns /\ In(S)' \subseteq Conns /\ c \in In(S)
    BY ZenonT(40) DEF In
  <1>3. In(S)' = In(S) \ {c}
    BY <1>1, <1>2, ZenonT(40)
  <1>4. At(S, IpOf[c])' = At(S, IpOf[c]) \ {c} /\ c \in At(S, IpOf[c])
    BY <1>2, <1>3, ZenonT(40) DEF At
  <1>5. \A i : i # IpOf[c] => At(S, i)' = At(S, i)
    BY <1>3, ZenonT(40) DEF At
  <1>6. IsFiniteSet(In(S)) /\ IsFiniteSet(At(S, IpOf[c]))
    BY CardTypes, ZenonT(40)
  <1>7. Cardinality(In(S)') = Cardinality(In(S)) - 1
    BY <1>2, <1>3, <1>6, CardRemove, ZenonT(40)
  <1>8. Cardinality(At(S, IpOf[c])') = Cardinality(At(S, IpOf[c])) - 1
    BY <1>4, <1>6, CardRemove, ZenonT(40)
  <1>9. QED
    BY <1>3, <1>5, <1>7, <1>8, ZenonT(40)

\* A move that does not enter S adds no connection to it.
LEMMA Shrinks ==
  ASSUME TypeOK, NEW c \in Conns, NEW p, Goto(c, p), NEW S,
         p \in S => phase[c] \in S
  PROVE  /\ In(S)' \subseteq In(S)
         /\ Cardinality(In(S)') <= Cardinality(In(S))
         /\ \A i : Cardinality(At(S, i)') <= Cardinality(At(S, i))
  <1>1. \A d \in Conns : d \in In(S)' => d \in In(S)
    BY Moved, ZenonT(40) DEF In
  <1>2. In(S)' \subseteq In(S)
    BY <1>1, ZenonT(40) DEF In
  <1>3. \A i : At(S, i)' \subseteq At(S, i)
    BY <1>2, ZenonT(40) DEF At
  <1>4. IsFiniteSet(In(S)) /\ \A i : IsFiniteSet(At(S, i))
    BY CardTypes, ZenonT(40)
  <1>5. Cardinality(In(S)') <= Cardinality(In(S))
    BY <1>2, <1>4, FS_Subset, ZenonT(40)
  <1>6. \A i : Cardinality(At(S, i)') <= Cardinality(At(S, i))
    BY <1>3, <1>4, FS_Subset, ZenonT(40)
  <1>7. QED
    BY <1>2, <1>5, <1>6, ZenonT(40)

-----------------------------------------------------------------------------
(* When a step preserves each conjunct.                                    *)

\* pending stays exact where neither it nor the half-open connections change.
LEMMA KeepPending ==
  ASSUME PendingExact, In(HalfOpen)' = In(HalfOpen), pending' = pending
  PROVE  PendingExact'
  BY ZenonT(40) DEF PendingExact, HalfOpen

\* current stays exact where neither it nor the open connections change.
LEMMA KeepCurrent ==
  ASSUME CurrentExact, In(Open)' = In(Open), current' = current
  PROVE  CurrentExact'
  BY ZenonT(40) DEF CurrentExact, Open

\* The counters per address stay exact where neither they nor those counted change.
LEMMA KeepIp ==
  ASSUME IpExact, \A i : At(OnCounter, i)' = At(OnCounter, i),
         policy' = policy, ipCount' = ipCount, reloads' = reloads
  PROVE  IpExact'
  <1>1. \A i : Cardinality(At(OnCounter, i)') = Cardinality(At(OnCounter, i))
    BY ZenonT(40)
  <1>2. CountsIps' <=> CountsIps
    BY ZenonT(40) DEF CountsIps
  <1>3. QED
    BY <1>1, <1>2, SMTT(40) DEF IpExact, Ips, OnCounter

\* What was loaded stays an upper bound while current does not grow.
LEMMA KeepLoaded ==
  ASSUME TypeOK, LoadedInv, ~raced' => ~raced,
         In({"loaded"})' \subseteq In({"loaded"}),
         In({"promoted"})' \subseteq In({"promoted"}),
         current' \in Nat, current' <= current,
         \A d \in In({"loaded"})' : seen'[d] = seen[d]
  PROVE  LoadedInv'
  <1> SUFFICES ASSUME ~raced', NEW d \in In({"loaded"})'
               PROVE  current' <= seen'[d] /\ In({"promoted"})' = {}
    BY ZenonT(40) DEF LoadedInv
  <1>1. d \in In({"loaded"}) /\ ~raced /\ d \in Conns
    BY ZenonT(40) DEF In
  <1>2. current <= seen[d] /\ In({"promoted"}) = {}
    BY <1>1, ZenonT(40) DEF LoadedInv
  <1>3. In({"promoted"})' = {}
    BY <1>2, ZenonT(40)
  <1>4. current \in Nat /\ seen[d] \in Nat
    BY <1>1, ZenonT(40) DEF TypeOK
  <1>5. seen'[d] = seen[d]
    BY ZenonT(40)
  <1>6. current' <= seen[d]
    BY <1>2, <1>4, SMTT(40)
  <1>7. QED
    BY <1>3, <1>5, <1>6, ZenonT(40)

\* The connections let in stay below the limit while none is added.
LEMMA KeepRoom ==
  ASSUME RoomInv, ~raced' => ~raced,
         Cardinality(In(Entered)') <= Cardinality(In(Entered))
  PROVE  RoomInv'
  <1>1. Cardinality(In(Entered)) \in Nat /\ Cardinality(In(Entered)') \in Nat
    BY CardTypes, CardTypesNext, ZenonT(40)
  <1>2. MaxConnections \in Nat
    BY LimitPositive, ZenonT(40)
  <1>3. PICK m, n : m = Cardinality(In(Entered)) /\ n = Cardinality(In(Entered)')
    BY ZenonT(40)
  <1>4. ~raced' => m <= MaxConnections
    BY <1>3, ZenonT(40) DEF RoomInv
  <1>5. ~raced' => n <= MaxConnections
    BY <1>1, <1>2, <1>3, <1>4, SMTT(40)
  <1>6. QED
    BY <1>3, <1>5, ZenonT(40) DEF RoomInv, Entered

\* The connections per address stay below the limit while none is added.
LEMMA KeepAddress ==
  ASSUME TypeOK, AddressInv, policy' = policy, reloads' = reloads, racedIp \subseteq racedIp',
         \A i \in Ips \ racedIp' :
            Cardinality(At(Taken, i)') <=
                Cardinality(At(Taken, i))
  PROVE  AddressInv'
  <1> SUFFICES ASSUME reloads = 0, CountsIps, NEW i \in Ips \ racedIp'
               PROVE  Cardinality(At(Taken, i)') <= policy.maxPerIp
    BY ZenonT(40) DEF AddressInv, CountsIps, Ips, Taken
  <1>1. PICK m, n : /\ m = Cardinality(At(Taken, i))
                    /\ n = Cardinality(At(Taken, i)')
    BY ZenonT(40)
  <1>2. m \in Nat /\ n \in Nat
    BY <1>1, CardTypes, CardTypesNext, ZenonT(40)
  <1>3. n <= m
    BY <1>1, ZenonT(40)
  <1>4. i \in Ips \ racedIp
    BY ZenonT(40)
  <1>5. m <= policy.maxPerIp
    BY <1>1, <1>4, ZenonT(40) DEF AddressInv
  <1>6. PICK k : k = policy.maxPerIp
    BY ZenonT(40)
  <1>7. k \in Nat /\ m <= k
    BY <1>5, <1>6, ZenonT(40) DEF TypeOK
  <1>8. n <= k
    BY <1>2, <1>3, <1>7, SMTT(40)
  <1>9. QED
    BY <1>1, <1>6, <1>8, ZenonT(40)

\* The types follow from the rest.
LEMMA StepInv ==
  ASSUME TypeOK, NEW c \in Conns, NEW p \in Phases, Goto(c, p),
         policy' = policy, reloads' = reloads,
         ipCount' \in [Ips -> Nat], seen' \in [Conns -> Nat],
         PendingExact', CurrentExact', IpExact', LoadedInv', RoomInv', AddressInv'
  PROVE  AdmissionInv'
  <1>1. phase' \in [Conns -> Phases]
    BY ZenonT(40) DEF TypeOK, Goto
  <1>2. pending' \in Nat
    BY CardTypesNext, ZenonT(40) DEF PendingExact, HalfOpen
  <1>3. current' \in Nat
    BY CardTypesNext, ZenonT(40) DEF CurrentExact, Open
  <1>4. TypeOK'
    BY <1>1, <1>2, <1>3, ZenonT(40) DEF TypeOK, Ips, Phases
  <1>5. QED
    BY <1>4, ZenonT(40) DEF AdmissionInv

\* The two branches of the decisions.
LEMMA Chosen ==
  ASSUME NEW c, NEW q1, NEW q2, NEW p1, NEW p2,
         (phase[c] = q1 /\ Goto(c, p1)) \/ (phase[c] = q2 /\ Goto(c, p2))
  PROVE  \E p : ((phase[c] = q1 /\ p = p1) \/ (phase[c] = q2 /\ p = p2)) /\ Goto(c, p)
  <1>1. CASE phase[c] = q1 /\ Goto(c, p1)
    <2> WITNESS p1
    <2> QED
      BY <1>1, ZenonT(40)
  <1>2. CASE phase[c] = q2 /\ Goto(c, p2)
    <2> WITNESS p2
    <2> QED
      BY <1>2, ZenonT(40)
  <1>3. QED
    BY <1>1, <1>2, ZenonT(40)

\* The listener lets a connection in only below the limit it computes.
LEMMA AdmitLetsIn ==
  ASSUME TypeOK, NEW c \in Conns, Admit(c), Goto(c, "handshake")
  PROVE  seen[c] + pending < MaxConnections
  <1>1. phase'[c] = "handshake"
    BY ZenonT(40) DEF TypeOK, Goto
  <1>2. ~(seen[c] + pending < MaxConnections) => phase'[c] = "gone"
    BY ZenonT(40) DEF TypeOK, Admit, Goto
  <1>3. QED
    BY <1>1, <1>2, SMTT(40)

\* A connection passes its check only if its address has room.
LEMMA EnterChecks ==
  ASSUME TypeOK, NEW c \in Conns, Enter(c), Goto(c, "checked")
  PROVE  Allowed(IpOf[c])
  <1>1. phase'[c] = "checked"
    BY ZenonT(40) DEF TypeOK, Goto
  <1>2. ~Allowed(IpOf[c]) => phase'[c] = "gone"
    BY ZenonT(40) DEF TypeOK, Enter, Goto
  <1>3. QED
    BY <1>1, <1>2, SMTT(40)

\* With nobody between being let in and being counted, the two gauges add up
\* to the connections that were let in.
LEMMA AllCounted ==
  ASSUME TypeOK, PendingExact, CurrentExact,
         In({"handshake", "checked", "counted"}) = {}, In({"promoted"}) = {}
  PROVE  Cardinality(In(Entered)) = current + pending
  <1>1. In(Entered) = In(Open) \cup In(HalfOpen)
    <2>1. \A q : q \in Entered <=> \/ q \in Open \/ q \in HalfOpen \/ q \in {"promoted"}
                                   \/ q \in {"handshake", "checked", "counted"}
      BY ZenonT(40) DEF Entered, Open, HalfOpen
    <2>2. QED
      BY <2>1, ZenonT(40) DEF In
  <1>2. In(Open) \cap In(HalfOpen) = {}
    BY SMTT(40) DEF In, Open, HalfOpen
  <1>3. IsFiniteSet(In(Open)) /\ IsFiniteSet(In(HalfOpen))
    BY CardTypes, ZenonT(40)
  <1>4. Cardinality(In(Open) \cup In(HalfOpen))
          = Cardinality(In(Open)) + Cardinality(In(HalfOpen)) - Cardinality(In(Open) \cap In(HalfOpen))
    BY <1>3, FS_Union, ZenonT(40)
  <1>5. Cardinality({}) = 0
    BY FS_EmptySet, ZenonT(40)
  <1>6. PICK m : m = Cardinality(In(Entered))
    BY ZenonT(40)
  <1>7. m = current + pending - 0
    BY <1>1, <1>2, <1>4, <1>5, <1>6, ZenonT(40) DEF PendingExact, CurrentExact
  <1>8. current \in Nat /\ pending \in Nat
    BY ZenonT(40) DEF TypeOK
  <1>9. m = current + pending
    BY <1>7, <1>8, SMTT(40)
  <1>10. QED
    BY <1>6, <1>9, ZenonT(40)

-----------------------------------------------------------------------------
(* The actions.                                                            *)

\* The security guard lets an accepted connection pass or closes it.
LEMMA VetStep ==
  ASSUME AdmissionInv, NEW c \in Conns, Vet(c)
  PROVE  AdmissionInv'
  <1>a. /\ TypeOK /\ PendingExact /\ CurrentExact /\ IpExact
        /\ LoadedInv /\ RoomInv /\ AddressInv
    BY ZenonT(40) DEF AdmissionInv
  <1>0. \/ phase[c] = "new" /\ Goto(c, "vetted")
        \/ phase[c] = "new" /\ Goto(c, "gone")
    <2>1. CASE Allowed(IpOf[c])
      <3>1. Goto(c, "vetted")
        BY <2>1, ZenonT(40) DEF Vet
      <3>2. QED
        BY <2>1, <3>1, ZenonT(40) DEF Vet
    <2>2. CASE ~(Allowed(IpOf[c]))
      <3>1. Goto(c, "gone")
        BY <2>2, ZenonT(40) DEF Vet
      <3>2. QED
        BY <2>2, <3>1, ZenonT(40) DEF Vet
    <2>3. QED
      BY <2>1, <2>2, ZenonT(40)
  <1>b. PICK p : ((phase[c] = "new" /\ p = "vetted") \/ (phase[c] = "new" /\ p = "gone")) /\ Goto(c, p)
    BY <1>0, Chosen, ZenonT(40)
  <1>c. /\ policy' = policy /\ reloads' = reloads /\ seen' = seen /\ ipCount' = ipCount
        /\ current' = current /\ pending' = pending /\ raced' = raced /\ racedIp' = racedIp
    BY ZenonT(40) DEF Vet, counters, ghosts
  <1>d. /\ (p \in HalfOpen <=> phase[c] \in HalfOpen)
        /\ (p \in Open <=> phase[c] \in Open)
        /\ (p \in OnCounter <=> phase[c] \in OnCounter)
        /\ (p \in Entered <=> phase[c] \in Entered)
        /\ (p \in Taken <=> phase[c] \in Taken)
        /\ (p \in {"loaded"} <=> phase[c] \in {"loaded"})
        /\ (p \in {"promoted"} <=> phase[c] \in {"promoted"})
        /\ p \in Phases
    BY <1>b, SMTT(40) DEF HalfOpen, Open, OnCounter, Taken, Entered, Phases
  <1>1. PendingExact'
    BY <1>a, <1>b, <1>c, <1>d, Stays, KeepPending, ZenonT(40)
  <1>2. CurrentExact'
    BY <1>a, <1>b, <1>c, <1>d, Stays, KeepCurrent, ZenonT(40)
  <1>3. IpExact'
    BY <1>a, <1>b, <1>c, <1>d, Stays, KeepIp, ZenonT(40)
  <1>4. LoadedInv'
    <2>1. In({"loaded"})' \subseteq In({"loaded"}) /\ In({"promoted"})' \subseteq In({"promoted"})
      BY <1>a, <1>b, <1>d, Shrinks, ZenonT(40)
    <2>2. current' \in Nat /\ current' <= current
      BY <1>a, <1>c, SMTT(40) DEF TypeOK
    <2>3. QED
      BY <1>a, <1>c, <2>1, <2>2, KeepLoaded, ZenonT(40)
  <1>5. RoomInv'
    <2>1. Cardinality(In(Entered)') <= Cardinality(In(Entered))
      BY <1>a, <1>b, <1>d, Shrinks, ZenonT(40)
    <2>2. ~raced' => ~raced
      BY <1>c, ZenonT(40)
    <2>3. QED
      BY <1>a, <2>1, <2>2, KeepRoom, ZenonT(40)
  <1>6. AddressInv'
    <2>1. \A i : Cardinality(At(Taken, i)') <= Cardinality(At(Taken, i))
      BY <1>a, <1>b, <1>d, Shrinks, ZenonT(40)
    <2>2. QED
      BY <1>a, <1>c, <2>1, KeepAddress, ZenonT(40)
  <1>7. ipCount' \in [Ips -> Nat]
    BY <1>a, <1>c, ZenonT(40) DEF TypeOK
  <1>8. seen' \in [Conns -> Nat]
    BY <1>a, <1>c, ZenonT(40) DEF TypeOK
  <1>9. QED
    BY <1>a, <1>b, <1>c, <1>d, <1>1, <1>2, <1>3, <1>4, <1>5, <1>6, <1>7, <1>8, StepInv, ZenonT(40)

\* A listener loads the number of connections.
LEMMA LoadCurrentStep ==
  ASSUME AdmissionInv, NEW c \in Conns, LoadCurrent(c)
  PROVE  AdmissionInv'
  <1>a. /\ TypeOK /\ PendingExact /\ CurrentExact /\ IpExact
        /\ LoadedInv /\ RoomInv /\ AddressInv
    BY ZenonT(40) DEF AdmissionInv
  <1>b. PICK p : phase[c] = "vetted" /\ p = "loaded" /\ Goto(c, p)
    BY ZenonT(40) DEF LoadCurrent
  <1>c. /\ policy' = policy /\ reloads' = reloads /\ ipCount' = ipCount
        /\ current' = current /\ pending' = pending /\ racedIp' = racedIp
    BY ZenonT(40) DEF LoadCurrent, counters, ghosts
  <1>d. /\ (p \in HalfOpen <=> phase[c] \in HalfOpen)
        /\ (p \in Open <=> phase[c] \in Open)
        /\ (p \in OnCounter <=> phase[c] \in OnCounter)
        /\ (p \in Entered <=> phase[c] \in Entered)
        /\ (p \in Taken <=> phase[c] \in Taken)
        /\ p \in {"loaded"} /\ phase[c] \notin {"loaded"}
        /\ (p \in {"promoted"} <=> phase[c] \in {"promoted"})
        /\ p \in Phases
    BY <1>b, SMTT(40) DEF HalfOpen, Open, OnCounter, Taken, Entered, Phases
  <1>1. PendingExact'
    BY <1>a, <1>b, <1>c, <1>d, Stays, KeepPending, ZenonT(40)
  <1>2. CurrentExact'
    BY <1>a, <1>b, <1>c, <1>d, Stays, KeepCurrent, ZenonT(40)
  <1>3. IpExact'
    BY <1>a, <1>b, <1>c, <1>d, Stays, KeepIp, ZenonT(40)
  <1>4. LoadedInv'
    <2> SUFFICES ASSUME ~raced', NEW d \in In({"loaded"})'
                 PROVE  current' <= seen'[d] /\ In({"promoted"})' = {}
      BY ZenonT(40) DEF LoadedInv
    <2>1. ~raced /\ In({"promoted"}) = {}
      BY ZenonT(40) DEF LoadCurrent
    <2>2. In({"promoted"})' = {}
      BY <1>a, <1>b, <1>d, <2>1, Stays, ZenonT(40)
    <2>3. d \in Conns /\ (d = c \/ d \in In({"loaded"}))
      <3>1. In({"loaded"})' = In({"loaded"}) \cup {c}
        BY <1>a, <1>b, <1>d, Gains, ZenonT(40)
      <3>2. QED
        BY <3>1, ZenonT(40) DEF In
    <2>4. seen'[d] = IF d = c THEN current ELSE seen[d]
      BY <1>a, <2>3, SMTT(40) DEF TypeOK, LoadCurrent
    <2>5. current \in Nat
      BY <1>a, ZenonT(40) DEF TypeOK
    <2>6. CASE d = c
      BY <1>c, <2>2, <2>4, <2>5, <2>6, SMTT(40)
    <2>7. CASE d # c
      <3>1. current <= seen[d]
        BY <1>a, <2>1, <2>3, <2>7, ZenonT(40) DEF LoadedInv
      <3>2. QED
        BY <1>c, <2>2, <2>4, <2>7, <3>1, SMTT(40)
    <2>8. QED
      BY <2>6, <2>7, ZenonT(40)
  <1>5. RoomInv'
    <2>1. Cardinality(In(Entered)') <= Cardinality(In(Entered))
      BY <1>a, <1>b, <1>d, Shrinks, ZenonT(40)
    <2>2. ~raced' => ~raced
      BY ZenonT(40) DEF LoadCurrent
    <2>3. QED
      BY <1>a, <2>1, <2>2, KeepRoom, ZenonT(40)
  <1>6. AddressInv'
    <2>1. \A i : Cardinality(At(Taken, i)') <= Cardinality(At(Taken, i))
      BY <1>a, <1>b, <1>d, Shrinks, ZenonT(40)
    <2>2. QED
      BY <1>a, <1>c, <2>1, KeepAddress, ZenonT(40)
  <1>7. ipCount' \in [Ips -> Nat]
    BY <1>a, <1>c, ZenonT(40) DEF TypeOK
  <1>8. seen' \in [Conns -> Nat]
    BY <1>a, SMTT(40) DEF TypeOK, LoadCurrent
  <1>9. QED
    BY <1>a, <1>b, <1>c, <1>d, <1>1, <1>2, <1>3, <1>4, <1>5, <1>6, <1>7, <1>8, StepInv, ZenonT(40)

\* The listener loads connections_pending and starts the task, or closes the
\* connection.
LEMMA AdmitStep ==
  ASSUME AdmissionInv, NEW c \in Conns, Admit(c)
  PROVE  AdmissionInv'
  <1>a. /\ TypeOK /\ PendingExact /\ CurrentExact /\ IpExact
        /\ LoadedInv /\ RoomInv /\ AddressInv
    BY ZenonT(40) DEF AdmissionInv
  <1>0. \/ phase[c] = "loaded" /\ Goto(c, "handshake")
        \/ phase[c] = "loaded" /\ Goto(c, "gone")
    <2>1. CASE seen[c] + pending < MaxConnections
      <3>1. Goto(c, "handshake")
        BY <2>1, ZenonT(40) DEF Admit
      <3>2. QED
        BY <2>1, <3>1, ZenonT(40) DEF Admit
    <2>2. CASE ~(seen[c] + pending < MaxConnections)
      <3>1. Goto(c, "gone")
        BY <2>2, ZenonT(40) DEF Admit
      <3>2. QED
        BY <2>2, <3>1, ZenonT(40) DEF Admit
    <2>3. QED
      BY <2>1, <2>2, ZenonT(40)
  <1>b. PICK p : ((phase[c] = "loaded" /\ p = "handshake") \/ (phase[c] = "loaded" /\ p = "gone")) /\ Goto(c, p)
    BY <1>0, Chosen, ZenonT(40)
  <1>c. /\ policy' = policy /\ reloads' = reloads /\ ipCount' = ipCount
        /\ current' = current /\ pending' = pending /\ racedIp' = racedIp
    BY ZenonT(40) DEF Admit, counters, ghosts
  <1>d. /\ (p \in HalfOpen <=> phase[c] \in HalfOpen)
        /\ (p \in Open <=> phase[c] \in Open)
        /\ (p \in OnCounter <=> phase[c] \in OnCounter)
        /\ (p \in Taken <=> phase[c] \in Taken)
        /\ p \notin {"loaded"} /\ phase[c] \in {"loaded"}
        /\ (p \in {"promoted"} <=> phase[c] \in {"promoted"})
        /\ p \in Phases
    BY <1>b, SMTT(40) DEF HalfOpen, Open, OnCounter, Taken, Entered, Phases
  <1>1. PendingExact'
    BY <1>a, <1>b, <1>c, <1>d, Stays, KeepPending, ZenonT(40)
  <1>2. CurrentExact'
    BY <1>a, <1>b, <1>c, <1>d, Stays, KeepCurrent, ZenonT(40)
  <1>3. IpExact'
    BY <1>a, <1>b, <1>c, <1>d, Stays, KeepIp, ZenonT(40)
  <1>4. LoadedInv'
    <2>1. In({"loaded"})' = In({"loaded"}) \ {c} /\ In({"promoted"})' = In({"promoted"})
      BY <1>a, <1>b, <1>d, Stays, Loses, ZenonT(40)
    <2>2. current' \in Nat /\ current' <= current
      BY <1>a, <1>c, SMTT(40) DEF TypeOK
    <2>3. ~raced' => ~raced
      BY ZenonT(40) DEF Admit
    <2>4. \A d \in In({"loaded"})' : d \in Conns /\ d # c
      BY <2>1, ZenonT(40) DEF In
    <2>5. \A d \in In({"loaded"})' : seen'[d] = seen[d]
      BY <1>a, <2>4, SMTT(40) DEF TypeOK, Admit
    <2>6. QED
      BY <1>a, <2>1, <2>2, <2>3, <2>5, KeepLoaded, ZenonT(40)
  <1>5. RoomInv'
    <2>1. CASE p = "gone"
      <3>1. p \in Entered => phase[c] \in Entered
        BY <2>1, SMTT(40) DEF Entered
      <3>2. Cardinality(In(Entered)') <= Cardinality(In(Entered))
        BY <1>a, <1>b, <3>1, Shrinks, ZenonT(40)
      <3>3. ~raced' => ~raced
        BY ZenonT(40) DEF Admit
      <3>4. QED
        BY <1>a, <3>2, <3>3, KeepRoom, ZenonT(40)
    <2>2. CASE p # "gone"
      <3> SUFFICES ASSUME ~raced' PROVE Cardinality(In(Entered)') <= MaxConnections
        BY ZenonT(40) DEF RoomInv, Entered
      <3>1. p = "handshake" /\ phase[c] = "loaded"
        BY <1>b, <2>2, ZenonT(40)
      <3>2. seen[c] + pending < MaxConnections
        BY <1>a, <1>b, <3>1, AdmitLetsIn, ZenonT(40)
      <3>3. ~raced /\ In({"handshake", "checked", "counted"}) = {}
        BY ZenonT(40) DEF Admit
      <3>4. c \in In({"loaded"})
        BY <3>1, SMTT(40) DEF In
      <3>5. current <= seen[c] /\ In({"promoted"}) = {}
        BY <1>a, <3>3, <3>4, ZenonT(40) DEF LoadedInv
      <3>6. Cardinality(In(Entered)) = current + pending
        BY <1>a, <3>3, <3>5, AllCounted, ZenonT(40)
      <3>7. p \in Entered /\ phase[c] \notin Entered
        BY <3>1, SMTT(40) DEF Entered
      <3>8. Cardinality(In(Entered)') = Cardinality(In(Entered)) + 1
        BY <1>a, <1>b, <3>7, Gains, ZenonT(40)
      <3>9. current \in Nat /\ pending \in Nat /\ seen[c] \in Nat /\ MaxConnections \in Nat
        BY <1>a, LimitPositive, ZenonT(40) DEF TypeOK
      <3>10. PICK m, n : m = Cardinality(In(Entered)') /\ n = seen[c]
        BY ZenonT(40)
      <3>11. m = current + pending + 1
        BY <3>6, <3>8, <3>10, ZenonT(40)
      <3>12. n \in Nat /\ current <= n /\ n + pending < MaxConnections
        BY <3>2, <3>5, <3>9, <3>10, ZenonT(40)
      <3>13. m <= MaxConnections
        BY <3>9, <3>11, <3>12, SMTT(40)
      <3>14. QED
        BY <3>10, <3>13, ZenonT(40)
    <2>3. QED
      BY <2>1, <2>2, ZenonT(40)
  <1>6. AddressInv'
    <2>1. \A i : Cardinality(At(Taken, i)') <= Cardinality(At(Taken, i))
      BY <1>a, <1>b, <1>d, Shrinks, ZenonT(40)
    <2>2. QED
      BY <1>a, <1>c, <2>1, KeepAddress, ZenonT(40)
  <1>7. ipCount' \in [Ips -> Nat]
    BY <1>a, <1>c, ZenonT(40) DEF TypeOK
  <1>8. seen' \in [Conns -> Nat]
    BY <1>a, SMTT(40) DEF TypeOK, Admit
  <1>9. QED
    BY <1>a, <1>b, <1>c, <1>d, <1>1, <1>2, <1>3, <1>4, <1>5, <1>6, <1>7, <1>8, StepInv, ZenonT(40)

\* A connection whose handshake fails holds no counter yet.
LEMMA HandshakeFailsStep ==
  ASSUME AdmissionInv, NEW c \in Conns, HandshakeFails(c)
  PROVE  AdmissionInv'
  <1>a. /\ TypeOK /\ PendingExact /\ CurrentExact /\ IpExact
        /\ LoadedInv /\ RoomInv /\ AddressInv
    BY ZenonT(40) DEF AdmissionInv
  <1>b. PICK p : phase[c] = "handshake" /\ p = "gone" /\ Goto(c, p)
    BY ZenonT(40) DEF HandshakeFails
  <1>c. /\ policy' = policy /\ reloads' = reloads /\ seen' = seen /\ ipCount' = ipCount
        /\ current' = current /\ pending' = pending /\ raced' = raced /\ racedIp' = racedIp
    BY ZenonT(40) DEF HandshakeFails, counters, ghosts
  <1>d. /\ (p \in HalfOpen <=> phase[c] \in HalfOpen)
        /\ (p \in Open <=> phase[c] \in Open)
        /\ (p \in OnCounter <=> phase[c] \in OnCounter)
        /\ (p \in Entered => phase[c] \in Entered)
        /\ (p \in Taken <=> phase[c] \in Taken)
        /\ (p \in {"loaded"} <=> phase[c] \in {"loaded"})
        /\ (p \in {"promoted"} <=> phase[c] \in {"promoted"})
        /\ p \in Phases
    BY <1>b, SMTT(40) DEF HalfOpen, Open, OnCounter, Taken, Entered, Phases
  <1>1. PendingExact'
    BY <1>a, <1>b, <1>c, <1>d, Stays, KeepPending, ZenonT(40)
  <1>2. CurrentExact'
    BY <1>a, <1>b, <1>c, <1>d, Stays, KeepCurrent, ZenonT(40)
  <1>3. IpExact'
    BY <1>a, <1>b, <1>c, <1>d, Stays, KeepIp, ZenonT(40)
  <1>4. LoadedInv'
    <2>1. In({"loaded"})' \subseteq In({"loaded"}) /\ In({"promoted"})' \subseteq In({"promoted"})
      BY <1>a, <1>b, <1>d, Shrinks, ZenonT(40)
    <2>2. current' \in Nat /\ current' <= current
      BY <1>a, <1>c, SMTT(40) DEF TypeOK
    <2>3. QED
      BY <1>a, <1>c, <2>1, <2>2, KeepLoaded, ZenonT(40)
  <1>5. RoomInv'
    <2>1. Cardinality(In(Entered)') <= Cardinality(In(Entered))
      BY <1>a, <1>b, <1>d, Shrinks, ZenonT(40)
    <2>2. ~raced' => ~raced
      BY <1>c, ZenonT(40)
    <2>3. QED
      BY <1>a, <2>1, <2>2, KeepRoom, ZenonT(40)
  <1>6. AddressInv'
    <2>1. \A i : Cardinality(At(Taken, i)') <= Cardinality(At(Taken, i))
      BY <1>a, <1>b, <1>d, Shrinks, ZenonT(40)
    <2>2. QED
      BY <1>a, <1>c, <2>1, KeepAddress, ZenonT(40)
  <1>7. ipCount' \in [Ips -> Nat]
    BY <1>a, <1>c, ZenonT(40) DEF TypeOK
  <1>8. seen' \in [Conns -> Nat]
    BY <1>a, <1>c, ZenonT(40) DEF TypeOK
  <1>9. QED
    BY <1>a, <1>b, <1>c, <1>d, <1>1, <1>2, <1>3, <1>4, <1>5, <1>6, <1>7, <1>8, StepInv, ZenonT(40)

\* The second check of the address at the start of the connection task.
LEMMA EnterStep ==
  ASSUME AdmissionInv, NEW c \in Conns, Enter(c)
  PROVE  AdmissionInv'
  <1>a. /\ TypeOK /\ PendingExact /\ CurrentExact /\ IpExact
        /\ LoadedInv /\ RoomInv /\ AddressInv
    BY ZenonT(40) DEF AdmissionInv
  <1>0. \/ phase[c] = "handshake" /\ Goto(c, "checked")
        \/ phase[c] = "handshake" /\ Goto(c, "gone")
    <2>1. CASE Allowed(IpOf[c])
      <3>1. Goto(c, "checked")
        BY <2>1, ZenonT(40) DEF Enter
      <3>2. QED
        BY <2>1, <3>1, ZenonT(40) DEF Enter
    <2>2. CASE ~(Allowed(IpOf[c]))
      <3>1. Goto(c, "gone")
        BY <2>2, ZenonT(40) DEF Enter
      <3>2. QED
        BY <2>2, <3>1, ZenonT(40) DEF Enter
    <2>3. QED
      BY <2>1, <2>2, ZenonT(40)
  <1>b. PICK p : ((phase[c] = "handshake" /\ p = "checked") \/ (phase[c] = "handshake" /\ p = "gone")) /\ Goto(c, p)
    BY <1>0, Chosen, ZenonT(40)
  <1>c. /\ policy' = policy /\ reloads' = reloads /\ seen' = seen /\ ipCount' = ipCount
        /\ current' = current /\ pending' = pending /\ raced' = raced
    BY ZenonT(40) DEF Enter, counters, ghosts
  <1>d. /\ (p \in HalfOpen <=> phase[c] \in HalfOpen)
        /\ (p \in Open <=> phase[c] \in Open)
        /\ (p \in OnCounter <=> phase[c] \in OnCounter)
        /\ (p \in Entered => phase[c] \in Entered)
        /\ (p \in {"loaded"} <=> phase[c] \in {"loaded"})
        /\ (p \in {"promoted"} <=> phase[c] \in {"promoted"})
        /\ p \in Phases
    BY <1>b, SMTT(40) DEF HalfOpen, Open, OnCounter, Taken, Entered, Phases
  <1>1. PendingExact'
    BY <1>a, <1>b, <1>c, <1>d, Stays, KeepPending, ZenonT(40)
  <1>2. CurrentExact'
    BY <1>a, <1>b, <1>c, <1>d, Stays, KeepCurrent, ZenonT(40)
  <1>3. IpExact'
    BY <1>a, <1>b, <1>c, <1>d, Stays, KeepIp, ZenonT(40)
  <1>4. LoadedInv'
    <2>1. In({"loaded"})' \subseteq In({"loaded"}) /\ In({"promoted"})' \subseteq In({"promoted"})
      BY <1>a, <1>b, <1>d, Shrinks, ZenonT(40)
    <2>2. current' \in Nat /\ current' <= current
      BY <1>a, <1>c, SMTT(40) DEF TypeOK
    <2>3. QED
      BY <1>a, <1>c, <2>1, <2>2, KeepLoaded, ZenonT(40)
  <1>5. RoomInv'
    <2>1. Cardinality(In(Entered)') <= Cardinality(In(Entered))
      BY <1>a, <1>b, <1>d, Shrinks, ZenonT(40)
    <2>2. ~raced' => ~raced
      BY <1>c, ZenonT(40)
    <2>3. QED
      BY <1>a, <2>1, <2>2, KeepRoom, ZenonT(40)
  <1>6. AddressInv'
    <2>0. racedIp \subseteq racedIp'
      BY ZenonT(40) DEF Enter
    <2>1. CASE p = "gone"
      <3>1. p \in Taken => phase[c] \in Taken
        BY <2>1, SMTT(40) DEF Taken
      <3>2. \A i : Cardinality(At(Taken, i)') <= Cardinality(At(Taken, i))
        BY <1>a, <1>b, <3>1, Shrinks, ZenonT(40)
      <3>3. QED
        BY <1>a, <1>c, <2>0, <3>2, KeepAddress, ZenonT(40)
    <2>2. CASE p # "gone"
      <3> SUFFICES ASSUME reloads = 0, CountsIps, NEW i \in Ips \ racedIp'
                   PROVE  Cardinality(At(Taken, i)') <= policy.maxPerIp
        BY <1>c, ZenonT(40) DEF AddressInv, CountsIps, Ips, Taken
      <3>1. p = "checked" /\ phase[c] = "handshake"
        BY <1>b, <2>2, ZenonT(40)
      <3>2. p \in Taken /\ phase[c] \notin Taken
        BY <3>1, SMTT(40) DEF Taken
      <3>3. PICK m, n, k : /\ m = Cardinality(At(Taken, i))
                          /\ n = Cardinality(At(Taken, i)')
                          /\ k = policy.maxPerIp
        BY ZenonT(40)
      <3>4. CASE i # IpOf[c]
        <4>1. At(Taken, i)' = At(Taken, i)
          <5>1. \A j : j # IpOf[c] => At(Taken, j)' = At(Taken, j)
            <6>1. Goto(c, p)
              BY <1>b, ZenonT(40)
            <6>2. QED
              BY <1>a, <6>1, <3>2, Gains, ZenonT(40)
          <5>2. QED
            BY <3>4, <5>1, ZenonT(40)
        <4>2. m <= k
          BY <1>a, <2>0, <3>3, ZenonT(40) DEF AddressInv
        <4>3. QED
          BY <3>3, <4>1, <4>2, ZenonT(40)
      <3>5. CASE i = IpOf[c]
        <4>1. At({"checked"}, i) = {}
          BY ZenonT(40) DEF Enter, At
        <4>2. At(Taken, i) = At(OnCounter, i)
          BY <4>1, ZenonT(40) DEF At, In, Taken, OnCounter
        <4>3. ipCount[i] = Cardinality(At(OnCounter, i))
          BY <1>a, ZenonT(40) DEF IpExact
        <4>4. Allowed(IpOf[c])
          BY <1>a, <1>b, <3>1, EnterChecks, ZenonT(40)
        <4>5. ipCount[i] < policy.maxPerIp
          BY <1>a, <3>5, <4>4, SMTT(40) DEF Allowed, CountsIps, TypeOK
        <4>6. m < k
          BY <3>3, <4>2, <4>3, <4>5, ZenonT(40)
        <4>7. n = m + 1
          BY <1>a, <1>b, <3>2, <3>3, <3>5, Gains, ZenonT(40)
        <4>8. m \in Nat /\ k \in Nat
          BY <1>a, <3>3, CardTypes, ZenonT(40) DEF TypeOK
        <4>9. n <= k
          BY <4>6, <4>7, <4>8, SMTT(40)
        <4>10. QED
          BY <3>3, <4>9, ZenonT(40)
      <3>6. QED
        BY <3>4, <3>5, ZenonT(40)
    <2>3. QED
      BY <2>1, <2>2, ZenonT(40)
  <1>7. ipCount' \in [Ips -> Nat]
    BY <1>a, <1>c, ZenonT(40) DEF TypeOK
  <1>8. seen' \in [Conns -> Nat]
    BY <1>a, <1>c, ZenonT(40) DEF TypeOK
  <1>9. QED
    BY <1>a, <1>b, <1>c, <1>d, <1>1, <1>2, <1>3, <1>4, <1>5, <1>6, <1>7, <1>8, StepInv, ZenonT(40)

\* on_connect counts the connection at its address.
LEMMA OnConnectStep ==
  ASSUME AdmissionInv, NEW c \in Conns, OnConnect(c)
  PROVE  AdmissionInv'
  <1>a. /\ TypeOK /\ PendingExact /\ CurrentExact /\ IpExact
        /\ LoadedInv /\ RoomInv /\ AddressInv
    BY ZenonT(40) DEF AdmissionInv
  <1>b. PICK p : phase[c] = "checked" /\ p = "counted" /\ Goto(c, p)
    BY ZenonT(40) DEF OnConnect
  <1>c. /\ policy' = policy /\ reloads' = reloads /\ seen' = seen /\ current' = current
        /\ pending' = pending /\ raced' = raced /\ racedIp' = racedIp
    BY ZenonT(40) DEF OnConnect, counters, ghosts
  <1>d. /\ (p \in HalfOpen <=> phase[c] \in HalfOpen)
        /\ (p \in Open <=> phase[c] \in Open)
        /\ p \in OnCounter /\ phase[c] \notin OnCounter
        /\ (p \in Entered <=> phase[c] \in Entered)
        /\ (p \in Taken <=> phase[c] \in Taken)
        /\ (p \in {"loaded"} <=> phase[c] \in {"loaded"})
        /\ (p \in {"promoted"} <=> phase[c] \in {"promoted"})
        /\ p \in Phases
    BY <1>b, SMTT(40) DEF HalfOpen, Open, OnCounter, Taken, Entered, Phases
  <1>1. PendingExact'
    BY <1>a, <1>b, <1>c, <1>d, Stays, KeepPending, ZenonT(40)
  <1>2. CurrentExact'
    BY <1>a, <1>b, <1>c, <1>d, Stays, KeepCurrent, ZenonT(40)
  <1>3. IpExact'
    <2> SUFFICES ASSUME reloads = 0, NEW i \in Ips
                 PROVE  ipCount'[i] = IF CountsIps THEN Cardinality(At(OnCounter, i)') ELSE 0
      BY <1>c, SMTT(40) DEF IpExact, CountsIps, Ips, OnCounter
    <2>1. ipCount[i] = IF CountsIps THEN Cardinality(At(OnCounter, i)) ELSE 0
      BY <1>a, ZenonT(40) DEF IpExact
    <2>2. ipCount'[i] = IF CountsIps /\ i = IpOf[c] THEN ipCount[i] + 1 ELSE ipCount[i]
      BY <1>a, SMTT(40) DEF TypeOK, OnConnect
    <2>3. CASE i = IpOf[c]
      <3>1. Cardinality(At(OnCounter, i)') = Cardinality(At(OnCounter, i)) + 1
        BY <1>a, <1>b, <1>d, <2>3, Gains, ZenonT(40)
      <3>2. QED
        BY <2>1, <2>2, <2>3, <3>1, SMTT(40)
    <2>4. CASE i # IpOf[c]
      <3>1. Cardinality(At(OnCounter, i)') = Cardinality(At(OnCounter, i))
        <4>1. \A j : j # IpOf[c] => At(OnCounter, j)' = At(OnCounter, j)
          BY <1>a, <1>b, <1>d, Gains, ZenonT(40)
        <4>2. QED
          BY <2>4, <4>1, ZenonT(40)
      <3>2. QED
        BY <2>1, <2>2, <2>4, <3>1, SMTT(40)
    <2>5. QED
      BY <2>3, <2>4, ZenonT(40)
  <1>4. LoadedInv'
    <2>1. In({"loaded"})' \subseteq In({"loaded"}) /\ In({"promoted"})' \subseteq In({"promoted"})
      BY <1>a, <1>b, <1>d, Shrinks, ZenonT(40)
    <2>2. current' \in Nat /\ current' <= current
      BY <1>a, <1>c, SMTT(40) DEF TypeOK
    <2>3. QED
      BY <1>a, <1>c, <2>1, <2>2, KeepLoaded, ZenonT(40)
  <1>5. RoomInv'
    <2>1. Cardinality(In(Entered)') <= Cardinality(In(Entered))
      BY <1>a, <1>b, <1>d, Shrinks, ZenonT(40)
    <2>2. ~raced' => ~raced
      BY <1>c, ZenonT(40)
    <2>3. QED
      BY <1>a, <2>1, <2>2, KeepRoom, ZenonT(40)
  <1>6. AddressInv'
    <2>1. \A i : Cardinality(At(Taken, i)') <= Cardinality(At(Taken, i))
      BY <1>a, <1>b, <1>d, Shrinks, ZenonT(40)
    <2>2. QED
      BY <1>a, <1>c, <2>1, KeepAddress, ZenonT(40)
  <1>7. ipCount' \in [Ips -> Nat]
    BY <1>a, SMTT(40) DEF TypeOK, OnConnect
  <1>8. seen' \in [Conns -> Nat]
    BY <1>a, <1>c, ZenonT(40) DEF TypeOK
  <1>9. QED
    BY <1>a, <1>b, <1>c, <1>d, <1>1, <1>2, <1>3, <1>4, <1>5, <1>6, <1>7, <1>8, StepInv, ZenonT(40)

\* The PendingGuard counts the connection as pending.
LEMMA NewGuardStep ==
  ASSUME AdmissionInv, NEW c \in Conns, NewGuard(c)
  PROVE  AdmissionInv'
  <1>a. /\ TypeOK /\ PendingExact /\ CurrentExact /\ IpExact
        /\ LoadedInv /\ RoomInv /\ AddressInv
    BY ZenonT(40) DEF AdmissionInv
  <1>b. PICK p : phase[c] = "counted" /\ p = "pending" /\ Goto(c, p)
    BY ZenonT(40) DEF NewGuard
  <1>c. /\ policy' = policy /\ reloads' = reloads /\ seen' = seen /\ ipCount' = ipCount
        /\ current' = current /\ raced' = raced /\ racedIp' = racedIp
    BY ZenonT(40) DEF NewGuard, counters, ghosts
  <1>d. /\ p \in HalfOpen /\ phase[c] \notin HalfOpen
        /\ (p \in Open <=> phase[c] \in Open)
        /\ (p \in OnCounter <=> phase[c] \in OnCounter)
        /\ (p \in Entered <=> phase[c] \in Entered)
        /\ (p \in Taken <=> phase[c] \in Taken)
        /\ (p \in {"loaded"} <=> phase[c] \in {"loaded"})
        /\ (p \in {"promoted"} <=> phase[c] \in {"promoted"})
        /\ p \in Phases
    BY <1>b, SMTT(40) DEF HalfOpen, Open, OnCounter, Taken, Entered, Phases
  <1>1. PendingExact'
    <2>1. Cardinality(In(HalfOpen)') = Cardinality(In(HalfOpen)) + 1
      BY <1>a, <1>b, <1>d, Gains, ZenonT(40)
    <2>2. QED
      BY <1>a, <2>1, ZenonT(40) DEF PendingExact, NewGuard, HalfOpen
  <1>2. CurrentExact'
    BY <1>a, <1>b, <1>c, <1>d, Stays, KeepCurrent, ZenonT(40)
  <1>3. IpExact'
    BY <1>a, <1>b, <1>c, <1>d, Stays, KeepIp, ZenonT(40)
  <1>4. LoadedInv'
    <2>1. In({"loaded"})' \subseteq In({"loaded"}) /\ In({"promoted"})' \subseteq In({"promoted"})
      BY <1>a, <1>b, <1>d, Shrinks, ZenonT(40)
    <2>2. current' \in Nat /\ current' <= current
      BY <1>a, <1>c, SMTT(40) DEF TypeOK
    <2>3. QED
      BY <1>a, <1>c, <2>1, <2>2, KeepLoaded, ZenonT(40)
  <1>5. RoomInv'
    <2>1. Cardinality(In(Entered)') <= Cardinality(In(Entered))
      BY <1>a, <1>b, <1>d, Shrinks, ZenonT(40)
    <2>2. ~raced' => ~raced
      BY <1>c, ZenonT(40)
    <2>3. QED
      BY <1>a, <2>1, <2>2, KeepRoom, ZenonT(40)
  <1>6. AddressInv'
    <2>1. \A i : Cardinality(At(Taken, i)') <= Cardinality(At(Taken, i))
      BY <1>a, <1>b, <1>d, Shrinks, ZenonT(40)
    <2>2. QED
      BY <1>a, <1>c, <2>1, KeepAddress, ZenonT(40)
  <1>7. ipCount' \in [Ips -> Nat]
    BY <1>a, <1>c, ZenonT(40) DEF TypeOK
  <1>8. seen' \in [Conns -> Nat]
    BY <1>a, <1>c, ZenonT(40) DEF TypeOK
  <1>9. QED
    BY <1>a, <1>b, <1>c, <1>d, <1>1, <1>2, <1>3, <1>4, <1>5, <1>6, <1>7, <1>8, StepInv, ZenonT(40)

\* The accepted connection is no longer pending, and not yet counted as current.
LEMMA PromoteStep ==
  ASSUME AdmissionInv, NEW c \in Conns, Promote(c)
  PROVE  AdmissionInv'
  <1>a. /\ TypeOK /\ PendingExact /\ CurrentExact /\ IpExact
        /\ LoadedInv /\ RoomInv /\ AddressInv
    BY ZenonT(40) DEF AdmissionInv
  <1>b. PICK p : phase[c] = "pending" /\ p = "promoted" /\ Goto(c, p)
    BY ZenonT(40) DEF Promote
  <1>c. /\ policy' = policy /\ reloads' = reloads /\ seen' = seen
        /\ ipCount' = ipCount /\ current' = current /\ racedIp' = racedIp
    BY ZenonT(40) DEF Promote, counters, ghosts
  <1>d. /\ p \notin HalfOpen /\ phase[c] \in HalfOpen
        /\ (p \in Open <=> phase[c] \in Open)
        /\ (p \in OnCounter <=> phase[c] \in OnCounter)
        /\ (p \in Entered <=> phase[c] \in Entered)
        /\ (p \in Taken <=> phase[c] \in Taken)
        /\ (p \in {"loaded"} <=> phase[c] \in {"loaded"})
        /\ p \in {"promoted"} /\ phase[c] \notin {"promoted"}
        /\ p \in Phases
    BY <1>b, SMTT(40) DEF HalfOpen, Open, OnCounter, Taken, Entered, Phases
  <1>1. PendingExact'
    <2>1. Cardinality(In(HalfOpen)') = Cardinality(In(HalfOpen)) - 1
      BY <1>a, <1>b, <1>d, Loses, ZenonT(40)
    <2>2. QED
      BY <1>a, <2>1, ZenonT(40) DEF PendingExact, Promote, HalfOpen
  <1>2. CurrentExact'
    BY <1>a, <1>b, <1>c, <1>d, Stays, KeepCurrent, ZenonT(40)
  <1>3. IpExact'
    BY <1>a, <1>b, <1>c, <1>d, Stays, KeepIp, ZenonT(40)
  <1>4. LoadedInv'
    <2>1. ~raced' => In({"loaded"}) = {}
      BY ZenonT(40) DEF Promote
    <2>2. In({"loaded"})' = In({"loaded"})
      BY <1>a, <1>b, <1>d, Stays, ZenonT(40)
    <2>3. QED
      BY <2>1, <2>2, ZenonT(40) DEF LoadedInv
  <1>5. RoomInv'
    <2>1. Cardinality(In(Entered)') <= Cardinality(In(Entered))
      BY <1>a, <1>b, <1>d, Shrinks, ZenonT(40)
    <2>2. ~raced' => ~raced
      BY ZenonT(40) DEF Promote
    <2>3. QED
      BY <1>a, <2>1, <2>2, KeepRoom, ZenonT(40)
  <1>6. AddressInv'
    <2>1. \A i : Cardinality(At(Taken, i)') <= Cardinality(At(Taken, i))
      BY <1>a, <1>b, <1>d, Shrinks, ZenonT(40)
    <2>2. QED
      BY <1>a, <1>c, <2>1, KeepAddress, ZenonT(40)
  <1>7. ipCount' \in [Ips -> Nat]
    BY <1>a, <1>c, ZenonT(40) DEF TypeOK
  <1>8. seen' \in [Conns -> Nat]
    BY <1>a, <1>c, ZenonT(40) DEF TypeOK
  <1>9. QED
    BY <1>a, <1>b, <1>c, <1>d, <1>1, <1>2, <1>3, <1>4, <1>5, <1>6, <1>7, <1>8, StepInv, ZenonT(40)

\* The accepted connection is counted as current.
LEMMA IncConnectionsStep ==
  ASSUME AdmissionInv, NEW c \in Conns, IncConnections(c)
  PROVE  AdmissionInv'
  <1>a. /\ TypeOK /\ PendingExact /\ CurrentExact /\ IpExact
        /\ LoadedInv /\ RoomInv /\ AddressInv
    BY ZenonT(40) DEF AdmissionInv
  <1>b. PICK p : phase[c] = "promoted" /\ p = "online" /\ Goto(c, p)
    BY ZenonT(40) DEF IncConnections
  <1>c. /\ policy' = policy /\ reloads' = reloads /\ seen' = seen /\ ipCount' = ipCount
        /\ pending' = pending /\ raced' = raced /\ racedIp' = racedIp
    BY ZenonT(40) DEF IncConnections, counters, ghosts
  <1>d. /\ (p \in HalfOpen <=> phase[c] \in HalfOpen)
        /\ p \in Open /\ phase[c] \notin Open
        /\ (p \in OnCounter <=> phase[c] \in OnCounter)
        /\ (p \in Entered <=> phase[c] \in Entered)
        /\ (p \in Taken <=> phase[c] \in Taken)
        /\ (p \in {"loaded"} <=> phase[c] \in {"loaded"})
        /\ p \notin {"promoted"} /\ phase[c] \in {"promoted"}
        /\ p \in Phases
    BY <1>b, SMTT(40) DEF HalfOpen, Open, OnCounter, Taken, Entered, Phases
  <1>1. PendingExact'
    BY <1>a, <1>b, <1>c, <1>d, Stays, KeepPending, ZenonT(40)
  <1>2. CurrentExact'
    <2>1. Cardinality(In(Open)') = Cardinality(In(Open)) + 1
      BY <1>a, <1>b, <1>d, Gains, ZenonT(40)
    <2>2. QED
      BY <1>a, <2>1, ZenonT(40) DEF CurrentExact, IncConnections, Open
  <1>3. IpExact'
    BY <1>a, <1>b, <1>c, <1>d, Stays, KeepIp, ZenonT(40)
  <1>4. LoadedInv'
    <2>1. c \in In({"promoted"})
      BY <1>b, ZenonT(40) DEF In
    <2>2. ~raced => In({"loaded"}) = {}
      BY <1>a, <2>1, ZenonT(40) DEF LoadedInv
    <2>3. In({"loaded"})' = In({"loaded"})
      BY <1>a, <1>b, <1>d, Stays, ZenonT(40)
    <2>4. QED
      BY <1>c, <2>2, <2>3, ZenonT(40) DEF LoadedInv
  <1>5. RoomInv'
    <2>1. Cardinality(In(Entered)') <= Cardinality(In(Entered))
      BY <1>a, <1>b, <1>d, Shrinks, ZenonT(40)
    <2>2. ~raced' => ~raced
      BY <1>c, ZenonT(40)
    <2>3. QED
      BY <1>a, <2>1, <2>2, KeepRoom, ZenonT(40)
  <1>6. AddressInv'
    <2>1. \A i : Cardinality(At(Taken, i)') <= Cardinality(At(Taken, i))
      BY <1>a, <1>b, <1>d, Shrinks, ZenonT(40)
    <2>2. QED
      BY <1>a, <1>c, <2>1, KeepAddress, ZenonT(40)
  <1>7. ipCount' \in [Ips -> Nat]
    BY <1>a, <1>c, ZenonT(40) DEF TypeOK
  <1>8. seen' \in [Conns -> Nat]
    BY <1>a, <1>c, ZenonT(40) DEF TypeOK
  <1>9. QED
    BY <1>a, <1>b, <1>c, <1>d, <1>1, <1>2, <1>3, <1>4, <1>5, <1>6, <1>7, <1>8, StepInv, ZenonT(40)

\* A refused connection keeps its counters until the steps of its exit.
LEMMA RejectStep ==
  ASSUME AdmissionInv, NEW c \in Conns, Reject(c)
  PROVE  AdmissionInv'
  <1>a. /\ TypeOK /\ PendingExact /\ CurrentExact /\ IpExact
        /\ LoadedInv /\ RoomInv /\ AddressInv
    BY ZenonT(40) DEF AdmissionInv
  <1>b. PICK p : phase[c] = "pending" /\ p = "failing" /\ Goto(c, p)
    BY ZenonT(40) DEF Reject
  <1>c. /\ policy' = policy /\ reloads' = reloads /\ seen' = seen /\ ipCount' = ipCount
        /\ current' = current /\ pending' = pending /\ raced' = raced /\ racedIp' = racedIp
    BY ZenonT(40) DEF Reject, counters, ghosts
  <1>d. /\ (p \in HalfOpen <=> phase[c] \in HalfOpen)
        /\ (p \in Open <=> phase[c] \in Open)
        /\ (p \in OnCounter <=> phase[c] \in OnCounter)
        /\ (p \in Entered <=> phase[c] \in Entered)
        /\ (p \in Taken <=> phase[c] \in Taken)
        /\ (p \in {"loaded"} <=> phase[c] \in {"loaded"})
        /\ (p \in {"promoted"} <=> phase[c] \in {"promoted"})
        /\ p \in Phases
    BY <1>b, SMTT(40) DEF HalfOpen, Open, OnCounter, Taken, Entered, Phases
  <1>1. PendingExact'
    BY <1>a, <1>b, <1>c, <1>d, Stays, KeepPending, ZenonT(40)
  <1>2. CurrentExact'
    BY <1>a, <1>b, <1>c, <1>d, Stays, KeepCurrent, ZenonT(40)
  <1>3. IpExact'
    BY <1>a, <1>b, <1>c, <1>d, Stays, KeepIp, ZenonT(40)
  <1>4. LoadedInv'
    <2>1. In({"loaded"})' \subseteq In({"loaded"}) /\ In({"promoted"})' \subseteq In({"promoted"})
      BY <1>a, <1>b, <1>d, Shrinks, ZenonT(40)
    <2>2. current' \in Nat /\ current' <= current
      BY <1>a, <1>c, SMTT(40) DEF TypeOK
    <2>3. QED
      BY <1>a, <1>c, <2>1, <2>2, KeepLoaded, ZenonT(40)
  <1>5. RoomInv'
    <2>1. Cardinality(In(Entered)') <= Cardinality(In(Entered))
      BY <1>a, <1>b, <1>d, Shrinks, ZenonT(40)
    <2>2. ~raced' => ~raced
      BY <1>c, ZenonT(40)
    <2>3. QED
      BY <1>a, <2>1, <2>2, KeepRoom, ZenonT(40)
  <1>6. AddressInv'
    <2>1. \A i : Cardinality(At(Taken, i)') <= Cardinality(At(Taken, i))
      BY <1>a, <1>b, <1>d, Shrinks, ZenonT(40)
    <2>2. QED
      BY <1>a, <1>c, <2>1, KeepAddress, ZenonT(40)
  <1>7. ipCount' \in [Ips -> Nat]
    BY <1>a, <1>c, ZenonT(40) DEF TypeOK
  <1>8. seen' \in [Conns -> Nat]
    BY <1>a, <1>c, ZenonT(40) DEF TypeOK
  <1>9. QED
    BY <1>a, <1>b, <1>c, <1>d, <1>1, <1>2, <1>3, <1>4, <1>5, <1>6, <1>7, <1>8, StepInv, ZenonT(40)

\* dec_connections takes the connection off the current ones.
LEMMA LeaveStep ==
  ASSUME AdmissionInv, NEW c \in Conns, Leave(c)
  PROVE  AdmissionInv'
  <1>a. /\ TypeOK /\ PendingExact /\ CurrentExact /\ IpExact
        /\ LoadedInv /\ RoomInv /\ AddressInv
    BY ZenonT(40) DEF AdmissionInv
  <1>b. PICK p : phase[c] = "online" /\ p = "closing" /\ Goto(c, p)
    BY ZenonT(40) DEF Leave
  <1>c. /\ policy' = policy /\ reloads' = reloads /\ seen' = seen /\ ipCount' = ipCount
        /\ pending' = pending /\ raced' = raced /\ racedIp' = racedIp
    BY ZenonT(40) DEF Leave, counters, ghosts
  <1>d. /\ (p \in HalfOpen <=> phase[c] \in HalfOpen)
        /\ p \notin Open /\ phase[c] \in Open
        /\ (p \in OnCounter <=> phase[c] \in OnCounter)
        /\ (p \in Entered => phase[c] \in Entered)
        /\ (p \in Taken <=> phase[c] \in Taken)
        /\ (p \in {"loaded"} <=> phase[c] \in {"loaded"})
        /\ (p \in {"promoted"} <=> phase[c] \in {"promoted"})
        /\ p \in Phases
    BY <1>b, SMTT(40) DEF HalfOpen, Open, OnCounter, Taken, Entered, Phases
  <1>1. PendingExact'
    BY <1>a, <1>b, <1>c, <1>d, Stays, KeepPending, ZenonT(40)
  <1>2. CurrentExact'
    <2>1. Cardinality(In(Open)') = Cardinality(In(Open)) - 1
      BY <1>a, <1>b, <1>d, Loses, ZenonT(40)
    <2>2. QED
      BY <1>a, <2>1, ZenonT(40) DEF CurrentExact, Leave, Open
  <1>3. IpExact'
    BY <1>a, <1>b, <1>c, <1>d, Stays, KeepIp, ZenonT(40)
  <1>4. LoadedInv'
    <2>1. In({"loaded"})' \subseteq In({"loaded"}) /\ In({"promoted"})' \subseteq In({"promoted"})
      BY <1>a, <1>b, <1>d, Shrinks, ZenonT(40)
    <2>2. current' \in Nat /\ current' <= current
      <3>1. current' \in Nat
        BY <1>2, CardTypesNext, ZenonT(40) DEF CurrentExact, Open
      <3>2. current' = current - 1 /\ current \in Nat
        BY <1>a, ZenonT(40) DEF Leave, TypeOK
      <3>3. QED
        BY <3>1, <3>2, SMTT(40)
    <2>3. QED
      BY <1>a, <1>c, <2>1, <2>2, KeepLoaded, ZenonT(40)
  <1>5. RoomInv'
    <2>1. Cardinality(In(Entered)') <= Cardinality(In(Entered))
      BY <1>a, <1>b, <1>d, Shrinks, ZenonT(40)
    <2>2. ~raced' => ~raced
      BY <1>c, ZenonT(40)
    <2>3. QED
      BY <1>a, <2>1, <2>2, KeepRoom, ZenonT(40)
  <1>6. AddressInv'
    <2>1. \A i : Cardinality(At(Taken, i)') <= Cardinality(At(Taken, i))
      BY <1>a, <1>b, <1>d, Shrinks, ZenonT(40)
    <2>2. QED
      BY <1>a, <1>c, <2>1, KeepAddress, ZenonT(40)
  <1>7. ipCount' \in [Ips -> Nat]
    BY <1>a, <1>c, ZenonT(40) DEF TypeOK
  <1>8. seen' \in [Conns -> Nat]
    BY <1>a, <1>c, ZenonT(40) DEF TypeOK
  <1>9. QED
    BY <1>a, <1>b, <1>c, <1>d, <1>1, <1>2, <1>3, <1>4, <1>5, <1>6, <1>7, <1>8, StepInv, ZenonT(40)

\* on_disconnect takes the connection off the counter of its address.
LEMMA OnDisconnectStep ==
  ASSUME AdmissionInv, NEW c \in Conns, OnDisconnect(c)
  PROVE  AdmissionInv'
  <1>a. /\ TypeOK /\ PendingExact /\ CurrentExact /\ IpExact
        /\ LoadedInv /\ RoomInv /\ AddressInv
    BY ZenonT(40) DEF AdmissionInv
  <1>0. \/ phase[c] = "failing" /\ Goto(c, "unguarded")
        \/ phase[c] = "closing" /\ Goto(c, "gone")
    <2>1. CASE phase[c] = "failing"
      <3>1. Goto(c, "unguarded")
        BY <2>1, SMTT(40) DEF OnDisconnect
      <3>2. QED
        BY <2>1, <3>1, ZenonT(40) DEF OnDisconnect
    <2>2. CASE ~(phase[c] = "failing")
      <3>1. Goto(c, "gone")
        BY <2>2, SMTT(40) DEF OnDisconnect
      <3>2. QED
        BY <2>2, <3>1, ZenonT(40) DEF OnDisconnect
    <2>3. QED
      BY <2>1, <2>2, ZenonT(40)
  <1>b. PICK p : ((phase[c] = "failing" /\ p = "unguarded") \/ (phase[c] = "closing" /\ p = "gone")) /\ Goto(c, p)
    BY <1>0, Chosen, ZenonT(40)
  <1>c. /\ policy' = policy /\ reloads' = reloads /\ seen' = seen /\ current' = current
        /\ pending' = pending /\ raced' = raced /\ racedIp' = racedIp
    BY ZenonT(40) DEF OnDisconnect, counters, ghosts
  <1>d. /\ (p \in HalfOpen <=> phase[c] \in HalfOpen)
        /\ (p \in Open <=> phase[c] \in Open)
        /\ p \notin OnCounter /\ phase[c] \in OnCounter
        /\ (p \in Entered <=> phase[c] \in Entered)
        /\ (p \in Taken => phase[c] \in Taken)
        /\ (p \in {"loaded"} <=> phase[c] \in {"loaded"})
        /\ (p \in {"promoted"} <=> phase[c] \in {"promoted"})
        /\ p \in Phases
    BY <1>b, SMTT(40) DEF HalfOpen, Open, OnCounter, Taken, Entered, Phases
  <1>1. PendingExact'
    BY <1>a, <1>b, <1>c, <1>d, Stays, KeepPending, ZenonT(40)
  <1>2. CurrentExact'
    BY <1>a, <1>b, <1>c, <1>d, Stays, KeepCurrent, ZenonT(40)
  <1>3. IpExact'
    <2> SUFFICES ASSUME reloads = 0, NEW i \in Ips
                 PROVE  ipCount'[i] = IF CountsIps THEN Cardinality(At(OnCounter, i)') ELSE 0
      BY <1>c, SMTT(40) DEF IpExact, CountsIps, Ips, OnCounter
    <2>1. ipCount[i] = IF CountsIps THEN Cardinality(At(OnCounter, i)) ELSE 0
      BY <1>a, ZenonT(40) DEF IpExact
    <2>2. CASE ~CountsIps
      <3>1. ipCount' = ipCount
        BY <2>2, ZenonT(40) DEF OnDisconnect
      <3>2. QED
        BY <2>1, <2>2, <3>1, ZenonT(40)
    <2>3. CASE CountsIps /\ i = IpOf[c]
      <3>1. Cardinality(At(OnCounter, i)') = Cardinality(At(OnCounter, i)) - 1
        BY <1>a, <1>b, <1>d, <2>3, Loses, ZenonT(40)
      <3>2. PICK m, n : m = Cardinality(At(OnCounter, i)) /\ n = Cardinality(At(OnCounter, i)')
        BY ZenonT(40)
      <3>3. m \in Nat /\ n \in Nat
        BY <3>2, CardTypes, CardTypesNext, ZenonT(40)
      <3>4. n = m - 1 /\ ipCount[i] = m
        BY <2>1, <2>3, <3>1, <3>2, ZenonT(40)
      <3>5. ipCount'[i] = IF ipCount[i] = 0 THEN 0 ELSE ipCount[i] - 1
        BY <1>a, <2>3, SMTT(40) DEF TypeOK, OnDisconnect, Dec
      <3>6. ipCount'[i] = n
        BY <3>3, <3>4, <3>5, SMTT(40)
      <3>7. QED
        BY <2>3, <3>2, <3>6, ZenonT(40)
    <2>4. CASE CountsIps /\ i # IpOf[c]
      <3>1. Cardinality(At(OnCounter, i)') = Cardinality(At(OnCounter, i))
        <4>1. \A j : j # IpOf[c] => At(OnCounter, j)' = At(OnCounter, j)
          BY <1>a, <1>b, <1>d, Loses, ZenonT(40)
        <4>2. QED
          BY <2>4, <4>1, ZenonT(40)
      <3>2. ipCount'[i] = ipCount[i]
        BY <1>a, <2>4, SMTT(40) DEF TypeOK, OnDisconnect, Dec
      <3>3. QED
        BY <2>1, <2>4, <3>1, <3>2, ZenonT(40)
    <2>5. QED
      BY <2>2, <2>3, <2>4, ZenonT(40)
  <1>4. LoadedInv'
    <2>1. In({"loaded"})' \subseteq In({"loaded"}) /\ In({"promoted"})' \subseteq In({"promoted"})
      BY <1>a, <1>b, <1>d, Shrinks, ZenonT(40)
    <2>2. current' \in Nat /\ current' <= current
      BY <1>a, <1>c, SMTT(40) DEF TypeOK
    <2>3. QED
      BY <1>a, <1>c, <2>1, <2>2, KeepLoaded, ZenonT(40)
  <1>5. RoomInv'
    <2>1. Cardinality(In(Entered)') <= Cardinality(In(Entered))
      BY <1>a, <1>b, <1>d, Shrinks, ZenonT(40)
    <2>2. ~raced' => ~raced
      BY <1>c, ZenonT(40)
    <2>3. QED
      BY <1>a, <2>1, <2>2, KeepRoom, ZenonT(40)
  <1>6. AddressInv'
    <2>1. \A i : Cardinality(At(Taken, i)') <= Cardinality(At(Taken, i))
      BY <1>a, <1>b, <1>d, Shrinks, ZenonT(40)
    <2>2. QED
      BY <1>a, <1>c, <2>1, KeepAddress, ZenonT(40)
  <1>7. ipCount' \in [Ips -> Nat]
    <2>1. CASE CountsIps
      BY <1>a, <2>1, SMTT(40) DEF TypeOK, OnDisconnect, Dec
    <2>2. CASE ~CountsIps
      BY <1>a, <2>2, ZenonT(40) DEF TypeOK, OnDisconnect
    <2>3. QED
      BY <2>1, <2>2, ZenonT(40)
  <1>8. seen' \in [Conns -> Nat]
    BY <1>a, <1>c, ZenonT(40) DEF TypeOK
  <1>9. QED
    BY <1>a, <1>b, <1>c, <1>d, <1>1, <1>2, <1>3, <1>4, <1>5, <1>6, <1>7, <1>8, StepInv, ZenonT(40)

\* The dropped PendingGuard gives the pending place back.
LEMMA DropGuardStep ==
  ASSUME AdmissionInv, NEW c \in Conns, DropGuard(c)
  PROVE  AdmissionInv'
  <1>a. /\ TypeOK /\ PendingExact /\ CurrentExact /\ IpExact
        /\ LoadedInv /\ RoomInv /\ AddressInv
    BY ZenonT(40) DEF AdmissionInv
  <1>b. PICK p : phase[c] = "unguarded" /\ p = "gone" /\ Goto(c, p)
    BY ZenonT(40) DEF DropGuard
  <1>c. /\ policy' = policy /\ reloads' = reloads /\ seen' = seen /\ ipCount' = ipCount
        /\ current' = current /\ raced' = raced /\ racedIp' = racedIp
    BY ZenonT(40) DEF DropGuard, counters, ghosts
  <1>d. /\ p \notin HalfOpen /\ phase[c] \in HalfOpen
        /\ (p \in Open <=> phase[c] \in Open)
        /\ (p \in OnCounter <=> phase[c] \in OnCounter)
        /\ (p \in Entered => phase[c] \in Entered)
        /\ (p \in Taken <=> phase[c] \in Taken)
        /\ (p \in {"loaded"} <=> phase[c] \in {"loaded"})
        /\ (p \in {"promoted"} <=> phase[c] \in {"promoted"})
        /\ p \in Phases
    BY <1>b, SMTT(40) DEF HalfOpen, Open, OnCounter, Taken, Entered, Phases
  <1>1. PendingExact'
    <2>1. Cardinality(In(HalfOpen)') = Cardinality(In(HalfOpen)) - 1
      BY <1>a, <1>b, <1>d, Loses, ZenonT(40)
    <2>2. QED
      BY <1>a, <2>1, ZenonT(40) DEF PendingExact, DropGuard, HalfOpen
  <1>2. CurrentExact'
    BY <1>a, <1>b, <1>c, <1>d, Stays, KeepCurrent, ZenonT(40)
  <1>3. IpExact'
    BY <1>a, <1>b, <1>c, <1>d, Stays, KeepIp, ZenonT(40)
  <1>4. LoadedInv'
    <2>1. In({"loaded"})' \subseteq In({"loaded"}) /\ In({"promoted"})' \subseteq In({"promoted"})
      BY <1>a, <1>b, <1>d, Shrinks, ZenonT(40)
    <2>2. current' \in Nat /\ current' <= current
      BY <1>a, <1>c, SMTT(40) DEF TypeOK
    <2>3. QED
      BY <1>a, <1>c, <2>1, <2>2, KeepLoaded, ZenonT(40)
  <1>5. RoomInv'
    <2>1. Cardinality(In(Entered)') <= Cardinality(In(Entered))
      BY <1>a, <1>b, <1>d, Shrinks, ZenonT(40)
    <2>2. ~raced' => ~raced
      BY <1>c, ZenonT(40)
    <2>3. QED
      BY <1>a, <2>1, <2>2, KeepRoom, ZenonT(40)
  <1>6. AddressInv'
    <2>1. \A i : Cardinality(At(Taken, i)') <= Cardinality(At(Taken, i))
      BY <1>a, <1>b, <1>d, Shrinks, ZenonT(40)
    <2>2. QED
      BY <1>a, <1>c, <2>1, KeepAddress, ZenonT(40)
  <1>7. ipCount' \in [Ips -> Nat]
    BY <1>a, <1>c, ZenonT(40) DEF TypeOK
  <1>8. seen' \in [Conns -> Nat]
    BY <1>a, <1>c, ZenonT(40) DEF TypeOK
  <1>9. QED
    BY <1>a, <1>b, <1>c, <1>d, <1>1, <1>2, <1>3, <1>4, <1>5, <1>6, <1>7, <1>8, StepInv, ZenonT(40)

-----------------------------------------------------------------------------
(* Init, Reload, and the theorems.                                         *)

\* What a security section says about addresses.
LEMMA PolicyType ==
  ASSUME NEW p \in Policies
  PROVE  p.enabled \in BOOLEAN /\ p.maxPerIp \in Nat
  BY ConfigsKnown, SMTT(40) DEF Policies, BuildPolicy

\* At the start nothing is counted and no connection is there.
LEMMA AdmissionInit == Init => AdmissionInv
  <1> SUFFICES ASSUME Init PROVE AdmissionInv
    OBVIOUS
  <1>1. policy.enabled \in BOOLEAN /\ policy.maxPerIp \in Nat
    BY PolicyType, ZenonT(40) DEF Init
  <1>2. TypeOK
    <2>1. phase \in [Conns -> Phases]
      BY SMTT(40) DEF Init, Phases
    <2>2. ipCount \in [Ips -> Nat] /\ seen \in [Conns -> Nat]
      BY SMTT(40) DEF Init
    <2>3. current \in Nat /\ pending \in Nat /\ reloads \in Nat
      BY SMTT(40) DEF Init
    <2>4. QED
      BY <1>1, <2>1, <2>2, <2>3, ZenonT(40) DEF TypeOK
  <1>3. \A c \in Conns : phase[c] = "new"
    BY ZenonT(40) DEF Init
  <1>4. /\ In(HalfOpen) = {} /\ In(Open) = {} /\ In({"loaded"}) = {} /\ In(Entered) = {}
        /\ In(OnCounter) = {} /\ In(Taken) = {}
    BY <1>3, SMTT(40) DEF In, HalfOpen, Open, Entered, OnCounter, Taken
  <1>5. \A i : At(OnCounter, i) = {} /\ At(Taken, i) = {}
    BY <1>4, ZenonT(40) DEF At
  <1>6. Cardinality({}) = 0
    BY FS_EmptySet, ZenonT(40)
  <1>7. PendingExact /\ CurrentExact
    BY <1>4, <1>6, ZenonT(40) DEF PendingExact, CurrentExact, Init
  <1>8. IpExact
    <2>1. \A i \in Ips : ipCount[i] = 0
      BY ZenonT(40) DEF Init
    <2>2. QED
      BY <1>5, <1>6, <2>1, ZenonT(40) DEF IpExact
  <1>9. LoadedInv
    BY <1>4, ZenonT(40) DEF LoadedInv
  <1>10. RoomInv
    <2>1. 0 <= MaxConnections
      BY LimitPositive, SMTT(40)
    <2>2. QED
      BY <1>4, <1>6, <2>1, ZenonT(40) DEF RoomInv
  <1>11. AddressInv
    <2>1. \A n \in Nat : 0 <= n
      BY SMTT(40)
    <2>2. QED
      BY <1>1, <1>5, <1>6, <2>1, ZenonT(40) DEF AddressInv
  <1>12. QED
    BY <1>2, <1>7, <1>8, <1>9, <1>10, <1>11, ZenonT(40) DEF AdmissionInv

\* A reload replaces the section and leaves the counters alone.
LEMMA ReloadStep ==
  ASSUME AdmissionInv, Reload
  PROVE  AdmissionInv'
  <1>a. /\ TypeOK /\ PendingExact /\ CurrentExact /\ IpExact
        /\ LoadedInv /\ RoomInv /\ AddressInv
    BY ZenonT(40) DEF AdmissionInv
  <1>b. /\ ipCount' = ipCount /\ current' = current /\ pending' = pending /\ phase' = phase
        /\ seen' = seen /\ raced' = raced /\ racedIp' = racedIp
    BY ZenonT(40) DEF Reload, counters, ghosts
  <1>1. policy' = policy \/ policy' \in Policies
    <2>1. PICK cfg \in Configs : policy' = IF Parsed(cfg) THEN BuildPolicy(cfg) ELSE policy
      BY ZenonT(40) DEF Reload
    <2>2. CASE Parsed(cfg)
      <3>1. policy' = BuildPolicy(cfg)
        BY <2>1, <2>2, ZenonT(40)
      <3>2. QED
        BY <2>2, <3>1, ZenonT(40) DEF Policies
    <2>3. CASE ~Parsed(cfg)
      BY <2>1, <2>3, ZenonT(40)
    <2>4. QED
      BY <2>2, <2>3, ZenonT(40)
  <1>2. policy'.enabled \in BOOLEAN /\ policy'.maxPerIp \in Nat
    <2>1. CASE policy' = policy
      BY <1>a, <2>1, ZenonT(40) DEF TypeOK
    <2>2. CASE policy' \in Policies
      BY <2>2, PolicyType, ZenonT(40)
    <2>3. QED
      BY <1>1, <2>1, <2>2, ZenonT(40)
  <1>3. reloads' = reloads + 1 /\ reloads \in Nat
    BY <1>a, ZenonT(40) DEF Reload, TypeOK
  <1>4. reloads' \in Nat /\ reloads' # 0
    BY <1>3, SMTT(40)
  <1>5. TypeOK'
    BY <1>a, <1>b, <1>2, <1>4, ZenonT(40) DEF TypeOK, Ips, Phases
  <1>6. IpExact' /\ AddressInv'
    BY <1>4, ZenonT(40) DEF IpExact, AddressInv
  <1>7. PendingExact' /\ CurrentExact' /\ LoadedInv' /\ RoomInv'
    BY <1>a, <1>b, ZenonT(40) DEF PendingExact, CurrentExact, LoadedInv, RoomInv, In,
       HalfOpen, Open, Entered
  <1>8. QED
    BY <1>5, <1>6, <1>7, ZenonT(40) DEF AdmissionInv

\* A step of no one changes nothing.
LEMMA AdmissionStutter ==
  ASSUME AdmissionInv, UNCHANGED vars
  PROVE  AdmissionInv'
  <1>1. /\ policy' = policy /\ ipCount' = ipCount /\ current' = current /\ pending' = pending
        /\ phase' = phase /\ seen' = seen /\ reloads' = reloads /\ raced' = raced
        /\ racedIp' = racedIp
    BY ZenonT(40) DEF vars
  <1>2. TypeOK' /\ PendingExact' /\ CurrentExact'
    BY <1>1, ZenonT(40) DEF AdmissionInv, TypeOK, PendingExact, CurrentExact, In, Ips,
       Phases, HalfOpen, Open
  <1>3. LoadedInv' /\ RoomInv'
    BY <1>1, ZenonT(40) DEF AdmissionInv, LoadedInv, RoomInv, In, Entered
  <1>4. IpExact' /\ AddressInv'
    <2>1. \A S, i : At(S, i)' = At(S, i)
      BY <1>1, ZenonT(40) DEF At, In
    <2>2. CountsIps' <=> CountsIps
      BY <1>1, ZenonT(40) DEF CountsIps
    <2>3. \A i : Cardinality(At(Taken, i)') = Cardinality(At(Taken, i))
      BY <2>1, ZenonT(40)
    <2>4. IpExact'
      BY <1>1, <2>1, KeepIp, ZenonT(40) DEF AdmissionInv
    <2>5. AddressInv'
      BY <1>1, <2>2, <2>3, ZenonT(40) DEF AdmissionInv, AddressInv, Ips, Taken
    <2>6. QED
      BY <2>4, <2>5, ZenonT(40)
  <1>5. QED
    BY <1>2, <1>3, <1>4, ZenonT(40) DEF AdmissionInv

\* Every step of a listener, of a connection's task and of a reload keeps the
\* gauges in line with the connections they stand for, the value a listener
\* loaded at or above connections_current while nothing raced, and the limits.
THEOREM AdmissionInvariant == Spec => []AdmissionInv
  <1>1. Init => AdmissionInv
    BY AdmissionInit, ZenonT(40)
  <1>2. AdmissionInv /\ [Next]_vars => AdmissionInv'
    <2> SUFFICES ASSUME AdmissionInv, [Next]_vars PROVE AdmissionInv'
      OBVIOUS
    <2>1. CASE Next
      <3>1. CASE Reload
        BY <3>1, ReloadStep, ZenonT(40)
      <3>2. CASE ~Reload
        <4>1. PICK c \in Conns :
                \/ Vet(c) \/ LoadCurrent(c) \/ Admit(c)
                \/ HandshakeFails(c) \/ Enter(c) \/ OnConnect(c) \/ NewGuard(c)
                \/ Promote(c) \/ IncConnections(c) \/ Reject(c)
                \/ Leave(c) \/ OnDisconnect(c) \/ DropGuard(c)
          BY <2>1, <3>2, ZenonT(40) DEF Next
        <4>2. QED
          BY <4>1, VetStep, LoadCurrentStep, AdmitStep, HandshakeFailsStep, EnterStep,
             OnConnectStep, NewGuardStep, PromoteStep, IncConnectionsStep, RejectStep,
             LeaveStep, OnDisconnectStep, DropGuardStep, ZenonT(40)
      <3>3. QED
        BY <3>1, <3>2, ZenonT(40)
    <2>2. CASE UNCHANGED vars
      BY <2>2, AdmissionStutter, ZenonT(40)
    <2>3. QED
      BY <2>1, <2>2, ZenonT(40)
  <1>3. QED
    BY <1>1, <1>2, PTL DEF Spec

\* Every way out of handle_connection gives back exactly what it took, for any
\* number of connections, listeners and addresses: connections_pending and
\* connections_current are the number of half-open and of open connections,
\* and until the policy is replaced so is IpConnectionCounter per address.
THEOREM CountersAreExact == Spec => []CountersExact
  <1>1. AdmissionInv => CountersExact
    <2> SUFFICES ASSUME AdmissionInv PROVE CountersExact
      OBVIOUS
    <2>1. \A i : Counted(i) = At(OnCounter, i)
      BY ZenonT(40) DEF Counted, At, OnCounter
    <2>2. PendingExact /\ CurrentExact /\ IpExact
      BY ZenonT(40) DEF AdmissionInv
    <2>3. \A i : Cardinality(Counted(i)) = Cardinality(At(OnCounter, i))
      BY <2>1, ZenonT(40)
    <2>4. reloads = 0 => \A i \in Ips :
            ipCount[i] = IF CountsIps THEN Cardinality(Counted(i)) ELSE 0
      BY <2>2, <2>3, ZenonT(40) DEF IpExact
    <2>5. QED
      BY <2>2, <2>4, ZenonT(40) DEF CountersExact, PendingExact, CurrentExact, HalfOpen, Open
  <1>2. QED
    BY <1>1, AdmissionInvariant, PTL

\* Whatever max_connections and the limits per address are: more connections
\* than allowed are let in only when an accept loop decided past a connection
\* that was not counted yet, and more from one address only when two tasks of
\* it were between check_connection and on_connect.
THEOREM LimitsHold == Spec => []LimitsUnlessRaced
  <1>1. AdmissionInv => LimitsUnlessRaced
    <2> SUFFICES ASSUME AdmissionInv PROVE LimitsUnlessRaced
      OBVIOUS
    <2>1. TypeOK /\ RoomInv /\ AddressInv
      BY ZenonT(40) DEF AdmissionInv
    <2>2. LetIn = In(Entered)
      BY ZenonT(40) DEF LetIn, Entered
    <2>3. ~raced => Cardinality(LetIn) <= MaxConnections
      BY <2>1, <2>2, ZenonT(40) DEF RoomInv
    <2>4. ASSUME reloads = 0, CountsIps, NEW i \in Ips \ racedIp
          PROVE  Cardinality(Counted(i)) <= policy.maxPerIp
      <3>1. Counted(i) \subseteq At(Taken, i)
        <4>1. \A q : q \in OnCounter => q \in Taken
          BY ZenonT(40) DEF OnCounter, Taken
        <4>2. QED
          BY <4>1, ZenonT(40) DEF Counted, At, In, OnCounter
      <3>2. PICK m, n, k : /\ m = Cardinality(Counted(i)) /\ n = Cardinality(At(Taken, i))
                           /\ k = policy.maxPerIp
        BY ZenonT(40)
      <3>3. IsFiniteSet(At(Taken, i)) /\ n \in Nat
        BY <3>2, CardTypes, ZenonT(40)
      <3>4. m <= n
        BY <3>1, <3>2, <3>3, FS_Subset, ZenonT(40)
      <3>5. m \in Nat
        BY <3>1, <3>2, <3>3, FS_Subset, FS_CardinalityType, ZenonT(40)
      <3>6. n <= k /\ k \in Nat
        BY <2>1, <2>4, <3>2, ZenonT(40) DEF AddressInv, TypeOK
      <3>7. m <= k
        BY <3>3, <3>4, <3>5, <3>6, SMTT(40)
      <3>8. QED
        BY <3>2, <3>7, ZenonT(40)
    <2>5. QED
      BY <2>3, <2>4, ZenonT(40) DEF LimitsUnlessRaced
  <1>2. QED
    BY <1>1, AdmissionInvariant, PTL

----------------------------------------------------------------------------
(***************************************************************************)
(* SubscriptionIndex.                                                      *)
(***************************************************************************)

USE IndexAssumption DEF Filters, Held, Nothing, Idle

\* What is left for the call of an actor to do.
Pending(a) ==
    LET c == ActsFor[a] IN
    /\ op[a].at = "put" =>
          \A f \in Filters : IF f = op[a].filter THEN store[c][f] = op[a].qos
                             ELSE store[c][f] = reverse[c][f]
    /\ op[a].at = "drop" =>
          \A f \in Filters : IF f = op[a].filter THEN store[c][f] = Off
                             ELSE store[c][f] = reverse[c][f]
    /\ op[a].at \in {"scan", "shared", "clear"} => \A f \in Plain : store[c][f] = Off
    /\ op[a].at = "shared" => \A f \in Shared \ op[a].keys : store[c][f] = Off
    /\ op[a].at = "clear" => \A f \in Shared : store[c][f] = Off

IndexInv ==
    /\ IndexMatchesStoreAlone
    /\ \A a \in Actors : Alone(ActsFor[a]) => Pending(a)

\* What an operation under way carries at each of its positions.
LEMMA OpCases ==
  ASSUME IndexTypeOK, NEW a \in Actors
  PROVE  /\ op[a].at \in {"idle", "put", "drop", "scan", "shared", "clear"}
         /\ op[a] = Idle <=> op[a].at = "idle"
         /\ op[a].at = "put" => op[a].filter \in Filters /\ op[a].qos \in QoS
         /\ op[a].at = "drop" => op[a].filter \in Filters
         /\ op[a].at = "shared" => op[a].keys \subseteq Shared
  BY SMTT(40) DEF IndexTypeOK, Ops

\* The initial state is typed.
LEMMA IndexTypeInit == IndexInit => IndexTypeOK
  BY SMTT(40) DEF IndexInit, IndexTypeOK, Ops

\* A change of the members leaves the counters of the groups typed.
LEMMA RegroupType ==
  ASSUME IndexTypeOK, Regroup
  PROVE  rrCounter' \in [Shared -> Nat] /\ picked' \in [Shared -> [Clients -> Nat]]
  BY ZenonT(40) DEF IndexTypeOK, Regroup

\* Every step keeps the types.
LEMMA IndexTypeStep == IndexTypeOK /\ [IndexNext]_indexVars => IndexTypeOK'
  <1> SUFFICES ASSUME IndexTypeOK, [IndexNext]_indexVars PROVE IndexTypeOK'
    OBVIOUS
  <1>1. ASSUME NEW a \in Actors, NEW f \in Filters, NEW q \in QoS, SubscribeStore(a, f, q)
        PROVE  IndexTypeOK'
    <2>1. store' \in [Clients -> Held] /\ reverse' = reverse
      BY <1>1, Zenon DEF SubscribeStore, IndexTypeOK
    <2>2. op' \in [Actors -> Ops]
      BY <1>1, ZenonT(40) DEF SubscribeStore, GoOn, IndexTypeOK, Ops
    <2>3. QED
      BY <1>1, <2>1, <2>2, RegroupType, Zenon DEF SubscribeStore, IndexTypeOK
  <1>2. ASSUME NEW a \in Actors, NEW f \in Filters, UnsubscribeStore(a, f)
        PROVE  IndexTypeOK'
    <2>1. store' \in [Clients -> Held] /\ reverse' = reverse
      BY <1>2, Zenon DEF UnsubscribeStore, IndexTypeOK
    <2>2. op' \in [Actors -> Ops]
      BY <1>2, ZenonT(40) DEF UnsubscribeStore, GoOn, IndexTypeOK, Ops
    <2>3. QED
      BY <1>2, <2>1, <2>2, RegroupType, Zenon DEF UnsubscribeStore, IndexTypeOK
  <1>3. ASSUME NEW a \in Actors, ClearRoot(a)
        PROVE  IndexTypeOK'
    <2>1. store' \in [Clients -> Held]
      BY <1>3, ZenonT(40) DEF ClearRoot, IndexTypeOK
    <2>2. op' \in [Actors -> Ops]
      BY <1>3, ZenonT(40) DEF ClearRoot, GoOn, IndexTypeOK, Ops
    <2>3. QED
      BY <1>3, <2>1, <2>2, Zenon DEF ClearRoot, IndexTypeOK
  <1>4. ASSUME NEW a \in Actors, SubscribeIndex(a) \/ UnsubscribeIndex(a) \/ ClearIndex(a)
        PROVE  IndexTypeOK'
    <2>0. /\ op[a].at = "put" => op[a].filter \in Filters /\ op[a].qos \in QoS
          /\ op[a].at = "drop" => op[a].filter \in Filters
      BY OpCases, ZenonT(40)
    <2>1. reverse' \in [Clients -> Held]
      <3>1. ASSUME NEW c \in Clients, NEW f \in Filters, NEW q \in QoS \cup {Off}
            PROVE  [reverse EXCEPT ![c][f] = q] \in [Clients -> Held]
        BY Zenon DEF IndexTypeOK
      <3>2. CASE SubscribeIndex(a)
        BY <2>0, <3>1, <3>2, Zenon DEF SubscribeIndex
      <3>3. CASE UnsubscribeIndex(a)
        BY <2>0, <3>1, <3>3, Zenon DEF UnsubscribeIndex
      <3>4. CASE ClearIndex(a)
        BY <3>4, ZenonT(40) DEF ClearIndex, IndexTypeOK
      <3>5. QED
        BY <1>4, <3>2, <3>3, <3>4, ZenonT(40)
    <2>2. op' \in [Actors -> Ops]
      BY <1>4, ZenonT(40) DEF SubscribeIndex, UnsubscribeIndex, ClearIndex, GoOn, IndexTypeOK,
         Ops
    <2>3. QED
      BY <1>4, <2>1, <2>2, Zenon DEF SubscribeIndex, UnsubscribeIndex, ClearIndex, IndexTypeOK
  <1>5. ASSUME NEW a \in Actors, ScanShared(a)
        PROVE  IndexTypeOK'
    <2>1. op' \in [Actors -> Ops]
      BY <1>5, ZenonT(40) DEF ScanShared, GoOn, IndexTypeOK, Ops
    <2>2. QED
      BY <1>5, <2>1, Zenon DEF ScanShared, IndexTypeOK
  <1>6. ASSUME NEW a \in Actors, ClearShared(a)
        PROVE  IndexTypeOK'
    <2>1. store' \in [Clients -> Held]
      BY <1>6, OpCases, ZenonT(40) DEF ClearShared, IndexTypeOK
    <2>2. op' \in [Actors -> Ops]
      BY <1>6, ZenonT(40) DEF ClearShared, GoOn, IndexTypeOK, Ops
    <2>3. QED
      BY <1>6, <2>1, <2>2, RegroupType, Zenon DEF ClearShared, IndexTypeOK
  <1>7. ASSUME NEW f \in Shared, Route(f)
        PROVE  IndexTypeOK'
    <2>1. rrCounter' \in [Shared -> Nat]
      BY <1>7, SMTT(40) DEF Route, IndexTypeOK
    <2>2. picked' \in [Shared -> [Clients -> Nat]]
      <3>1. PICK c : picked' = [picked EXCEPT ![f][c] = @ + 1]
        BY <1>7, Zenon DEF Route
      <3>2. /\ picked'[f] = [picked[f] EXCEPT ![c] = @ + 1]
            /\ DOMAIN picked' = Shared
            /\ \A g \in Shared \ {f} : picked'[g] = picked[g]
            /\ picked' = [g \in Shared |-> picked'[g]]
        BY <3>1, Zenon DEF IndexTypeOK
      <3>3. picked[f] \in [Clients -> Nat]
        BY ZenonT(40) DEF IndexTypeOK
      <3>4. picked'[f] \in [Clients -> Nat]
        <4>1. ASSUME NEW h \in [Clients -> Nat], NEW d
              PROVE  [h EXCEPT ![d] = @ + 1] \in [Clients -> Nat]
          <5>1. CASE d \in Clients
            BY <5>1, SMTT(40)
          <5>2. CASE d \notin Clients
            <6>1. [h EXCEPT ![d] = @ + 1] = h
              BY <5>2, Zenon
            <6>2. QED
              BY <6>1, Zenon
          <5>3. QED
            BY <5>1, <5>2, ZenonT(40)
        <4>2. QED
          BY <3>2, <3>3, <4>1, SMTT(40)
      <3>5. QED
        BY <3>2, <3>4, Zenon DEF IndexTypeOK
    <2>3. QED
      BY <1>7, <2>1, <2>2, Zenon DEF Route, IndexTypeOK
  <1>8. CASE UNCHANGED indexVars
    BY <1>8, Zenon DEF indexVars, IndexTypeOK
  <1>9. QED
    BY <1>1, <1>2, <1>3, <1>4, <1>5, <1>6, <1>7, <1>8, ZenonT(40) DEF IndexNext, Call, Continue

\* A step of an actor leaves the clients of the others as they are.
LEMMA OthersKept ==
  ASSUME IndexTypeOK, NEW a \in Actors, Call(a) \/ Continue(a), NEW c \in Clients, c # ActsFor[a]
  PROVE  /\ store'[c] = store[c] /\ reverse'[c] = reverse[c]
         /\ \A b \in Actors : ActsFor[b] = c => op'[b] = op[b]
  <1>1. \A b \in Actors : b # a => op'[b] = op[b]
    BY ZenonT(40) DEF Call, Continue, SubscribeStore, UnsubscribeStore, ClearRoot, SubscribeIndex,
           UnsubscribeIndex, ScanShared, ClearShared, ClearIndex, GoOn, IndexTypeOK
  <1>2. store'[c] = store[c]
    BY Zenon DEF Call, Continue, SubscribeStore, UnsubscribeStore, ClearRoot,
       SubscribeIndex,
           UnsubscribeIndex, ScanShared, ClearShared, ClearIndex, IndexTypeOK
  <1>3. reverse'[c] = reverse[c]
    BY Zenon DEF Call, Continue, SubscribeStore, UnsubscribeStore, ClearRoot,
       SubscribeIndex,
           UnsubscribeIndex, ScanShared, ClearShared, ClearIndex, IndexTypeOK
  <1>4. QED
    BY <1>1, <1>2, <1>3, ZenonT(40)

\* A step of the only actor of a client takes its call one section further.
LEMMA OwnStep ==
  ASSUME IndexTypeOK, IndexTypeOK', IndexInv, NEW a \in Actors, Call(a) \/ Continue(a), Alone(ActsFor[a])
  PROVE  /\ Pending(a)'
         /\ op'[a] = Idle => reverse'[ActsFor[a]] = store'[ActsFor[a]]
  <1> DEFINE c == ActsFor[a]
  <1> DEFINE Goal == /\ Pending(a)'
                     /\ op'[a] = Idle => reverse'[c] = store'[c]
  <1>0. c \in Clients /\ Pending(a) /\ (op[a] = Idle => reverse[c] = store[c])
    BY Zenon DEF IndexInv, IndexMatchesStoreAlone, Quiet, Alone
  <1>1. ASSUME NEW f \in Filters, NEW q \in QoS, SubscribeStore(a, f, q)
        PROVE  Goal
    BY <1>0, <1>1, ZenonT(40) DEF SubscribeStore, GoOn, Pending, IndexTypeOK
  <1>2. ASSUME NEW f \in Filters, UnsubscribeStore(a, f)
        PROVE  Goal
    BY <1>0, <1>2, ZenonT(40) DEF UnsubscribeStore, GoOn, Pending, IndexTypeOK
  <1>3. ASSUME ClearRoot(a)
        PROVE  Goal
    BY <1>0, <1>3, ZenonT(40) DEF ClearRoot, GoOn, Pending, IndexTypeOK
  <1>4. ASSUME SubscribeIndex(a)
        PROVE  Goal
    <2>1. op[a].at = "put" /\ op[a].filter \in Filters
      BY <1>4, OpCases, ZenonT(40) DEF SubscribeIndex
    <2>2. op'[a].at = "idle" /\ store' = store
      BY <1>4, ZenonT(40) DEF SubscribeIndex, GoOn, IndexTypeOK
    <2>3. reverse'[c] = [reverse[c] EXCEPT ![op[a].filter] = op[a].qos]
      BY <1>0, <1>4, ZenonT(40) DEF SubscribeIndex, IndexTypeOK
    <2>4. store[c] \in Held /\ reverse[c] \in Held /\ reverse'[c] \in Held
      BY <1>0, Zenon DEF IndexTypeOK
    <2>5. \A f \in Filters : reverse'[c][f] = store[c][f]
      BY <1>0, <2>1, <2>3, <2>4, ZenonT(40) DEF Pending
    <2>6. reverse'[c] = store'[c]
      BY <2>2, <2>4, <2>5, SMTT(40)
    <2>7. Pending(a)'
      BY <2>2, ZenonT(40) DEF Pending
    <2>8. QED
      BY <2>6, <2>7, ZenonT(40)
  <1>5. ASSUME UnsubscribeIndex(a)
        PROVE  Goal
    <2>1. op[a].at = "drop" /\ op[a].filter \in Filters
      BY <1>5, OpCases, ZenonT(40) DEF UnsubscribeIndex
    <2>2. op'[a].at = "idle" /\ store' = store
      BY <1>5, ZenonT(40) DEF UnsubscribeIndex, GoOn, IndexTypeOK
    <2>3. reverse'[c] = [reverse[c] EXCEPT ![op[a].filter] = Off]
      BY <1>0, <1>5, ZenonT(40) DEF UnsubscribeIndex, IndexTypeOK
    <2>4. store[c] \in Held /\ reverse[c] \in Held /\ reverse'[c] \in Held
      BY <1>0, Zenon DEF IndexTypeOK
    <2>5. \A f \in Filters : reverse'[c][f] = store[c][f]
      BY <1>0, <2>1, <2>3, <2>4, ZenonT(40) DEF Pending
    <2>6. reverse'[c] = store'[c]
      BY <2>2, <2>4, <2>5, SMTT(40)
    <2>7. Pending(a)'
      BY <2>2, ZenonT(40) DEF Pending
    <2>8. QED
      BY <2>6, <2>7, ZenonT(40)
  <1>6. ASSUME ScanShared(a)
        PROVE  Goal
    BY <1>0, <1>6, ZenonT(40) DEF ScanShared, GoOn, Pending, IndexTypeOK
  <1>7. ASSUME ClearShared(a)
        PROVE  Goal
    BY <1>0, <1>7, OpCases, ZenonT(40) DEF ClearShared, GoOn, Pending, IndexTypeOK
  <1>8. ASSUME ClearIndex(a)
        PROVE  Goal
    <2>1. op[a].at = "clear"
      BY <1>8, ZenonT(40) DEF ClearIndex
    <2>2. op'[a].at = "idle" /\ store' = store
      BY <1>8, ZenonT(40) DEF ClearIndex, GoOn, IndexTypeOK
    <2>3. reverse'[c] = Nothing
      BY <1>0, <1>8, ZenonT(40) DEF ClearIndex, IndexTypeOK
    <2>4. store[c] \in Held /\ reverse'[c] \in Held
      BY <1>0, Zenon DEF IndexTypeOK
    <2>5. \A f \in Filters : reverse'[c][f] = store[c][f]
      BY <1>0, <2>1, <2>3, ZenonT(40) DEF Pending
    <2>6. reverse'[c] = store'[c]
      BY <2>2, <2>4, <2>5, SMTT(40)
    <2>7. Pending(a)'
      BY <2>2, ZenonT(40) DEF Pending
    <2>8. QED
      BY <2>6, <2>7, ZenonT(40)
  <1>9. QED
    BY <1>1, <1>2, <1>3, <1>4, <1>5, <1>6, <1>7, <1>8, ZenonT(40) DEF Call, Continue

\* Every step keeps what the index lacks to what its operation will add or drop.
LEMMA IndexStep == IndexTypeOK /\ IndexTypeOK' /\ IndexInv /\ [IndexNext]_indexVars => IndexInv'
  <1> SUFFICES ASSUME IndexTypeOK, IndexTypeOK', IndexInv, [IndexNext]_indexVars PROVE IndexInv'
    OBVIOUS
  <1>1. ASSUME NEW a \in Actors, Call(a) \/ Continue(a)
        PROVE  IndexInv'
    <2>1. ASSUME NEW c \in Clients, Alone(c)', Quiet(c)'
          PROVE  reverse'[c] = store'[c]
      <3>1. CASE c = ActsFor[a]
        BY <1>1, <2>1, <3>1, OwnStep, ZenonT(40) DEF Quiet, Alone
      <3>2. CASE c # ActsFor[a]
        <4>1. /\ store'[c] = store[c] /\ reverse'[c] = reverse[c]
              /\ \A b \in Actors : ActsFor[b] = c => op'[b] = op[b]
          BY <1>1, <3>2, OthersKept, ZenonT(40)
        <4>2. Alone(c) /\ Quiet(c)
          BY <2>1, <4>1, ZenonT(40) DEF Quiet, Alone
        <4>3. reverse[c] = store[c]
          BY <4>2, ZenonT(40) DEF IndexInv, IndexMatchesStoreAlone
        <4>4. QED
          BY <4>1, <4>3, ZenonT(40)
      <3>3. QED
        BY <3>1, <3>2, ZenonT(40)
    <2>2. ASSUME NEW b \in Actors, Alone(ActsFor[b])'
          PROVE  Pending(b)'
      <3>1. CASE ActsFor[b] = ActsFor[a]
        BY <1>1, <2>2, <3>1, OwnStep, ZenonT(40) DEF Alone
      <3>2. CASE ActsFor[b] # ActsFor[a]
        <4>1. ActsFor[b] \in Clients /\ Pending(b)
          BY <2>2, ZenonT(40) DEF Alone, IndexInv
        <4>2. /\ store'[ActsFor[b]] = store[ActsFor[b]]
              /\ reverse'[ActsFor[b]] = reverse[ActsFor[b]]
              /\ op'[b] = op[b]
          BY <1>1, <3>2, <4>1, OthersKept, ZenonT(40)
        <4>3. QED
          BY <4>1, <4>2, ZenonT(40) DEF Pending
      <3>3. QED
        BY <3>1, <3>2, ZenonT(40)
    <2>3. QED
      BY <2>1, <2>2, ZenonT(40) DEF IndexInv, IndexMatchesStoreAlone
  <1>2. ASSUME UNCHANGED <<store, reverse, op>>
        PROVE  IndexInv'
    BY <1>2, SMTT(40) DEF IndexInv, IndexMatchesStoreAlone, Pending, Quiet, Alone
  <1>3. QED
    BY <1>1, <1>2, ZenonT(40) DEF IndexNext, Route, indexVars

\* Every variable keeps its type.
THEOREM IndexTypeCorrect == IndexSpec => []IndexTypeOK
  BY IndexTypeInit, IndexTypeStep, PTL DEF IndexSpec

\* For a client that one task acts for, the reverse index (and so the session
\* snapshot read from it) lists exactly what the tree holds whenever no call is
\* under way, although subscribe, unsubscribe and unsubscribe_all never hold two
\* of the three locks.
THEOREM IndexFollowsTree == IndexSpec => []IndexMatchesStoreAlone
  <1>1. IndexInit => IndexInv
    BY SMTT(40) DEF IndexInit, IndexInv, IndexMatchesStoreAlone, Pending
  <1>2. IndexInv => IndexMatchesStoreAlone
    BY ZenonT(40) DEF IndexInv
  <1>3. QED
    BY <1>1, <1>2, IndexStep, IndexTypeCorrect, PTL DEF IndexSpec

----------------------------------------------------------------------------
(***************************************************************************)
(* The round robin of shared subscriptions.                                *)
(***************************************************************************)

\* The place of a member in the sorted list.
Rank(S, c) == Cardinality({d \in S : d < c})

\* How many messages go to others before it is the turn of place r.
Wait(r, turn, n) == IF turn <= r THEN r - turn ELSE (r - turn) + n

WaitOf(f, c) ==
    Wait(Rank(Members(f), c), rrCounter[f] % Cardinality(Members(f)), Cardinality(Members(f)))

\* Who waits longer has had as many messages or one more.
FairFor(f) ==
    \A c, d \in Members(f) : WaitOf(f, c) <= WaitOf(f, d) =>
        picked[f][c] <= picked[f][d] /\ picked[f][d] <= picked[f][c] + 1

FairInv == \A f \in Shared : FairFor(f)

\* The round robin goes to the next place, and from the last to the first.
LEMMA NextModulo ==
  ASSUME NEW r \in Nat, NEW n \in Nat \ {0}
  PROVE  /\ r % n \in 0 .. n - 1
         /\ (r + 1) % n = IF r % n = n - 1 THEN 0 ELSE (r % n) + 1
  <1>1. PICK q, p : q = r \div n /\ p = r % n
    BY ZenonT(40)
  <1>2. r = n * q + p /\ q \in Nat /\ p \in 0 .. n - 1
    BY <1>1, SMTT(40)
  <1>3. \A k \in Nat, m \in 0 .. n - 1 : (n * k + m) % n = m
    BY SMTT(40)
  <1>4. CASE p = n - 1
    <2>1. r + 1 = n * (q + 1) + 0 /\ q + 1 \in Nat /\ 0 \in 0 .. n - 1
      BY <1>2, <1>4, SMTT(40)
    <2>2. (r + 1) % n = 0
      BY <1>3, <2>1, ZenonT(40)
    <2>3. QED
      BY <1>1, <1>2, <1>4, <2>2, ZenonT(40)
  <1>5. CASE p # n - 1
    <2>1. r + 1 = n * q + (p + 1) /\ p + 1 \in 0 .. n - 1
      BY <1>2, <1>5, SMTT(40)
    <2>2. (r + 1) % n = p + 1
      BY <1>2, <1>3, <2>1, ZenonT(40)
    <2>3. QED
      BY <1>1, <1>2, <1>5, <2>2, ZenonT(40)
  <1>6. QED
    BY <1>4, <1>5, ZenonT(40)

\* The places are 0 to n - 1, each taken once.
LEMMA Ranks ==
  ASSUME NEW S \in SUBSET Clients
  PROVE  /\ IsFiniteSet(S) /\ Cardinality(S) \in Nat
         /\ \A c \in S : Rank(S, c) \in 0 .. Cardinality(S) - 1
         /\ \A c, d \in S : Rank(S, c) = Rank(S, d) => c = d
         /\ \A k \in 0 .. Cardinality(S) - 1 : \E c \in S : Rank(S, c) = k
  <1>1. IsFiniteSet(S) /\ Cardinality(S) \in Nat
    BY FS_Subset, FS_CardinalityType, ZenonT(40)
  <1>2. \A c \in S : c \in Nat
    BY ZenonT(40)
  <1>3. \A c : {d \in S : d < c} \in SUBSET S
    BY ZenonT(40)
  <1>4. \A c \in S : Rank(S, c) \in Nat
    BY <1>1, <1>3, FS_Subset, FS_CardinalityType, ZenonT(40) DEF Rank
  <1>5. ASSUME NEW c \in S
        PROVE  Rank(S, c) \in 0 .. Cardinality(S) - 1
    <2>1. PICK T : T = {d \in S : d < c}
      BY ZenonT(40)
    <2>2. ~(c < c)
      BY <1>2, SMTT(40)
    <2>3. T \in SUBSET S /\ T # S
      BY <2>1, <2>2, ZenonT(40)
    <2>4. Cardinality(T) <= Cardinality(S) /\ Cardinality(T) # Cardinality(S)
      BY <1>1, <2>3, FS_Subset, ZenonT(40)
    <2>5. Rank(S, c) = Cardinality(T)
      BY <2>1, ZenonT(40) DEF Rank
    <2>6. PICK k, m : k = Cardinality(T) /\ m = Cardinality(S)
      BY ZenonT(40)
    <2>7. k \in Nat /\ m \in Nat /\ k <= m /\ k # m
      BY <1>1, <1>4, <2>4, <2>5, <2>6, ZenonT(40)
    <2>8. k \in 0 .. m - 1
      BY <2>7, SMTT(40)
    <2>9. QED
      BY <2>5, <2>6, <2>8, ZenonT(40)
  <1>6. ASSUME NEW c \in S, NEW d \in S, c < d
        PROVE  Rank(S, c) # Rank(S, d)
    <2>1. PICK T, U : T = {x \in S : x < c} /\ U = {x \in S : x < d}
      BY ZenonT(40)
    <2>2. \A x \in S : x < c => x < d
      BY <1>2, <1>6, SMTT(40)
    <2>3. ~(c < c)
      BY <1>2, SMTT(40)
    <2>4. T \in SUBSET U /\ T # U /\ U \in SUBSET S
      BY <1>6, <2>1, <2>2, <2>3, ZenonT(40)
    <2>5. IsFiniteSet(U)
      BY <1>1, <2>4, FS_Subset, ZenonT(40)
    <2>6. Cardinality(U) # Cardinality(T)
      BY <2>4, <2>5, FS_Subset, ZenonT(40)
    <2>7. QED
      BY <2>1, <2>6, ZenonT(40) DEF Rank
  <1>7. \A c, d \in S : Rank(S, c) = Rank(S, d) => c = d
    <2>1. \A c, d \in S : c = d \/ c < d \/ d < c
      BY <1>2, SMTT(40)
    <2>2. QED
      BY <1>6, <2>1, ZenonT(40)
  <1>8. \A k \in 0 .. Cardinality(S) - 1 : \E c \in S : Rank(S, c) = k
    <2>1. PICK n \in Nat : n = Cardinality(S)
      BY <1>1, ZenonT(40)
    <2>2. PICK f : f = [c \in S |-> Rank(S, c)]
      BY ZenonT(40)
    <2>3. f \in [S -> 0 .. n - 1] /\ \A c \in S : f[c] = Rank(S, c)
      BY <1>5, <2>1, <2>2, ZenonT(40)
    <2>4. f \in Injection(S, 0 .. n - 1)
      BY <1>7, <2>3, ZenonT(40) DEF Injection, IsInjective
    <2>5. IsFiniteSet(0 .. n - 1) /\ Cardinality(0 .. n - 1) = n
      <3>1. PICK b \in Int : b = n - 1
        BY SMTT(40)
      <3>2. \A x, y \in Int : /\ IsFiniteSet(x .. y)
                              /\ Cardinality(x .. y) = IF x > y THEN 0 ELSE y - x + 1
        BY FS_Interval, ZenonT(40)
      <3>3. 0 \in Int
        BY SMTT(40)
      <3>4. IsFiniteSet(0 .. b) /\ Cardinality(0 .. b) = IF 0 > b THEN 0 ELSE b - 0 + 1
        BY <3>2, <3>3, SMTT(40)
      <3>5. (IF 0 > b THEN 0 ELSE b - 0 + 1) = n
        BY <3>1, SMTT(40)
      <3>6. QED
        BY <3>1, <3>4, <3>5, ZenonT(40)
    <2>6. f \in Surjection(S, 0 .. n - 1)
      BY <2>1, <2>4, <2>5, FS_Injection, ZenonT(40)
    <2>7. QED
      BY <2>1, <2>3, <2>6, ZenonT(40) DEF Surjection
  <1>9. QED
    BY <1>1, <1>5, <1>7, <1>8, ZenonT(40)

\* Nth finds the member of a rank.
LEMMA NthMember ==
  ASSUME NEW S \in SUBSET Clients, NEW k \in 0 .. Cardinality(S) - 1
  PROVE  Nth(S, k) \in S /\ Rank(S, Nth(S, k)) = k
  <1>1. \E c \in S : Cardinality({d \in S : d < c}) = k
    BY Ranks, ZenonT(40) DEF Rank
  <1>2. QED
    BY <1>1, ZenonT(40) DEF Nth, Rank

\* When one place is served, it waits longest and the others move up.
LEMMA WaitShift ==
  ASSUME NEW n \in Nat \ {0}, NEW t \in 0 .. n - 1, NEW r \in 0 .. n - 1,
         NEW u, u = IF t = n - 1 THEN 0 ELSE t + 1
  PROVE  /\ Wait(r, t, n) \in 0 .. n - 1
         /\ r = t => Wait(r, t, n) = 0 /\ Wait(r, u, n) = n - 1
         /\ r # t => Wait(r, t, n) >= 1 /\ Wait(r, u, n) = Wait(r, t, n) - 1
  BY SMTT(40) DEF Wait

\* A group whose members, counter and tallies a step leaves alone stays even.
LEMMA SameGroup ==
  ASSUME NEW f \in Shared, FairFor(f), Members(f)' = Members(f),
         rrCounter'[f] = rrCounter[f], picked'[f] = picked[f]
  PROVE  FairFor(f)'
  BY ZenonT(40) DEF FairFor, WaitOf

\* Members come or go: the tallies of that group start again from zero.
LEMMA RegroupFair ==
  ASSUME FairInv, Regroup
  PROVE  FairInv'
  <1> SUFFICES ASSUME NEW f \in Shared PROVE FairFor(f)'
    BY ZenonT(40) DEF FairInv
  <1>1. /\ rrCounter'[f] = IF Joined(store', f) = {} THEN 0 ELSE rrCounter[f]
        /\ picked'[f] = IF Joined(store', f) = Joined(store, f) THEN picked[f]
                        ELSE [c \in Clients |-> 0]
    BY ZenonT(40) DEF Regroup
  <1>2. Members(f)' = Joined(store', f) /\ Members(f) = Joined(store, f)
    BY ZenonT(40) DEF Members
  <1>3. CASE Joined(store', f) = {}
    BY <1>2, <1>3, ZenonT(40) DEF FairFor
  <1>4. CASE Joined(store', f) # {} /\ Joined(store', f) = Joined(store, f)
    <2>1. rrCounter'[f] = rrCounter[f] /\ picked'[f] = picked[f] /\ Members(f)' = Members(f)
      BY <1>1, <1>2, <1>4, ZenonT(40)
    <2>2. QED
      BY <2>1, SameGroup, ZenonT(40) DEF FairInv
  <1>5. CASE Joined(store', f) # Joined(store, f)
    <2>1. \A c \in Members(f)' : picked'[f][c] = 0
      BY <1>1, <1>2, <1>5, ZenonT(40) DEF Joined
    <2>2. 0 <= 0 /\ 0 <= 0 + 1
      BY SMTT(40)
    <2>3. QED
      BY <2>1, <2>2, ZenonT(40) DEF FairFor
  <1>6. QED
    BY <1>3, <1>4, <1>5, ZenonT(40)

\* A message is routed: the member served goes to the back of the ring.
LEMMA RouteFair ==
  ASSUME IndexTypeOK, FairInv, NEW g \in Shared, Route(g)
  PROVE  FairInv'
  <1>1. PICK S, n, r : S = Members(g) /\ n = Cardinality(S) /\ r = rrCounter[g]
    BY ZenonT(40)
  <1>2. S \in SUBSET Clients /\ r \in Nat
    BY <1>1, ZenonT(40) DEF Members, Joined, IndexTypeOK
  <1>3. S # {}
    BY <1>1, ZenonT(40) DEF Route
  <1>4. /\ IsFiniteSet(S) /\ n \in Nat
        /\ \A c \in S : Rank(S, c) \in 0 .. n - 1
        /\ \A c, d \in S : Rank(S, c) = Rank(S, d) => c = d
    BY <1>1, <1>2, Ranks, ZenonT(40)
  <1>5. n \in Nat \ {0}
    BY <1>1, <1>3, <1>4, FS_EmptySet, ZenonT(40)
  <1>6. PICK t, u : t = r % n /\ u = (r + 1) % n
    BY ZenonT(40)
  <1>7. t \in 0 .. n - 1 /\ u = IF t = n - 1 THEN 0 ELSE t + 1
    BY <1>2, <1>5, <1>6, NextModulo, ZenonT(40)
  <1>8. PICK m : m = Nth(S, t)
    BY ZenonT(40)
  <1>9. m \in S /\ Rank(S, m) = t
    BY <1>1, <1>2, <1>7, <1>8, NthMember, ZenonT(40)
  <1>10. /\ store' = store
         /\ rrCounter' = [rrCounter EXCEPT ![g] = @ + 1]
         /\ picked' = [picked EXCEPT ![g][m] = @ + 1]
    BY <1>1, <1>6, <1>8, ZenonT(40) DEF Route
  <1>11. \A f \in Shared : Members(f)' = Members(f)
    BY <1>10, ZenonT(40) DEF Members
  <1>12. rrCounter'[g] = r + 1 /\ \A f \in Shared : f # g => rrCounter'[f] = rrCounter[f]
    BY <1>1, <1>10, ZenonT(40) DEF IndexTypeOK
  <1>13. /\ m \in Clients /\ picked[g] \in [Clients -> Nat]
         /\ picked'[g][m] = picked[g][m] + 1
         /\ \A c \in Clients : c # m => picked'[g][c] = picked[g][c]
         /\ \A f \in Shared : f # g => picked'[f] = picked[f]
    BY <1>2, <1>9, <1>10, ZenonT(40) DEF IndexTypeOK
  <1>14. \A f \in Shared : f # g => FairFor(f)'
    BY <1>11, <1>12, <1>13, SameGroup, ZenonT(40) DEF FairInv
  <1>15. /\ \A c \in S : WaitOf(g, c) = Wait(Rank(S, c), t, n)
         /\ \A c \in S : WaitOf(g, c)' = Wait(Rank(S, c), u, n)
    BY <1>1, <1>6, <1>11, <1>12, ZenonT(40) DEF WaitOf
  <1>16. \A c \in S :
           /\ WaitOf(g, c) \in 0 .. n - 1
           /\ c = m => WaitOf(g, c) = 0 /\ WaitOf(g, c)' = n - 1
           /\ c # m => WaitOf(g, c) >= 1 /\ WaitOf(g, c)' = WaitOf(g, c) - 1
    <2> SUFFICES ASSUME NEW c \in S
                 PROVE  LET w == Wait(Rank(S, c), t, n)  v == Wait(Rank(S, c), u, n) IN
                        /\ w \in 0 .. n - 1
                        /\ c = m => w = 0 /\ v = n - 1
                        /\ c # m => w >= 1 /\ v = w - 1
      BY <1>15, ZenonT(40)
    <2>1. Rank(S, c) \in 0 .. n - 1 /\ (c = m <=> Rank(S, c) = t)
      BY <1>4, <1>9, ZenonT(40)
    <2>2. PICK k : k = Rank(S, c)
      BY ZenonT(40)
    <2>3. /\ Wait(k, t, n) \in 0 .. n - 1
          /\ k = t => Wait(k, t, n) = 0 /\ Wait(k, u, n) = n - 1
          /\ k # t => Wait(k, t, n) >= 1 /\ Wait(k, u, n) = Wait(k, t, n) - 1
      <3>1. k \in 0 .. n - 1
        BY <2>1, <2>2, ZenonT(40)
      <3>2. QED
        BY <1>5, <1>7, <3>1, WaitShift, SMTT(40)
    <2>4. QED
      BY <2>1, <2>2, <2>3, ZenonT(40)
  <1>17. \A c \in S : picked[g][c] \in Nat
    BY <1>2, <1>13, ZenonT(40)
  <1>18. \A c, d \in S : WaitOf(g, c) <= WaitOf(g, d) =>
            picked[g][c] <= picked[g][d] /\ picked[g][d] <= picked[g][c] + 1
    BY <1>1, ZenonT(40) DEF FairInv, FairFor
  <1>19. ASSUME NEW c \in S, NEW d \in S, WaitOf(g, c)' <= WaitOf(g, d)'
         PROVE  picked'[g][c] <= picked'[g][d] /\ picked'[g][d] <= picked'[g][c] + 1
    <2>1. c \in Clients /\ d \in Clients
      BY <1>2, ZenonT(40)
    <2>2. CASE c = m /\ d = m
      <3>1. PICK x \in Nat : x = picked[g][m]
        BY <1>9, <1>17, ZenonT(40)
      <3>2. picked'[g][c] = x + 1 /\ picked'[g][d] = x + 1
        BY <1>13, <2>2, <3>1, ZenonT(40)
      <3>3. QED
        BY <3>2, SMTT(40)
    <2>3. CASE c = m /\ d # m
      <3>1. n - 1 <= WaitOf(g, d) - 1 /\ WaitOf(g, d) \in 0 .. n - 1
        BY <1>16, <1>19, <2>3, ZenonT(40)
      <3>2. QED
        BY <1>5, <3>1, SMTT(40)
    <2>4. CASE c # m /\ d = m
      <3>1. WaitOf(g, m) = 0 /\ WaitOf(g, c) \in 0 .. n - 1
        BY <1>9, <1>16, ZenonT(40)
      <3>2. WaitOf(g, m) <= WaitOf(g, c)
        BY <1>5, <3>1, SMTT(40)
      <3>3. picked[g][m] <= picked[g][c] /\ picked[g][c] <= picked[g][m] + 1
        BY <1>9, <1>18, <3>2, ZenonT(40)
      <3>4. PICK x \in Nat, y \in Nat : x = picked[g][m] /\ y = picked[g][c]
        BY <1>9, <1>17, ZenonT(40)
      <3>5. picked'[g][c] = y /\ picked'[g][d] = x + 1
        BY <1>13, <2>1, <2>4, <3>4, ZenonT(40)
      <3>6. x <= y /\ y <= x + 1
        BY <3>3, <3>4, ZenonT(40)
      <3>7. QED
        BY <3>5, <3>6, SMTT(40)
    <2>5. CASE c # m /\ d # m
      <3>1. PICK v, w : v = WaitOf(g, c) /\ w = WaitOf(g, d)
        BY ZenonT(40)
      <3>2. v \in 0 .. n - 1 /\ w \in 0 .. n - 1 /\ v - 1 <= w - 1
        BY <1>16, <1>19, <2>5, <3>1, ZenonT(40)
      <3>3. v <= w
        BY <1>5, <3>2, SMTT(40)
      <3>4. picked[g][c] <= picked[g][d] /\ picked[g][d] <= picked[g][c] + 1
        BY <1>18, <3>1, <3>3, ZenonT(40)
      <3>5. QED
        BY <1>13, <2>1, <2>5, <3>4, ZenonT(40)
    <2>6. QED
      BY <2>2, <2>3, <2>4, <2>5, ZenonT(40)
  <1>20. FairFor(g)'
    BY <1>1, <1>11, <1>19, ZenonT(40) DEF FairFor
  <1>21. QED
    BY <1>14, <1>20, ZenonT(40) DEF FairInv

\* Every step keeps every group even.
LEMMA FairStep ==
  ASSUME IndexTypeOK, FairInv, [IndexNext]_indexVars
  PROVE  FairInv'
  <1>1. ASSUME NEW a \in Actors, ClearRoot(a) PROVE FairInv'
    <2>1. rrCounter' = rrCounter /\ picked' = picked
      BY <1>1, ZenonT(40) DEF ClearRoot
    <2>2. \A f \in Shared : Members(f)' = Members(f)
      <3> SUFFICES ASSUME NEW f \in Shared, NEW c \in Clients PROVE store'[c][f] = store[c][f]
        BY ZenonT(40) DEF Members, Joined
      <3>1. f \in Filters /\ f \notin Plain
        BY ZenonT(40)
      <3>2. store' = [store EXCEPT ![ActsFor[a]] =
                        [h \in Filters |-> IF h \in Plain THEN Off ELSE store[ActsFor[a]][h]]]
        BY <1>1, ZenonT(40) DEF ClearRoot
      <3>3. QED
        BY <3>1, <3>2, ZenonT(40) DEF IndexTypeOK
    <2>3. QED
      BY <2>1, <2>2, SameGroup, ZenonT(40) DEF FairInv
  <1>2. CASE UNCHANGED <<store, rrCounter, picked>>
    <2>1. \A f \in Shared : Members(f)' = Members(f)
      BY <1>2, ZenonT(40) DEF Members
    <2>2. QED
      BY <1>2, <2>1, SameGroup, ZenonT(40) DEF FairInv
  <1>3. ASSUME NEW a \in Actors, Call(a) \/ Continue(a) PROVE FairInv'
    <2>1. Regroup \/ ClearRoot(a) \/ UNCHANGED <<store, rrCounter, picked>>
      BY <1>3, ZenonT(40) DEF Call, Continue, SubscribeStore, UnsubscribeStore, ClearShared,
         SubscribeIndex, UnsubscribeIndex, ScanShared, ClearIndex
    <2>2. QED
      BY <1>1, <1>2, <2>1, RegroupFair, ZenonT(40)
  <1>4. QED
    BY <1>2, <1>3, RouteFair, ZenonT(40) DEF IndexNext, indexVars

\* rr_counter deals messages out evenly, for any number of members and whatever
\* the tasks that route and the members that come and go: since the members last
\* changed no member has had two messages more than another.
THEOREM SharedDealtEvenly == IndexSpec => []RoundRobinFair
  <1>1. IndexInit => FairInv
    <2> SUFFICES ASSUME IndexInit PROVE FairInv
      BY ZenonT(40)
    <2>1. \A f \in Shared : Members(f) = {}
      BY ZenonT(40) DEF IndexInit, Members, Joined
    <2>2. QED
      BY <2>1, ZenonT(40) DEF FairInv, FairFor
  <1>2. IndexTypeOK /\ FairInv /\ [IndexNext]_indexVars => FairInv'
    BY FairStep, ZenonT(40)
  <1>3. IndexTypeOK /\ FairInv => RoundRobinFair
    <2> SUFFICES ASSUME IndexTypeOK, FairInv, NEW f \in Shared, NEW c \in Members(f), NEW d \in Members(f)
                 PROVE  picked[f][c] <= picked[f][d] + 1
      BY ZenonT(40) DEF RoundRobinFair
    <2>1. PICK S, n : S = Members(f) /\ n = Cardinality(S)
      BY ZenonT(40)
    <2>2. S \in SUBSET Clients /\ rrCounter[f] \in Nat
      BY <2>1, ZenonT(40) DEF Members, Joined, IndexTypeOK
    <2>3. n \in Nat \ {0} /\ \A x \in S : Rank(S, x) \in 0 .. n - 1
      <3>1. S # {}
        BY <2>1, ZenonT(40)
      <3>2. QED
        BY <2>1, <2>2, <3>1, Ranks, FS_EmptySet, ZenonT(40)
    <2>4. PICK t : t = rrCounter[f] % n
      BY ZenonT(40)
    <2>5. t \in 0 .. n - 1
      BY <2>2, <2>3, <2>4, NextModulo, ZenonT(40)
    <2>6. PICK v, w : v = WaitOf(f, c) /\ w = WaitOf(f, d)
      BY ZenonT(40)
    <2>7. v = Wait(Rank(S, c), t, n) /\ w = Wait(Rank(S, d), t, n)
      BY <2>1, <2>4, <2>6, ZenonT(40) DEF WaitOf
    <2>8. v \in 0 .. n - 1 /\ w \in 0 .. n - 1
      BY <2>1, <2>3, <2>5, <2>7, SMTT(40) DEF Wait
    <2>9. v <= w \/ w <= v
      BY <2>3, <2>8, SMTT(40)
    <2>10. picked[f][c] \in Nat /\ picked[f][d] \in Nat
      <3>1. c \in Clients /\ d \in Clients /\ picked[f] \in [Clients -> Nat]
        BY <2>1, <2>2, ZenonT(40) DEF IndexTypeOK
      <3>2. QED
        BY <3>1, ZenonT(40)
    <2>11. picked[f][c] <= picked[f][d] \/ picked[f][c] <= picked[f][d] + 1
      BY <2>6, <2>9, ZenonT(40) DEF FairInv, FairFor
    <2>12. QED
      BY <2>10, <2>11, SMTT(40)
  <1>4. QED
    BY <1>1, <1>2, <1>3, IndexTypeCorrect, PTL DEF IndexSpec
=============================================================================
