------------------------------ MODULE Admission ------------------------------
(***************************************************************************)
(* How connections are admitted and counted.  Three listeners (TCP, TLS,   *)
(* WebSocket) accept concurrently; each decides from counters that the     *)
(* connection's own task updates later.  The counters: Metrics'            *)
(* connections_current and connections_pending, and the security guard's   *)
(* IpConnectionCounter, which is maintained only while the policy of the   *)
(* moment has a limit per address.  The policy can be replaced at run time.*)
(*                                                                         *)
(* The counters are process-wide atomics: the steps of a task are single   *)
(* accesses to them.  What a connection does between CONNECT and its end   *)
(* is SessionLifecycle; MQTT-SN clients are not admitted here.             *)
(***************************************************************************)
EXTENDS IpFilter

CONSTANTS
    Conns,           \* connections, each used once
    Listeners,       \* accept loops
    ListenerOf,      \* the listener a connection arrives at
    IpOf,            \* the address a connection comes from
    MaxConnections,  \* broker.max_connections
    Configs,         \* security sections that may be configured
    MaxReloads       \* bound on the reloads of the policy

ASSUME ConnsFinite == IsFiniteSet(Conns)
ASSUME ListenersKnown == ListenerOf \in [Conns -> Listeners]
ASSUME AddressesKnown == IpOf \in [Conns -> Addresses]
ASSUME LimitPositive == MaxConnections \in Nat \ {0}
ASSUME ConfigsKnown ==
    \A c \in Configs : c.enabled \in BOOLEAN /\ c.maxPerIp \in Nat
                      /\ Range(c.black \o c.white) \subseteq Entries
ASSUME ReloadsBounded == MaxReloads \in Nat

VARIABLES
    policy,    \* SecurityGuard.policy
    ipCount,   \* IpConnectionCounter; an absent entry is 0
    current,   \* Metrics.connections_current
    pending,   \* Metrics.connections_pending
    phase,     \* where each connection is
    seen,      \* connections_current as its listener loaded it
    reloads,   \* number of reloads
    raced,     \* ghost: some listener decided past a connection not yet counted
    racedIp    \* ghost: addresses for which two checks overlapped

vars == <<policy, ipCount, current, pending, phase, seen, reloads, raced, racedIp>>
counters == <<ipCount, current, pending>>
ghosts == <<raced, racedIp>>

Ips == {IpOf[c] : c \in Conns}

\* SecurityGuard::build_policy, of a section whose entries all parse.
Parsed(cfg) == \A e \in Range(cfg.black \o cfg.white) : Parses(e)
BuildPolicy(cfg) ==
    [enabled |-> cfg.enabled, maxPerIp |-> cfg.maxPerIp,
     acl |-> [black |-> NewFilter(cfg.black), white |-> NewFilter(cfg.white)]]
Policies == {BuildPolicy(cfg) : cfg \in {c \in Configs : Parsed(c)}}

Init ==
    /\ policy \in Policies
    /\ ipCount = [i \in Ips |-> 0]
    /\ current = 0
    /\ pending = 0
    /\ phase = [c \in Conns |-> "new"]
    /\ seen = [c \in Conns |-> 0]
    /\ reloads = 0
    /\ raced = FALSE
    /\ racedIp = {}

Goto(c, p) == phase' = [phase EXCEPT ![c] = p]
In(S) == {c \in Conns : phase[c] \in S}

-----------------------------------------------------------------------------
(* SecurityGuard                                                           *)

\* check_connection: the lists and then the count of the address.
Allowed(ip) ==
    \/ ~policy.enabled
    \/ /\ ~AclDenies(policy.acl, ip)
       /\ policy.maxPerIp = 0 \/ ipCount[ip] < policy.maxPerIp

\* on_connect and on_disconnect look at the policy of the moment.
CountsIps == policy.enabled /\ policy.maxPerIp > 0

\* IpConnectionCounter::dec saturates.
Dec(ip) == ipCount' = [ipCount EXCEPT ![ip] = IF @ = 0 THEN 0 ELSE @ - 1]

\* reload replaces the policy and keeps the counts; a section with an entry
\* that does not parse changes nothing.
Reload ==
    /\ reloads < MaxReloads
    /\ \E cfg \in Configs :
         policy' = IF Parsed(cfg) THEN BuildPolicy(cfg) ELSE policy
    /\ reloads' = reloads + 1
    /\ UNCHANGED <<counters, phase, seen, ghosts>>

-----------------------------------------------------------------------------
(* The accept loops, one connection at a time each.                        *)

\* Accepted and checked by the security guard.
Vet(c) ==
    /\ phase[c] = "new"
    /\ \A d \in In({"vetted", "loaded"}) : ListenerOf[d] # ListenerOf[c]
    /\ Goto(c, IF Allowed(IpOf[c]) THEN "vetted" ELSE "gone")
    /\ UNCHANGED <<policy, counters, seen, reloads, ghosts>>

\* connections_current is loaded ...
LoadCurrent(c) ==
    /\ phase[c] = "vetted"
    /\ seen' = [seen EXCEPT ![c] = current]
    /\ Goto(c, "loaded")
    /\ raced' = (raced \/ In({"promoted"}) # {})
    /\ UNCHANGED <<policy, counters, reloads, racedIp>>

\* Mutant: the comparison is off by one.
AdmitMutant(c) ==
    /\ phase[c] = "loaded"
    /\ Goto(c, IF seen[c] + pending <= MaxConnections THEN "handshake" ELSE "gone")
    /\ raced' = (raced \/ In({"handshake", "checked", "counted"}) # {})
    /\ seen' = [seen EXCEPT ![c] = 0]
    /\ UNCHANGED <<policy, counters, reloads, racedIp>>

\* ... then connections_pending; the sum decides whether a task is spawned.
Admit(c) ==
    /\ phase[c] = "loaded"
    /\ Goto(c, IF seen[c] + pending < MaxConnections THEN "handshake" ELSE "gone")
    /\ raced' = (raced \/ In({"handshake", "checked", "counted"}) # {})
    /\ seen' = [seen EXCEPT ![c] = 0]
    /\ UNCHANGED <<policy, counters, reloads, racedIp>>

-----------------------------------------------------------------------------
(* The task of a connection.                                               *)

\* The TLS or WebSocket handshake fails or times out.
HandshakeFails(c) ==
    /\ phase[c] = "handshake"
    /\ Goto(c, "gone")
    /\ UNCHANGED <<policy, counters, seen, reloads, ghosts>>

\* handle_connection checks again ...
Enter(c) ==
    /\ phase[c] = "handshake"
    /\ Goto(c, IF Allowed(IpOf[c]) THEN "checked" ELSE "gone")
    /\ racedIp' = racedIp \cup {IpOf[d] : d \in In({"checked"})}
    /\ UNCHANGED <<policy, counters, seen, reloads, raced>>

\* ... counts the address ...
OnConnect(c) ==
    /\ phase[c] = "checked"
    /\ IF CountsIps THEN ipCount' = [ipCount EXCEPT ![IpOf[c]] = @ + 1]
                    ELSE UNCHANGED ipCount
    /\ Goto(c, "counted")
    /\ UNCHANGED <<policy, current, pending, seen, reloads, ghosts>>

\* ... and creates the PendingGuard.
NewGuard(c) ==
    /\ phase[c] = "counted"
    /\ pending' = pending + 1
    /\ Goto(c, "pending")
    /\ UNCHANGED <<policy, ipCount, current, seen, reloads, ghosts>>

\* CONNECT is accepted: the guard is promoted ...
Promote(c) ==
    /\ phase[c] = "pending"
    /\ pending' = pending - 1
    /\ Goto(c, "promoted")
    /\ raced' = (raced \/ In({"loaded"}) # {})
    /\ UNCHANGED <<policy, ipCount, current, seen, reloads, racedIp>>

\* ... and the connection counted.
IncConnections(c) ==
    /\ phase[c] = "promoted"
    /\ current' = current + 1
    /\ Goto(c, "online")
    /\ UNCHANGED <<policy, ipCount, pending, seen, reloads, ghosts>>

\* No CONNECT in time, a wrong one, or bad credentials.
Reject(c) ==
    /\ phase[c] = "pending"
    /\ Goto(c, "failing")
    /\ UNCHANGED <<policy, counters, seen, reloads, ghosts>>

\* Every exit after the registration: dec_connections.
Leave(c) ==
    /\ phase[c] = "online"
    /\ current' = current - 1
    /\ Goto(c, "closing")
    /\ UNCHANGED <<policy, ipCount, pending, seen, reloads, ghosts>>

\* on_disconnect, whatever the way out.
OnDisconnect(c) ==
    /\ phase[c] \in {"failing", "closing"}
    /\ IF CountsIps THEN Dec(IpOf[c]) ELSE UNCHANGED ipCount
    /\ Goto(c, IF phase[c] = "failing" THEN "unguarded" ELSE "gone")
    /\ UNCHANGED <<policy, current, pending, seen, reloads, ghosts>>

\* Mutant: a guard that was never promoted is forgotten.
DropGuardMutant(c) ==
    /\ phase[c] = "unguarded"
    /\ Goto(c, "gone")
    /\ UNCHANGED <<policy, counters, seen, reloads, ghosts>>

\* The guard goes out of scope last.
DropGuard(c) ==
    /\ phase[c] = "unguarded"
    /\ pending' = pending - 1
    /\ Goto(c, "gone")
    /\ UNCHANGED <<policy, ipCount, current, seen, reloads, ghosts>>

Next ==
    \/ Reload
    \/ \E c \in Conns :
         \/ Vet(c) \/ LoadCurrent(c) \/ Admit(c)
         \/ HandshakeFails(c) \/ Enter(c) \/ OnConnect(c) \/ NewGuard(c)
         \/ Promote(c) \/ IncConnections(c) \/ Reject(c)
         \/ Leave(c) \/ OnDisconnect(c) \/ DropGuard(c)

Spec == Init /\ [][Next]_vars

-----------------------------------------------------------------------------
\* Connections that the address counter stands for, from on_connect to
\* on_disconnect.
Counted(ip) ==
    {c \in In({"counted", "pending", "promoted", "online", "failing", "closing"}) :
        IpOf[c] = ip}

\* What a section says of an address, read off its entries.
Denied(cfg, ip) ==
    \/ \E e \in Range(cfg.black) : Covers(e, ip)
    \/ cfg.white # <<>> /\ \A e \in Range(cfg.white) : ~Covers(e, ip)

\* The lists in force are those of one section that parses, as a whole and for
\* every address: the compiled trees of both families decide as its entries
\* read (IpFilter, IpAcl::check), and a reload whose section has a faulty entry
\* leaves the earlier lists in force.
ListsExact ==
    /\ FilterExact
    /\ \E cfg \in Configs :
         /\ \A e \in Range(cfg.black \o cfg.white) : e.prefix <= MaxBits[e.fam]
         /\ policy.enabled = cfg.enabled /\ policy.maxPerIp = cfg.maxPerIp
         /\ \A ip \in Addresses : AclDenies(policy.acl, ip) <=> Denied(cfg, ip)

\* Every way out of handle_connection gives back exactly what it took: the
\* two gauges are the number of half-open and of open connections, and while
\* the policy has not been replaced the address counter is exact too.
CountersExact ==
    /\ pending = Cardinality(In({"pending", "failing", "unguarded"}))
    /\ current = Cardinality(In({"online"}))
    /\ reloads = 0 => \A i \in Ips :
         ipCount[i] = IF CountsIps THEN Cardinality(Counted(i)) ELSE 0

\* Connections that an accept loop has let in.
LetIn == In({"handshake", "checked", "counted", "pending", "promoted", "online",
             "failing", "unguarded"})

\* max_connections bounds the connections that were let in, as long as no
\* accept loop decided while another connection was between being let in and
\* being counted, or moved from one gauge to the other around the two loads:
\* the overlap of a decision with an uncounted connection is the only way to
\* exceed the limit.  The same for the limit per address: handle_connection
\* checks again just before it counts, so that only two tasks in that very
\* window can exceed it.
LimitsUnlessRaced ==
    /\ ~raced => Cardinality(LetIn) <= MaxConnections
    /\ reloads = 0 /\ CountsIps =>
         \A i \in Ips \ racedIp : Cardinality(Counted(i)) <= policy.maxPerIp

\* "max_connections covers half-open connections": however many listeners
\* accept at once, no more than max_connections are let in.
LimitCoversHalfOpen == Cardinality(LetIn) <= MaxConnections

\* "+1 when a connection is made, -1 when it ends", and the counts are "kept
\* across policies": an address with no connection left has no count.
CountReturnsToZero ==
    \A i \in Ips : (\A c \in Conns : IpOf[c] = i => phase[c] = "gone") => ipCount[i] = 0
=============================================================================
