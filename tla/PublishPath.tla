------------------------------ MODULE PublishPath ------------------------------
(***************************************************************************)
(* What an inbound PUBLISH passes before and after it is routed: the       *)
(* SecurityGuard (payload size, token bucket of the client), the           *)
(* PluginGuard (topic ACL, payload filter) and the HTTP forwarder, whose   *)
(* queue a background task empties.  Both guards can be reloaded while     *)
(* connections publish.  A reload is several stores and a publishing task  *)
(* does several loads; the requests of the operator API are handled        *)
(* concurrently, so two reloads can overlap too.                           *)
(*                                                                         *)
(* Routing itself is SubscriptionIndex, the acknowledgement and the QoS 2  *)
(* duplicate check are InboundQos.  A rule of an ACL or a filter is the    *)
(* set of topics or payloads it matches.                                   *)
(***************************************************************************)
EXTENDS Integers, Sequences, FiniteSets

CONSTANTS
    Conns,             \* publishing connections and requests to /api/v1/publish
    Admin,             \* those of Conns that are requests to the operator API
    ClientOf,          \* the client identifier each of Conns publishes under
    Requests,          \* reload requests of the operator API
    Scenarios,         \* [security, plugin, reloads, script]: the configuration
                       \* the broker starts with, guard and configuration of
                       \* each request, the messages each of Conns publishes
    MaxPacket,         \* broker.max_packet_size
    DefaultQueue,      \* capacity of the forward queue when max_queue is 0
    MaxTime,           \* bound on the clock
    None               \* no bucket, nothing in hand

Clients == {ClientOf[k] : k \in Conns}
Gens == 0..Cardinality(Requests)

ASSUME LimitsNatural ==
    /\ IsFiniteSet(Requests)
    /\ {MaxTime, MaxPacket} \subseteq Nat
    /\ DefaultQueue \in Nat \ {0}
ASSUME AdminPublishes == Admin \subseteq Conns

\* The messages of all scripts, and the forward sections of all configurations.
Published ==
    UNION {UNION {{s.script[k][i] : i \in DOMAIN s.script[k]} : k \in Conns} : s \in Scenarios}

ForwardSections ==
    UNION {{s.plugin.forward}
           \cup {s.reloads[r].cfg.forward : r \in {q \in Requests : s.reloads[q].of = "plugin"}}
           : s \in Scenarios}

ASSUME ScenariosTyped ==
    /\ None \notin Published
    /\ \A f \in ForwardSections : f.enabled \in BOOLEAN /\ f.maxQueue \in Nat
    /\ \A s \in Scenarios :
         /\ s.security.rate \in Nat
         /\ s.script \in [Conns -> Seq(Published)]
         /\ \A r \in Requests : s.reloads[r].of = "security" => s.reloads[r].cfg.rate \in Nat

VARIABLES
    security,   \* SecurityGuard.policy
    limiter,    \* ClientRateLimiter: capacity, refill_per_second
    buckets,    \* ClientRateLimiter.inner
    plugin,     \* PluginGuard.policy, with the forward section of its config
    current,    \* PluginGuard.forwarder: the number of the Forwarder in place
    fwd,        \* every Forwarder built so far, with its forward_loop
    built,      \* how many were built by reloads
    pub,        \* the PUBLISH each connection is handling
    req,        \* the reload each request is handling
    now,        \* the clock, in units of a second
    script,     \* what each connection has yet to publish
    raced,      \* ghost: clients whose try_consume overlapped with a reload
    overlapped  \* ghost: guards with two overlapping reloads

vars == <<security, limiter, buckets, plugin, current, fwd, built, pub, req, now, script,
          raced, overlapped>>

Idle == [pc |-> "idle"]

-----------------------------------------------------------------------------
(* ClientRateLimiter and TokenBucket                                       *)

\* The limiter for a rate: a capacity of twice the rate, at least one.
Limits(rate) == [cap |-> IF rate = 0 THEN 1 ELSE 2 * rate, refill |-> rate]

\* TokenBucket::new: full.  used is a ghost, the times tokens were taken at.
NewBucket(cap, refill) ==
    [cap |-> cap, refill |-> refill, tokens |-> cap, last |-> now, used |-> <<>>]

Smaller(a, b) == IF a < b THEN a ELSE b

\* TokenBucket::refill
Refilled(b) ==
    [b EXCEPT !.tokens = Smaller(b.cap, @ + b.refill * (now - b.last)), !.last = now]

\* Mutant: an empty bucket still gives a token.
HasTokenMutant(b) == Refilled(b).tokens >= 0

HasToken(b) == Refilled(b).tokens >= 1

\* TokenBucket::try_consume(1)
Consumed(b) ==
    IF HasToken(b) THEN [Refilled(b) EXCEPT !.tokens = @ - 1, !.used = Append(@, now)]
    ELSE Refilled(b)

-----------------------------------------------------------------------------
(* TopicAcl and PayloadFilter                                              *)

\* PluginGuard::build_policy: a payload filter that is off is empty.
BuildPolicy(cfg) ==
    [enabled |-> cfg.enabled, black |-> cfg.black, white |-> cfg.white,
     badWords |-> IF cfg.filterOn THEN cfg.badWords ELSE {},
     goodWords |-> IF cfg.filterOn THEN cfg.goodWords ELSE {},
     forward |-> cfg.forward]

\* The blacklist first, then the whitelist unless it is empty.
Denies(black, white, x) ==
    \/ \E rule \in black : x \in rule
    \/ white # {} /\ \A rule \in white : x \notin rule

\* TopicAcl::check_publish and PayloadFilter::check
TopicDenied(m) == Denies(plugin.black, plugin.white, m.topic)
PayloadDenied(m) == Denies(plugin.badWords, plugin.goodWords, m.payload)

\* PluginGuard::check_publish
PluginDenies(m) == plugin.enabled /\ (TopicDenied(m) \/ PayloadDenied(m))

\* SecurityGuard::check_publish, the payload's length.
TooLarge(m) ==
    m.size > IF security.maxPayload > 0 THEN security.maxPayload ELSE MaxPacket

-----------------------------------------------------------------------------
(* Forwarder                                                               *)

\* Forwarder::new.  sent, posts and lost are ghosts: what entered the queue,
\* the requests made of the endpoint, what met a closed channel.
Built(cfg) ==
    [on |-> cfg.enabled, topics |-> cfg.topics,
     cap |-> IF cfg.maxQueue = 0 THEN DefaultQueue ELSE cfg.maxQueue,
     loop |-> IF cfg.enabled THEN "run" ELSE "none",
     queue |-> <<>>, hand |-> None, tries |-> 0, dropped |-> 0,
     sent |-> <<>>, posts |-> <<>>, lost |-> {}]

Valid(cfg) == cfg.enabled => cfg.validUrl

\* Forwarder::disabled
Disabled == Built([enabled |-> FALSE, topics |-> {}, maxQueue |-> 0, validUrl |-> FALSE])

\* Mutant: only the guard's own reference keeps the channel open.
ReferencedMutant(g) == current = g

\* Mutant: replaced forwarders are kept.
ReferencedLeakMutant(g) == g \in 0..built

\* The Forwarder, and with it the sender of the channel, is alive: the guard
\* holds it, or a task that loaded it and has not called try_send yet.
Referenced(g) == current = g \/ \E k \in Conns : pub[k].pc = "send" /\ pub[k].gen = g

\* Forwarder::try_forward: the message that finds the queue full is dropped.
Offered(f, m) ==
    IF ~f.on \/ m.topic \notin f.topics THEN f
    ELSE IF f.loop = "ended" THEN [f EXCEPT !.lost = @ \cup {m}]
    ELSE IF Len(f.queue) >= f.cap THEN [f EXCEPT !.dropped = @ + 1]
    ELSE [f EXCEPT !.queue = Append(@, m), !.sent = Append(@, m)]

Init ==
    /\ \E s \in Scenarios :
         /\ security = s.security
         /\ plugin = BuildPolicy(s.plugin)
         /\ script = s.script
         /\ req = [r \in Requests |-> [pc |-> "wait", of |-> s.reloads[r].of,
                                             cfg |-> s.reloads[r].cfg]]
    /\ limiter = Limits(security.rate)
    /\ buckets = [c \in Clients |-> None]
    /\ current = 0
    /\ fwd = [g \in Gens |-> IF g = 0 /\ Valid(plugin.forward) THEN Built(plugin.forward)
                             ELSE Disabled]
    /\ built = 0
    /\ pub = [k \in Conns |-> Idle]
    /\ now = 0
    /\ raced = {}
    /\ overlapped = {}

-----------------------------------------------------------------------------
(* One PUBLISH: handle_publish of a connection, or manual_publish          *)

Goto(k, pc) == pub' = [pub EXCEPT ![k].pc = pc]
Finish(k) == pub' = [pub EXCEPT ![k] = Idle]

\* SecurityGuard::check_publish up to the rate limiter.
Submit(k) ==
    LET m == Head(script[k])
    IN  /\ pub[k] = Idle
        /\ script[k] # <<>>
        /\ script' = [script EXCEPT ![k] = Tail(@)]
        /\ pub' = [pub EXCEPT ![k] =
                     IF security.enabled /\ TooLarge(m) THEN Idle
                     ELSE [pc |-> IF security.enabled /\ security.rate > 0 THEN "limit"
                                  ELSE "plugin",
                           msg |-> m, cap |-> 0, refill |-> 0, gen |-> 0]]
        /\ UNCHANGED <<security, limiter, buckets, plugin, current, fwd, built, req, now, raced,
                       overlapped>>

\* try_consume: no limit when the rate is 0.
LoadRate(k) ==
    /\ pub[k].pc = "limit"
    /\ Goto(k, IF limiter.refill = 0 THEN "plugin" ELSE "capacity")
    /\ UNCHANGED <<security, limiter, buckets, plugin, current, fwd, built, req, now, script,
                   raced, overlapped>>

LoadCapacity(k) ==
    /\ pub[k].pc = "capacity"
    /\ pub' = [pub EXCEPT ![k].pc = "refill", ![k].cap = limiter.cap]
    /\ UNCHANGED <<security, limiter, buckets, plugin, current, fwd, built, req, now, script,
                   raced, overlapped>>

LoadRefill(k) ==
    /\ pub[k].pc = "refill"
    /\ pub' = [pub EXCEPT ![k].pc = "bucket", ![k].refill = limiter.refill]
    /\ UNCHANGED <<security, limiter, buckets, plugin, current, fwd, built, req, now, script,
                   raced, overlapped>>

\* try_consume under the lock: the client's bucket, or a new one.
TakeToken(k) ==
    LET c == ClientOf[k]
        b == IF buckets[c] # None THEN buckets[c] ELSE NewBucket(pub[k].cap, pub[k].refill)
    IN  /\ pub[k].pc = "bucket"
        /\ buckets' = [buckets EXCEPT ![c] = Consumed(b)]
        /\ pub' = [pub EXCEPT ![k] =
                     IF HasToken(b) THEN [@ EXCEPT !.pc = "plugin", !.cap = 0, !.refill = 0] ELSE Idle]
        /\ UNCHANGED <<security, limiter, plugin, current, fwd, built, req, now, script, raced,
                       overlapped>>

\* handle_publish after its security check: PluginGuard::check_publish, the
\* duplicate check of QoS 2 and routing.  Router::publish never fails: a topic
\* with a wildcard is routed and forwarded like any other.
Judge(k) ==
    /\ pub[k].pc = "plugin" /\ k \notin Admin
    /\ \E duplicate \in BOOLEAN :
         IF PluginDenies(pub[k].msg) \/ duplicate THEN Finish(k) ELSE Goto(k, "forward")
    /\ UNCHANGED <<security, limiter, buckets, plugin, current, fwd, built, req, now, script,
                   raced, overlapped>>

\* manual_publish after its security check: the request is refused or routed
\* and answered, and never forwarded.
ManualPublish(k) ==
    /\ pub[k].pc = "plugin" /\ k \in Admin
    /\ Finish(k)
    /\ UNCHANGED <<security, limiter, buckets, plugin, current, fwd, built, req, now, script,
                   raced, overlapped>>

\* PluginGuard::try_forward: loads the forwarder, then offers the message.
LoadForwarder(k) ==
    /\ pub[k].pc = "forward"
    /\ pub' = [pub EXCEPT ![k].pc = "send", ![k].gen = current]
    /\ UNCHANGED <<security, limiter, buckets, plugin, current, fwd, built, req, now, script,
                   raced, overlapped>>

TrySend(k) ==
    /\ pub[k].pc = "send"
    /\ fwd' = [fwd EXCEPT ![pub[k].gen] = Offered(@, pub[k].msg)]
    /\ Finish(k)
    /\ UNCHANGED <<security, limiter, buckets, plugin, current, built, req, now, script, raced,
                   overlapped>>

\* The connection ends.  SecurityGuard::on_disconnect: the client's bucket
\* goes, also when a newer connection of the client is using it.  (Without a
\* bucket an idle connection that ends is one that publishes nothing more.)
Disconnect(k) ==
    /\ k \notin Admin
    /\ pub[k] = Idle
    /\ buckets[ClientOf[k]] # None
    /\ buckets' = [buckets EXCEPT ![ClientOf[k]] = None]
    /\ pub' = [pub EXCEPT ![k] = [pc |-> "gone"]]
    /\ script' = [script EXCEPT ![k] = <<>>]
    /\ UNCHANGED <<security, limiter, plugin, current, fwd, built, req, now, raced, overlapped>>

-----------------------------------------------------------------------------
(* SecurityGuard::reload: the policy, then reset of the limiter.  The      *)
(* address lists of the section, which can make it fail, are in Admission. *)

Consuming == {ClientOf[k] : k \in {j \in Conns : pub[j].pc \in {"capacity", "refill", "bucket"}}}

Reloading(guard) == \E r \in Requests : req[r].of = guard /\ req[r].pc \notin {"wait", "done"}

At(r, guard, pc) == req[r].of = guard /\ req[r].pc = pc

\* The request reaches the guard; two of them may be in it at a time.
StartReload(r, guard) ==
    /\ At(r, guard, "wait")
    /\ req' = [req EXCEPT ![r].pc = "start"]
    /\ overlapped' = IF Reloading(guard) THEN overlapped \cup {guard} ELSE overlapped

ReloadSecurity(r) ==
    /\ StartReload(r, "security")
    /\ security' = req[r].cfg
    /\ UNCHANGED <<limiter, buckets, plugin, current, fwd, built, pub, now, script, raced>>

ResetCapacity(r) ==
    /\ At(r, "security", "start")
    /\ limiter' = [limiter EXCEPT !.cap = Limits(req[r].cfg.rate).cap]
    /\ req' = [req EXCEPT ![r].pc = "rate"]
    /\ raced' = raced \cup Consuming
    /\ UNCHANGED <<security, buckets, plugin, current, fwd, built, pub, now, script, overlapped>>

ResetRate(r) ==
    /\ At(r, "security", "rate")
    /\ limiter' = [limiter EXCEPT !.refill = req[r].cfg.rate]
    /\ req' = [req EXCEPT ![r].pc = "clear"]
    /\ raced' = raced \cup Consuming
    /\ UNCHANGED <<security, buckets, plugin, current, fwd, built, pub, now, script, overlapped>>

\* Mutant: the buckets of the old rate stay.
ClearMutant(r) ==
    /\ At(r, "security", "clear")
    /\ req' = [req EXCEPT ![r].pc = "done"]
    /\ raced' = raced \cup Consuming
    /\ UNCHANGED <<security, limiter, buckets, plugin, current, fwd, built, pub, now, script,
                   overlapped>>

Clear(r) ==
    /\ At(r, "security", "clear")
    /\ buckets' = [c \in Clients |-> None]
    /\ req' = [req EXCEPT ![r].pc = "done"]
    /\ raced' = raced \cup Consuming
    /\ UNCHANGED <<security, limiter, plugin, current, fwd, built, pub, now, script, overlapped>>

-----------------------------------------------------------------------------
(* PluginGuard::reload: the policy, then a new forwarder                   *)

ReloadPlugin(r) ==
    /\ StartReload(r, "plugin")
    /\ plugin' = BuildPolicy(req[r].cfg)
    /\ UNCHANGED <<security, limiter, buckets, current, fwd, built, pub, now, script, raced>>

\* The new forwarder replaces the old one; a configuration that does not
\* validate leaves the old one in place.
ReplaceForwarder(r) ==
    LET cfg == req[r].cfg.forward
    IN  /\ At(r, "plugin", "start")
        /\ req' = [req EXCEPT ![r].pc = "done"]
        /\ IF Valid(cfg)
           THEN /\ built' = built + 1
                /\ current' = built + 1
                /\ fwd' = [fwd EXCEPT ![built + 1] = Built(cfg)]
           ELSE UNCHANGED <<built, current, fwd>>
        /\ UNCHANGED <<security, limiter, buckets, plugin, pub, now, script, raced, overlapped>>

-----------------------------------------------------------------------------
(* forward_loop of forwarder g                                             *)

others == <<security, limiter, buckets, plugin, current, built, pub, req, now, script, raced,
            overlapped>>

Receive(g) ==
    /\ fwd[g].loop = "run" /\ fwd[g].hand = None /\ fwd[g].queue # <<>>
    /\ fwd' = [fwd EXCEPT ![g].hand = Head(fwd[g].queue), ![g].queue = Tail(@)]
    /\ UNCHANGED others

\* A request is answered, or fails: refused, or timed out.  A first failure is
\* retried once.  When a request that timed out reaches the endpoint is up to
\* the network: posts records what the loop asks for, not what arrives.
Posted(f, answered) ==
    [f EXCEPT !.posts = Append(@, f.hand),
              !.hand = IF answered \/ f.tries = 1 THEN None ELSE @,
              !.tries = IF answered \/ f.tries = 1 THEN 0 ELSE 1]

Post(g) ==
    /\ fwd[g].loop = "run" /\ fwd[g].hand # None
    /\ \E answered \in BOOLEAN : fwd' = [fwd EXCEPT ![g] = Posted(@, answered)]
    /\ UNCHANGED others

\* recv returns None: the channel is empty and its sender gone.
LoopEnds(g) ==
    /\ fwd[g].loop = "run" /\ fwd[g].hand = None /\ fwd[g].queue = <<>>
    /\ ~Referenced(g)
    /\ fwd' = [fwd EXCEPT ![g].loop = "ended"]
    /\ UNCHANGED others

\* Time passes; only buckets depend on it.
Tick ==
    /\ now < MaxTime /\ \E c \in Clients : buckets[c] # None
    /\ now' = now + 1
    /\ UNCHANGED <<security, limiter, buckets, plugin, current, fwd, built, pub, req, script,
                   raced, overlapped>>

-----------------------------------------------------------------------------
Handle(k) ==
    \/ LoadRate(k) \/ LoadCapacity(k) \/ LoadRefill(k) \/ TakeToken(k)
    \/ Judge(k) \/ ManualPublish(k) \/ LoadForwarder(k) \/ TrySend(k)

Reload(r) ==
    \/ ReloadSecurity(r) \/ ResetCapacity(r) \/ ResetRate(r) \/ Clear(r)
    \/ ReloadPlugin(r) \/ ReplaceForwarder(r)

Loop(g) == Receive(g) \/ Post(g) \/ LoopEnds(g)

Next ==
    \/ \E k \in Conns : Submit(k) \/ Handle(k) \/ Disconnect(k)
    \/ \E r \in Requests : Reload(r)
    \/ \E g \in Gens : Loop(g)
    \/ Tick

\* Tasks of the runtime are scheduled; each request of the forwarder ends by
\* the timeout of its client.
Fairness ==
    /\ \A k \in Conns : WF_vars(Handle(k))
    /\ \A g \in Gens : WF_vars(Loop(g))

Spec == Init /\ [][Next]_vars /\ Fairness

-----------------------------------------------------------------------------
\* In any stretch of time that ends now a bucket gave at most its capacity and
\* what it refills meanwhile (TokenBucket refills lazily, on each try_consume).
RateBounded ==
    \A c \in Clients : buckets[c] # None =>
        \A t \in 0..now :
            Cardinality({i \in DOMAIN buckets[c].used : buckets[c].used[i] >= t})
                <= buckets[c].cap + buckets[c].refill * (now - t)

\* When no reload is running, what the last one configured is in force as a
\* whole: the limiter and the buckets follow the policy's rate, the forwarder
\* the configuration stored with the ACL.  Exceptions: reloads of the same
\* guard that overlapped, a bucket created by a try_consume that overlapped
\* with a reload, a forward section that does not validate.
ReloadInForce ==
    /\ ~Reloading("security") /\ "security" \notin overlapped =>
         /\ limiter = Limits(security.rate)
         /\ \A c \in Clients \ raced : buckets[c] # None =>
              buckets[c].cap = limiter.cap /\ buckets[c].refill = limiter.refill
    /\ ~Reloading("plugin") /\ "plugin" \notin overlapped /\ Valid(plugin.forward) =>
         LET want == Built(plugin.forward)
         IN  /\ fwd[current].on = want.on
             /\ fwd[current].topics = want.topics
             /\ fwd[current].cap = want.cap

InHand(f) == IF f.hand = None THEN <<>> ELSE <<f.hand>>

\* The forwarder neither loses nor reorders what it accepted, also when it is
\* replaced: what entered the queue is what was dealt with, the message in hand
\* and the queue, in this order; nothing is offered to a forward_loop that has
\* ended, and a loop ends with nothing left.  What was dealt with was posted to
\* the endpoint; the loop makes its requests in the order the messages entered
\* the queue, at most two for a message, the second directly after the first
\* (one retry, before the next message).
ForwardInOrder ==
    \A g \in Gens :
        LET f == fwd[g]
            rest == InHand(f) \o f.queue
        IN  /\ \E done \in 0 .. Len(f.sent) :
                 /\ rest = SubSeq(f.sent, done + 1, Len(f.sent))
                 /\ \A d \in 1 .. done : \E i \in DOMAIN f.posts : f.posts[i] = f.sent[d]
            /\ f.lost = {}
            /\ f.loop = "ended" => rest = <<>>
            /\ \A i, j \in DOMAIN f.posts : i < j =>
                 \/ f.posts[i] = f.posts[j] /\ j = i + 1
                 \/ \E a, b \in DOMAIN f.sent :
                      a < b /\ f.sent[a] = f.posts[i] /\ f.sent[b] = f.posts[j]

\* Every message that entered a forward queue is dealt with in the end, also
\* when its forwarder was replaced, and a forwarder that was replaced ends its
\* forward_loop.  (Scripts and requests are finite, so this is a state reached
\* for good.)
ForwardEnds ==
    <>[](\A g \in Gens :
           /\ fwd[g].queue = <<>> /\ fwd[g].hand = None
           /\ g # current => fwd[g].loop # "run")
================================================================================
