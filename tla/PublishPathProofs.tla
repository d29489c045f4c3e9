-------------------------- MODULE PublishPathProofs --------------------------
(***************************************************************************)
(* Proofs about PublishPath, for every set of connections, reload requests *)
(* and configurations: the token buckets keep the configured rate, a       *)
(* reload is in force as a whole once it has ended, and the HTTP forwarder *)
(* neither loses nor reorders what it accepted.                            *)
(***************************************************************************)
EXTENDS PublishPath, FiniteSetTheorems, TLAPS

(***************************************************************************)
(* Types.                                                                  *)
(***************************************************************************)

Stages == {"limit", "capacity", "refill", "bucket", "plugin", "forward", "send"}

Handling == [pc : Stages, msg : Published, cap : Nat, refill : Nat, gen : Gens]

Gone == [pc |-> "gone"]

Bucket == [cap : Nat, refill : Nat, tokens : Nat, last : Nat, used : Seq(Nat)]

TopicSets == {f.topics : f \in ForwardSections} \cup {{}}

Forwarder ==
    [on : BOOLEAN, topics : TopicSets, cap : Nat, loop : {"none", "run", "ended"},
     queue : Seq(Published), hand : Published \cup {None}, tries : {0, 1}, dropped : Nat,
     sent : Seq(Published), posts : Seq(Published), lost : SUBSET Published]

Phases == {"wait", "start", "rate", "clear", "done"}

Request ==
    [pc : Phases, of : UNION {{s.reloads[r].of : r \in Requests} : s \in Scenarios},
     cfg : UNION {{s.reloads[r].cfg : r \in Requests} : s \in Scenarios}]

\* The guard a request is for tells what its configuration has.
ConfigTyped(q) ==
    /\ q.of = "security" => q.cfg.rate \in Nat
    /\ q.of = "plugin" => q.cfg.forward \in ForwardSections

TypeOK ==
    /\ security.rate \in Nat
    /\ limiter \in [cap : Nat, refill : Nat]
    /\ buckets \in [Clients -> Bucket \cup {None}]
    /\ plugin.forward \in ForwardSections
    /\ current \in Gens
    /\ fwd \in [Gens -> Forwarder]
    /\ built \in Nat
    /\ pub \in [Conns -> {Idle, Gone} \cup Handling]
    /\ req \in [Requests -> Request]
    /\ \A r \in Requests : ConfigTyped(req[r])
    /\ now \in Nat
    /\ script \in [Conns -> Seq(Published)]
    /\ raced \subseteq Clients
    /\ overlapped \subseteq {"security", "plugin"}

\* Each forwarder built belongs to a request that has ended, so that there is
\* a number for the next one.
Ended == {r \in Requests : req[r].of = "plugin" /\ req[r].pc = "done"}

Numbered == built <= Cardinality(Ended) /\ current \in 0 .. built

(***************************************************************************)
(* The token buckets.                                                      *)
(***************************************************************************)

UsedSince(b, t) == {i \in DOMAIN b.used : b.used[i] >= t}

\* What was taken since t, with what is left, is covered by the capacity and
\* what was refilled up to the last refill.
Covered(b, t) == Cardinality(UsedSince(b, t)) + b.tokens <= b.cap + b.refill * (b.last - t)

BucketOK(b, at) ==
    /\ b.last <= at
    /\ b.tokens <= b.cap
    /\ \A i \in DOMAIN b.used : b.used[i] <= b.last
    /\ \A t \in 0 .. b.last : Covered(b, t)

RateInv == \A c \in Clients : buckets[c] # None => BucketOK(buckets[c], now)

(***************************************************************************)
(* Reloads.                                                                *)
(***************************************************************************)

Active(r, guard) == req[r].of = guard /\ req[r].pc \notin {"wait", "done"}

Alone(guard) == \A r, q \in Requests : Active(r, guard) /\ Active(q, guard) => r = q

\* What a try_consume has loaded is what the limiter says, unless a reset
\* came in between.
Loaded(k) ==
    ClientOf[k] \notin raced =>
        /\ pub[k].pc \in {"refill", "bucket"} => pub[k].cap = limiter.cap
        /\ pub[k].pc = "bucket" => pub[k].refill = limiter.refill

\* How far the reset of the limiter has come.
ResetProgress(r) ==
    /\ Active(r, "security") => security.rate = req[r].cfg.rate
    /\ At(r, "security", "rate") \/ At(r, "security", "clear") =>
         limiter.cap = Limits(security.rate).cap
    /\ At(r, "security", "clear") => limiter.refill = security.rate

Resetting == \E r \in Requests : At(r, "security", "rate") \/ At(r, "security", "clear")

Uniform(c) ==
    buckets[c] # None => buckets[c].cap = limiter.cap /\ buckets[c].refill = limiter.refill

SecurityInv ==
    /\ \A k \in Conns : Loaded(k)
    /\ "security" \notin overlapped =>
         /\ Alone("security")
         /\ \A r \in Requests : ResetProgress(r)
         /\ ~Reloading("security") => limiter = Limits(security.rate)
         /\ ~Resetting => \A c \in Clients \ raced : Uniform(c)

Matches(f, cfg) ==
    LET want == Built(cfg) IN f.on = want.on /\ f.topics = want.topics /\ f.cap = want.cap

PluginInv ==
    "plugin" \notin overlapped =>
        /\ Alone("plugin")
        /\ \A r \in Requests : Active(r, "plugin") => plugin.forward = req[r].cfg.forward
        /\ ~Reloading("plugin") /\ Valid(plugin.forward) => Matches(fwd[current], plugin.forward)

(***************************************************************************)
(* The forwarder.                                                          *)
(***************************************************************************)

\* How many messages have left the queue.
Taken(f) == Len(f.sent) - Len(f.queue)

\* How many of them have been dealt with.
Handled(f) == IF f.hand = None THEN Taken(f) ELSE Taken(f) - 1

\* Two requests made of the endpoint: the retry directly after the original,
\* or two messages in the order they entered the queue.
Ordered(f, i, j) ==
    \/ f.posts[i] = f.posts[j] /\ j = i + 1
    \/ \E a, b \in DOMAIN f.sent : a < b /\ f.sent[a] = f.posts[i] /\ f.sent[b] = f.posts[j]

\* What was posted was dealt with, except for the last request when the
\* message in hand is to be retried.
Explained(f, i) ==
    \/ \E a \in 1 .. Handled(f) : f.sent[a] = f.posts[i]
    \/ f.tries = 1 /\ i = Len(f.posts) /\ f.posts[i] = f.hand

\* What was dealt with was posted.
Tried(f) == \A d \in 1 .. Handled(f) : \E i \in DOMAIN f.posts : f.posts[i] = f.sent[d]

ForwarderOK(f) ==
    /\ f.lost = {}
    /\ f.on => f.loop # "none"
    /\ f.loop = "ended" => f.hand = None /\ f.queue = <<>>
    /\ f.tries = 1 => f.hand # None
    /\ Len(f.queue) <= f.cap
    /\ Len(f.queue) <= Len(f.sent)
    /\ \A i \in 1 .. Len(f.queue) : f.queue[i] = f.sent[Taken(f) + i]
    /\ f.hand # None => Taken(f) >= 1 /\ f.hand = f.sent[Taken(f)]
    /\ \A i \in DOMAIN f.posts : Explained(f, i)
    /\ \A i, j \in DOMAIN f.posts : i < j => Ordered(f, i, j)
    /\ Tried(f)

\* A forward_loop ends only when nobody can offer it a message any more.
Served(f, n, g) == g \in 0 .. n /\ f[g].loop # "ended"

ForwardInv ==
    /\ \A g \in Gens : ForwarderOK(fwd[g])
    /\ Served(fwd, built, current)
    /\ \A k \in Conns : pub[k].pc = "send" => Served(fwd, built, pub[k].gen)

Inv == TypeOK /\ Numbered /\ RateInv /\ SecurityInv /\ PluginInv /\ ForwardInv

-----------------------------------------------------------------------------
(***************************************************************************)
(* Types are kept.                                                         *)
(***************************************************************************)

\* A handler at one of its stages has a message and what it has loaded.
LEMMA StageHandling ==
  ASSUME TypeOK, NEW k \in Conns, pub[k].pc \in Stages
  PROVE  pub[k] \in Handling
  <1>1. pub[k] = Idle \/ pub[k] = Gone \/ pub[k] \in Handling
    BY ZenonT(40) DEF TypeOK
  <1>2. pub[k] # Idle /\ pub[k] # Gone
    BY SMTT(40) DEF Idle, Gone, Stages
  <1>3. QED
    BY <1>1, <1>2

\* A handler in stage moves on to another one.
LEMMA StageMoves ==
  ASSUME TypeOK, NEW k \in Conns, NEW old \in Stages, NEW new \in Stages, pub[k].pc = old
  PROVE  [pub EXCEPT ![k].pc = new] \in [Conns -> {Idle, Gone} \cup Handling]
  <1>1. pub[k] \in Handling
    BY StageHandling, ZenonT(40)
  <1>2. [pub[k] EXCEPT !.pc = new] \in Handling
    BY <1>1, SMTT(40) DEF Handling
  <1>3. [pub EXCEPT ![k].pc = new] = [pub EXCEPT ![k] = [pub[k] EXCEPT !.pc = new]]
    BY ZenonT(40) DEF TypeOK
  <1>4. QED
    BY <1>2, <1>3, ZenonT(40) DEF TypeOK

\* A handler that ends leaves its connection idle or gone.
LEMMA HandlerEnds ==
  ASSUME TypeOK, NEW k \in Conns, NEW p \in {Idle, Gone}
  PROVE  [pub EXCEPT ![k] = p] \in [Conns -> {Idle, Gone} \cup Handling]
  BY ZenonT(40) DEF TypeOK

\* Capacity and refill for a rate are numbers.
LEMMA LimitsTyped ==
  ASSUME NEW rate \in Nat
  PROVE  Limits(rate) \in [cap : Nat, refill : Nat]
  BY SMTT(40) DEF Limits

\* A new bucket is typed.
LEMMA NewBucketTyped ==
  ASSUME now \in Nat, NEW cap \in Nat, NEW refill \in Nat
  PROVE  NewBucket(cap, refill) \in Bucket
  <1>1. <<>> \in Seq(Nat)
    BY SMTT(40)
  <1>2. QED
    BY <1>1, ZenonT(40) DEF NewBucket, Bucket

\* Multiplication, for the provers.
LEMMA Times ==
  ASSUME NEW r \in Nat, NEW x \in Nat, NEW y \in Nat
  PROVE  r * x \in Nat /\ r * y \in Nat /\ r * (x + y) = r * x + r * y
  BY SMTT(40)

\* What a refill does to each field of a bucket.
LEMMA RefilledIs ==
  ASSUME now \in Nat, NEW b \in Bucket, b.last <= now
  PROVE  /\ Refilled(b) \in Bucket
         /\ Refilled(b).cap = b.cap
         /\ Refilled(b).refill = b.refill
         /\ Refilled(b).used = b.used
         /\ Refilled(b).last = now
         /\ Refilled(b).tokens = Smaller(b.cap, b.tokens + b.refill * (now - b.last))
  <1>1. b.refill \in Nat /\ b.cap \in Nat /\ b.tokens \in Nat /\ now - b.last \in Nat
    BY SMTT(40) DEF Bucket
  <1>2. b.refill * (now - b.last) \in Nat
    BY <1>1, Times, ZenonT(40)
  <1>3. Smaller(b.cap, b.tokens + b.refill * (now - b.last)) \in Nat
    BY <1>1, <1>2, SMTT(40) DEF Smaller
  <1>4. PICK n \in Nat : n = Smaller(b.cap, b.tokens + b.refill * (now - b.last))
    BY <1>3
  <1>5. Refilled(b) = [b EXCEPT !.tokens = n, !.last = now]
    BY <1>4, ZenonT(40) DEF Refilled
  <1>6. QED
    BY <1>4, <1>5, ZenonT(40) DEF Bucket

\* What try_consume does to each field of a bucket.
LEMMA ConsumedIs ==
  ASSUME now \in Nat, NEW b \in Bucket, b.last <= now
  PROVE  /\ Consumed(b) \in Bucket
         /\ Consumed(b).cap = b.cap
         /\ Consumed(b).refill = b.refill
         /\ Consumed(b).last = now
         /\ HasToken(b) => /\ Consumed(b).used = Append(b.used, now)
                           /\ Consumed(b).tokens = Refilled(b).tokens - 1
         /\ ~HasToken(b) => Consumed(b) = Refilled(b)
  <1>1. PICK f \in Bucket : f = Refilled(b)
    BY RefilledIs, ZenonT(40)
  <1>2. f.cap = b.cap /\ f.refill = b.refill /\ f.used = b.used /\ f.last = now
    BY <1>1, RefilledIs, ZenonT(40)
  <1>3. CASE ~HasToken(b)
    BY <1>1, <1>2, <1>3, ZenonT(40) DEF Consumed
  <1>4. CASE HasToken(b)
    <2>1. f.tokens - 1 \in Nat
      BY <1>1, <1>4, SMTT(40) DEF HasToken, Bucket
    <2>2. Append(f.used, now) \in Seq(Nat)
      BY SMTT(40) DEF Bucket
    <2>3. Consumed(b) = [f EXCEPT !.tokens = f.tokens - 1, !.used = Append(f.used, now)]
      BY <1>1, <1>4, ZenonT(40) DEF Consumed
    <2>4. PICK n \in Nat, u \in Seq(Nat) : n = f.tokens - 1 /\ u = Append(f.used, now)
      BY <2>1, <2>2, ZenonT(40)
    <2>5. Consumed(b) = [f EXCEPT !.tokens = n, !.used = u]
      BY <2>3, <2>4, ZenonT(40)
    <2>6. QED
      BY <1>1, <1>2, <1>4, <2>4, <2>5, ZenonT(40) DEF Bucket
  <1>5. QED
    BY <1>3, <1>4

-----------------------------------------------------------------------------
(***************************************************************************)
(* What the steps of a forwarder do to its record.                         *)
(***************************************************************************)

\* n is f after a step: well formed again, with the settings it was built with.
Continues(f, n) ==
    /\ n \in Forwarder
    /\ ForwarderOK(n)
    /\ n.on = f.on /\ n.topics = f.topics /\ n.cap = f.cap

\* The types of the fields of a forwarder.
LEMMA ForwarderFields ==
  ASSUME NEW f \in Forwarder
  PROVE  /\ f.on \in BOOLEAN /\ f.topics \in TopicSets /\ f.cap \in Nat
         /\ f.loop \in {"none", "run", "ended"}
         /\ f.queue \in Seq(Published) /\ f.sent \in Seq(Published) /\ f.posts \in Seq(Published)
         /\ f.hand \in Published \cup {None} /\ f.tries \in {0, 1} /\ f.dropped \in Nat
         /\ f.lost \in SUBSET Published
  BY ZenonT(40) DEF Forwarder

\* A forwarder that has just been built.
LEMMA FreshForwarder ==
  ASSUME NEW on \in BOOLEAN, NEW topics \in TopicSets, NEW cap \in Nat,
         NEW loop \in {"none", "run"}, on => loop = "run",
         NEW f, f = [on |-> on, topics |-> topics, cap |-> cap, loop |-> loop,
                     queue |-> <<>>, hand |-> None, tries |-> 0, dropped |-> 0,
                     sent |-> <<>>, posts |-> <<>>, lost |-> {}]
  PROVE  f \in Forwarder /\ ForwarderOK(f) /\ f.loop # "ended"
  <1>1. <<>> \in Seq(Published)
    BY SMTT(40)
  <1>2. f \in Forwarder
    BY <1>1, ZenonT(40) DEF Forwarder
  <1>3. /\ f.lost = {} /\ f.hand = None /\ f.tries = 0 /\ f.loop = loop /\ f.on = on
        /\ f.queue = <<>> /\ f.sent = <<>> /\ f.posts = <<>> /\ f.cap = cap
    BY ZenonT(40)
  <1>4. Len(f.queue) = 0 /\ Len(f.sent) = 0 /\ DOMAIN f.posts = {}
    BY <1>3, SMTT(40)
  <1>5. loop # "ended" /\ loop = "run" => loop # "none"
    BY SMTT(40)
  <1>6. /\ Len(f.queue) <= f.cap /\ Len(f.queue) <= Len(f.sent)
        /\ \A i \in 1 .. Len(f.queue) : f.queue[i] = f.sent[Taken(f) + i]
        /\ f.tries # 1
    BY <1>3, <1>4, SMTT(40)
  <1>8. Tried(f)
    <2>1. Handled(f) = Len(f.sent) - Len(f.queue)
      BY <1>3, ZenonT(40) DEF Handled, Taken
    <2>2. Handled(f) = 0
      BY <1>4, <2>1, SMTT(40)
    <2>3. 1 .. 0 = {}
      BY SMTT(40)
    <2>4. QED
      BY <2>2, <2>3, ZenonT(40) DEF Tried
  <1>7. QED
    BY <1>2, <1>3, <1>4, <1>5, <1>6, <1>8, ZenonT(40) DEF ForwarderOK

\* A forwarder just built has lost nothing and its loop has not ended.
LEMMA BuiltFresh ==
  ASSUME NEW cfg \in ForwardSections
  PROVE  Built(cfg) \in Forwarder /\ ForwarderOK(Built(cfg)) /\ Built(cfg).loop # "ended"
  <1>1. cfg.enabled \in BOOLEAN /\ cfg.maxQueue \in Nat /\ cfg.topics \in TopicSets
    BY ScenariosTyped, ZenonT(40) DEF TopicSets
  <1>2. PICK cap \in Nat : cap = IF cfg.maxQueue = 0 THEN DefaultQueue ELSE cfg.maxQueue
    BY <1>1, LimitsNatural, SMTT(40)
  <1>3. PICK loop \in {"none", "run"} : loop = IF cfg.enabled THEN "run" ELSE "none"
    BY <1>1, ZenonT(40)
  <1>4. cfg.enabled => loop = "run"
    BY <1>3, ZenonT(40)
  <1>5. Built(cfg) = [on |-> cfg.enabled, topics |-> cfg.topics, cap |-> cap, loop |-> loop,
                      queue |-> <<>>, hand |-> None, tries |-> 0, dropped |-> 0,
                      sent |-> <<>>, posts |-> <<>>, lost |-> {}]
    BY <1>2, <1>3, ZenonT(40) DEF Built
  <1>6. QED
    BY <1>1, <1>4, <1>5, FreshForwarder, ZenonT(40)

\* Neither has a disabled one.
LEMMA DisabledFresh ==
  Disabled \in Forwarder /\ ForwarderOK(Disabled) /\ Disabled.loop # "ended"
  <1>1. Disabled = [on |-> FALSE, topics |-> {}, cap |-> DefaultQueue, loop |-> "none",
                    queue |-> <<>>, hand |-> None, tries |-> 0, dropped |-> 0,
                    sent |-> <<>>, posts |-> <<>>, lost |-> {}]
    BY SMTT(40) DEF Disabled, Built
  <1>2. DefaultQueue \in Nat /\ {} \in TopicSets
    BY LimitsNatural, ZenonT(40) DEF TopicSets
  <1>3. QED
    BY <1>1, <1>2, FreshForwarder, ZenonT(40)

\* The places of a sequence after an append.
LEMMA AppendIs ==
  ASSUME NEW S, NEW s \in Seq(S), NEW m \in S, NEW t, t = Append(s, m)
  PROVE  /\ t \in Seq(S)
         /\ Len(s) \in Nat /\ Len(t) = Len(s) + 1
         /\ DOMAIN s = 1 .. Len(s) /\ DOMAIN t = 1 .. Len(s) + 1
         /\ \A i \in 1 .. Len(s) : t[i] = s[i]
         /\ t[Len(s) + 1] = m
  BY SMTT(40)

\* The places of a sequence without its head.
LEMMA TailIs ==
  ASSUME NEW S, NEW s \in Seq(S), s # <<>>
  PROVE  /\ Head(s) \in S /\ Tail(s) \in Seq(S) /\ Head(s) = s[1]
         /\ Len(s) \in Nat /\ Len(s) >= 1 /\ Len(Tail(s)) = Len(s) - 1
         /\ DOMAIN s = 1 .. Len(s) /\ DOMAIN Tail(s) = 1 .. Len(s) - 1
         /\ \A i \in 1 .. Len(s) - 1 : Tail(s)[i] = s[i + 1]
  BY SMTT(40)

\* The difference of a number and a smaller one.
LEMMA Difference ==
  ASSUME NEW x \in Nat, NEW y \in Nat, x <= y
  PROVE  y - x \in Nat /\ y - x <= y /\ y - x + x = y
  BY SMTT(40)

\* Both ways to move the border between two parts of a number.
LEMMA Shifted ==
  ASSUME NEW x \in Nat, NEW y \in Nat, NEW t \in Nat, t + x = y
  PROVE  t + (x + 1) = y + 1 /\ y - (x - 1) = t + 1
  BY SMTT(40)

\* How many messages of a forwarder are queued, taken and dealt with.
LEMMA Counts ==
  ASSUME NEW f \in Forwarder, ForwarderOK(f)
  PROVE  /\ Len(f.queue) \in Nat /\ Len(f.sent) \in Nat /\ Len(f.queue) <= Len(f.sent)
         /\ DOMAIN f.sent = 1 .. Len(f.sent)
         /\ Taken(f) \in Nat /\ Taken(f) <= Len(f.sent) /\ Taken(f) + Len(f.queue) = Len(f.sent)
         /\ f.hand = None => Handled(f) = Taken(f)
         /\ f.hand # None => Taken(f) >= 1 /\ Handled(f) = Taken(f) - 1
         /\ Handled(f) \in Nat /\ Handled(f) <= Len(f.sent)
  <1>1. f.queue \in Seq(Published) /\ f.sent \in Seq(Published)
    BY ForwarderFields, ZenonT(40)
  <1>2. Len(f.queue) \in Nat /\ Len(f.sent) \in Nat
    BY <1>1, SMTT(40)
  <1>a. DOMAIN f.sent = 1 .. Len(f.sent)
    BY <1>1, SMTT(40)
  <1>3. Len(f.queue) <= Len(f.sent) /\ (f.hand # None => Taken(f) >= 1)
    BY ZenonT(40) DEF ForwarderOK
  <1>4. /\ Taken(f) \in Nat /\ Taken(f) <= Len(f.sent)
        /\ Taken(f) + Len(f.queue) = Len(f.sent)
    BY <1>2, <1>3, Difference, ZenonT(40) DEF Taken
  <1>5. /\ f.hand = None => Handled(f) = Taken(f)
        /\ f.hand # None => Handled(f) = Taken(f) - 1
    BY ZenonT(40) DEF Handled
  <1>6. Handled(f) \in Nat /\ Handled(f) <= Len(f.sent)
    BY <1>2, <1>3, <1>4, <1>5, SMTT(40)
  <1>7. QED
    BY <1>2, <1>a, <1>3, <1>4, <1>5, <1>6, ZenonT(40)

\* Positions in the history of the queue stay as the history grows.
LEMMA HistoryGrows ==
  ASSUME NEW f \in Forwarder, NEW n \in Forwarder, ForwarderOK(f),
         n.posts = f.posts, n.hand = f.hand, n.tries = f.tries, Handled(n) = Handled(f),
         DOMAIN f.sent \subseteq DOMAIN n.sent,
         \A a \in DOMAIN f.sent : n.sent[a] = f.sent[a]
  PROVE  /\ \A i \in DOMAIN n.posts : Explained(n, i)
         /\ \A i, j \in DOMAIN n.posts : i < j => Ordered(n, i, j)
         /\ Tried(n)
  <1>1. DOMAIN f.sent = 1 .. Len(f.sent) /\ Len(f.sent) \in Nat
        /\ Handled(f) \in Nat /\ Handled(f) <= Len(f.sent)
    BY Counts, ZenonT(40)
  <1>2. \A a \in 1 .. Handled(f) : a \in DOMAIN f.sent
    BY <1>1, SMTT(40)
  <1>3. ASSUME NEW i \in DOMAIN n.posts PROVE Explained(n, i)
    <2>1. Explained(f, i)
      BY ZenonT(40) DEF ForwarderOK
    <2>2. QED
      BY <1>2, <2>1, ZenonT(40) DEF Explained
  <1>4. ASSUME NEW i \in DOMAIN n.posts, NEW j \in DOMAIN n.posts, i < j PROVE Ordered(n, i, j)
    <2>1. Ordered(f, i, j)
      BY <1>4, ZenonT(40) DEF ForwarderOK
    <2>2. CASE f.posts[i] = f.posts[j] /\ j = i + 1
      BY <2>2, ZenonT(40) DEF Ordered
    <2>3. ASSUME NEW a \in DOMAIN f.sent, NEW b \in DOMAIN f.sent,
                 a < b, f.sent[a] = f.posts[i], f.sent[b] = f.posts[j]
          PROVE  Ordered(n, i, j)
      <3>1. a \in DOMAIN n.sent /\ b \in DOMAIN n.sent
        BY ZenonT(40)
      <3>2. n.sent[a] = n.posts[i] /\ n.sent[b] = n.posts[j]
        BY <2>3, ZenonT(40)
      <3>3. QED
        BY <2>3, <3>1, <3>2, ZenonT(40) DEF Ordered
    <2>4. QED
      BY <2>1, <2>2, <2>3, ZenonT(40) DEF Ordered
  <1>6. Tried(n)
    <2>1. Tried(f)
      BY ZenonT(40) DEF ForwarderOK
    <2>2. QED
      BY <1>2, <2>1, ZenonT(40) DEF Tried
  <1>5. QED
    BY <1>3, <1>4, <1>6

\* try_forward appends to the queue, or leaves it alone and counts.
LEMMA OfferedContinues ==
  ASSUME NEW f \in Forwarder, ForwarderOK(f), NEW m \in Published, f.loop # "ended"
  PROVE  Continues(f, Offered(f, m)) /\ Offered(f, m).loop = f.loop
  <1>0. /\ f.on \in BOOLEAN /\ f.cap \in Nat /\ f.dropped \in Nat
        /\ f.queue \in Seq(Published) /\ f.sent \in Seq(Published)
        /\ f.hand \in Published \cup {None}
    BY ForwarderFields, ZenonT(40)
  <1>1. CASE ~f.on \/ m.topic \notin f.topics
    BY <1>1, ZenonT(40) DEF Offered, Continues
  <1>2. CASE ~(~f.on \/ m.topic \notin f.topics) /\ Len(f.queue) >= f.cap
    <2>1. Offered(f, m) = [f EXCEPT !.dropped = f.dropped + 1]
      BY <1>2, ZenonT(40) DEF Offered
    <2>2. PICK d \in Nat : d = f.dropped + 1
      BY <1>0, SMTT(40)
    <2>3. PICK n : n = Offered(f, m)
      BY ZenonT(40)
    <2>4. n = [f EXCEPT !.dropped = d]
      BY <2>1, <2>2, <2>3, ZenonT(40)
    <2>5. n \in Forwarder
      BY <2>4, ZenonT(40) DEF Forwarder
    <2>6. /\ n.on = f.on /\ n.topics = f.topics /\ n.cap = f.cap /\ n.loop = f.loop
          /\ n.queue = f.queue /\ n.sent = f.sent /\ n.posts = f.posts
          /\ n.hand = f.hand /\ n.tries = f.tries /\ n.lost = f.lost
      BY <2>4, ZenonT(40) DEF Forwarder
    <2>7. Taken(n) = Taken(f) /\ Handled(n) = Handled(f)
      BY <2>6, ZenonT(40) DEF Taken, Handled
    <2>a. /\ \A i \in DOMAIN n.posts : Explained(n, i)
          /\ \A i, j \in DOMAIN n.posts : i < j => Ordered(n, i, j)
          /\ Tried(n)
      BY <2>5, <2>6, <2>7, HistoryGrows, ZenonT(40)
    <2>8. ForwarderOK(n)
      BY <2>6, <2>7, <2>a, ZenonT(40) DEF ForwarderOK
    <2>9. QED
      BY <2>3, <2>5, <2>6, <2>8, ZenonT(40) DEF Continues
  <1>3. CASE ~(~f.on \/ m.topic \notin f.topics) /\ ~(Len(f.queue) >= f.cap)
    <2>1. Offered(f, m) = [f EXCEPT !.queue = Append(f.queue, m), !.sent = Append(f.sent, m)]
      BY <1>3, ZenonT(40) DEF Offered
    <2>d. Append(f.queue, m) \in Seq(Published) /\ Append(f.sent, m) \in Seq(Published)
      BY <1>0, SMTT(40)
    <2>2. PICK q \in Seq(Published) : q = Append(f.queue, m)
      BY <2>d, ZenonT(40)
    <2>3. PICK s \in Seq(Published) : s = Append(f.sent, m)
      BY <2>d, ZenonT(40)
    <2>4. PICK n : n = Offered(f, m)
      BY ZenonT(40)
    <2>5. n = [f EXCEPT !.queue = q, !.sent = s]
      BY <2>1, <2>2, <2>3, <2>4, ZenonT(40)
    <2>6. n \in Forwarder
      BY <2>5, ZenonT(40) DEF Forwarder
    <2>7. /\ n.on = f.on /\ n.topics = f.topics /\ n.cap = f.cap /\ n.loop = f.loop
          /\ n.queue = q /\ n.sent = s /\ n.posts = f.posts
          /\ n.hand = f.hand /\ n.tries = f.tries /\ n.lost = f.lost
      BY <2>5, ZenonT(40) DEF Forwarder
    <2>a. /\ Len(f.queue) \in Nat /\ Len(f.sent) \in Nat
          /\ Len(q) = Len(f.queue) + 1 /\ Len(s) = Len(f.sent) + 1
      <3>1. Len(f.queue) \in Nat /\ Len(q) = Len(f.queue) + 1
        BY <1>0, <2>2, AppendIs, SMTT(40)
      <3>2. Len(f.sent) \in Nat /\ Len(s) = Len(f.sent) + 1
        BY <1>0, <2>3, AppendIs, SMTT(40)
      <3>3. QED
        BY <3>1, <3>2
    <2>c. DOMAIN f.sent = 1 .. Len(f.sent) /\ DOMAIN s = 1 .. Len(f.sent) + 1
      BY <1>0, <2>3, AppendIs, SMTT(40)
    <2>8. /\ \A i \in 1 .. Len(f.queue) : q[i] = f.queue[i]
          /\ q[Len(f.queue) + 1] = m
          /\ \A i \in 1 .. Len(f.sent) : s[i] = f.sent[i]
          /\ s[Len(f.sent) + 1] = m
      <3>1. (\A i \in 1 .. Len(f.queue) : q[i] = f.queue[i]) /\ q[Len(f.queue) + 1] = m
        BY <1>0, <2>2, AppendIs, SMTT(40)
      <3>2. (\A i \in 1 .. Len(f.sent) : s[i] = f.sent[i]) /\ s[Len(f.sent) + 1] = m
        BY <1>0, <2>3, AppendIs, SMTT(40)
      <3>3. QED
        BY <3>1, <3>2
    <2>b. /\ Taken(f) \in Nat /\ Taken(f) <= Len(f.sent)
          /\ Taken(f) + Len(f.queue) = Len(f.sent)
      BY Counts, ZenonT(40)
    <2>9. Taken(n) = Taken(f)
      <3>1. Taken(n) = Len(s) - Len(q) /\ Taken(f) = Len(f.sent) - Len(f.queue)
        BY <2>7, ZenonT(40) DEF Taken
      <3>2. QED
        BY <2>a, <3>1, SMTT(40)
    <2>10. Handled(n) = Handled(f)
      BY <2>7, <2>9, ZenonT(40) DEF Handled
    <2>11. DOMAIN f.sent \subseteq DOMAIN n.sent
      <3>1. 1 .. Len(f.sent) \subseteq 1 .. Len(f.sent) + 1
        BY <2>a, SMTT(40)
      <3>2. QED
        BY <2>7, <2>c, <3>1, ZenonT(40)
    <2>12. /\ \A i \in DOMAIN n.posts : Explained(n, i)
           /\ \A i, j \in DOMAIN n.posts : i < j => Ordered(n, i, j)
           /\ Tried(n)
      BY <2>6, <2>7, <2>8, <2>c, <2>10, <2>11, HistoryGrows, ZenonT(40)
    <2>13. Len(n.queue) <= n.cap /\ Len(n.queue) <= Len(n.sent)
      <3>1. Len(f.queue) <= Len(f.sent)
        BY ZenonT(40) DEF ForwarderOK
      <3>2. QED
        BY <1>0, <1>3, <2>7, <2>a, <3>1, SMTT(40)
    <2>14. ASSUME NEW i \in 1 .. Len(n.queue) PROVE n.queue[i] = n.sent[Taken(n) + i]
      <3>1. /\ Len(f.queue) <= Len(f.sent)
            /\ \A j \in 1 .. Len(f.queue) : f.queue[j] = f.sent[Taken(f) + j]
        BY ZenonT(40) DEF ForwarderOK
      <3>2. CASE i = Len(f.queue) + 1
        <4>1. Taken(n) + i = Len(f.sent) + 1
          <5>1. Taken(f) + (Len(f.queue) + 1) = Len(f.sent) + 1
            BY <2>a, <2>b, Shifted, ZenonT(40)
          <5>2. QED
            BY <2>9, <3>2, <5>1, ZenonT(40)
        <4>2. QED
          BY <2>7, <2>8, <3>2, <4>1, ZenonT(40)
      <3>3. CASE i # Len(f.queue) + 1
        <4>1. i \in 1 .. Len(q)
          BY <2>7, ZenonT(40)
        <4>2. i \in 1 .. Len(f.queue) /\ Taken(f) + i \in 1 .. Len(f.sent)
          BY <2>a, <2>b, <3>3, <4>1, SMTT(40)
        <4>3. QED
          BY <2>7, <2>8, <2>9, <3>1, <4>2, ZenonT(40)
      <3>4. QED
        BY <3>2, <3>3
    <2>15. n.hand # None => Taken(n) >= 1 /\ n.hand = n.sent[Taken(n)]
      <3>1. f.hand # None => Taken(f) >= 1 /\ f.hand = f.sent[Taken(f)]
        BY ZenonT(40) DEF ForwarderOK
      <3>2. Taken(f) >= 1 => Taken(f) \in 1 .. Len(f.sent)
        BY <2>a, <2>b, SMTT(40)
      <3>3. QED
        BY <2>7, <2>8, <2>9, <3>1, <3>2, ZenonT(40)
    <2>16. /\ n.lost = {} /\ (n.on => n.loop # "none") /\ n.loop # "ended"
           /\ (n.tries = 1 => n.hand # None)
      BY <2>7, ZenonT(40) DEF ForwarderOK
    <2>17. ForwarderOK(n)
      BY <2>12, <2>13, <2>14, <2>15, <2>16, ZenonT(40) DEF ForwarderOK
    <2>18. QED
      BY <2>4, <2>6, <2>7, <2>17, ZenonT(40) DEF Continues
  <1>4. QED
    BY <1>1, <1>2, <1>3

\* The loop takes the next message into its hand, in order.
LEMMA ReceivedContinues ==
  ASSUME NEW f \in Forwarder, ForwarderOK(f), f.loop = "run", f.hand = None, f.queue # <<>>,
         NEW n, n = [f EXCEPT !.hand = Head(f.queue), !.queue = Tail(f.queue)]
  PROVE  Continues(f, n) /\ n.loop = f.loop
  <1>0. /\ f.queue \in Seq(Published) /\ f.sent \in Seq(Published)
        /\ f.tries \in {0, 1} /\ f.cap \in Nat
    BY ForwarderFields, ZenonT(40)
  <1>1. PICK h \in Published, q \in Seq(Published) : h = Head(f.queue) /\ q = Tail(f.queue)
    BY <1>0, TailIs, ZenonT(40)
  <1>2. n = [f EXCEPT !.hand = h, !.queue = q]
    BY <1>1, ZenonT(40)
  <1>3. n \in Forwarder
    BY <1>2, ZenonT(40) DEF Forwarder
  <1>4. /\ n.on = f.on /\ n.topics = f.topics /\ n.cap = f.cap /\ n.loop = f.loop
        /\ n.queue = q /\ n.sent = f.sent /\ n.posts = f.posts
        /\ n.hand = h /\ n.tries = f.tries /\ n.lost = f.lost
    BY <1>2, ZenonT(40) DEF Forwarder
  <1>5. h # None
    BY ScenariosTyped, ZenonT(40)
  <1>6. /\ Len(f.queue) \in Nat /\ Len(f.queue) >= 1
        /\ Len(q) = Len(f.queue) - 1
    BY <1>0, <1>1, TailIs, ZenonT(40)
  <1>c. h = f.queue[1]
    BY <1>0, <1>1, TailIs, ZenonT(40)
  <1>a. \A i \in 1 .. Len(q) : q[i] = f.queue[i + 1]
    BY <1>0, <1>1, TailIs, ZenonT(40)
  <1>b. /\ Len(f.sent) \in Nat /\ Taken(f) \in Nat /\ Handled(f) = Taken(f)
        /\ Taken(f) + Len(f.queue) = Len(f.sent)
    BY Counts, ZenonT(40)
  <1>7. /\ Len(f.queue) <= f.cap /\ Len(f.queue) <= Len(f.sent)
        /\ \A j \in 1 .. Len(f.queue) : f.queue[j] = f.sent[Taken(f) + j]
        /\ f.tries = 0
    BY <1>0, ZenonT(40) DEF ForwarderOK
  <1>8. Taken(n) = Taken(f) + 1
    <2>1. Taken(n) = Len(f.sent) - Len(q)
      BY <1>4, ZenonT(40) DEF Taken
    <2>2. QED
      <3>1. Len(f.sent) - (Len(f.queue) - 1) = Taken(f) + 1
        <4>1. PICK x \in Nat, y \in Nat, t \in Nat :
                x = Len(f.queue) /\ y = Len(f.sent) /\ t = Taken(f)
          BY <1>6, <1>b, ZenonT(40)
        <4>2. t + x = y
          BY <1>b, <4>1, ZenonT(40)
        <4>3. y - (x - 1) = t + 1
          BY <4>2, SMTT(40)
        <4>4. QED
          BY <4>1, <4>3, ZenonT(40)
      <3>2. QED
        BY <1>6, <2>1, <3>1, ZenonT(40)
  <1>9. Handled(n) = Handled(f)
    <2>1. Handled(n) = Taken(n) - 1
      BY <1>4, <1>5, ZenonT(40) DEF Handled
    <2>2. QED
      BY <1>8, <1>b, <2>1, SMTT(40)
  <1>10. \A i \in DOMAIN n.posts : Explained(n, i)
    <2>1. f.tries # 1
      BY <1>7, SMTT(40)
    <2>3. \A i : Explained(f, i) => Explained(n, i)
      BY <1>4, <1>9, <2>1, ZenonT(40) DEF Explained
    <2>2. QED
      BY <1>4, <2>3, ZenonT(40) DEF ForwarderOK
  <1>11. \A i, j \in DOMAIN n.posts : i < j => Ordered(n, i, j)
    <2>1. \A i, j : Ordered(f, i, j) => Ordered(n, i, j)
      BY <1>4, ZenonT(40) DEF Ordered
    <2>2. QED
      BY <1>4, <2>1, ZenonT(40) DEF ForwarderOK
  <1>12. Len(n.queue) <= n.cap /\ Len(n.queue) <= Len(n.sent)
    <2>1. Len(f.queue) <= f.cap
      BY <1>7
    <2>2. QED
      BY <1>0, <1>4, <1>6, <1>b, <2>1, SMTT(40)
  <1>13. ASSUME NEW i \in 1 .. Len(n.queue) PROVE n.queue[i] = n.sent[Taken(n) + i]
    <2>1. i \in 1 .. Len(q)
      BY <1>4, ZenonT(40)
    <2>2. i + 1 \in 1 .. Len(f.queue) /\ Taken(n) + i = Taken(f) + (i + 1)
      BY <1>6, <1>b, <1>8, <2>1, SMTT(40)
    <2>3. QED
      BY <1>4, <1>a, <1>7, <2>1, <2>2, ZenonT(40)
  <1>14. Taken(n) >= 1 /\ n.hand = n.sent[Taken(n)]
    <2>1. 1 \in 1 .. Len(f.queue)
      BY <1>6, SMTT(40)
    <2>2. f.queue[1] = f.sent[Taken(f) + 1]
      BY <1>7, <2>1, ZenonT(40)
    <2>3. Taken(n) >= 1
      BY <1>8, <1>b, SMTT(40)
    <2>4. QED
      BY <1>4, <1>c, <1>8, <2>2, <2>3, ZenonT(40)
  <1>15. n.loop # "ended" /\ n.loop # "none"
    BY <1>4, SMTT(40)
  <1>18. Tried(n)
    <2>1. Tried(f)
      BY ZenonT(40) DEF ForwarderOK
    <2>2. QED
      BY <1>4, <1>9, <2>1, ZenonT(40) DEF Tried
  <1>16. ForwarderOK(n)
    BY <1>4, <1>5, <1>10, <1>11, <1>12, <1>13, <1>14, <1>15, <1>18, ZenonT(40) DEF ForwarderOK
  <1>17. QED
    BY <1>3, <1>4, <1>16, ZenonT(40) DEF Continues

\* A request to the endpoint appends the message in hand to what was posted and
\* lets go of the message unless it is to be retried.
LEMMA PostedContinues ==
  ASSUME NEW f \in Forwarder, ForwarderOK(f), f.loop = "run", f.hand # None,
         NEW answered \in BOOLEAN
  PROVE  Continues(f, Posted(f, answered)) /\ Posted(f, answered).loop = f.loop
  <1> DEFINE done == answered \/ f.tries = 1
  <1>0. /\ f.posts \in Seq(Published) /\ f.hand \in Published /\ f.tries \in {0, 1}
        /\ f.sent \in Seq(Published)
    BY ForwarderFields, ZenonT(40)
  <1>1. Append(f.posts, f.hand) \in Seq(Published)
    BY <1>0, SMTT(40)
  <1>2. PICK s \in Seq(Published) : s = Append(f.posts, f.hand)
    BY <1>1, ZenonT(40)
  <1>3. PICK h \in Published \cup {None} : h = IF done THEN None ELSE f.hand
    BY <1>0, ZenonT(40)
  <1>4. PICK t \in {0, 1} : t = IF done THEN 0 ELSE 1
    BY ZenonT(40)
  <1>5. PICK n : n = Posted(f, answered)
    BY ZenonT(40)
  <1>6. n = [f EXCEPT !.posts = s, !.hand = h, !.tries = t]
    BY <1>2, <1>3, <1>4, <1>5, ZenonT(40) DEF Posted
  <1>7. n \in Forwarder
    BY <1>6, ZenonT(40) DEF Forwarder
  <1>8. /\ n.on = f.on /\ n.topics = f.topics /\ n.cap = f.cap /\ n.loop = f.loop
        /\ n.queue = f.queue /\ n.sent = f.sent /\ n.posts = s
        /\ n.hand = h /\ n.tries = t /\ n.lost = f.lost
    BY <1>6, ZenonT(40) DEF Forwarder
  <1>9. Taken(n) = Taken(f)
    BY <1>8, ZenonT(40) DEF Taken
  <1>10. /\ Len(f.sent) \in Nat /\ Taken(f) \in Nat /\ Taken(f) <= Len(f.sent)
         /\ Taken(f) >= 1 /\ Handled(f) = Taken(f) - 1
    BY Counts, ZenonT(40)
  <1>11. DOMAIN f.sent = 1 .. Len(f.sent)
    BY Counts, ZenonT(40)
  <1>12. f.hand = f.sent[Taken(f)]
    BY ZenonT(40) DEF ForwarderOK
  <1>13. Taken(f) \in 1 .. Taken(f) /\ Taken(f) \in 1 .. Len(f.sent)
    BY <1>10, SMTT(40)
  <1>14. \A a \in 1 .. Taken(f) - 1 :
            a \in 1 .. Taken(f) /\ a \in 1 .. Len(f.sent) /\ a < Taken(f)
    BY <1>10, SMTT(40)
  <1>15. \A i \in DOMAIN s : \/ i \in DOMAIN f.posts /\ s[i] = f.posts[i]
                             \/ i = Len(f.posts) + 1 /\ i = Len(s) /\ s[i] = f.hand
    BY <1>0, <1>2, SMTT(40)
  <1>16. ASSUME NEW i \in DOMAIN f.posts
         PROVE  \/ \E a \in 1 .. Taken(f) - 1 : f.sent[a] = f.posts[i]
                \/ f.tries = 1 /\ i = Len(f.posts) /\ f.posts[i] = f.hand
    <2>1. Explained(f, i)
      BY ZenonT(40) DEF ForwarderOK
    <2>2. QED
      BY <1>10, <2>1, ZenonT(40) DEF Explained
  <1>17. ASSUME NEW i \in DOMAIN n.posts PROVE Explained(n, i)
    <2>1. CASE done
      <3>1. n.hand = None
        BY <1>3, <1>8, <2>1, ZenonT(40)
      <3>2. Handled(n) = Taken(f)
        BY <1>9, <3>1, ZenonT(40) DEF Handled
      <3>3. \E a \in 1 .. Taken(f) : f.sent[a] = s[i]
        BY <1>8, <1>12, <1>13, <1>14, <1>15, <1>16, ZenonT(40)
      <3>4. QED
        BY <1>8, <3>2, <3>3, ZenonT(40) DEF Explained
    <2>2. CASE ~done
      <3>1. n.hand = f.hand /\ n.tries = 1 /\ f.tries # 1
        BY <1>3, <1>4, <1>8, <2>2, ZenonT(40)
      <3>2. Handled(n) = Taken(f) - 1
        BY <1>9, <3>1, ZenonT(40) DEF Handled
      <3>3. CASE i \in DOMAIN f.posts /\ s[i] = f.posts[i]
        BY <1>8, <1>16, <3>1, <3>2, <3>3, ZenonT(40) DEF Explained
      <3>4. CASE i = Len(s) /\ s[i] = f.hand
        BY <1>8, <3>1, <3>4, ZenonT(40) DEF Explained
      <3>5. QED
        BY <1>8, <1>15, <3>3, <3>4, ZenonT(40)
    <2>3. QED
      BY <2>1, <2>2, ZenonT(40)
  <1>18. ASSUME NEW i \in DOMAIN n.posts, NEW j \in DOMAIN n.posts, i < j PROVE Ordered(n, i, j)
    <2>0. i \in DOMAIN s /\ j \in DOMAIN s
      BY <1>8, ZenonT(40)
    <2>1. CASE i \in DOMAIN f.posts /\ s[i] = f.posts[i] /\ j \in DOMAIN f.posts /\ s[j] = f.posts[j]
      <3>1. Ordered(f, i, j)
        BY <1>18, <2>1, ZenonT(40) DEF ForwarderOK
      <3>2. QED
        BY <1>8, <2>1, <3>1, ZenonT(40) DEF Ordered
    <2>2. CASE i \in DOMAIN f.posts /\ s[i] = f.posts[i] /\ j = Len(f.posts) + 1 /\ s[j] = f.hand
      <3>1. CASE i = Len(f.posts) /\ f.posts[i] = f.hand
        BY <1>8, <2>2, <3>1, ZenonT(40) DEF Ordered
      <3>2. CASE \E a \in 1 .. Taken(f) - 1 : f.sent[a] = f.posts[i]
        <4>1. PICK a \in 1 .. Taken(f) - 1 : f.sent[a] = f.posts[i]
          BY <3>2
        <4>2. a \in DOMAIN n.sent /\ Taken(f) \in DOMAIN n.sent /\ a < Taken(f)
          BY <1>8, <1>11, <1>13, <1>14, ZenonT(40)
        <4>3. n.sent[a] = n.posts[i] /\ n.sent[Taken(f)] = n.posts[j]
          BY <1>8, <1>12, <2>2, <4>1, ZenonT(40)
        <4>4. QED
          BY <4>2, <4>3, ZenonT(40) DEF Ordered
      <3>3. QED
        BY <1>16, <2>2, <3>1, <3>2, ZenonT(40)
    <2>3. i # Len(s) \/ j \notin DOMAIN s
      <3>1. Len(s) \in Nat /\ DOMAIN s = 1 .. Len(s)
        BY SMTT(40)
      <3>2. QED
        BY <1>18, <2>0, <3>1, SMTT(40)
    <2>4. QED
      BY <1>15, <2>0, <2>1, <2>2, <2>3, ZenonT(40)
  <1>19. n.hand # None => Taken(n) >= 1 /\ n.hand = n.sent[Taken(n)]
    BY <1>3, <1>8, <1>9, <1>10, <1>12, ZenonT(40)
  <1>20. n.loop # "ended" /\ n.loop # "none"
    BY <1>8, SMTT(40)
  <1>21. n.tries = 1 => n.hand # None
    <2>1. 0 # 1
      BY SMTT(40)
    <2>2. QED
      BY <1>3, <1>4, <1>8, <2>1, ZenonT(40)
  <1>22. /\ n.lost = {} /\ Len(n.queue) <= n.cap /\ Len(n.queue) <= Len(n.sent)
         /\ \A i \in 1 .. Len(n.queue) : n.queue[i] = n.sent[Taken(n) + i]
    BY <1>8, <1>9, ZenonT(40) DEF ForwarderOK
  <1>25. Tried(n)
    <2>1. /\ \A i \in DOMAIN f.posts : i \in DOMAIN s /\ s[i] = f.posts[i]
          /\ Len(s) \in DOMAIN s /\ s[Len(s)] = f.hand
      BY <1>0, <1>2, SMTT(40)
    <2>2. \A d \in 1 .. Taken(f) - 1 : \E i \in DOMAIN s : s[i] = f.sent[d]
      <3>1. Tried(f)
        BY ZenonT(40) DEF ForwarderOK
      <3>2. QED
        BY <1>10, <2>1, <3>1, ZenonT(40) DEF Tried
    <2>3. Handled(n) = Taken(f) \/ Handled(n) = Taken(f) - 1
      BY <1>9, ZenonT(40) DEF Handled
    <2>4. \A d \in 1 .. Taken(f) : d \in 1 .. Taken(f) - 1 \/ d = Taken(f)
      BY <1>10, SMTT(40)
    <2>5. \A d \in 1 .. Taken(f) : \E i \in DOMAIN s : s[i] = f.sent[d]
      BY <1>12, <2>1, <2>2, <2>4, ZenonT(40)
    <2>6. QED
      BY <1>8, <2>2, <2>3, <2>5, ZenonT(40) DEF Tried
  <1>23. ForwarderOK(n)
    BY <1>17, <1>18, <1>19, <1>20, <1>21, <1>22, <1>25, ZenonT(40) DEF ForwarderOK
  <1>24. QED
    BY <1>5, <1>7, <1>8, <1>23, ZenonT(40) DEF Continues

\* The loop ends with nothing in its hand or queue.
LEMMA EndedContinues ==
  ASSUME NEW f \in Forwarder, ForwarderOK(f), f.hand = None, f.queue = <<>>,
         NEW n, n = [f EXCEPT !.loop = "ended"]
  PROVE  Continues(f, n)
  <1>1. n \in Forwarder
    BY ZenonT(40) DEF Forwarder
  <1>2. /\ n.on = f.on /\ n.topics = f.topics /\ n.cap = f.cap /\ n.loop = "ended"
        /\ n.queue = f.queue /\ n.sent = f.sent /\ n.posts = f.posts
        /\ n.hand = f.hand /\ n.tries = f.tries /\ n.lost = f.lost
    BY ZenonT(40) DEF Forwarder
  <1>3. Taken(n) = Taken(f) /\ Handled(n) = Handled(f)
    <2>1. n.queue = f.queue /\ n.sent = f.sent
      BY <1>2, ZenonT(40)
    <2>2. Len(n.queue) = Len(f.queue) /\ Len(n.sent) = Len(f.sent)
      BY <2>1, SMTT(40)
    <2>3. Taken(n) = Taken(f)
      <3>1. Taken(n) = Len(n.sent) - Len(n.queue) /\ Taken(f) = Len(f.sent) - Len(f.queue)
        BY SMTT(40) DEF Taken
      <3>2. QED
        BY <2>2, <3>1, ZenonT(40)
    <2>4. QED
      BY <1>2, <2>3, ZenonT(40) DEF Handled
  <1>4. /\ \A i \in DOMAIN n.posts : Explained(n, i)
        /\ \A i, j \in DOMAIN n.posts : i < j => Ordered(n, i, j)
        /\ Tried(n)
    BY <1>1, <1>2, <1>3, HistoryGrows, ZenonT(40)
  <1>5. "ended" # "none"
    BY SMTT(40)
  <1>6. ForwarderOK(n)
    BY <1>2, <1>3, <1>4, <1>5, ZenonT(40) DEF ForwarderOK
  <1>7. QED
    BY <1>1, <1>2, <1>6, ZenonT(40) DEF Continues

-----------------------------------------------------------------------------
(***************************************************************************)
(* The token buckets keep their rate.                                      *)
(***************************************************************************)

\* A lazy refill from l to n covers what it adds.
LEMMA CoverGrows ==
  ASSUME NEW c \in Nat, NEW k \in Nat, NEW new \in Nat, NEW cap \in Nat, NEW r \in Nat,
         NEW t \in Nat, NEW l \in Nat, NEW n \in Nat, t <= l, l <= n,
         c + k <= cap + r * (l - t), new <= k + r * (n - l)
  PROVE  c + new <= cap + r * (n - t)
  <1>1. l - t \in Nat /\ n - l \in Nat /\ (l - t) + (n - l) = n - t
    BY SMTT(40)
  <1>2. PICK x \in Nat, y \in Nat : x = l - t /\ y = n - l
    BY <1>1, ZenonT(40)
  <1>3. r * x \in Nat /\ r * y \in Nat /\ r * (x + y) = r * x + r * y
    BY Times, ZenonT(40)
  <1>4. PICK u \in Nat, v \in Nat : u = r * x /\ v = r * y
    BY <1>3, ZenonT(40)
  <1>5. r * (n - t) = u + v
    <2>1. x + y = n - t
      BY <1>1, <1>2, ZenonT(40)
    <2>2. QED
      BY <1>3, <1>4, <2>1, ZenonT(40)
  <1>6. c + k <= cap + u /\ new <= k + v
    BY <1>2, <1>4, ZenonT(40)
  <1>7. c + new <= cap + (u + v)
    BY <1>6, SMTT(40)
  <1>8. QED
    BY <1>5, <1>7, ZenonT(40)

\* The tokens taken since a time can be counted.
LEMMA UsedFinite ==
  ASSUME NEW b \in Bucket, NEW t \in Nat
  PROVE  /\ b.used \in Seq(Nat)
         /\ IsFiniteSet(UsedSince(b, t))
         /\ Cardinality(UsedSince(b, t)) \in Nat
  <1>1. b.used \in Seq(Nat)
    BY ZenonT(40) DEF Bucket
  <1>2. Len(b.used) \in Nat /\ DOMAIN b.used = 1 .. Len(b.used)
    BY <1>1, SMTT(40)
  <1>3. IsFiniteSet(1 .. Len(b.used))
    <2>1. 1 \in Int /\ Len(b.used) \in Int
      BY <1>2, SMTT(40)
    <2>2. QED
      BY <2>1, FS_Interval, ZenonT(40)
  <1>4. UsedSince(b, t) \subseteq 1 .. Len(b.used)
    BY <1>2, ZenonT(40) DEF UsedSince
  <1>5. IsFiniteSet(UsedSince(b, t))
    BY <1>3, <1>4, FS_Subset, ZenonT(40)
  <1>6. QED
    BY <1>1, <1>5, FS_CardinalityType, ZenonT(40)

\* Nothing was taken after the last refill.
LEMMA UnusedSince ==
  ASSUME NEW b \in Bucket, NEW t \in Nat, b.last < t,
         \A i \in DOMAIN b.used : b.used[i] <= b.last
  PROVE  Cardinality(UsedSince(b, t)) = 0
  <1>1. b.used \in Seq(Nat) /\ b.last \in Nat
    BY ZenonT(40) DEF Bucket
  <1>2. ASSUME NEW i \in DOMAIN b.used PROVE ~(b.used[i] >= t)
    <2>1. b.used[i] \in Nat
      BY <1>1, SMTT(40)
    <2>2. b.used[i] <= b.last
      BY ZenonT(40)
    <2>3. QED
      BY <1>1, <2>1, <2>2, SMTT(40)
  <1>3. UsedSince(b, t) = {}
    BY <1>2, ZenonT(40) DEF UsedSince
  <1>4. QED
    BY <1>3, FS_EmptySet, ZenonT(40)

\* A refill adds no more than the time since the last one allows.
LEMMA RefilledOK ==
  ASSUME now \in Nat, NEW b \in Bucket, BucketOK(b, now)
  PROVE  BucketOK(Refilled(b), now)
  <1>1. /\ b.refill \in Nat /\ b.cap \in Nat /\ b.tokens \in Nat /\ b.last \in Nat
        /\ b.used \in Seq(Nat)
    BY ZenonT(40) DEF Bucket
  <1>2. /\ b.last <= now /\ b.tokens <= b.cap
        /\ \A i \in DOMAIN b.used : b.used[i] <= b.last
        /\ \A t \in 0 .. b.last : Covered(b, t)
    BY ZenonT(40) DEF BucketOK
  <1>3. PICK f \in Bucket : f = Refilled(b)
    BY <1>2, RefilledIs, ZenonT(40)
  <1>4. /\ f.cap = b.cap /\ f.refill = b.refill /\ f.used = b.used /\ f.last = now
        /\ f.tokens = Smaller(b.cap, b.tokens + b.refill * (now - b.last))
    BY <1>2, <1>3, RefilledIs, ZenonT(40)
  <1>5. f.tokens \in Nat
    BY ZenonT(40) DEF Bucket
  <1>6. PICK v \in Nat : v = b.refill * (now - b.last)
    <2>1. now - b.last \in Nat
      BY <1>1, <1>2, SMTT(40)
    <2>2. QED
      BY <1>1, <2>1, Times, ZenonT(40)
  <1>7. f.tokens <= b.cap /\ f.tokens <= b.tokens + v
    <2>1. f.tokens = Smaller(b.cap, b.tokens + v)
      BY <1>4, <1>6, ZenonT(40)
    <2>2. QED
      BY <1>1, <2>1, SMTT(40) DEF Smaller
  <1>8. ASSUME NEW i \in DOMAIN f.used PROVE f.used[i] <= f.last
    <2>1. i \in DOMAIN b.used
      BY <1>4, ZenonT(40)
    <2>2. b.used[i] \in Nat /\ b.used[i] <= b.last
      <3>1. b.used[i] \in Nat
        BY <1>1, <2>1, SMTT(40)
      <3>2. QED
        BY <1>2, <2>1, <3>1, ZenonT(40)
    <2>3. b.used[i] <= now
      <3>1. b.last <= now
        BY <1>2
      <3>2. QED
        BY <1>1, <2>2, <3>1, SMTT(40)
    <2>4. QED
      BY <1>4, <2>3, ZenonT(40)
  <1>9. ASSUME NEW t \in 0 .. f.last PROVE Covered(f, t)
    <2>1. t \in Nat /\ t <= now
      <3>1. t \in 0 .. now
        BY <1>4, ZenonT(40)
      <3>2. QED
        BY <3>1, SMTT(40)
    <2>2. UsedSince(f, t) = UsedSince(b, t)
      BY <1>4, ZenonT(40) DEF UsedSince
    <2>3. PICK c \in Nat : c = Cardinality(UsedSince(b, t))
      BY <2>1, UsedFinite, ZenonT(40)
    <2>4. SUFFICES c + f.tokens <= b.cap + b.refill * (now - t)
      BY <1>4, <2>2, <2>3, ZenonT(40) DEF Covered
    <2>5. CASE t <= b.last
      <3>1. t \in 0 .. b.last
        BY <1>1, <2>1, <2>5, SMTT(40)
      <3>2. c + b.tokens <= b.cap + b.refill * (b.last - t)
        BY <1>2, <2>3, <3>1, ZenonT(40) DEF Covered
      <3>3. f.tokens <= b.tokens + b.refill * (now - b.last)
        BY <1>6, <1>7, ZenonT(40)
      <3>4. QED
        BY <1>1, <1>2, <1>5, <2>1, <2>5, <3>2, <3>3, CoverGrows, ZenonT(40)
    <2>6. CASE ~(t <= b.last)
      <3>1. b.last < t
        BY <1>1, <2>1, <2>6, SMTT(40)
      <3>2. c = 0
        BY <1>2, <2>1, <2>3, <3>1, UnusedSince, ZenonT(40)
      <3>3. now - t \in Nat
        BY <2>1, SMTT(40)
      <3>4. PICK w \in Nat : w = b.refill * (now - t)
        BY <1>1, <3>3, Times, ZenonT(40)
      <3>5. c + f.tokens <= b.cap + w
        <4>1. f.tokens <= b.cap
          BY <1>7
        <4>2. QED
          BY <1>1, <1>5, <3>2, <4>1, SMTT(40)
      <3>6. QED
        BY <3>4, <3>5, ZenonT(40)
    <2>7. QED
      BY <2>5, <2>6
  <1>10. f.last <= now /\ f.tokens <= f.cap
    <2>1. now <= now
      BY SMTT(40)
    <2>2. QED
      BY <1>4, <1>7, <2>1, ZenonT(40)
  <1>11. QED
    BY <1>3, <1>8, <1>9, <1>10, ZenonT(40) DEF BucketOK

\* A token that is taken was there.
LEMMA ConsumedOK ==
  ASSUME now \in Nat, NEW b \in Bucket, BucketOK(b, now)
  PROVE  BucketOK(Consumed(b), now)
  <1>1. b.last <= now
    BY ZenonT(40) DEF BucketOK
  <1>2. PICK f \in Bucket : f = Refilled(b)
    BY <1>1, RefilledIs, ZenonT(40)
  <1>3. BucketOK(f, now) /\ f.last = now /\ f.cap = b.cap /\ f.refill = b.refill /\ f.used = b.used
    BY <1>1, <1>2, RefilledIs, RefilledOK, ZenonT(40)
  <1>4. CASE ~HasToken(b)
    BY <1>1, <1>2, <1>3, <1>4, ConsumedIs, ZenonT(40)
  <1>5. CASE HasToken(b)
    <2>1. PICK n \in Bucket : n = Consumed(b)
      BY <1>1, ConsumedIs, ZenonT(40)
    <2>2. /\ n.cap = f.cap /\ n.refill = f.refill /\ n.last = now
          /\ n.used = Append(f.used, now) /\ n.tokens = f.tokens - 1
      BY <1>1, <1>2, <1>3, <1>5, <2>1, ConsumedIs, ZenonT(40)
    <2>3. /\ f.tokens \in Nat /\ n.tokens \in Nat /\ f.cap \in Nat /\ f.used \in Seq(Nat)
          /\ n.used \in Seq(Nat) /\ f.refill \in Nat
      BY ZenonT(40) DEF Bucket
    <2>4. f.tokens <= f.cap /\ \A i \in DOMAIN f.used : f.used[i] <= now
      BY <1>3, ZenonT(40) DEF BucketOK
    <2>5. n.tokens <= n.cap
      <3>1. f.tokens <= f.cap
        BY <2>4
      <3>2. QED
        BY <2>2, <2>3, <3>1, SMTT(40)
    <2>6. /\ Len(f.used) + 1 \notin DOMAIN f.used
          /\ DOMAIN n.used = DOMAIN f.used \cup {Len(f.used) + 1}
          /\ \A i \in DOMAIN f.used : n.used[i] = f.used[i]
          /\ n.used[Len(f.used) + 1] = now
      BY <2>2, <2>3, SMTT(40)
    <2>7. now <= now
      BY SMTT(40)
    <2>8. \A i \in DOMAIN n.used : n.used[i] <= n.last
      BY <2>2, <2>4, <2>6, <2>7, ZenonT(40)
    <2>9. ASSUME NEW t \in 0 .. n.last PROVE Covered(n, t)
      <3>1. t \in Nat /\ t \in 0 .. f.last /\ now >= t
        <4>1. t \in 0 .. now
          BY <2>2, ZenonT(40)
        <4>2. t \in Nat /\ now >= t
          BY <4>1, SMTT(40)
        <4>3. QED
          BY <1>3, <4>1, <4>2, ZenonT(40)
      <3>2. UsedSince(n, t) = UsedSince(f, t) \cup {Len(f.used) + 1}
        BY <2>6, <3>1, ZenonT(40) DEF UsedSince
      <3>3. Len(f.used) + 1 \notin UsedSince(f, t)
        BY <2>6, ZenonT(40) DEF UsedSince
      <3>4. Cardinality(UsedSince(n, t)) = Cardinality(UsedSince(f, t)) + 1
        BY <3>1, <3>2, <3>3, UsedFinite, FS_AddElement, ZenonT(40)
      <3>5. PICK c \in Nat : c = Cardinality(UsedSince(f, t))
        BY <3>1, UsedFinite, ZenonT(40)
      <3>6. c + f.tokens <= f.cap + f.refill * (f.last - t)
        BY <1>3, <3>1, <3>5, ZenonT(40) DEF BucketOK, Covered
      <3>7. (c + 1) + n.tokens = c + f.tokens
        <4>1. n.tokens = f.tokens - 1
          BY <2>2
        <4>2. QED
          <5>1. PICK x \in Nat, y \in Nat : x = f.tokens /\ y = n.tokens
            BY <2>3, ZenonT(40)
          <5>2. y = x - 1
            BY <4>1, <5>1, ZenonT(40)
          <5>3. (c + 1) + y = c + x
            BY <5>2, SMTT(40)
          <5>4. QED
            BY <5>1, <5>3, ZenonT(40)
      <3>8. Cardinality(UsedSince(n, t)) + n.tokens = c + f.tokens
        BY <3>4, <3>5, <3>7, ZenonT(40)
      <3>9. n.cap + n.refill * (n.last - t) = f.cap + f.refill * (f.last - t)
        BY <1>3, <2>2, ZenonT(40)
      <3>10. QED
        BY <3>6, <3>8, <3>9, ZenonT(40) DEF Covered
    <2>10. QED
      BY <2>1, <2>2, <2>5, <2>7, <2>8, <2>9, ZenonT(40) DEF BucketOK
  <1>6. QED
    BY <1>4, <1>5

\* A new bucket is full and nothing was taken from it.
LEMMA NewBucketOK ==
  ASSUME now \in Nat, NEW cap \in Nat, NEW refill \in Nat
  PROVE  BucketOK(NewBucket(cap, refill), now)
  <1>1. PICK b \in Bucket : b = NewBucket(cap, refill)
    BY NewBucketTyped, ZenonT(40)
  <1>2. b.cap = cap /\ b.refill = refill /\ b.tokens = cap /\ b.last = now /\ b.used = <<>>
    BY <1>1, ZenonT(40) DEF NewBucket
  <1>3. DOMAIN b.used = {}
    BY <1>2, SMTT(40)
  <1>4. now <= now /\ cap <= cap
    BY SMTT(40)
  <1>5. ASSUME NEW t \in 0 .. b.last PROVE Covered(b, t)
    <2>1. t \in 0 .. now
      BY <1>2, ZenonT(40)
    <2>2. now - t \in Nat
      BY <2>1, SMTT(40)
    <2>3. UsedSince(b, t) = {}
      BY <1>3, ZenonT(40) DEF UsedSince
    <2>4. Cardinality(UsedSince(b, t)) = 0
      BY <2>3, FS_EmptySet, ZenonT(40)
    <2>5. PICK w \in Nat : w = refill * (now - t)
      BY <2>2, Times, ZenonT(40)
    <2>6. 0 + cap <= cap + w
      BY SMTT(40)
    <2>7. QED
      BY <1>2, <2>4, <2>5, <2>6, ZenonT(40) DEF Covered
  <1>6. QED
    BY <1>1, <1>2, <1>3, <1>4, <1>5, ZenonT(40) DEF BucketOK

\* The bucket try_consume works on.
LEMMA TakenBucket ==
  ASSUME TypeOK, RateInv, NEW k \in Conns, pub[k].pc = "bucket",
         NEW b, b = IF buckets[ClientOf[k]] # None THEN buckets[ClientOf[k]]
                    ELSE NewBucket(pub[k].cap, pub[k].refill)
  PROVE  b \in Bucket /\ BucketOK(b, now)
  <1>1. ClientOf[k] \in Clients /\ now \in Nat
    BY ZenonT(40) DEF Clients, TypeOK
  <1>2. CASE buckets[ClientOf[k]] # None
    <2>1. buckets[ClientOf[k]] \in Bucket
      BY <1>1, <1>2, ZenonT(40) DEF TypeOK
    <2>2. QED
      BY <1>1, <1>2, <2>1, ZenonT(40) DEF RateInv
  <1>3. CASE ~(buckets[ClientOf[k]] # None)
    <2>1. pub[k].pc \in Stages
      BY SMTT(40) DEF Stages
    <2>2. pub[k] \in Handling
      BY <2>1, StageHandling, ZenonT(40)
    <2>3. pub[k].cap \in Nat /\ pub[k].refill \in Nat
      BY <2>2, ZenonT(40) DEF Handling
    <2>4. QED
      BY <1>1, <1>3, <2>3, NewBucketTyped, NewBucketOK, ZenonT(40)
  <1>4. QED
    BY <1>2, <1>3

\* Every step keeps the buckets within their rate.
LEMMA RateStep ==
  ASSUME TypeOK, RateInv, [Next]_vars
  PROVE  RateInv'
  <1>0. now \in Nat /\ buckets \in [Clients -> Bucket \cup {None}]
    BY ZenonT(40) DEF TypeOK
  <1>1. CASE buckets' = buckets /\ now' = now
    BY <1>1, ZenonT(40) DEF RateInv
  <1>2. ASSUME NEW k \in Conns, TakeToken(k) PROVE RateInv'
    <2>1. PICK b : b = IF buckets[ClientOf[k]] # None THEN buckets[ClientOf[k]]
                       ELSE NewBucket(pub[k].cap, pub[k].refill)
      BY ZenonT(40)
    <2>2. /\ pub[k].pc = "bucket" /\ now' = now
          /\ buckets' = [buckets EXCEPT ![ClientOf[k]] = Consumed(b)]
      BY <1>2, <2>1, ZenonT(40) DEF TakeToken
    <2>3. b \in Bucket /\ BucketOK(b, now)
      BY <2>1, <2>2, TakenBucket, ZenonT(40)
    <2>4. BucketOK(Consumed(b), now)
      BY <1>0, <2>3, ConsumedOK, ZenonT(40)
    <2>5. ASSUME NEW c \in Clients, buckets'[c] # None PROVE BucketOK(buckets'[c], now')
      BY <1>0, <2>2, <2>4, <2>5, ZenonT(40) DEF RateInv
    <2>6. QED
      BY <2>5, ZenonT(40) DEF RateInv
  <1>3. ASSUME NEW k \in Conns, Disconnect(k) PROVE RateInv'
    <2>1. now' = now /\ buckets' = [buckets EXCEPT ![ClientOf[k]] = None]
      BY <1>3, ZenonT(40) DEF Disconnect
    <2>2. QED
      BY <1>0, <2>1, ZenonT(40) DEF RateInv
  <1>4. ASSUME NEW r \in Requests, Clear(r) PROVE RateInv'
    <2>1. now' = now /\ buckets' = [c \in Clients |-> None]
      BY <1>4, ZenonT(40) DEF Clear
    <2>2. QED
      BY <2>1, ZenonT(40) DEF RateInv
  <1>5. CASE Tick
    <2>1. now' = now + 1 /\ buckets' = buckets
      BY <1>5, ZenonT(40) DEF Tick
    <2>2. ASSUME NEW c \in Clients, buckets[c] # None PROVE BucketOK(buckets[c], now')
      <3>1. BucketOK(buckets[c], now) /\ buckets[c] \in Bucket
        BY <1>0, <2>2, ZenonT(40) DEF RateInv
      <3>2. buckets[c].last <= now /\ buckets[c].last \in Nat
        BY <3>1, ZenonT(40) DEF BucketOK, Bucket
      <3>3. buckets[c].last <= now'
        BY <1>0, <2>1, <3>2, SMTT(40)
      <3>4. QED
        BY <3>1, <3>3, ZenonT(40) DEF BucketOK
    <2>3. QED
      BY <2>1, <2>2, ZenonT(40) DEF RateInv
  <1>6. \/ buckets' = buckets /\ now' = now
        \/ \E k \in Conns : TakeToken(k) \/ Disconnect(k)
        \/ \E r \in Requests : Clear(r)
        \/ Tick
    BY ZenonT(40) DEF Next, vars, Handle, Reload, Loop, Submit, LoadRate, LoadCapacity, LoadRefill,
       Judge, ManualPublish, LoadForwarder, TrySend, ReloadSecurity, ResetCapacity, ResetRate,
       ReloadPlugin, ReplaceForwarder, Receive, Post, LoopEnds, others
  <1>7. QED
    BY <1>1, <1>2, <1>3, <1>4, <1>5, <1>6, ZenonT(40)

\* Buckets within their rate let no more through than RateBounded says.
LEMMA RateFollows ==
  ASSUME TypeOK, RateInv
  PROVE  RateBounded
  <1>1. SUFFICES ASSUME NEW c \in Clients, buckets[c] # None, NEW t \in 0 .. now
                 PROVE  Cardinality(UsedSince(buckets[c], t))
                          <= buckets[c].cap + buckets[c].refill * (now - t)
    BY ZenonT(40) DEF RateBounded, UsedSince
  <1>2. PICK b \in Bucket : b = buckets[c]
    BY <1>1, ZenonT(40) DEF TypeOK
  <1>3. BucketOK(b, now)
    BY <1>1, <1>2, ZenonT(40) DEF RateInv
  <1>4. now \in Nat
    BY ZenonT(40) DEF TypeOK
  <1>5. PICK f \in Bucket : f = Refilled(b)
    BY <1>3, <1>4, RefilledIs, ZenonT(40) DEF BucketOK
  <1>6. BucketOK(f, now) /\ f.last = now /\ f.cap = b.cap /\ f.refill = b.refill /\ f.used = b.used
    BY <1>3, <1>4, <1>5, RefilledIs, RefilledOK, ZenonT(40) DEF BucketOK
  <1>7. Cardinality(UsedSince(f, t)) + f.tokens <= f.cap + f.refill * (f.last - t)
    BY <1>6, ZenonT(40) DEF BucketOK, Covered
  <1>8. UsedSince(f, t) = UsedSince(b, t)
    BY <1>6, ZenonT(40) DEF UsedSince
  <1>9. t \in Nat /\ now - t \in Nat
    BY <1>4, SMTT(40)
  <1>10. PICK u \in Nat, k \in Nat, x \in Nat, w \in Nat :
            /\ u = Cardinality(UsedSince(b, t)) /\ k = f.tokens /\ x = b.cap
            /\ w = b.refill * (now - t)
    <2>1. f.tokens \in Nat /\ b.cap \in Nat /\ b.refill \in Nat
      BY ZenonT(40) DEF Bucket
    <2>2. b.refill * (now - t) \in Nat
      BY <1>9, <2>1, Times, ZenonT(40)
    <2>3. Cardinality(UsedSince(b, t)) \in Nat
      BY <1>9, UsedFinite, ZenonT(40)
    <2>4. QED
      BY <2>1, <2>2, <2>3, ZenonT(40)
  <1>11. u + k <= x + w
    BY <1>6, <1>7, <1>8, <1>10, ZenonT(40)
  <1>12. u <= x + w
    BY <1>11, SMTT(40)
  <1>13. QED
    BY <1>2, <1>10, <1>12, ZenonT(40)

-----------------------------------------------------------------------------
(***************************************************************************)
(* What the steps of a handler do to its record.                           *)
(***************************************************************************)

\* The handler of k goes on as p.
HandlerMoves(k, p) ==
    /\ p \in {Idle, Gone} \cup Handling
    /\ pub' = [pub EXCEPT ![k] = p]
    /\ p.pc = "send" => p.gen = current
    /\ p.pc = "refill" => p.cap = limiter.cap
    /\ p.pc = "bucket" => pub[k].pc = "refill" /\ p.cap = pub[k].cap /\ p.refill = limiter.refill
    /\ UNCHANGED <<security, limiter, plugin, current, built, req, now, raced, overlapped>>

\* An idle or closed connection is at none of the stages.
LEMMA NotHandling ==
  ASSUME NEW p \in {Idle, Gone}
  PROVE  p.pc \notin {"send", "refill", "bucket", "capacity"}
  BY SMTT(40) DEF Idle, Gone

\* A handler that ends leaves limits, plugins and reloads alone.
LEMMA EndMoves ==
  ASSUME TypeOK, NEW k \in Conns, NEW p \in {Idle, Gone}, pub' = [pub EXCEPT ![k] = p],
         UNCHANGED <<security, limiter, plugin, current, built, req, now, raced, overlapped>>
  PROVE  HandlerMoves(k, p)
  BY NotHandling, ZenonT(40) DEF HandlerMoves

\* So does one that goes on to its next check.
LEMMA GotoMoves ==
  ASSUME TypeOK, NEW k \in Conns, pub[k].pc \in Stages,
         NEW new \in {"plugin", "capacity", "forward"}, Goto(k, new),
         UNCHANGED <<security, limiter, plugin, current, built, req, now, raced, overlapped>>
  PROVE  \E p : HandlerMoves(k, p)
  <1>1. pub[k] \in Handling
    BY StageHandling, ZenonT(40)
  <1>2. new \in Stages /\ new \notin {"send", "refill", "bucket"}
    BY SMTT(40) DEF Stages
  <1>3. PICK p : p = [pub[k] EXCEPT !.pc = new]
    BY ZenonT(40)
  <1>4. p \in Handling /\ p.pc = new
    BY <1>1, <1>2, <1>3, ZenonT(40) DEF Handling
  <1>5. pub' = [pub EXCEPT ![k] = p]
    BY <1>3, ZenonT(40) DEF Goto, TypeOK
  <1>6. HandlerMoves(k, p)
    BY <1>2, <1>4, <1>5, ZenonT(40) DEF HandlerMoves
  <1>7. QED
    BY <1>6

\* A message that arrives starts its handler and changes nothing else.
LEMMA SubmitMoves ==
  ASSUME TypeOK, NEW k \in Conns, Submit(k)
  PROVE  (\E p : HandlerMoves(k, p)) /\ script' \in [Conns -> Seq(Published)]
  <1>1. script \in [Conns -> Seq(Published)] /\ script[k] # <<>>
    BY ZenonT(40) DEF TypeOK, Submit
  <1>2. Head(script[k]) \in Published /\ Tail(script[k]) \in Seq(Published)
    BY <1>1, TailIs, ZenonT(40)
  <1>3. script' = [script EXCEPT ![k] = Tail(script[k])]
    BY ZenonT(40) DEF Submit
  <1>4. script' \in [Conns -> Seq(Published)]
    BY <1>1, <1>2, <1>3, ZenonT(40)
  <1>5. UNCHANGED <<security, limiter, plugin, current, built, req, now, raced, overlapped>>
    BY ZenonT(40) DEF Submit
  <1>6. \/ pub' = [pub EXCEPT ![k] = Idle]
        \/ \E pc \in {"limit", "plugin"} :
             pub' = [pub EXCEPT ![k] = [pc |-> pc, msg |-> Head(script[k]), cap |-> 0,
                                        refill |-> 0, gen |-> 0]]
    BY ZenonT(40) DEF Submit
  <1>7. CASE pub' = [pub EXCEPT ![k] = Idle]
    BY <1>4, <1>5, <1>7, EndMoves, ZenonT(40)
  <1>8. ASSUME NEW pc \in {"limit", "plugin"},
               pub' = [pub EXCEPT ![k] = [pc |-> pc, msg |-> Head(script[k]), cap |-> 0,
                                          refill |-> 0, gen |-> 0]]
        PROVE  \E p : HandlerMoves(k, p)
    <2>1. pc \in Stages /\ pc \notin {"send", "refill", "bucket"}
      BY SMTT(40) DEF Stages
    <2>2. 0 \in Nat /\ 0 \in Gens
      <3>1. Cardinality(Requests) \in Nat
        BY LimitsNatural, FS_CardinalityType, ZenonT(40)
      <3>2. QED
        BY <3>1, SMTT(40) DEF Gens
    <2>3. PICK p : p = [pc |-> pc, msg |-> Head(script[k]), cap |-> 0, refill |-> 0, gen |-> 0]
      BY ZenonT(40)
    <2>4. p \in Handling /\ p.pc = pc
      BY <1>2, <2>1, <2>2, <2>3, ZenonT(40) DEF Handling
    <2>5. HandlerMoves(k, p)
      BY <1>5, <1>8, <2>1, <2>3, <2>4, ZenonT(40) DEF HandlerMoves
    <2>6. QED
      BY <2>5
  <1>9. QED
    BY <1>4, <1>6, <1>7, <1>8, ZenonT(40)

\* A handler that loads something changes only what it has loaded.
LEMMA LoadMoves ==
  ASSUME TypeOK, NEW k \in Conns, LoadCapacity(k) \/ LoadRefill(k) \/ LoadForwarder(k)
  PROVE  \E p : HandlerMoves(k, p)
  <1>0. limiter.cap \in Nat /\ limiter.refill \in Nat /\ current \in Gens
    BY ZenonT(40) DEF TypeOK
  <1>1. pub[k].pc \in Stages /\ {"refill", "bucket", "send"} \subseteq Stages
    BY SMTT(40) DEF Stages, LoadCapacity, LoadRefill, LoadForwarder
  <1>2. pub[k] \in Handling
    BY <1>1, StageHandling, ZenonT(40)
  <1>3. UNCHANGED <<security, limiter, plugin, current, built, req, now, raced, overlapped>>
    BY ZenonT(40) DEF LoadCapacity, LoadRefill, LoadForwarder
  <1>4. /\ "refill" # "send" /\ "refill" # "bucket" /\ "bucket" # "send"
        /\ "bucket" # "refill" /\ "send" # "refill" /\ "send" # "bucket"
    BY SMTT(40)
  <1>9. pub \in [Conns -> {Idle, Gone} \cup Handling]
    BY ZenonT(40) DEF TypeOK
  <1>5. CASE LoadCapacity(k)
    <2>1. PICK p : p = [pub[k] EXCEPT !.pc = "refill", !.cap = limiter.cap]
      BY ZenonT(40)
    <2>2. p \in Handling /\ p.pc = "refill" /\ p.cap = limiter.cap
      BY <1>0, <1>1, <1>2, <2>1, ZenonT(40) DEF Handling
    <2>3. pub' = [pub EXCEPT ![k].pc = "refill", ![k].cap = limiter.cap]
      BY <1>5, ZenonT(40) DEF LoadCapacity
    <2>4. pub' = [pub EXCEPT ![k] = p]
      BY <1>9, <2>1, <2>3, ZenonT(40)
    <2>5. HandlerMoves(k, p)
      BY <1>3, <1>4, <2>2, <2>4, ZenonT(40) DEF HandlerMoves
    <2>6. QED
      BY <2>5
  <1>6. CASE LoadRefill(k)
    <2>1. PICK p : p = [pub[k] EXCEPT !.pc = "bucket", !.refill = limiter.refill]
      BY ZenonT(40)
    <2>2. p \in Handling /\ p.pc = "bucket" /\ p.refill = limiter.refill /\ p.cap = pub[k].cap
      BY <1>0, <1>1, <1>2, <2>1, ZenonT(40) DEF Handling
    <2>3. pub' = [pub EXCEPT ![k].pc = "bucket", ![k].refill = limiter.refill]
      BY <1>6, ZenonT(40) DEF LoadRefill
    <2>4. pub' = [pub EXCEPT ![k] = p] /\ pub[k].pc = "refill"
      <3>1. pub' = [pub EXCEPT ![k] = p]
        BY <1>9, <2>1, <2>3, ZenonT(40)
      <3>2. QED
        BY <1>6, <3>1, ZenonT(40) DEF LoadRefill
    <2>5. HandlerMoves(k, p)
      BY <1>3, <1>4, <2>2, <2>4, ZenonT(40) DEF HandlerMoves
    <2>6. QED
      BY <2>5
  <1>7. CASE LoadForwarder(k)
    <2>1. PICK p : p = [pub[k] EXCEPT !.pc = "send", !.gen = current]
      BY ZenonT(40)
    <2>2. p \in Handling /\ p.pc = "send" /\ p.gen = current
      BY <1>0, <1>1, <1>2, <2>1, ZenonT(40) DEF Handling
    <2>3. pub' = [pub EXCEPT ![k].pc = "send", ![k].gen = current]
      BY <1>7, ZenonT(40) DEF LoadForwarder
    <2>4. pub' = [pub EXCEPT ![k] = p]
      BY <1>9, <2>1, <2>3, ZenonT(40)
    <2>5. HandlerMoves(k, p)
      BY <1>3, <1>4, <2>2, <2>4, ZenonT(40) DEF HandlerMoves
    <2>6. QED
      BY <2>5
  <1>8. QED
    BY <1>5, <1>6, <1>7

\* Taking a token changes the bucket and the handler only.
LEMMA TakeTokenMoves ==
  ASSUME TypeOK, NEW k \in Conns, TakeToken(k)
  PROVE  \E p : HandlerMoves(k, p)
  <1>1. UNCHANGED <<security, limiter, plugin, current, built, req, now, raced, overlapped>>
    BY ZenonT(40) DEF TakeToken
  <1>2. \/ pub' = [pub EXCEPT ![k] = [pub[k] EXCEPT !.pc = "plugin", !.cap = 0, !.refill = 0]]
        \/ pub' = [pub EXCEPT ![k] = Idle]
    <2>1. PICK b : pub' = [pub EXCEPT ![k] =
                     IF HasToken(b) THEN [pub[k] EXCEPT !.pc = "plugin", !.cap = 0, !.refill = 0]
                     ELSE Idle]
      BY ZenonT(40) DEF TakeToken
    <2>2. QED
      BY <2>1, ZenonT(40)
  <1>3. CASE pub' = [pub EXCEPT ![k] = Idle]
    BY <1>1, <1>3, EndMoves, ZenonT(40)
  <1>4. CASE pub' = [pub EXCEPT ![k] = [pub[k] EXCEPT !.pc = "plugin", !.cap = 0, !.refill = 0]]
    <2>1. pub[k].pc \in Stages /\ "plugin" \in Stages /\ "plugin" \notin {"send", "refill", "bucket"}
      BY SMTT(40) DEF Stages, TakeToken
    <2>2. pub[k] \in Handling
      BY <2>1, StageHandling, ZenonT(40)
    <2>3. PICK p : p = [pub[k] EXCEPT !.pc = "plugin", !.cap = 0, !.refill = 0]
      BY ZenonT(40)
    <2>4. 0 \in Nat
      BY SMTT(40)
    <2>5. p \in Handling /\ p.pc = "plugin"
      BY <2>1, <2>2, <2>3, <2>4, ZenonT(40) DEF Handling
    <2>6. HandlerMoves(k, p)
      BY <1>1, <1>4, <2>1, <2>3, <2>5, ZenonT(40) DEF HandlerMoves
    <2>7. QED
      BY <2>6
  <1>5. QED
    BY <1>2, <1>3, <1>4

\* The other steps of a handler leave limits, plugins and reloads alone.
LEMMA PlainMoves ==
  ASSUME TypeOK, NEW k \in Conns,
         LoadRate(k) \/ Judge(k) \/ ManualPublish(k) \/ TrySend(k) \/ Disconnect(k)
  PROVE  \E p : HandlerMoves(k, p)
  <1>1. UNCHANGED <<security, limiter, plugin, current, built, req, now, raced, overlapped>>
    BY ZenonT(40) DEF LoadRate, Judge, ManualPublish, TrySend, Disconnect
  <1>2. \/ pub[k].pc \in {"limit", "plugin"} /\ \E new \in {"plugin", "capacity", "forward"} : Goto(k, new)
        \/ pub' = [pub EXCEPT ![k] = Idle]
        \/ pub' = [pub EXCEPT ![k] = Gone]
    BY ZenonT(40) DEF LoadRate, Judge, ManualPublish, TrySend, Disconnect, Finish, Gone
  <1>3. {"limit", "plugin"} \subseteq Stages
    BY SMTT(40) DEF Stages
  <1>4. QED
    BY <1>1, <1>2, <1>3, EndMoves, GotoMoves, ZenonT(40)

\* Every step that touches a handler's record moves it on.
LEMMA HandlerStep ==
  ASSUME TypeOK, [Next]_vars
  PROVE  \/ pub' = pub
         \/ \E k \in Conns : \E p : HandlerMoves(k, p)
  <1>1. ASSUME NEW k \in Conns, Submit(k) \/ Handle(k) \/ Disconnect(k)
        PROVE  \E p : HandlerMoves(k, p)
    BY <1>1, SubmitMoves, LoadMoves, TakeTokenMoves, PlainMoves, ZenonT(40) DEF Handle
  <1>2. \/ pub' = pub
        \/ \E k \in Conns : Submit(k) \/ Handle(k) \/ Disconnect(k)
    BY ZenonT(40) DEF Next, vars, Reload, Loop, ReloadSecurity, ResetCapacity, ResetRate, Clear,
       ReloadPlugin, ReplaceForwarder, Receive, Post, LoopEnds, others, Tick
  <1>3. QED
    BY <1>1, <1>2, ZenonT(40)

-----------------------------------------------------------------------------
(***************************************************************************)
(* What the steps of a reload do to its request.                           *)
(***************************************************************************)

\* The request r goes on to stage new; the others stay.
RequestMoves(r, new) ==
    /\ req' \in [Requests -> Request]
    /\ req'[r].pc = new /\ req'[r].of = req[r].of /\ req'[r].cfg = req[r].cfg
    /\ \A q \in Requests : q # r => req'[q] = req[q]
    /\ \A q \in Requests : ConfigTyped(req'[q])

\* A request that goes on keeps its guard and its configuration.
LEMMA RequestStep ==
  ASSUME TypeOK, NEW r \in Requests, NEW new \in Phases, req' = [req EXCEPT ![r].pc = new]
  PROVE  RequestMoves(r, new)
  <1>1. req \in [Requests -> Request]
    BY ZenonT(40) DEF TypeOK
  <1>2. PICK q : q = [req[r] EXCEPT !.pc = new]
    BY ZenonT(40)
  <1>3. q \in Request /\ q.pc = new /\ q.of = req[r].of /\ q.cfg = req[r].cfg
    BY <1>1, <1>2, ZenonT(40) DEF Request
  <1>4. req' = [req EXCEPT ![r] = q]
    BY <1>1, <1>2, ZenonT(40)
  <1>5. req' \in [Requests -> Request] /\ req'[r] = q
        /\ \A p \in Requests : p # r => req'[p] = req[p]
    BY <1>1, <1>3, <1>4, ZenonT(40)
  <1>6. \A p \in Requests : ConfigTyped(req'[p])
    BY <1>3, <1>5, ZenonT(40) DEF TypeOK, ConfigTyped
  <1>7. QED
    BY <1>3, <1>5, <1>6, ZenonT(40) DEF RequestMoves

\* The positions of a request.
LEMMA PhasesAre == {"wait", "start", "rate", "clear", "done"} \subseteq Phases
  BY ZenonT(40) DEF Phases

\* The fields of the limiter are numbers.
LEMMA LimiterFields ==
  ASSUME TypeOK
  PROVE  limiter \in [cap : Nat, refill : Nat] /\ limiter.cap \in Nat /\ limiter.refill \in Nat
  BY ZenonT(40) DEF TypeOK

\* The first store of reset sets the capacity.
LEMMA ResetCapacitySets ==
  ASSUME TypeOK, NEW r \in Requests, ResetCapacity(r)
  PROVE  /\ limiter' \in [cap : Nat, refill : Nat]
         /\ limiter'.cap = Limits(req[r].cfg.rate).cap /\ limiter'.refill = limiter.refill
         /\ RequestMoves(r, "rate")
  <1>1. req[r].cfg.rate \in Nat
    BY ZenonT(40) DEF TypeOK, ConfigTyped, ResetCapacity, At
  <1>2. PICK n \in Nat : n = Limits(req[r].cfg.rate).cap
    BY <1>1, LimitsTyped, ZenonT(40)
  <1>3. limiter' = [limiter EXCEPT !.cap = n]
    BY <1>2, ZenonT(40) DEF ResetCapacity
  <1>4. req' = [req EXCEPT ![r].pc = "rate"] /\ "rate" \in Phases
    BY PhasesAre, ZenonT(40) DEF ResetCapacity
  <1>5. QED
    BY <1>2, <1>3, <1>4, LimiterFields, RequestStep, ZenonT(40)

\* The second store of reset sets the refill.
LEMMA ResetRateSets ==
  ASSUME TypeOK, NEW r \in Requests, ResetRate(r)
  PROVE  /\ limiter' \in [cap : Nat, refill : Nat]
         /\ limiter'.cap = limiter.cap /\ limiter'.refill = req[r].cfg.rate
         /\ RequestMoves(r, "clear")
  <1>1. PICK n \in Nat : n = req[r].cfg.rate
    BY ZenonT(40) DEF TypeOK, ConfigTyped, ResetRate, At
  <1>2. limiter' = [limiter EXCEPT !.refill = n]
    BY <1>1, ZenonT(40) DEF ResetRate
  <1>3. req' = [req EXCEPT ![r].pc = "clear"] /\ "clear" \in Phases
    BY PhasesAre, ZenonT(40) DEF ResetRate
  <1>4. QED
    BY <1>1, <1>2, <1>3, LimiterFields, RequestStep, ZenonT(40)

\* Where each reload step takes its request.
LEMMA ReloadMoves ==
  ASSUME TypeOK, NEW r \in Requests
  PROVE  /\ ReloadSecurity(r) => At(r, "security", "wait") /\ RequestMoves(r, "start")
         /\ ReloadPlugin(r) => At(r, "plugin", "wait") /\ RequestMoves(r, "start")
         /\ ResetCapacity(r) => At(r, "security", "start") /\ RequestMoves(r, "rate")
         /\ ResetRate(r) => At(r, "security", "rate") /\ RequestMoves(r, "clear")
         /\ Clear(r) => At(r, "security", "clear") /\ RequestMoves(r, "done")
         /\ ReplaceForwarder(r) => At(r, "plugin", "start") /\ RequestMoves(r, "done")
  <1>1. {"wait", "start", "rate", "clear", "done"} \subseteq Phases
    BY PhasesAre
  <1>a. ReloadSecurity(r) => At(r, "security", "wait") /\ RequestMoves(r, "start")
    BY <1>1, RequestStep, ZenonT(40) DEF ReloadSecurity, StartReload
  <1>b. ReloadPlugin(r) => At(r, "plugin", "wait") /\ RequestMoves(r, "start")
    BY <1>1, RequestStep, ZenonT(40) DEF ReloadPlugin, StartReload
  <1>c. ResetCapacity(r) => At(r, "security", "start") /\ RequestMoves(r, "rate")
    BY <1>1, RequestStep, ZenonT(40) DEF ResetCapacity
  <1>d. ResetRate(r) => At(r, "security", "rate") /\ RequestMoves(r, "clear")
    BY <1>1, RequestStep, ZenonT(40) DEF ResetRate
  <1>e. Clear(r) => At(r, "security", "clear") /\ RequestMoves(r, "done")
    BY <1>1, RequestStep, ZenonT(40) DEF Clear
  <1>f. ReplaceForwarder(r) => At(r, "plugin", "start") /\ RequestMoves(r, "done")
    BY <1>1, RequestStep, ZenonT(40) DEF ReplaceForwarder
  <1>g. QED
    BY <1>a, <1>b, <1>c, <1>d, <1>e, <1>f

\* There is a number for the forwarder a request builds.
LEMMA NextNumber ==
  ASSUME TypeOK, Numbered, NEW r \in Requests, At(r, "plugin", "start")
  PROVE  built + 1 \in Gens /\ built + 1 <= Cardinality(Ended \cup {r})
  <1>1. "start" # "done"
    BY SMTT(40)
  <1>2. r \notin Ended
    BY <1>1, ZenonT(40) DEF Ended, At
  <1>3. Ended \cup {r} \subseteq Requests /\ Ended \subseteq Requests
    BY ZenonT(40) DEF Ended
  <1>4. IsFiniteSet(Requests)
    BY LimitsNatural
  <1>5. IsFiniteSet(Ended)
    BY <1>3, <1>4, FS_Subset, ZenonT(40)
  <1>6. Cardinality(Ended \cup {r}) = Cardinality(Ended) + 1
    BY <1>2, <1>5, FS_AddElement, ZenonT(40)
  <1>7. Cardinality(Ended \cup {r}) <= Cardinality(Requests)
    BY <1>3, <1>4, FS_Subset, ZenonT(40)
  <1>8. Cardinality(Ended) \in Nat /\ Cardinality(Requests) \in Nat
    BY <1>4, <1>5, FS_CardinalityType, ZenonT(40)
  <1>9. PICK x \in Nat, y \in Nat, z \in Nat :
          x = Cardinality(Ended) /\ y = Cardinality(Requests) /\ z = built
    BY <1>8, ZenonT(40) DEF TypeOK
  <1>10. z <= x /\ x + 1 <= y
    BY <1>6, <1>7, <1>9, ZenonT(40) DEF Numbered
  <1>11. z + 1 \in 0 .. y /\ z + 1 <= x + 1
    BY <1>10, SMTT(40)
  <1>12. QED
    BY <1>6, <1>9, <1>11, ZenonT(40) DEF Gens

\* Every step keeps a number for the next forwarder.
LEMMA NumberedStep ==
  ASSUME TypeOK, Numbered, [Next]_vars
  PROVE  Numbered'
  <1>1. IsFiniteSet(Requests) /\ built \in Nat /\ current \in 0 .. built /\ built <= Cardinality(Ended)
    BY LimitsNatural, ZenonT(40) DEF TypeOK, Numbered
  <1>2. Ended' \subseteq Requests /\ Ended \subseteq Requests
    BY ZenonT(40) DEF Ended
  <1>3. CASE UNCHANGED <<built, current, req>>
    <2>1. Ended' = Ended
      BY <1>3, ZenonT(40) DEF Ended
    <2>2. QED
      BY <1>3, <2>1, ZenonT(40) DEF Numbered
  <1>4. ASSUME NEW r \in Requests, NEW new, RequestMoves(r, new), req[r].pc # "done"
        PROVE  /\ Ended \subseteq Ended' /\ Cardinality(Ended) <= Cardinality(Ended')
               /\ req[r].of = "plugin" /\ new = "done" => Ended \cup {r} \subseteq Ended'
    <2>1. Ended \subseteq Ended'
      BY <1>4, ZenonT(40) DEF Ended, RequestMoves
    <2>2. IsFiniteSet(Ended')
      BY <1>1, <1>2, FS_Subset, ZenonT(40)
    <2>3. req[r].of = "plugin" /\ new = "done" => Ended \cup {r} \subseteq Ended'
      BY <1>4, <2>1, ZenonT(40) DEF Ended, RequestMoves
    <2>4. QED
      BY <2>1, <2>2, <2>3, FS_Subset, ZenonT(40)
  <1>5. ASSUME NEW r \in Requests,
               ReloadSecurity(r) \/ ResetCapacity(r) \/ ResetRate(r) \/ Clear(r) \/ ReloadPlugin(r)
        PROVE  Numbered'
    <2>1. built' = built /\ current' = current
      BY <1>5, ZenonT(40) DEF ReloadSecurity, ResetCapacity, ResetRate, Clear, ReloadPlugin
    <2>2. req[r].pc \in {"wait", "start", "rate", "clear"} /\ \E new : RequestMoves(r, new)
      BY <1>5, ReloadMoves, ZenonT(40) DEF At
    <2>3. req[r].pc # "done"
      BY <2>2, SMTT(40)
    <2>4. Cardinality(Ended) <= Cardinality(Ended')
      BY <1>4, <2>2, <2>3, ZenonT(40)
    <2>5. Cardinality(Ended) \in Nat /\ Cardinality(Ended') \in Nat
      BY <1>1, <1>2, FS_Subset, FS_CardinalityType, ZenonT(40)
    <2>6. built <= Cardinality(Ended')
      BY <1>1, <2>4, <2>5, SMTT(40)
    <2>7. QED
      BY <1>1, <2>1, <2>6, ZenonT(40) DEF Numbered
  <1>6. ASSUME NEW r \in Requests, ReplaceForwarder(r) PROVE Numbered'
    <2>1. At(r, "plugin", "start") /\ RequestMoves(r, "done")
      BY <1>6, ReloadMoves, ZenonT(40)
    <2>2. req[r].pc # "done"
      BY <2>1, SMTT(40) DEF At
    <2>3. Ended \cup {r} \subseteq Ended' /\ Cardinality(Ended) <= Cardinality(Ended')
      BY <1>4, <2>1, <2>2, ZenonT(40) DEF At
    <2>4. IsFiniteSet(Ended') /\ IsFiniteSet(Ended \cup {r}) /\ IsFiniteSet(Ended)
      BY <1>1, <1>2, FS_Subset, ZenonT(40)
    <2>5. Cardinality(Ended \cup {r}) <= Cardinality(Ended')
      BY <2>3, <2>4, FS_Subset, ZenonT(40)
    <2>6. /\ Cardinality(Ended \cup {r}) \in Nat /\ Cardinality(Ended') \in Nat
          /\ Cardinality(Ended) \in Nat
      BY <2>4, FS_CardinalityType, ZenonT(40)
    <2>7. built + 1 <= Cardinality(Ended \cup {r})
      BY <2>1, NextNumber, ZenonT(40)
    <2>8. built + 1 <= Cardinality(Ended') /\ built <= Cardinality(Ended')
      BY <1>1, <2>5, <2>6, <2>7, SMTT(40)
    <2>9. built + 1 \in 0 .. built + 1
      BY <1>1, SMTT(40)
    <2>10. \/ built' = built + 1 /\ current' = built + 1
           \/ built' = built /\ current' = current
      BY <1>6, ZenonT(40) DEF ReplaceForwarder
    <2>11. QED
      BY <1>1, <2>8, <2>9, <2>10, ZenonT(40) DEF Numbered
  <1>7. \/ UNCHANGED <<built, current, req>>
        \/ \E r \in Requests : Reload(r)
    BY ZenonT(40) DEF Next, vars, Handle, Loop, Submit, LoadRate, LoadCapacity, LoadRefill,
       TakeToken, Judge, ManualPublish, LoadForwarder, TrySend, Disconnect,
       Receive, Post, LoopEnds, others, Tick
  <1>8. QED
    BY <1>3, <1>5, <1>6, <1>7, ZenonT(40) DEF Reload

-----------------------------------------------------------------------------
(***************************************************************************)
(* What the steps do to the forwarders.                                    *)
(***************************************************************************)

\* Forwarder g goes on as n.
ForwarderMoves(g, n) ==
    /\ g \in Gens
    /\ Continues(fwd[g], n)
    /\ n.loop = fwd[g].loop \/ ~Referenced(g)
    /\ fwd' = [fwd EXCEPT ![g] = n]
    /\ UNCHANGED <<current, built, plugin, req, overlapped>>

\* A forwarder is built in place of the current one.
ForwarderReplaced(r) ==
    /\ r \in Requests /\ At(r, "plugin", "start")
    /\ req[r].cfg.forward \in ForwardSections
    /\ built + 1 \in Gens
    /\ fwd' = [fwd EXCEPT ![built + 1] = Built(req[r].cfg.forward)]
    /\ built' = built + 1 /\ current' = built + 1
    /\ req' # req
    /\ UNCHANGED <<plugin, overlapped>>

\* A step leaves the forwarders alone, moves one of them or replaces the
\* current one.
LEMMA ForwarderStep ==
  ASSUME TypeOK, Numbered, ForwardInv, [Next]_vars
  PROVE  \/ UNCHANGED <<fwd, current, built>>
         \/ \E g, n : ForwarderMoves(g, n)
         \/ \E r : ForwarderReplaced(r)
  <1>0. fwd \in [Gens -> Forwarder]
    BY ZenonT(40) DEF TypeOK
  <1>1. ASSUME NEW k \in Conns, TrySend(k) PROVE \E g, n : ForwarderMoves(g, n)
    <2>1. pub[k].pc \in Stages
      BY <1>1, SMTT(40) DEF TrySend, Stages
    <2>2. pub[k].gen \in Gens /\ pub[k].msg \in Published
      <3>1. pub[k] \in Handling
        BY <2>1, StageHandling, ZenonT(40)
      <3>2. QED
        BY <3>1, ZenonT(40) DEF Handling
    <2>3. fwd[pub[k].gen].loop # "ended" /\ ForwarderOK(fwd[pub[k].gen])
      BY <1>1, <2>2, ZenonT(40) DEF TrySend, ForwardInv, Served
    <2>4. PICK n : n = Offered(fwd[pub[k].gen], pub[k].msg)
      BY ZenonT(40)
    <2>5. Continues(fwd[pub[k].gen], n) /\ n.loop = fwd[pub[k].gen].loop
      BY <1>0, <2>2, <2>3, <2>4, OfferedContinues, ZenonT(40)
    <2>6. fwd' = [fwd EXCEPT ![pub[k].gen] = n] /\ UNCHANGED <<current, built, plugin, req, overlapped>>
      BY <1>1, <2>4, ZenonT(40) DEF TrySend
    <2>7. ForwarderMoves(pub[k].gen, n)
      BY <2>2, <2>5, <2>6, ZenonT(40) DEF ForwarderMoves
    <2>8. QED
      BY <2>7
  <1>2. ASSUME NEW g \in Gens, Receive(g) PROVE \E n : ForwarderMoves(g, n)
    <2>1. PICK n : n = [fwd[g] EXCEPT !.hand = Head(fwd[g].queue), !.queue = Tail(fwd[g].queue)]
      BY ZenonT(40)
    <2>2. fwd[g].loop = "run" /\ fwd[g].hand = None /\ fwd[g].queue # <<>> /\ ForwarderOK(fwd[g])
      BY <1>2, ZenonT(40) DEF Receive, ForwardInv
    <2>3. Continues(fwd[g], n) /\ n.loop = fwd[g].loop
      BY <1>0, <2>1, <2>2, ReceivedContinues, ZenonT(40)
    <2>4. fwd' = [fwd EXCEPT ![g].hand = Head(fwd[g].queue), ![g].queue = Tail(@)]
      BY <1>2, ZenonT(40) DEF Receive
    <2>5. fwd' = [fwd EXCEPT ![g] = n]
      BY <1>0, <2>1, <2>4, ZenonT(40)
    <2>6. ForwarderMoves(g, n)
      BY <1>2, <2>3, <2>5, ZenonT(40) DEF ForwarderMoves, Receive, others
    <2>7. QED
      BY <2>6
  <1>3. ASSUME NEW g \in Gens, Post(g) PROVE \E n : ForwarderMoves(g, n)
    <2>1. PICK answered \in BOOLEAN :
            fwd' = [fwd EXCEPT ![g] = Posted(fwd[g], answered)]
      BY <1>3, ZenonT(40) DEF Post
    <2>2. fwd[g].loop = "run" /\ fwd[g].hand # None /\ ForwarderOK(fwd[g])
      BY <1>3, ZenonT(40) DEF Post, ForwardInv
    <2>3. PICK n : n = Posted(fwd[g], answered)
      BY ZenonT(40)
    <2>4. Continues(fwd[g], n) /\ n.loop = fwd[g].loop
      BY <1>0, <2>2, <2>3, PostedContinues, ZenonT(40)
    <2>5. ForwarderMoves(g, n)
      BY <1>3, <2>1, <2>3, <2>4, ZenonT(40) DEF ForwarderMoves, Post, others
    <2>6. QED
      BY <2>5
  <1>4. ASSUME NEW g \in Gens, LoopEnds(g) PROVE \E n : ForwarderMoves(g, n)
    <2>1. PICK n : n = [fwd[g] EXCEPT !.loop = "ended"]
      BY ZenonT(40)
    <2>2. fwd[g].hand = None /\ fwd[g].queue = <<>> /\ ForwarderOK(fwd[g]) /\ ~Referenced(g)
      BY <1>4, ZenonT(40) DEF LoopEnds, ForwardInv
    <2>3. Continues(fwd[g], n)
      BY <1>0, <2>1, <2>2, EndedContinues, ZenonT(40)
    <2>4. fwd' = [fwd EXCEPT ![g] = n]
      BY <1>0, <1>4, <2>1, ZenonT(40) DEF LoopEnds
    <2>5. ForwarderMoves(g, n)
      BY <1>4, <2>2, <2>3, <2>4, ZenonT(40) DEF ForwarderMoves, LoopEnds, others
    <2>6. QED
      BY <2>5
  <1>5. ASSUME NEW r \in Requests, ReplaceForwarder(r)
        PROVE  UNCHANGED <<fwd, current, built>> \/ ForwarderReplaced(r)
    <2>1. At(r, "plugin", "start") /\ built + 1 \in Gens
      BY <1>5, NextNumber, ZenonT(40) DEF ReplaceForwarder
    <2>2. req[r].cfg.forward \in ForwardSections
      BY <2>1, ZenonT(40) DEF TypeOK, ConfigTyped, At
    <2>3. req' # req
      <3>1. RequestMoves(r, "done") /\ "start" # "done"
        <4>1. "start" # "done"
          BY SMTT(40)
        <4>2. QED
          BY <1>5, <4>1, ReloadMoves, ZenonT(40)
      <3>2. QED
        BY <2>1, <3>1, ZenonT(40) DEF RequestMoves, At
    <2>4. QED
      BY <1>5, <2>1, <2>2, <2>3, ZenonT(40) DEF ReplaceForwarder, ForwarderReplaced
  <1>6. \/ UNCHANGED <<fwd, current, built>>
        \/ \E k \in Conns : TrySend(k)
        \/ \E r \in Requests : ReplaceForwarder(r)
        \/ \E g \in Gens : Loop(g)
    BY ZenonT(40) DEF Next, vars, Handle, Reload, Submit, LoadRate, LoadCapacity, LoadRefill,
       TakeToken, Judge, ManualPublish, LoadForwarder, Disconnect, Tick,
       ReloadSecurity, ResetCapacity, ResetRate, Clear, ReloadPlugin
  <1>7. QED
    BY <1>1, <1>2, <1>3, <1>4, <1>5, <1>6, ZenonT(40) DEF Loop

\* Forwarders stay in order, and one that can be offered a message does not end.
LEMMA ForwardersKept ==
  ASSUME TypeOK, Numbered, ForwardInv, [Next]_vars
  PROVE  /\ fwd' \in [Gens -> Forwarder] /\ current' \in Gens /\ built' \in Nat
         /\ \A g \in Gens : ForwarderOK(fwd'[g])
         /\ \A g \in 0 .. built : fwd[g].loop # "ended" =>
              Served(fwd', built', g) \/ ~Referenced(g)
         /\ Served(fwd', built', current')
  <1>0. /\ fwd \in [Gens -> Forwarder] /\ current \in Gens /\ built \in Nat /\ current \in 0 .. built
        /\ \A g \in Gens : ForwarderOK(fwd[g])
        /\ fwd[current].loop # "ended"
    BY ZenonT(40) DEF TypeOK, Numbered, ForwardInv, Served
  <1>1. CASE UNCHANGED <<fwd, current, built>>
    BY <1>0, <1>1, ZenonT(40) DEF Served
  <1>2. ASSUME NEW g, NEW n, ForwarderMoves(g, n)
        PROVE  /\ fwd' \in [Gens -> Forwarder] /\ current' \in Gens /\ built' \in Nat
               /\ \A i \in Gens : ForwarderOK(fwd'[i])
               /\ \A i \in 0 .. built : fwd[i].loop # "ended" => Served(fwd', built', i) \/ ~Referenced(i)
               /\ Served(fwd', built', current')
    <2>1. /\ g \in Gens /\ n \in Forwarder /\ ForwarderOK(n) /\ fwd' = [fwd EXCEPT ![g] = n]
          /\ current' = current /\ built' = built
          /\ n.loop = fwd[g].loop \/ ~Referenced(g)
      BY <1>2, ZenonT(40) DEF ForwarderMoves, Continues
    <2>2. \A i \in Gens : fwd'[i] = IF i = g THEN n ELSE fwd[i]
      BY <1>0, <2>1, ZenonT(40)
    <2>3. fwd' \in [Gens -> Forwarder] /\ \A i \in Gens : ForwarderOK(fwd'[i])
      BY <1>0, <2>1, <2>2, ZenonT(40)
    <2>4. 0 .. built \subseteq Gens
      <3>1. Cardinality(Ended) <= Cardinality(Requests) /\ Cardinality(Ended) \in Nat /\ Cardinality(Requests) \in Nat
        BY LimitsNatural, FS_Subset, FS_CardinalityType, ZenonT(40) DEF Ended
      <3>2. built <= Cardinality(Ended)
        BY ZenonT(40) DEF Numbered
      <3>3. QED
        BY <1>0, <3>1, <3>2, SMTT(40) DEF Gens
    <2>5. ASSUME NEW i \in 0 .. built, fwd[i].loop # "ended" PROVE Served(fwd', built', i) \/ ~Referenced(i)
      BY <2>1, <2>2, <2>4, <2>5, ZenonT(40) DEF Served
    <2>6. Referenced(current)
      BY ZenonT(40) DEF Referenced
    <2>7. QED
      BY <1>0, <2>1, <2>3, <2>5, <2>6, ZenonT(40)
  <1>3. ASSUME NEW r, ForwarderReplaced(r)
        PROVE  /\ fwd' \in [Gens -> Forwarder] /\ current' \in Gens /\ built' \in Nat
               /\ \A i \in Gens : ForwarderOK(fwd'[i])
               /\ \A i \in 0 .. built : fwd[i].loop # "ended" => Served(fwd', built', i) \/ ~Referenced(i)
               /\ Served(fwd', built', current')
    <2>1. PICK n : n = Built(req[r].cfg.forward)
      BY ZenonT(40)
    <2>2. n \in Forwarder /\ ForwarderOK(n) /\ n.loop # "ended"
      BY <1>3, <2>1, BuiltFresh, ZenonT(40) DEF ForwarderReplaced
    <2>3. /\ built + 1 \in Gens /\ fwd' = [fwd EXCEPT ![built + 1] = n]
          /\ built' = built + 1 /\ current' = built + 1
      BY <1>3, <2>1, ZenonT(40) DEF ForwarderReplaced
    <2>4. /\ built + 1 \in Nat /\ built + 1 \in 0 .. built + 1
          /\ \A i \in 0 .. built : i \in 0 .. built + 1 /\ i # built + 1
      BY <1>0, SMTT(40)
    <2>5. 0 .. built \subseteq Gens
      <3>1. Cardinality(Requests) \in Nat
        BY LimitsNatural, FS_CardinalityType, ZenonT(40)
      <3>2. QED
        BY <1>0, <2>3, <3>1, SMTT(40) DEF Gens
    <2>6. \A i \in Gens : fwd'[i] = IF i = built + 1 THEN n ELSE fwd[i]
      BY <1>0, <2>3, ZenonT(40)
    <2>7. fwd' \in [Gens -> Forwarder] /\ \A i \in Gens : ForwarderOK(fwd'[i])
      BY <1>0, <2>2, <2>3, <2>6, ZenonT(40)
    <2>8. Served(fwd', built', current')
      BY <2>2, <2>3, <2>4, <2>6, ZenonT(40) DEF Served
    <2>9. ASSUME NEW i \in 0 .. built, fwd[i].loop # "ended" PROVE Served(fwd', built', i)
      BY <2>3, <2>4, <2>5, <2>6, <2>9, ZenonT(40) DEF Served
    <2>10. QED
      BY <2>3, <2>4, <2>7, <2>8, <2>9, ZenonT(40)
  <1>4. QED
    BY <1>1, <1>2, <1>3, ForwarderStep, ZenonT(40)

\* Every step keeps the invariant of the forwarders.
LEMMA ForwardInvStep ==
  ASSUME TypeOK, Numbered, ForwardInv, [Next]_vars
  PROVE  ForwardInv'
  <1>1. /\ \A g \in Gens : ForwarderOK(fwd'[g])
        /\ \A g \in 0 .. built : fwd[g].loop # "ended" => Served(fwd', built', g) \/ ~Referenced(g)
        /\ Served(fwd', built', current')
    BY ForwardersKept, ZenonT(40)
  <1>2. ASSUME NEW k \in Conns, pub[k].pc = "send" PROVE Served(fwd', built', pub[k].gen)
    <2>1. Referenced(pub[k].gen) /\ Served(fwd, built, pub[k].gen)
      BY <1>2, ZenonT(40) DEF ForwardInv, Referenced
    <2>2. QED
      BY <1>1, <2>1, ZenonT(40) DEF Served
  <1>3. ASSUME NEW k \in Conns, pub'[k].pc = "send" PROVE Served(fwd', built', pub'[k].gen)
    <2>1. CASE pub' = pub
      BY <1>2, <1>3, <2>1, ZenonT(40)
    <2>2. ASSUME NEW j \in Conns, NEW p, HandlerMoves(j, p)
          PROVE  Served(fwd', built', pub'[k].gen)
      <3>1. /\ pub' = [pub EXCEPT ![j] = p] /\ current' = current
            /\ p.pc = "send" => p.gen = current
        BY <2>2, ZenonT(40) DEF HandlerMoves
      <3>2. pub'[k] = IF k = j THEN p ELSE pub[k]
        BY <3>1, ZenonT(40) DEF TypeOK
      <3>3. CASE k = j
        BY <1>1, <1>3, <3>1, <3>2, <3>3, ZenonT(40)
      <3>4. CASE k # j
        BY <1>2, <1>3, <3>2, <3>4, ZenonT(40)
      <3>5. QED
        BY <3>3, <3>4
    <2>3. QED
      BY <2>1, <2>2, HandlerStep, ZenonT(40)
  <1>4. QED
    BY <1>1, <1>3, ZenonT(40) DEF ForwardInv

\* Every step keeps the requests typed.
LEMMA RequestsKept ==
  ASSUME TypeOK, [Next]_vars
  PROVE  req' \in [Requests -> Request] /\ \A q \in Requests : ConfigTyped(req'[q])
  <1>1. CASE req' = req
    BY <1>1, ZenonT(40) DEF TypeOK
  <1>2. ASSUME NEW r \in Requests, Reload(r)
        PROVE  req' \in [Requests -> Request] /\ \A q \in Requests : ConfigTyped(req'[q])
    BY <1>2, ReloadMoves, ZenonT(40) DEF Reload, RequestMoves
  <1>3. \/ req' = req
        \/ \E r \in Requests : Reload(r)
    BY ZenonT(40) DEF Next, vars, Handle, Loop, Submit, LoadRate, LoadCapacity, LoadRefill,
       TakeToken, Judge, ManualPublish, LoadForwarder, TrySend, Disconnect,
       Receive, Post, LoopEnds, others, Tick
  <1>4. QED
    BY <1>1, <1>2, <1>3, ZenonT(40)

\* Every step keeps the buckets typed.
LEMMA BucketsKept ==
  ASSUME TypeOK, RateInv, [Next]_vars
  PROVE  buckets' \in [Clients -> Bucket \cup {None}]
  <1>0. now \in Nat /\ buckets \in [Clients -> Bucket \cup {None}]
    BY ZenonT(40) DEF TypeOK
  <1>1. CASE buckets' = buckets
    BY <1>0, <1>1, ZenonT(40)
  <1>2. ASSUME NEW k \in Conns, TakeToken(k) PROVE buckets' \in [Clients -> Bucket \cup {None}]
    <2>1. PICK b : b = IF buckets[ClientOf[k]] # None THEN buckets[ClientOf[k]]
                       ELSE NewBucket(pub[k].cap, pub[k].refill)
      BY ZenonT(40)
    <2>2. pub[k].pc = "bucket" /\ buckets' = [buckets EXCEPT ![ClientOf[k]] = Consumed(b)]
      BY <1>2, <2>1, ZenonT(40) DEF TakeToken
    <2>3. b \in Bucket /\ b.last <= now
      BY <2>1, <2>2, TakenBucket, ZenonT(40) DEF BucketOK
    <2>4. Consumed(b) \in Bucket
      BY <1>0, <2>3, ConsumedIs, ZenonT(40)
    <2>5. QED
      BY <1>0, <2>2, <2>4, ZenonT(40)
  <1>3. ASSUME NEW k \in Conns, Disconnect(k) PROVE buckets' \in [Clients -> Bucket \cup {None}]
    BY <1>0, <1>3, ZenonT(40) DEF Disconnect
  <1>4. ASSUME NEW r \in Requests, Clear(r) PROVE buckets' \in [Clients -> Bucket \cup {None}]
    BY <1>4, ZenonT(40) DEF Clear
  <1>5. \/ buckets' = buckets
        \/ \E k \in Conns : TakeToken(k) \/ Disconnect(k)
        \/ \E r \in Requests : Clear(r)
    BY ZenonT(40) DEF Next, vars, Handle, Reload, Loop, Submit, LoadRate, LoadCapacity, LoadRefill,
       Judge, ManualPublish, LoadForwarder, TrySend, ReloadSecurity, ResetCapacity, ResetRate,
       ReloadPlugin, ReplaceForwarder, Receive, Post, LoopEnds, others, Tick
  <1>6. QED
    BY <1>1, <1>2, <1>3, <1>4, <1>5, ZenonT(40)

\* Every step keeps what is still to be published typed.
LEMMA ScriptKept ==
  ASSUME TypeOK, [Next]_vars
  PROVE  script' \in [Conns -> Seq(Published)]
  <1>0. script \in [Conns -> Seq(Published)] /\ <<>> \in Seq(Published)
    <2>1. <<>> \in Seq(Published)
      BY SMTT(40)
    <2>2. QED
      BY <2>1, ZenonT(40) DEF TypeOK
  <1>1. ASSUME NEW k \in Conns, Disconnect(k) PROVE script' \in [Conns -> Seq(Published)]
    BY <1>0, <1>1, ZenonT(40) DEF Disconnect
  <1>2. \/ script' = script
        \/ \E k \in Conns : Submit(k) \/ Disconnect(k)
    BY ZenonT(40) DEF Next, vars, Handle, Reload, Loop, LoadRate, LoadCapacity, LoadRefill, TakeToken,
       Judge, ManualPublish, LoadForwarder, TrySend, ReloadSecurity, ResetCapacity, ResetRate, Clear,
       ReloadPlugin, ReplaceForwarder, Receive, Post, LoopEnds, others, Tick
  <1>3. QED
    BY <1>0, <1>1, <1>2, SubmitMoves, ZenonT(40)

\* Every step keeps the settings typed, and forgets no overlap.
LEMMA SettingsKept ==
  ASSUME TypeOK, [Next]_vars
  PROVE  /\ security'.rate \in Nat /\ limiter' \in [cap : Nat, refill : Nat]
         /\ plugin'.forward \in ForwardSections
         /\ raced' \subseteq Clients /\ overlapped' \subseteq {"security", "plugin"}
         /\ overlapped \subseteq overlapped'
  <1>0. /\ security.rate \in Nat /\ limiter \in [cap : Nat, refill : Nat]
        /\ plugin.forward \in ForwardSections
        /\ raced \subseteq Clients /\ overlapped \subseteq {"security", "plugin"}
    BY ZenonT(40) DEF TypeOK
  <1>1. Consuming \subseteq Clients
    BY ZenonT(40) DEF Consuming, Clients
  <1>2. CASE UNCHANGED <<security, limiter, plugin, raced, overlapped>>
    BY <1>0, <1>2, ZenonT(40)
  <1>3. ASSUME NEW r \in Requests, ReloadSecurity(r)
        PROVE  /\ security'.rate \in Nat /\ limiter' = limiter /\ plugin' = plugin /\ raced' = raced
               /\ overlapped' \subseteq {"security", "plugin"} /\ overlapped \subseteq overlapped'
    <2>1. security' = req[r].cfg /\ limiter' = limiter /\ plugin' = plugin /\ raced' = raced
      BY <1>3, ZenonT(40) DEF ReloadSecurity
    <2>2. req[r].cfg.rate \in Nat
      BY <1>3, ZenonT(40) DEF TypeOK, ConfigTyped, ReloadSecurity, StartReload, At
    <2>3. overlapped' = overlapped \/ overlapped' = overlapped \cup {"security"}
      BY <1>3, ZenonT(40) DEF ReloadSecurity, StartReload
    <2>4. QED
      BY <1>0, <2>1, <2>2, <2>3, ZenonT(40)
  <1>4. ASSUME NEW r \in Requests, ReloadPlugin(r)
        PROVE  /\ plugin'.forward \in ForwardSections
               /\ limiter' = limiter /\ security' = security /\ raced' = raced
               /\ overlapped' \subseteq {"security", "plugin"} /\ overlapped \subseteq overlapped'
    <2>1. security' = security /\ limiter' = limiter /\ raced' = raced
      BY <1>4, ZenonT(40) DEF ReloadPlugin
    <2>2. req[r].cfg.forward \in ForwardSections
      BY <1>4, ZenonT(40) DEF TypeOK, ConfigTyped, ReloadPlugin, StartReload, At
    <2>3. overlapped' = overlapped \/ overlapped' = overlapped \cup {"plugin"}
      BY <1>4, ZenonT(40) DEF ReloadPlugin, StartReload
    <2>4. plugin'.forward = req[r].cfg.forward
      BY <1>4, ZenonT(40) DEF ReloadPlugin, BuildPolicy
    <2>5. QED
      BY <1>0, <2>1, <2>2, <2>3, <2>4, ZenonT(40)
  <1>5. ASSUME NEW r \in Requests, ResetCapacity(r) \/ ResetRate(r) \/ Clear(r)
        PROVE  /\ limiter' \in [cap : Nat, refill : Nat] /\ raced' = raced \cup Consuming
               /\ UNCHANGED <<security, plugin, overlapped>>
    BY <1>0, <1>5, ResetCapacitySets, ResetRateSets, ZenonT(40) DEF ResetCapacity, ResetRate, Clear
  <1>6. \/ UNCHANGED <<security, limiter, plugin, raced, overlapped>>
        \/ \E r \in Requests : \/ ReloadSecurity(r) \/ ReloadPlugin(r)
                               \/ ResetCapacity(r) \/ ResetRate(r) \/ Clear(r)
    BY ZenonT(40) DEF Next, vars, Handle, Reload, Loop, Submit, LoadRate, LoadCapacity, LoadRefill,
       TakeToken, Judge, ManualPublish, LoadForwarder, TrySend, Disconnect, ReplaceForwarder,
       Receive, Post, LoopEnds, others, Tick
  <1>7. QED
    BY <1>0, <1>1, <1>2, <1>3, <1>4, <1>5, <1>6, ZenonT(40)

\* Every step keeps the types.
LEMMA TypeStep ==
  ASSUME TypeOK, Numbered, RateInv, ForwardInv, [Next]_vars
  PROVE  TypeOK'
  <1>1. fwd' \in [Gens -> Forwarder] /\ current' \in Gens /\ built' \in Nat
    BY ForwardersKept, ZenonT(40)
  <1>2. pub' \in [Conns -> {Idle, Gone} \cup Handling]
    <2>1. pub \in [Conns -> {Idle, Gone} \cup Handling]
      BY ZenonT(40) DEF TypeOK
    <2>2. ASSUME NEW k \in Conns, NEW p, HandlerMoves(k, p)
          PROVE  pub' \in [Conns -> {Idle, Gone} \cup Handling]
      BY <2>1, <2>2, ZenonT(40) DEF HandlerMoves
    <2>3. QED
      BY <2>1, <2>2, HandlerStep, ZenonT(40)
  <1>3. now' \in Nat
    <2>1. now' = now \/ now' = now + 1
      BY ZenonT(40) DEF Next, vars, Handle, Reload, Loop, Submit, LoadRate, LoadCapacity, LoadRefill,
       TakeToken, Judge, ManualPublish, LoadForwarder, TrySend, Disconnect, ReloadSecurity,
       ResetCapacity, ResetRate, Clear, ReloadPlugin, ReplaceForwarder, Receive, Post, LoopEnds,
       others, Tick
    <2>2. now \in Nat
      BY ZenonT(40) DEF TypeOK
    <2>3. QED
      BY <2>1, <2>2, SMTT(40)
  <1>4. /\ req' \in [Requests -> Request] /\ \A q \in Requests : ConfigTyped(req'[q])
        /\ buckets' \in [Clients -> Bucket \cup {None}]
        /\ script' \in [Conns -> Seq(Published)]
    BY RequestsKept, BucketsKept, ScriptKept, ZenonT(40)
  <1>5. QED
    BY <1>1, <1>2, <1>3, <1>4, SettingsKept, ZenonT(40) DEF TypeOK

-----------------------------------------------------------------------------
(***************************************************************************)
(* Reloads.                                                                *)
(***************************************************************************)

\* A step of a request for one guard leaves the requests for the other.
LEMMA OtherRequests ==
  ASSUME NEW r \in Requests, NEW new, RequestMoves(r, new), NEW guard, req[r].of # guard,
         NEW q \in Requests
  PROVE  /\ Active(q, guard)' <=> Active(q, guard)
         /\ Active(q, guard) => req'[q].cfg = req[q].cfg
         /\ \A pc : At(q, guard, pc)' <=> At(q, guard, pc)
  BY ZenonT(40) DEF RequestMoves, Active, At

\* A guard is being reloaded while one of its requests is active.
LEMMA ReloadingIs ==
  ASSUME NEW guard
  PROVE  Reloading(guard) <=> \E r \in Requests : Active(r, guard)
  BY ZenonT(40) DEF Reloading, Active

\* The same in the next state.
LEMMA ReloadingIsNext ==
  ASSUME NEW guard
  PROVE  Reloading(guard)' <=> \E r \in Requests : Active(r, guard)'
  BY ZenonT(40) DEF Reloading, Active

\* A step that no request for the plugins takes keeps their invariant.
LEMMA PluginFrame ==
  ASSUME TypeOK, Numbered, ForwardInv, PluginInv, [Next]_vars, plugin' = plugin,
         overlapped \subseteq overlapped',
         \/ UNCHANGED <<fwd, current, built>>
         \/ \E g, n : ForwarderMoves(g, n),
         \A q \in Requests : /\ Active(q, "plugin")' <=> Active(q, "plugin")
                             /\ Active(q, "plugin") => req'[q].cfg = req[q].cfg
  PROVE  PluginInv'
  <1>1. SUFFICES ASSUME "plugin" \notin overlapped'
                 PROVE  /\ Alone("plugin")'
                        /\ \A r \in Requests : Active(r, "plugin")' => plugin'.forward = req'[r].cfg.forward
                        /\ ~Reloading("plugin")' /\ Valid(plugin'.forward) =>
                              Matches(fwd'[current'], plugin'.forward)
    BY ZenonT(40) DEF PluginInv
  <1>2. /\ Alone("plugin")
        /\ \A r \in Requests : Active(r, "plugin") => plugin.forward = req[r].cfg.forward
        /\ ~Reloading("plugin") /\ Valid(plugin.forward) => Matches(fwd[current], plugin.forward)
    BY <1>1, ZenonT(40) DEF PluginInv
  <1>3. Alone("plugin")'
    BY <1>2, ZenonT(40) DEF Alone
  <1>4. Reloading("plugin")' <=> Reloading("plugin")
    BY ReloadingIs, ReloadingIsNext, ZenonT(40)
  <1>5. /\ fwd'[current'].on = fwd[current].on /\ fwd'[current'].topics = fwd[current].topics
        /\ fwd'[current'].cap = fwd[current].cap
    <2>1. CASE UNCHANGED <<fwd, current, built>>
      BY <2>1, ZenonT(40)
    <2>2. ASSUME NEW g, NEW n, ForwarderMoves(g, n)
          PROVE  /\ fwd'[current'].on = fwd[current].on
                 /\ fwd'[current'].topics = fwd[current].topics
                 /\ fwd'[current'].cap = fwd[current].cap
      <3>1. /\ fwd' = [fwd EXCEPT ![g] = n] /\ current' = current /\ g \in Gens
            /\ n.on = fwd[g].on /\ n.topics = fwd[g].topics /\ n.cap = fwd[g].cap
        BY <2>2, ZenonT(40) DEF ForwarderMoves, Continues
      <3>2. fwd'[current] = IF current = g THEN n ELSE fwd[current]
        BY <3>1, ZenonT(40) DEF TypeOK
      <3>3. QED
        BY <3>1, <3>2, ZenonT(40)
    <2>3. QED
      BY <2>1, <2>2, ZenonT(40)
  <1>6. Matches(fwd[current], plugin.forward) => Matches(fwd'[current'], plugin'.forward)
    BY <1>5, ZenonT(40) DEF Matches
  <1>7. QED
    BY <1>2, <1>3, <1>4, <1>6, ZenonT(40)

\* Every step keeps policy and forwarder of one configuration together.
LEMMA PluginStep ==
  ASSUME TypeOK, Numbered, ForwardInv, PluginInv, [Next]_vars
  PROVE  PluginInv'
  <1>0. overlapped \subseteq overlapped'
    BY SettingsKept, ZenonT(40)
  <1>1. ASSUME NEW r \in Requests, ReloadPlugin(r) PROVE PluginInv'
    <2>1. At(r, "plugin", "wait") /\ RequestMoves(r, "start")
      BY <1>1, ReloadMoves, ZenonT(40)
    <2>2. /\ plugin'.forward = req[r].cfg.forward
          /\ Reloading("plugin") => "plugin" \in overlapped'
      BY <1>1, ZenonT(40) DEF ReloadPlugin, StartReload, BuildPolicy
    <2>3. SUFFICES ASSUME "plugin" \notin overlapped'
                 PROVE  /\ Alone("plugin")'
                        /\ \A q \in Requests : Active(q, "plugin")' => plugin'.forward = req'[q].cfg.forward
                        /\ Reloading("plugin")'
      BY ZenonT(40) DEF PluginInv
    <2>4. \A q \in Requests : ~Active(q, "plugin")
      BY <2>2, <2>3, ReloadingIs, ZenonT(40)
    <2>5. \A q \in Requests : Active(q, "plugin")' => q = r
      BY <2>1, <2>4, ZenonT(40) DEF RequestMoves, Active
    <2>6. "start" \notin {"wait", "done"}
      BY SMTT(40)
    <2>7. Active(r, "plugin")'
      BY <2>1, <2>6, ZenonT(40) DEF RequestMoves, Active, At
    <2>8. Reloading("plugin")'
      BY <2>7, ReloadingIsNext, ZenonT(40)
    <2>9. Alone("plugin")'
      BY <2>5, ZenonT(40) DEF Alone
    <2>10. QED
      BY <2>1, <2>2, <2>5, <2>8, <2>9, ZenonT(40) DEF RequestMoves
  <1>2. ASSUME NEW r \in Requests, ReplaceForwarder(r) PROVE PluginInv'
    <2>1. At(r, "plugin", "start") /\ RequestMoves(r, "done")
      BY <1>2, ReloadMoves, ZenonT(40)
    <2>2. plugin' = plugin /\ overlapped' = overlapped
      BY <1>2, ZenonT(40) DEF ReplaceForwarder
    <2>3. SUFFICES ASSUME "plugin" \notin overlapped
                 PROVE  /\ Alone("plugin")'
                        /\ \A q \in Requests : Active(q, "plugin")' => plugin'.forward = req'[q].cfg.forward
                        /\ Valid(plugin'.forward) => Matches(fwd'[current'], plugin'.forward)
      BY <2>2, ZenonT(40) DEF PluginInv
    <2>4. "start" \notin {"wait", "done"} /\ ~("done" \notin {"wait", "done"})
      BY SMTT(40)
    <2>5. Active(r, "plugin")
      BY <2>1, <2>4, ZenonT(40) DEF Active, At
    <2>6. \A q \in Requests : Active(q, "plugin") => q = r
      BY <2>3, <2>5, ZenonT(40) DEF PluginInv, Alone
    <2>7. \A q \in Requests : ~Active(q, "plugin")'
      BY <2>1, <2>4, <2>6, ZenonT(40) DEF RequestMoves, Active
    <2>8. plugin.forward = req[r].cfg.forward
      BY <2>3, <2>5, ZenonT(40) DEF PluginInv
    <2>9. Alone("plugin")'
      BY <2>7, ZenonT(40) DEF Alone
    <2>10. ASSUME Valid(plugin.forward) PROVE Matches(fwd'[current'], plugin.forward)
      <3>1. /\ current' = built + 1
            /\ fwd' = [fwd EXCEPT ![built + 1] = Built(plugin.forward)]
        BY <1>2, <2>8, <2>10, ZenonT(40) DEF ReplaceForwarder
      <3>2. built + 1 \in Gens
        BY <2>1, NextNumber, ZenonT(40)
      <3>3. fwd'[current'] = Built(plugin.forward)
        BY <3>1, <3>2, ZenonT(40) DEF TypeOK
      <3>4. QED
        BY <3>3, ZenonT(40) DEF Matches
    <2>11. QED
      BY <2>2, <2>7, <2>9, <2>10, ZenonT(40)
  <1>3. ASSUME NEW r \in Requests,
               ReloadSecurity(r) \/ ResetCapacity(r) \/ ResetRate(r) \/ Clear(r)
        PROVE  PluginInv'
    <2>1. UNCHANGED <<fwd, current, built>> /\ plugin' = plugin
      BY <1>3, ZenonT(40) DEF ReloadSecurity, ResetCapacity, ResetRate, Clear
    <2>2. req[r].of = "security" /\ \E new : RequestMoves(r, new)
      BY <1>3, ReloadMoves, ZenonT(40) DEF At
    <2>3. req[r].of # "plugin"
      BY <2>2, SMTT(40)
    <2>4. \A q \in Requests : /\ Active(q, "plugin")' <=> Active(q, "plugin")
                              /\ Active(q, "plugin") => req'[q].cfg = req[q].cfg
      BY <2>2, <2>3, OtherRequests, ZenonT(40)
    <2>5. QED
      BY <1>0, <2>1, <2>4, PluginFrame, ZenonT(40)
  <1>4. CASE plugin' = plugin /\ req' = req
    <2>1. \A q \in Requests : /\ Active(q, "plugin")' <=> Active(q, "plugin")
                              /\ Active(q, "plugin") => req'[q].cfg = req[q].cfg
      BY <1>4, ZenonT(40) DEF Active
    <2>2. CASE UNCHANGED <<fwd, current, built>> \/ \E g, n : ForwarderMoves(g, n)
      BY <1>0, <1>4, <2>1, <2>2, PluginFrame, ZenonT(40)
    <2>3. ASSUME NEW r, ForwarderReplaced(r) PROVE FALSE
      BY <1>4, <2>3, ZenonT(40) DEF ForwarderReplaced
    <2>4. QED
      BY <2>2, <2>3, ForwarderStep, ZenonT(40)
  <1>5. \/ plugin' = plugin /\ req' = req
        \/ \E r \in Requests : Reload(r)
    BY ZenonT(40) DEF Next, vars, Handle, Loop, Submit, LoadRate, LoadCapacity, LoadRefill,
       TakeToken, Judge, ManualPublish, LoadForwarder, TrySend, Disconnect,
       Receive, Post, LoopEnds, others, Tick
  <1>6. QED
    BY <1>1, <1>2, <1>3, <1>4, <1>5, ZenonT(40) DEF Reload

\* A step that touches neither limiter nor its requests keeps their invariant.
LEMMA SecurityFrame ==
  ASSUME SecurityInv, UNCHANGED <<limiter, security, raced>>, overlapped \subseteq overlapped',
         \A q \in Requests : /\ Active(q, "security")' <=> Active(q, "security")
                             /\ Active(q, "security") => req'[q].cfg = req[q].cfg
                             /\ \A pc : At(q, "security", pc)' <=> At(q, "security", pc),
         \A k \in Conns : Loaded(k)',
         \A c \in Clients \ raced : Uniform(c) => Uniform(c)'
  PROVE  SecurityInv'
  <1>1. SUFFICES ASSUME "security" \notin overlapped'
                 PROVE  /\ Alone("security")'
                        /\ \A r \in Requests : ResetProgress(r)'
                        /\ ~Reloading("security")' => limiter' = Limits(security'.rate)
                        /\ ~Resetting' => \A c \in Clients \ raced : Uniform(c)'
    BY ZenonT(40) DEF SecurityInv
  <1>2. /\ Alone("security") /\ \A r \in Requests : ResetProgress(r)
        /\ ~Reloading("security") => limiter = Limits(security.rate)
        /\ ~Resetting => \A c \in Clients \ raced : Uniform(c)
    BY <1>1, ZenonT(40) DEF SecurityInv
  <1>3. Alone("security")'
    BY <1>2, ZenonT(40) DEF Alone
  <1>4. ASSUME NEW r \in Requests PROVE ResetProgress(r)'
    BY <1>2, ZenonT(40) DEF ResetProgress
  <1>5. Reloading("security")' <=> Reloading("security")
    BY ReloadingIs, ReloadingIsNext, ZenonT(40)
  <1>6. Resetting' <=> Resetting
    BY ZenonT(40) DEF Resetting
  <1>7. QED
    BY <1>2, <1>3, <1>4, <1>5, <1>6, ZenonT(40)

\* A handler keeps what it has loaded in step with the limiter.
LEMMA LoadedKept ==
  ASSUME TypeOK, SecurityInv, [Next]_vars, UNCHANGED <<limiter, raced>>
  PROVE  \A k \in Conns : Loaded(k)'
  <1>1. SUFFICES ASSUME NEW k \in Conns PROVE Loaded(k)'
    OBVIOUS
  <1>2. Loaded(k)
    BY ZenonT(40) DEF SecurityInv
  <1>3. CASE pub'[k] = pub[k]
    BY <1>2, <1>3, ZenonT(40) DEF Loaded
  <1>4. ASSUME NEW j \in Conns, NEW p, HandlerMoves(j, p), pub'[k] # pub[k] PROVE Loaded(k)'
    <2>1. pub' = [pub EXCEPT ![j] = p]
      BY <1>4, ZenonT(40) DEF HandlerMoves
    <2>2. pub'[k] = p /\ j = k
      BY <1>4, <2>1, ZenonT(40) DEF TypeOK
    <2>3. /\ p.pc = "refill" => p.cap = limiter.cap
          /\ p.pc = "bucket" => pub[k].pc = "refill" /\ p.cap = pub[k].cap /\ p.refill = limiter.refill
      BY <1>4, <2>2, ZenonT(40) DEF HandlerMoves
    <2>4. "refill" # "bucket"
      BY SMTT(40)
    <2>5. QED
      BY <1>2, <2>2, <2>3, <2>4, ZenonT(40) DEF Loaded
  <1>5. QED
    BY <1>3, <1>4, HandlerStep, ZenonT(40)

\* A bucket that is created or used follows the limiter.
LEMMA UniformKept ==
  ASSUME TypeOK, RateInv, SecurityInv, [Next]_vars, limiter' = limiter, NEW c \in Clients \ raced, Uniform(c)
  PROVE  Uniform(c)'
  <1>0. now \in Nat /\ buckets \in [Clients -> Bucket \cup {None}]
    BY ZenonT(40) DEF TypeOK
  <1>1. CASE buckets'[c] = buckets[c] \/ buckets'[c] = None
    BY <1>1, ZenonT(40) DEF Uniform
  <1>2. ASSUME NEW k \in Conns, TakeToken(k), ClientOf[k] = c PROVE Uniform(c)'
    <2>1. PICK b : b = IF buckets[ClientOf[k]] # None THEN buckets[ClientOf[k]]
                       ELSE NewBucket(pub[k].cap, pub[k].refill)
      BY ZenonT(40)
    <2>2. /\ pub[k].pc = "bucket" /\ buckets' = [buckets EXCEPT ![ClientOf[k]] = Consumed(b)]
      BY <1>2, <2>1, ZenonT(40) DEF TakeToken
    <2>3. b \in Bucket /\ b.last <= now
      BY <2>1, <2>2, TakenBucket, ZenonT(40) DEF BucketOK
    <2>4. Consumed(b).cap = b.cap /\ Consumed(b).refill = b.refill
      BY <1>0, <2>3, ConsumedIs, ZenonT(40)
    <2>5. b.cap = limiter.cap /\ b.refill = limiter.refill
      <3>1. CASE buckets[c] # None
        BY <1>2, <2>1, <3>1, ZenonT(40) DEF Uniform
      <3>2. CASE ~(buckets[c] # None)
        <4>1. b = NewBucket(pub[k].cap, pub[k].refill)
          BY <1>2, <2>1, <3>2, ZenonT(40)
        <4>2. b.cap = pub[k].cap /\ b.refill = pub[k].refill
          BY <4>1, ZenonT(40) DEF NewBucket
        <4>3. Loaded(k)
          BY ZenonT(40) DEF SecurityInv
        <4>4. pub[k].cap = limiter.cap /\ pub[k].refill = limiter.refill
          BY <1>2, <2>2, <4>3, ZenonT(40) DEF Loaded
        <4>5. QED
          BY <4>2, <4>4, ZenonT(40)
      <3>3. QED
        BY <3>1, <3>2
    <2>6. buckets'[c] = Consumed(b)
      BY <1>0, <1>2, <2>2, ZenonT(40)
    <2>7. QED
      BY <2>4, <2>5, <2>6, ZenonT(40) DEF Uniform
  <1>3. ASSUME NEW k \in Conns, TakeToken(k), ClientOf[k] # c PROVE buckets'[c] = buckets[c]
    BY <1>0, <1>3, ZenonT(40) DEF TakeToken
  <1>4. ASSUME NEW k \in Conns, Disconnect(k) PROVE buckets'[c] = buckets[c] \/ buckets'[c] = None
    BY <1>0, <1>4, ZenonT(40) DEF Disconnect
  <1>5. ASSUME NEW r \in Requests, Clear(r) PROVE buckets'[c] = None
    BY <1>5, ZenonT(40) DEF Clear
  <1>6. \/ buckets' = buckets
        \/ \E k \in Conns : TakeToken(k) \/ Disconnect(k)
        \/ \E r \in Requests : Clear(r)
    BY ZenonT(40) DEF Next, vars, Handle, Reload, Loop, Submit, LoadRate, LoadCapacity, LoadRefill,
       Judge, ManualPublish, LoadForwarder, TrySend, ReloadSecurity, ResetCapacity, ResetRate,
       ReloadPlugin, ReplaceForwarder, Receive, Post, LoopEnds, others, Tick
  <1>7. QED
    BY <1>1, <1>2, <1>3, <1>4, <1>5, <1>6, ZenonT(40)

\* After a reset of the limiter, whoever is in try_consume counts as raced.
LEMMA ResetRaces ==
  ASSUME NEW k \in Conns, pub' = pub, raced' = raced \cup Consuming
  PROVE  Loaded(k)'
  <1>1. pub[k].pc \in {"refill", "bucket"} => ClientOf[k] \in raced'
    BY ZenonT(40) DEF Consuming
  <1>2. QED
    BY <1>1, ZenonT(40) DEF Loaded

\* The one request that resets the limiter moves on.
LEMMA AloneMoves ==
  ASSUME NEW r \in Requests, NEW new, RequestMoves(r, new), NEW guard,
         \A q \in Requests : Active(q, guard) => q = r
  PROVE  Alone(guard)' /\ \A q \in Requests : Active(q, guard)' => q = r
  <1>1. \A q \in Requests : Active(q, guard)' => q = r
    BY ZenonT(40) DEF RequestMoves, Active
  <1>2. QED
    BY <1>1, ZenonT(40) DEF Alone

\* A reload that begins publishes the section before it resets the limiter.
LEMMA ReloadSecurityKeeps ==
  ASSUME TypeOK, SecurityInv, NEW r \in Requests, ReloadSecurity(r), [Next]_vars
  PROVE  SecurityInv'
  <1>1. At(r, "security", "wait") /\ RequestMoves(r, "start")
    BY ReloadMoves, ZenonT(40)
  <1>2. /\ security' = req[r].cfg /\ UNCHANGED <<limiter, buckets, raced, pub>>
        /\ overlapped \subseteq overlapped'
        /\ Reloading("security") => "security" \in overlapped'
    BY ZenonT(40) DEF ReloadSecurity, StartReload
  <1>3. \A k \in Conns : Loaded(k)'
    BY <1>2, LoadedKept, ZenonT(40)
  <1>4. SUFFICES ASSUME "security" \notin overlapped'
                 PROVE  /\ Alone("security")'
                        /\ \A q \in Requests : ResetProgress(q)'
                        /\ ~Reloading("security")' => limiter' = Limits(security'.rate)
                        /\ ~Resetting' => \A c \in Clients \ raced' : Uniform(c)'
    BY <1>3, ZenonT(40) DEF SecurityInv
  <1>5. \A q \in Requests : ~Active(q, "security")
    BY <1>2, <1>4, ReloadingIs, ZenonT(40)
  <1>6. Alone("security")' /\ \A q \in Requests : Active(q, "security")' => q = r
    BY <1>1, <1>5, AloneMoves, ZenonT(40)
  <1>7. "start" \notin {"wait", "done"} /\ {"rate", "clear"} \cap {"wait", "done", "start"} = {}
    BY SMTT(40)
  <1>8. Active(r, "security")' /\ req'[r].pc = "start" /\ req'[r].cfg = req[r].cfg
    BY <1>1, <1>7, ZenonT(40) DEF RequestMoves, Active, At
  <1>9. \A q \in Requests : ~At(q, "security", "rate")' /\ ~At(q, "security", "clear")'
    <2>1. \A q \in Requests : At(q, "security", "rate")' \/ At(q, "security", "clear")' => Active(q, "security")'
      BY <1>7, ZenonT(40) DEF At, Active
    <2>2. QED
      BY <1>6, <1>7, <1>8, <2>1, ZenonT(40) DEF At
  <1>10. ASSUME NEW q \in Requests PROVE ResetProgress(q)'
    BY <1>2, <1>6, <1>8, <1>9, ZenonT(40) DEF ResetProgress
  <1>11. Reloading("security")'
    BY <1>8, ReloadingIsNext, ZenonT(40)
  <1>12. ~Resetting
    BY <1>5, <1>7, ZenonT(40) DEF Resetting, At, Active
  <1>13. \A c \in Clients \ raced : Uniform(c)
    BY <1>2, <1>4, <1>12, ZenonT(40) DEF SecurityInv
  <1>14. \A c \in Clients \ raced' : Uniform(c)'
    BY <1>2, <1>13, ZenonT(40) DEF Uniform
  <1>15. QED
    BY <1>6, <1>10, <1>11, <1>14, ZenonT(40)

\* The two stores of reset, with handlers that loaded before them in raced.
LEMMA ResetKeeps ==
  ASSUME TypeOK, SecurityInv, NEW r \in Requests, ResetCapacity(r) \/ ResetRate(r)
  PROVE  SecurityInv'
  <1>1. /\ security' = security /\ overlapped' = overlapped /\ pub' = pub
        /\ raced' = raced \cup Consuming
    BY ZenonT(40) DEF ResetCapacity, ResetRate
  <1>2. PICK new \in {"rate", "clear"} :
          /\ RequestMoves(r, new)
          /\ new = "rate" => ResetCapacity(r)
          /\ new = "clear" => ResetRate(r)
    <2>1. "rate" # "clear"
      BY SMTT(40)
    <2>2. QED
      BY <2>1, ReloadMoves, ZenonT(40)
  <1>3. req[r].of = "security" /\ req[r].pc \in {"start", "rate"}
    BY ReloadMoves, ZenonT(40) DEF At
  <1>4. /\ req[r].pc \notin {"wait", "done"} /\ new \notin {"wait", "done"}
        /\ {"rate", "clear"} \cap {"wait", "done"} = {} /\ "rate" # "clear"
    BY <1>3, SMTT(40)
  <1>5. \A k \in Conns : Loaded(k)'
    BY <1>1, ResetRaces, ZenonT(40)
  <1>6. SUFFICES ASSUME "security" \notin overlapped
                 PROVE  /\ Alone("security")'
                        /\ \A q \in Requests : ResetProgress(q)'
                        /\ Reloading("security")'
                        /\ Resetting'
    BY <1>1, <1>5, ZenonT(40) DEF SecurityInv
  <1>7. Active(r, "security")
    BY <1>3, <1>4, ZenonT(40) DEF Active
  <1>8. \A q \in Requests : Active(q, "security") => q = r
    BY <1>6, <1>7, ZenonT(40) DEF SecurityInv, Alone
  <1>9. Alone("security")' /\ \A q \in Requests : Active(q, "security")' => q = r
    BY <1>2, <1>8, AloneMoves, ZenonT(40)
  <1>10. req'[r].pc = new /\ req'[r].of = "security" /\ req'[r].cfg = req[r].cfg
    BY <1>2, <1>3, ZenonT(40) DEF RequestMoves
  <1>11. Active(r, "security")' /\ (At(r, "security", "rate") \/ At(r, "security", "clear"))'
    BY <1>4, <1>10, ZenonT(40) DEF Active, At
  <1>12. Reloading("security")' /\ Resetting'
    BY <1>11, ReloadingIsNext, ZenonT(40) DEF Resetting
  <1>13. ResetProgress(r) /\ security.rate = req[r].cfg.rate
    BY <1>6, <1>7, ZenonT(40) DEF SecurityInv, ResetProgress
  <1>14. limiter'.cap = Limits(security.rate).cap
    <2>1. CASE new = "rate"
      BY <1>2, <1>13, <2>1, ResetCapacitySets, ZenonT(40)
    <2>2. CASE new = "clear"
      <3>1. At(r, "security", "rate")
        BY <1>2, <2>2, ReloadMoves, ZenonT(40)
      <3>2. limiter'.cap = limiter.cap
        BY <1>2, <2>2, ResetRateSets, ZenonT(40)
      <3>3. QED
        BY <1>13, <3>1, <3>2, ZenonT(40) DEF ResetProgress
    <2>3. QED
      BY <2>1, <2>2
  <1>15. new = "clear" => limiter'.refill = security.rate
    BY <1>2, <1>13, ResetRateSets, ZenonT(40)
  <1>16. ASSUME NEW q \in Requests PROVE ResetProgress(q)'
    <2>1. CASE q = r
      BY <1>1, <1>10, <1>13, <1>14, <1>15, <2>1, ZenonT(40) DEF ResetProgress, At
    <2>2. CASE q # r
      BY <1>4, <1>9, <2>2, ZenonT(40) DEF ResetProgress, At, Active
    <2>3. QED
      BY <2>1, <2>2
  <1>17. QED
    BY <1>9, <1>12, <1>16, ZenonT(40)

\* Clearing the buckets leaves none with the old limits.
LEMMA ClearKeeps ==
  ASSUME TypeOK, SecurityInv, NEW r \in Requests, Clear(r)
  PROVE  SecurityInv'
  <1>1. /\ UNCHANGED <<security, limiter, overlapped, pub>>
        /\ raced' = raced \cup Consuming /\ buckets' = [c \in Clients |-> None]
    BY ZenonT(40) DEF Clear
  <1>2. At(r, "security", "clear") /\ RequestMoves(r, "done")
    BY ReloadMoves, ZenonT(40)
  <1>3. "clear" \notin {"wait", "done"} /\ {"rate", "clear"} \cap {"wait", "done"} = {}
    BY SMTT(40)
  <1>4. \A k \in Conns : Loaded(k)'
    BY <1>1, ResetRaces, ZenonT(40)
  <1>5. SUFFICES ASSUME "security" \notin overlapped
                 PROVE  /\ Alone("security")'
                        /\ \A q \in Requests : ResetProgress(q)'
                        /\ limiter' = Limits(security'.rate)
                        /\ \A c \in Clients \ raced' : Uniform(c)'
    BY <1>1, <1>4, ZenonT(40) DEF SecurityInv
  <1>6. Active(r, "security")
    BY <1>2, <1>3, ZenonT(40) DEF Active, At
  <1>7. \A q \in Requests : Active(q, "security") => q = r
    BY <1>5, <1>6, ZenonT(40) DEF SecurityInv, Alone
  <1>8. Alone("security")' /\ \A q \in Requests : Active(q, "security")' => q = r
    BY <1>2, <1>7, AloneMoves, ZenonT(40)
  <1>9. \A q \in Requests : ~Active(q, "security")'
    BY <1>2, <1>8, ZenonT(40) DEF RequestMoves, Active
  <1>10. ASSUME NEW q \in Requests PROVE ResetProgress(q)'
    BY <1>3, <1>9, ZenonT(40) DEF ResetProgress, At, Active
  <1>11. limiter.cap = Limits(security.rate).cap /\ limiter.refill = security.rate
    BY <1>2, <1>5, ZenonT(40) DEF SecurityInv, ResetProgress
  <1>12. limiter = Limits(security.rate)
    <2>1. Limits(security.rate) \in [cap : Nat, refill : Nat] /\ limiter \in [cap : Nat, refill : Nat]
      BY LimitsTyped, ZenonT(40) DEF TypeOK
    <2>2. Limits(security.rate).refill = security.rate
      BY ZenonT(40) DEF Limits
    <2>3. QED
      <3>1. PICK l : l = Limits(security.rate)
        BY ZenonT(40)
      <3>2. l \in [cap : Nat, refill : Nat] /\ limiter.cap = l.cap /\ limiter.refill = l.refill
        BY <1>11, <2>1, <2>2, <3>1, ZenonT(40)
      <3>3. limiter = l
        BY <2>1, <3>2, SMTT(40)
      <3>4. QED
        BY <3>1, <3>3
  <1>13. \A c \in Clients \ raced' : Uniform(c)'
    BY <1>1, ZenonT(40) DEF Uniform
  <1>14. QED
    BY <1>1, <1>8, <1>10, <1>12, <1>13, ZenonT(40)

\* Every step keeps the limits of one configuration together.
LEMMA SecurityStep ==
  ASSUME TypeOK, RateInv, SecurityInv, [Next]_vars
  PROVE  SecurityInv'
  <1>0. overlapped \subseteq overlapped'
    BY SettingsKept, ZenonT(40)
  <1>1. ASSUME NEW r \in Requests, ReloadPlugin(r) \/ ReplaceForwarder(r) PROVE SecurityInv'
    <2>1. UNCHANGED <<limiter, security, raced, buckets>>
      BY <1>1, ZenonT(40) DEF ReloadPlugin, ReplaceForwarder
    <2>2. req[r].of = "plugin" /\ \E new : RequestMoves(r, new)
      BY <1>1, ReloadMoves, ZenonT(40) DEF At
    <2>3. req[r].of # "security"
      BY <2>2, SMTT(40)
    <2>4. \A q \in Requests : /\ Active(q, "security")' <=> Active(q, "security")
                              /\ Active(q, "security") => req'[q].cfg = req[q].cfg
                              /\ \A pc : At(q, "security", pc)' <=> At(q, "security", pc)
      BY <2>2, <2>3, OtherRequests, ZenonT(40)
    <2>5. (\A k \in Conns : Loaded(k)') /\ \A c \in Clients \ raced : Uniform(c) => Uniform(c)'
      BY <2>1, LoadedKept, UniformKept, ZenonT(40)
    <2>6. QED
      BY <1>0, <2>1, <2>4, <2>5, SecurityFrame, ZenonT(40)
  <1>2. CASE UNCHANGED <<limiter, security, raced, req>>
    <2>1. \A q \in Requests : /\ Active(q, "security")' <=> Active(q, "security")
                              /\ Active(q, "security") => req'[q].cfg = req[q].cfg
                              /\ \A pc : At(q, "security", pc)' <=> At(q, "security", pc)
      BY <1>2, ZenonT(40) DEF Active, At
    <2>2. (\A k \in Conns : Loaded(k)') /\ \A c \in Clients \ raced : Uniform(c) => Uniform(c)'
      BY <1>2, LoadedKept, UniformKept, ZenonT(40)
    <2>3. QED
      BY <1>0, <1>2, <2>1, <2>2, SecurityFrame, ZenonT(40)
  <1>3. \/ UNCHANGED <<limiter, security, raced, req>>
        \/ \E r \in Requests : Reload(r)
    BY ZenonT(40) DEF Next, vars, Handle, Loop, Submit, LoadRate, LoadCapacity, LoadRefill,
       TakeToken, Judge, ManualPublish, LoadForwarder, TrySend, Disconnect,
       Receive, Post, LoopEnds, others, Tick
  <1>4. QED
    BY <1>1, <1>2, <1>3, ReloadSecurityKeeps, ResetKeeps, ClearKeeps, ZenonT(40) DEF Reload

-----------------------------------------------------------------------------
(***************************************************************************)
(* The initial state.                                                      *)
(***************************************************************************)

\* The initial state is typed.
LEMMA InitTyped ==
  ASSUME Init
  PROVE  TypeOK
  <1>0. PICK s \in Scenarios :
          /\ security = s.security /\ plugin = BuildPolicy(s.plugin) /\ script = s.script
          /\ req = [r \in Requests |-> [pc |-> "wait", of |-> s.reloads[r].of,
                                        cfg |-> s.reloads[r].cfg]]
    BY ZenonT(40) DEF Init
  <1>1. security.rate \in Nat /\ script \in [Conns -> Seq(Published)]
    BY <1>0, ScenariosTyped, ZenonT(40)
  <1>2. limiter \in [cap : Nat, refill : Nat]
    BY <1>1, LimitsTyped, ZenonT(40) DEF Init
  <1>3. plugin.forward = s.plugin.forward
    BY <1>0, ZenonT(40) DEF BuildPolicy
  <1>4. plugin.forward \in ForwardSections
    <2>1. PICK F : F = {s.plugin.forward}
            \cup {s.reloads[r].cfg.forward : r \in {q \in Requests : s.reloads[q].of = "plugin"}}
      BY ZenonT(40)
    <2>2. F \subseteq ForwardSections
      BY <2>1, SMTT(40) DEF ForwardSections
    <2>3. s.plugin.forward \in F
      BY <2>1, ZenonT(40)
    <2>4. QED
      BY <1>3, <2>2, <2>3, ZenonT(40)
  <1>5. ASSUME NEW r \in Requests PROVE req[r] \in Request /\ ConfigTyped(req[r])
    <2>1. req[r] = [pc |-> "wait", of |-> s.reloads[r].of, cfg |-> s.reloads[r].cfg]
      <3>1. req = [q \in Requests |-> [pc |-> "wait", of |-> s.reloads[q].of,
                                        cfg |-> s.reloads[q].cfg]]
        BY <1>0
      <3>2. QED
        BY <3>1, ZenonT(40)
    <2>2. /\ s.reloads[r].of \in UNION {{z.reloads[q].of : q \in Requests} : z \in Scenarios}
          /\ s.reloads[r].cfg \in UNION {{z.reloads[q].cfg : q \in Requests} : z \in Scenarios}
      BY SMTT(40)
    <2>9. PICK o, c : o = s.reloads[r].of /\ c = s.reloads[r].cfg
      BY ZenonT(40)
    <2>10. req[r] = [pc |-> "wait", of |-> o, cfg |-> c]
      BY <2>1, <2>9, ZenonT(40)
    <2>11. /\ o \in UNION {{z.reloads[q].of : q \in Requests} : z \in Scenarios}
           /\ c \in UNION {{z.reloads[q].cfg : q \in Requests} : z \in Scenarios}
      BY <2>2, <2>9, ZenonT(40)
    <2>3. "wait" \in Phases
      BY PhasesAre, ZenonT(40)
    <2>4. req[r] \in Request
      BY <2>3, <2>10, <2>11, SMTT(40) DEF Request
    <2>5. req[r].of = s.reloads[r].of /\ req[r].cfg = s.reloads[r].cfg
      <3>1. req[r].of = o /\ req[r].cfg = c
        BY <2>10, SMTT(40)
      <3>2. QED
        BY <2>9, <3>1
    <2>6. s.reloads[r].of = "security" => s.reloads[r].cfg.rate \in Nat
      BY ScenariosTyped, ZenonT(40)
    <2>7. ASSUME s.reloads[r].of = "plugin" PROVE s.reloads[r].cfg.forward \in ForwardSections
      <3>1. PICK F : F = {s.plugin.forward}
              \cup {s.reloads[p].cfg.forward : p \in {q \in Requests : s.reloads[q].of = "plugin"}}
        BY ZenonT(40)
      <3>2. F \subseteq ForwardSections
        BY <3>1, SMTT(40) DEF ForwardSections
      <3>3. s.reloads[r].cfg.forward \in F
        BY <2>7, <3>1, ZenonT(40)
      <3>4. QED
        BY <3>2, <3>3, ZenonT(40)
    <2>8. QED
      BY <2>4, <2>5, <2>6, <2>7, ZenonT(40) DEF ConfigTyped
  <1>6. req \in [Requests -> Request]
    <2>1. PICK f : req = [r \in Requests |-> f[r]]
      <3>1. req = [r \in Requests |-> req[r]]
        BY <1>0, ZenonT(40)
      <3>2. QED
        BY <3>1, ZenonT(40)
    <2>2. QED
      BY <1>5, <2>1, ZenonT(40)
  <1>7. fwd \in [Gens -> Forwarder]
    <2>1. ASSUME NEW g \in Gens
          PROVE  (IF g = 0 /\ Valid(plugin.forward) THEN Built(plugin.forward) ELSE Disabled) \in Forwarder
      BY <1>4, BuiltFresh, DisabledFresh, ZenonT(40)
    <2>2. fwd = [g \in Gens |-> IF g = 0 /\ Valid(plugin.forward) THEN Built(plugin.forward)
                                ELSE Disabled]
      BY ZenonT(40) DEF Init
    <2>3. QED
      BY <2>1, <2>2, ZenonT(40)
  <1>8. 0 \in Nat /\ 0 \in Gens
    <2>1. Cardinality(Requests) \in Nat
      BY LimitsNatural, FS_CardinalityType, ZenonT(40)
    <2>2. QED
      BY <2>1, SMTT(40) DEF Gens
  <1>9. /\ buckets \in [Clients -> Bucket \cup {None}] /\ pub \in [Conns -> {Idle, Gone} \cup Handling]
        /\ current \in Gens /\ built \in Nat /\ now \in Nat /\ raced \subseteq Clients
        /\ overlapped \subseteq {"security", "plugin"}
    BY <1>8, ZenonT(40) DEF Init
  <1>10. QED
    BY <1>1, <1>2, <1>4, <1>5, <1>6, <1>7, <1>9, ZenonT(40) DEF TypeOK

\* The invariant holds at the start.
LEMMA InitInv ==
  ASSUME Init
  PROVE  Inv
  <1>1. TypeOK
    BY InitTyped
  <1>2. Cardinality(Requests) \in Nat
    BY LimitsNatural, FS_CardinalityType, ZenonT(40)
  <1>3. Numbered
    <2>1. Cardinality(Ended) \in Nat
      BY LimitsNatural, FS_Subset, FS_CardinalityType, ZenonT(40) DEF Ended
    <2>2. built = 0 /\ current = 0
      BY ZenonT(40) DEF Init
    <2>3. QED
      BY <2>1, <2>2, SMTT(40) DEF Numbered
  <1>4. RateInv
    BY ZenonT(40) DEF Init, RateInv
  <1>5. \A r \in Requests : req[r].pc = "wait"
    <2>1. PICK s \in Scenarios :
            req = [r \in Requests |-> [pc |-> "wait", of |-> s.reloads[r].of,
                                        cfg |-> s.reloads[r].cfg]]
      BY ZenonT(40) DEF Init
    <2>2. QED
      BY <2>1, ZenonT(40)
  <1>6. "wait" \in {"wait", "done"} /\ "wait" # "rate" /\ "wait" # "clear"
    BY SMTT(40)
  <1>7. \A r \in Requests : /\ ~Active(r, "security") /\ ~Active(r, "plugin")
                            /\ ~At(r, "security", "rate") /\ ~At(r, "security", "clear")
    BY <1>5, <1>6, ZenonT(40) DEF Active, At
  <1>8. \A k \in Conns : Loaded(k)
    <2>1. \A k \in Conns : pub[k].pc = "idle"
      BY ZenonT(40) DEF Init, Idle
    <2>2. "idle" \notin {"refill", "bucket"} /\ "idle" # "bucket"
      BY SMTT(40)
    <2>3. QED
      BY <2>1, <2>2, ZenonT(40) DEF Loaded
  <1>9. SecurityInv
    <2>1. Alone("security") /\ \A r \in Requests : ResetProgress(r)
      BY <1>7, ZenonT(40) DEF Alone, ResetProgress
    <2>2. limiter = Limits(security.rate) /\ \A c \in Clients : Uniform(c)
      BY ZenonT(40) DEF Init, Uniform
    <2>3. QED
      BY <1>8, <2>1, <2>2, ZenonT(40) DEF SecurityInv
  <1>10. current = 0 /\ 0 \in Gens /\ 0 \in 0 .. 0 /\ built = 0
    <2>1. 0 \in Gens /\ 0 \in 0 .. 0
      BY <1>2, SMTT(40) DEF Gens
    <2>2. QED
      BY <2>1, ZenonT(40) DEF Init
  <1>11. PluginInv
    <2>1. Alone("plugin")
      BY <1>7, ZenonT(40) DEF Alone
    <2>2. Valid(plugin.forward) => fwd[current] = Built(plugin.forward)
      BY <1>10, ZenonT(40) DEF Init
    <2>3. QED
      BY <1>7, <2>1, <2>2, ZenonT(40) DEF PluginInv, Matches
  <1>12. ForwardInv
    <2>1. ASSUME NEW g \in Gens PROVE ForwarderOK(fwd[g]) /\ fwd[g].loop # "ended"
      <3>1. fwd[g] = Built(plugin.forward) \/ fwd[g] = Disabled
        BY ZenonT(40) DEF Init
      <3>2. plugin.forward \in ForwardSections
        BY <1>1, ZenonT(40) DEF TypeOK
      <3>3. QED
        BY <3>1, <3>2, BuiltFresh, DisabledFresh, ZenonT(40)
    <2>2. \A k \in Conns : pub[k].pc = "idle"
      BY ZenonT(40) DEF Init, Idle
    <2>3. "idle" # "send"
      BY SMTT(40)
    <2>4. QED
      BY <1>10, <2>1, <2>2, <2>3, ZenonT(40) DEF ForwardInv, Served
  <1>13. QED
    BY <1>1, <1>3, <1>4, <1>9, <1>11, <1>12, ZenonT(40) DEF Inv

-----------------------------------------------------------------------------
(***************************************************************************)
(* What the inductive invariant says of the properties.                    *)
(***************************************************************************)

\* A queue that has the last places of a sequence is its end.
LEMMA SuffixIs ==
  ASSUME NEW S, NEW s \in Seq(S), NEW q \in Seq(S), NEW t \in Nat, t + Len(q) = Len(s),
         \A i \in 1 .. Len(q) : q[i] = s[t + i]
  PROVE  q = SubSeq(s, t + 1, Len(s))
  <1>1. Len(s) \in Nat /\ Len(q) \in Nat
    BY SMTT(40)
  <1>2. PICK r : r = SubSeq(s, t + 1, Len(s))
    BY ZenonT(40)
  <1>3. r \in Seq(S) /\ Len(r) = Len(s) - t
    BY <1>1, <1>2, SMTT(40)
  <1>4. \A i \in 1 .. Len(r) : r[i] = s[t + i]
    BY <1>1, <1>2, SMTT(40)
  <1>5. Len(r) = Len(q)
    BY <1>1, <1>3, SMTT(40)
  <1>6. \A i \in 1 .. Len(q) : r[i] = q[i]
    BY <1>4, <1>5, ZenonT(40)
  <1>7. r = q
    BY <1>3, <1>5, <1>6, SMTT(40)
  <1>8. QED
    BY <1>2, <1>7

\* The places of a sequence with one more element in front.
LEMMA InFront ==
  ASSUME NEW S, NEW q \in Seq(S), NEW h \in S, NEW r, r = <<h>> \o q
  PROVE  /\ r \in Seq(S) /\ Len(q) \in Nat /\ Len(r) = Len(q) + 1 /\ r[1] = h
         /\ \A i \in 1 .. Len(q) : r[i + 1] = q[i]
  BY SMTT(40)

\* Nothing in front of a sequence changes nothing.
LEMMA NothingInFront ==
  ASSUME NEW S, NEW q \in Seq(S)
  PROVE  <<>> \o q = q
  BY SMTT(40)

\* What is still to be dealt with is the end of what entered the queue.
LEMMA RestIsSuffix ==
  ASSUME NEW f \in Forwarder, ForwarderOK(f)
  PROVE  /\ Handled(f) \in 0 .. Len(f.sent)
         /\ InHand(f) \o f.queue = SubSeq(f.sent, Handled(f) + 1, Len(f.sent))
  <1>1. f.queue \in Seq(Published) /\ f.sent \in Seq(Published) /\ f.hand \in Published \cup {None}
    BY ForwarderFields, ZenonT(40)
  <1>2. /\ Len(f.queue) \in Nat /\ Len(f.sent) \in Nat
        /\ Taken(f) \in Nat /\ Taken(f) <= Len(f.sent) /\ Taken(f) + Len(f.queue) = Len(f.sent)
    BY Counts, ZenonT(40)
  <1>3. \A i \in 1 .. Len(f.queue) : f.queue[i] = f.sent[Taken(f) + i]
    BY ZenonT(40) DEF ForwarderOK
  <1>4. CASE f.hand = None
    <2>1. InHand(f) \o f.queue = f.queue
      BY <1>1, <1>4, NothingInFront, ZenonT(40) DEF InHand
    <2>2. f.queue = SubSeq(f.sent, Taken(f) + 1, Len(f.sent))
      BY <1>1, <1>2, <1>3, SuffixIs, ZenonT(40)
    <2>3. Taken(f) \in 0 .. Len(f.sent)
      BY <1>2, SMTT(40)
    <2>4. QED
      BY <1>4, <2>1, <2>2, <2>3, ZenonT(40) DEF Handled
  <1>5. CASE f.hand # None
    <2>1. Taken(f) >= 1 /\ f.hand = f.sent[Taken(f)] /\ f.hand \in Published
      BY <1>1, <1>5, ZenonT(40) DEF ForwarderOK
    <2>2. PICK h \in Published, q \in Seq(Published) : h = f.hand /\ q = f.queue
      BY <1>1, <2>1, ZenonT(40)
    <2>3. PICK r : r = <<h>> \o q
      BY ZenonT(40)
    <2>4. InHand(f) \o f.queue = r
      BY <1>5, <2>2, <2>3, ZenonT(40) DEF InHand
    <2>5. r \in Seq(Published) /\ Len(r) = Len(q) + 1 /\ Len(q) \in Nat
      BY <2>3, InFront, SMTT(40)
    <2>6. r[1] = h /\ \A i \in 1 .. Len(q) : r[i + 1] = q[i]
      BY <2>3, InFront, SMTT(40)
    <2>7. PICK t \in Nat : t = Taken(f) - 1
      BY <1>2, <2>1, SMTT(40)
    <2>8. t + Len(r) = Len(f.sent) /\ t \in 0 .. Len(f.sent)
      <3>1. PICK x \in Nat, y \in Nat, z \in Nat : x = Taken(f) /\ y = Len(f.queue) /\ z = Len(f.sent)
        BY <1>2, ZenonT(40)
      <3>2. Len(r) = y + 1 /\ t = x - 1 /\ x + y = z
        BY <1>2, <2>2, <2>5, <2>7, <3>1, ZenonT(40)
      <3>3. t + (y + 1) = z /\ t \in 0 .. z
        BY <3>2, SMTT(40)
      <3>4. QED
        BY <3>1, <3>2, <3>3, ZenonT(40)
    <2>9. ASSUME NEW i \in 1 .. Len(r) PROVE r[i] = f.sent[t + i]
      <3>1. CASE i = 1
        <4>1. t + 1 = Taken(f)
          BY <1>2, <2>7, SMTT(40)
        <4>2. QED
          BY <2>1, <2>2, <2>6, <3>1, <4>1, ZenonT(40)
      <3>2. CASE i # 1
        <4>1. PICK j \in 1 .. Len(q) : i = j + 1
          <5>1. i - 1 \in 1 .. Len(q) /\ i = (i - 1) + 1
            BY <2>5, <3>2, SMTT(40)
          <5>2. QED
            BY <5>1, ZenonT(40)
        <4>2. t + (j + 1) = Taken(f) + j
          BY <1>2, <2>7, SMTT(40)
        <4>3. r[j + 1] = q[j] /\ q[j] = f.sent[Taken(f) + j]
          BY <1>3, <2>2, <2>6, ZenonT(40)
        <4>4. QED
          BY <4>1, <4>2, <4>3, ZenonT(40)
      <3>3. QED
        BY <3>1, <3>2
    <2>10. r = SubSeq(f.sent, t + 1, Len(f.sent))
      <3>1. \A i \in 1 .. Len(r) : r[i] = f.sent[t + i]
        BY <2>9
      <3>2. r \in Seq(Published) /\ t + Len(r) = Len(f.sent)
        BY <2>5, <2>8
      <3>3. QED
        BY <1>1, <3>1, <3>2, SuffixIs, ZenonT(40)
    <2>11. QED
      BY <1>5, <2>4, <2>7, <2>8, <2>10, ZenonT(40) DEF Handled
  <1>6. QED
    BY <1>4, <1>5, ZenonT(40)

\* What the invariant says about forwarders implies ForwardInOrder.
LEMMA ForwardFollows ==
  ASSUME TypeOK, ForwardInv
  PROVE  ForwardInOrder
  <1>0. \A g \in Gens : fwd[g] \in Forwarder
    BY ZenonT(40) DEF TypeOK
  <1>1. SUFFICES ASSUME NEW g \in Gens, NEW f \in Forwarder, f = fwd[g]
                 PROVE  /\ \E done \in 0 .. Len(f.sent) :
                             /\ InHand(f) \o f.queue = SubSeq(f.sent, done + 1, Len(f.sent))
                             /\ \A d \in 1 .. done : \E i \in DOMAIN f.posts : f.posts[i] = f.sent[d]
                        /\ f.lost = {}
                        /\ f.loop = "ended" => InHand(f) \o f.queue = <<>>
                        /\ \A i, j \in DOMAIN f.posts : i < j =>
                             \/ f.posts[i] = f.posts[j] /\ j = i + 1
                             \/ \E a, b \in DOMAIN f.sent :
                                  a < b /\ f.sent[a] = f.posts[i] /\ f.sent[b] = f.posts[j]
    BY <1>0, ZenonT(40) DEF ForwardInOrder
  <1>2. ForwarderOK(f)
    BY <1>1, ZenonT(40) DEF ForwardInv
  <1>3. f.lost = {} /\ \A i, j \in DOMAIN f.posts : i < j => Ordered(f, i, j)
    BY <1>2, ZenonT(40) DEF ForwarderOK
  <1>4. f.loop = "ended" => InHand(f) \o f.queue = <<>>
    <2>1. f.loop = "ended" => InHand(f) = <<>> /\ f.queue = <<>>
      BY <1>2, ZenonT(40) DEF ForwarderOK, InHand
    <2>2. <<>> \o <<>> = <<>>
      BY SMTT(40)
    <2>3. QED
      BY <2>1, <2>2, ZenonT(40)
  <1>5. \A d \in 1 .. Handled(f) : \E i \in DOMAIN f.posts : f.posts[i] = f.sent[d]
    BY <1>2, ZenonT(40) DEF ForwarderOK, Tried
  <1>6. /\ Handled(f) \in 0 .. Len(f.sent)
        /\ InHand(f) \o f.queue = SubSeq(f.sent, Handled(f) + 1, Len(f.sent))
    BY <1>2, RestIsSuffix, ZenonT(40)
  <1>7. QED
    BY <1>3, <1>4, <1>5, <1>6, ZenonT(40) DEF Ordered

\* What it says about reloads implies ReloadInForce.
LEMMA ReloadFollows ==
  ASSUME SecurityInv, PluginInv
  PROVE  ReloadInForce
  <1>1. ASSUME ~Reloading("security"), "security" \notin overlapped
        PROVE  /\ limiter = Limits(security.rate)
               /\ \A c \in Clients \ raced : Uniform(c)
    <2>1. ~Resetting
      <3>1. {"rate", "clear"} \cap {"wait", "done"} = {}
        BY SMTT(40)
      <3>2. QED
        BY <1>1, <3>1, ZenonT(40) DEF Resetting, Reloading, At
    <2>2. QED
      BY <1>1, <2>1, ZenonT(40) DEF SecurityInv
  <1>2. ASSUME ~Reloading("plugin"), "plugin" \notin overlapped, Valid(plugin.forward)
        PROVE  Matches(fwd[current], plugin.forward)
    BY <1>2, ZenonT(40) DEF PluginInv
  <1>3. QED
    BY <1>1, <1>2, ZenonT(40) DEF ReloadInForce, Uniform, Matches

-----------------------------------------------------------------------------
(***************************************************************************)
(* The theorems.                                                           *)
(***************************************************************************)

\* Every step keeps the invariant.
LEMMA InvStep ==
  ASSUME Inv, [Next]_vars
  PROVE  Inv'
  <1>1. TypeOK /\ Numbered /\ RateInv /\ SecurityInv /\ PluginInv /\ ForwardInv
    BY ZenonT(40) DEF Inv
  <1>2. TypeOK' /\ Numbered' /\ RateInv'
    BY <1>1, TypeStep, NumberedStep, RateStep, ZenonT(40)
  <1>3. SecurityInv' /\ PluginInv' /\ ForwardInv'
    BY <1>1, SecurityStep, PluginStep, ForwardInvStep, ZenonT(40)
  <1>4. QED
    BY <1>2, <1>3, ZenonT(40) DEF Inv

\* The inductive invariant of the publish path: the types, a number for every
\* forwarder reload builds, what each token bucket has given (TokenBucket), how
\* far each reload has come (SecurityGuard::reload, PluginGuard::reload) and
\* what each forward_loop holds.
THEOREM PublishInvariant == Spec => []Inv
  <1>1. Init => Inv
    BY InitInv
  <1>2. Inv /\ [Next]_vars => Inv'
    BY InvStep
  <1>3. QED
    BY <1>1, <1>2, PTL DEF Spec

\* TokenBucket::try_consume: in any stretch of time that ends now, a bucket
\* gave at most its capacity and what it refills meanwhile.
THEOREM BucketsKeepTheRate == Spec => []RateBounded
  <1>1. Inv => RateBounded
    BY RateFollows, ZenonT(40) DEF Inv
  <1>2. QED
    BY <1>1, PublishInvariant, PTL

\* SecurityGuard::reload and PluginGuard::reload: when no reload is running, the
\* limiter, the buckets and the forwarder are those of the configuration stored,
\* apart from overlapping reloads, raced buckets and invalid forward sections.
THEOREM ReloadsTakeEffect == Spec => []ReloadInForce
  <1>1. Inv => ReloadInForce
    BY ReloadFollows, ZenonT(40) DEF Inv
  <1>2. QED
    BY <1>1, PublishInvariant, PTL

\* Forwarder::try_forward and forward_loop: what entered the queue is dealt with
\* in order, none of it lost when the forwarder is replaced, and the endpoint
\* sees a message again only as the retry directly after the original.
THEOREM ForwarderInOrder == Spec => []ForwardInOrder
  <1>1. Inv => ForwardInOrder
    BY ForwardFollows, ZenonT(40) DEF Inv
  <1>2. QED
    BY <1>1, PublishInvariant, PTL
=============================================================================
