-------------------------- MODULE SubscriptionTrie --------------------------
(***************************************************************************)
(* The topic tree of src/src/broker/subscription.rs and the two ways the   *)
(* broker matches a topic against filters: collect_matches walks the tree  *)
(* to route a message, topic_matches_filter compares level by level (for   *)
(* retained messages, shared subscriptions, the topic ACL and the          *)
(* forwarder).                                                             *)
(*                                                                         *)
(* Topics and filters are sequences of levels, as split('/') gives them;   *)
(* the empty string is the one level "".  Every operation here runs under  *)
(* one lock of the tree, so it is one action.                              *)
(***************************************************************************)
EXTENDS Integers, Sequences, FiniteSets

CONSTANTS
    Clients,    \* client identifiers
    Filters,    \* filters that clients send, valid or not
    Topics,     \* topics that are published: no level holds a wildcard
    Malformed,  \* levels that hold '#' or '+' and something else
    QoS,        \* quality of service levels
    MaxHeld,    \* bound: subscriptions at any time
    MaxPurges   \* bound: calls of unsubscribe_all

ASSUME TrieAssumption ==
    /\ \A t \in Topics : t # <<>> /\ \A i \in DOMAIN t : t[i] \notin {"+", "#"} \cup Malformed
    /\ \A f \in Filters : f # <<>>
    /\ QoS \subseteq 0 .. 2

VARIABLES
    root,   \* SubscriptionTree.root
    held,   \* history: what each client has subscribed to
    purges  \* calls of unsubscribe_all so far

vars == <<root, held, purges>>

Empty == <<"">>

Put(f, x, v) == [y \in DOMAIN f \cup {x} |-> IF y = x THEN v ELSE f[y]]

Drop(f, x) == [y \in DOMAIN f \ {x} |-> f[y]]

----------------------------------------------------------------------------
(***************************************************************************)
(* The tree.  A node holds its children by level, those of the wildcards   *)
(* included, and its subscribers with their QoS.                           *)
(***************************************************************************)
NewNode == [kids |-> <<>>, subscribers |-> <<>>]

IsEmpty(node) == DOMAIN node.kids = {} /\ DOMAIN node.subscribers = {}

\* Node::child_for_segment_mut.
ChildForSegment(node, seg) == IF seg \in DOMAIN node.kids THEN node.kids[seg] ELSE NewNode

RECURSIVE Insert(_, _, _, _)
Insert(node, segs, c, q) ==
    IF segs = <<>>
    THEN [node EXCEPT !.subscribers = Put(@, c, q)]
    ELSE [node EXCEPT !.kids =
             Put(@, Head(segs), Insert(ChildForSegment(node, Head(segs)), Tail(segs), c, q))]

\* Mutant: no pruning.
RemoveUnprunedMutant(node, segs, c) ==
    LET RECURSIVE Rm(_, _)
        Rm(n, s) ==
            IF s = <<>>
            THEN [node |-> [n EXCEPT !.subscribers = Drop(@, c)],
                  removed |-> c \in DOMAIN n.subscribers]
            ELSE IF Head(s) \notin DOMAIN n.kids THEN [node |-> n, removed |-> FALSE]
            ELSE LET r == Rm(n.kids[Head(s)], Tail(s)) IN
                 [node |-> [n EXCEPT !.kids = Put(@, Head(s), r.node)], removed |-> r.removed]
    IN Rm(node, segs)

\* remove_recursive: the new node and whether a subscriber was removed.
RECURSIVE RemoveRecursive(_, _, _)
RemoveRecursive(node, segs, c) ==
    IF segs = <<>>
    THEN [node |-> [node EXCEPT !.subscribers = Drop(@, c)],
          removed |-> c \in DOMAIN node.subscribers]
    ELSE IF Head(segs) \notin DOMAIN node.kids
    THEN [node |-> node, removed |-> FALSE]
    ELSE LET r == RemoveRecursive(node.kids[Head(segs)], Tail(segs), c)
             prune == r.removed /\ IsEmpty(r.node)
         IN [node |-> [node EXCEPT !.kids = IF prune THEN Drop(@, Head(segs))
                                            ELSE Put(@, Head(segs), r.node)],
             removed |-> r.removed]

\* remove_all, which leaves empty nodes behind.
RECURSIVE RemoveAll(_, _)
RemoveAll(node, c) ==
    [kids |-> [s \in DOMAIN node.kids |-> RemoveAll(node.kids[s], c)],
     subscribers |-> Drop(node.subscribers, c)]

Subscribers(node) == {<<c, node.subscribers[c]>> : c \in DOMAIN node.subscribers}

\* Mutant: '#' is not looked at once the topic has ended.
CollectMatchesMutant(node, segs) ==
    LET RECURSIVE Walk(_, _)
        Walk(n, s) ==
            IF s = <<>> THEN Subscribers(n)
            ELSE (IF "#" \in DOMAIN n.kids THEN Subscribers(n.kids["#"]) ELSE {})
                 \cup UNION {Walk(n.kids[k], Tail(s)) : k \in {Head(s), "+"} \cap DOMAIN n.kids}
    IN Walk(node, segs)

RECURSIVE CollectMatches(_, _)
CollectMatches(node, segs) ==
    (IF "#" \in DOMAIN node.kids THEN Subscribers(node.kids["#"]) ELSE {})
    \cup
    (IF segs = <<>> THEN Subscribers(node)
     ELSE UNION {CollectMatches(node.kids[s], Tail(segs)) :
                     s \in {Head(segs), "+"} \cap DOMAIN node.kids})

\* Of pairs of client and QoS, each client once with its largest QoS.
Best(pairs) == {p \in pairs : \A q \in pairs : q[1] = p[1] => q[2] <= p[2]}

\* SubscriptionTree::matches.
Matches(topic) == IF topic = Empty THEN {} ELSE Best(CollectMatches(root, topic))

----------------------------------------------------------------------------
(***************************************************************************)
(* Filters by themselves.                                                  *)
(***************************************************************************)

\* validate_filter.
ValidFilter(filter) ==
    /\ filter # Empty
    /\ \A i \in DOMAIN filter :
          /\ filter[i] \notin Malformed
          /\ filter[i] = "#" => i = Len(filter)

\* The loop of topic_matches_filter: the number of levels that agree before the
\* first '#' or mismatch.
RECURSIVE Agree(_, _, _)
Agree(topic, filter, i) ==
    IF i < Len(topic) /\ i < Len(filter) /\ filter[i + 1] \in {"+", topic[i + 1]}
    THEN Agree(topic, filter, i + 1)
    ELSE i

TopicMatchesFilter(topic, filter) ==
    LET i == Agree(topic, filter, 0) IN
    /\ topic # Empty /\ filter # Empty
    /\ \/ i < Len(topic) /\ i < Len(filter) /\ filter[i + 1] = "#"
       \/ i = Len(topic) /\ i = Len(filter)
       \/ i = Len(topic) /\ i = Len(filter) - 1 /\ filter[i + 1] = "#"

----------------------------------------------------------------------------
Init ==
    /\ root = NewNode
    /\ held = {}
    /\ purges = 0

Of(c, f) == {h \in held : h.client = c /\ h.filter = f}

\* SubscriptionTree::subscribe under the root lock; an invalid filter is refused.
Subscribe(c, f, q) ==
    /\ ValidFilter(f)
    /\ Cardinality(held \ Of(c, f)) < MaxHeld
    /\ root' = Insert(root, f, c, q)
    /\ held' = (held \ Of(c, f)) \cup {[client |-> c, filter |-> f, qos |-> q]}
    /\ UNCHANGED purges

\* SubscriptionTree::unsubscribe under the root lock, of any filter at all.
Unsubscribe(c, f) ==
    /\ root' = RemoveRecursive(root, f, c).node
    /\ held' = held \ Of(c, f)
    /\ UNCHANGED purges

\* SubscriptionTree::unsubscribe_all under the root lock.
UnsubscribeAll(c) ==
    /\ purges < MaxPurges
    /\ root' = RemoveAll(root, c)
    /\ held' = {h \in held : h.client # c}
    /\ purges' = purges + 1

Next ==
    \E c \in Clients :
        \/ \E f \in Filters : Unsubscribe(c, f) \/ \E q \in QoS : Subscribe(c, f, q)
        \/ UnsubscribeAll(c)

Spec == Init /\ [][Next]_vars

----------------------------------------------------------------------------
\* The relation that the walk and the matcher both compute: all levels before a
\* final '#' agree with the topic's, and only such a '#' lets the topic have more
\* levels.  A first level that begins with '$' is a level like any other: the
\* code has no rule that keeps a leading wildcard from matching it, as MQTT does.
LevelsAgree(topic, filter) ==
    LET open == filter[Len(filter)] = "#"
        n == IF open THEN Len(filter) - 1 ELSE Len(filter)
    IN /\ IF open THEN Len(topic) >= n ELSE Len(topic) = n
       /\ \A i \in 1 .. n : filter[i] \in {"+", topic[i]}

\* Each client with a subscription that matches, once, at its largest QoS.
Deserving(topic, Match(_, _)) ==
    Best({<<h.client, h.qos>> : h \in {g \in held : Match(topic, g.filter)}})

\* A message is routed to exactly the clients that hold a filter whose levels
\* agree with its topic, each once at its largest QoS, whatever was subscribed,
\* unsubscribed and pruned before (matches), and a subscription gets the retained
\* messages of exactly those topics too: the tree, the level-by-level matcher
\* (topic_matches_filter) and the set of subscriptions held agree.
RoutedToHolders ==
    \A t \in Topics :
        /\ t # Empty => Matches(t) = Deserving(t, LevelsAgree)
        /\ Matches(t) = Deserving(t, TopicMatchesFilter)

RECURSIVE DeadLeaf(_)
DeadLeaf(node) == \E s \in DOMAIN node.kids : IsEmpty(node.kids[s]) \/ DeadLeaf(node.kids[s])

\* UNSUBSCRIBE leaves no empty branch behind (the pruning of remove_recursive);
\* only unsubscribe_all does.
BranchesPruned == purges = 0 => ~DeadLeaf(root)
=============================================================================
