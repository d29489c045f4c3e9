------------------------- MODULE SubscriptionIndex -------------------------
(***************************************************************************)
(* The three structures of SubscriptionTree (src/src/broker/subscription.rs)*)
(* and their three locks: the topic tree, the table of shared              *)
(* subscriptions and the reverse index from a client to its filters, which *)
(* the session snapshots are read from.  No operation holds two locks, so  *)
(* each lock section is an action.                                         *)
(*                                                                         *)
(* The topic tree is abstracted to the filters and QoS each client holds   *)
(* in it; SubscriptionTrie shows that this is what the tree stores.        *)
(* An actor is a task that calls the tree on behalf of one client: its     *)
(* connection, the cleanup of an earlier connection, the sweeper, ...      *)
(***************************************************************************)
EXTENDS Integers, FiniteSets

CONSTANTS
    Clients,    \* client identifiers, numbers: the order that matches_shared sorts by
    Actors,     \* tasks that subscribe and unsubscribe
    ActsFor,    \* the client of each actor
    Plain,      \* filters kept in the topic tree
    Shared,     \* $share filters; those that differ in group or filter differ
    QoS,        \* quality of service levels
    Off,        \* no subscription
    MaxRoutes   \* bound: messages routed per shared filter

Filters == Plain \cup Shared

Held == [Filters -> QoS \cup {Off}]

ASSUME IndexAssumption ==
    /\ Clients \subseteq Nat
    /\ IsFiniteSet(Clients)
    /\ ActsFor \in [Actors -> Clients]
    /\ Plain \cap Shared = {}
    /\ Off \notin QoS
    /\ MaxRoutes \in Nat

VARIABLES
    store,     \* SubscriptionTree.root and the members of SubscriptionTree.shared
    reverse,   \* SubscriptionTree.reverse
    op,        \* the lock section each actor enters next
    rrCounter, \* SharedEntry.rr_counter, 0 without an entry
    picked     \* history: messages given to each member since the members changed

indexVars == <<store, reverse, op, rrCounter, picked>>

Nothing == [f \in Filters |-> Off]

Idle == [at |-> "idle"]

GoOn(a, next) == op' = [op EXCEPT ![a] = next]

Joined(held, f) == {c \in Clients : held[c][f] # Off}

\* The members of a shared subscription.
Members(f) == Joined(store, f)

\* An entry without members is dropped together with its counter.  History: the
\* round starts again when the members change.
Regroup ==
    /\ rrCounter' = [f \in Shared |-> IF Joined(store', f) = {} THEN 0 ELSE rrCounter[f]]
    /\ picked' = [f \in Shared |-> IF Joined(store', f) = Joined(store, f) THEN picked[f]
                                   ELSE [c \in Clients |-> 0]]

----------------------------------------------------------------------------
(***************************************************************************)
(* subscribe.                                                              *)
(***************************************************************************)
SubscribeStore(a, f, q) ==
    /\ op[a] = Idle
    /\ store' = [store EXCEPT ![ActsFor[a]][f] = q]
    /\ GoOn(a, [at |-> "put", filter |-> f, qos |-> q])
    /\ Regroup
    /\ UNCHANGED reverse

SubscribeIndex(a) ==
    /\ op[a].at = "put"
    /\ reverse' = [reverse EXCEPT ![ActsFor[a]][op[a].filter] = op[a].qos]
    /\ GoOn(a, Idle)
    /\ UNCHANGED <<store, rrCounter, picked>>

----------------------------------------------------------------------------
(***************************************************************************)
(* unsubscribe: the index is touched only if something was removed.        *)
(***************************************************************************)

\* Mutant: the index is left alone.
UnsubscribeStoreMutant(a, f) ==
    /\ op[a] = Idle
    /\ store[ActsFor[a]][f] # Off
    /\ store' = [store EXCEPT ![ActsFor[a]][f] = Off]
    /\ Regroup
    /\ UNCHANGED <<reverse, op>>

UnsubscribeStore(a, f) ==
    /\ op[a] = Idle
    /\ store[ActsFor[a]][f] # Off
    /\ store' = [store EXCEPT ![ActsFor[a]][f] = Off]
    /\ GoOn(a, [at |-> "drop", filter |-> f])
    /\ Regroup
    /\ UNCHANGED reverse

UnsubscribeIndex(a) ==
    /\ op[a].at = "drop"
    /\ reverse' = [reverse EXCEPT ![ActsFor[a]][op[a].filter] = Off]
    /\ GoOn(a, Idle)
    /\ UNCHANGED <<store, rrCounter, picked>>

----------------------------------------------------------------------------
(***************************************************************************)
(* unsubscribe_all.                                                        *)
(***************************************************************************)
ClearRoot(a) ==
    /\ op[a] = Idle
    /\ store' = [store EXCEPT ![ActsFor[a]] = [f \in Filters |-> IF f \in Plain THEN Off ELSE @[f]]]
    /\ GoOn(a, [at |-> "scan"])
    /\ UNCHANGED <<reverse, rrCounter, picked>>

\* The keys are collected under the read lock ...
ScanShared(a) ==
    LET keys == {f \in Shared : store[ActsFor[a]][f] # Off} IN
    /\ op[a].at = "scan"
    /\ GoOn(a, IF keys = {} THEN [at |-> "clear"] ELSE [at |-> "shared", keys |-> keys])
    /\ UNCHANGED <<store, reverse, rrCounter, picked>>

\* ... and the client is removed from them under the write lock.
ClearShared(a) ==
    /\ op[a].at = "shared"
    /\ store' = [store EXCEPT ![ActsFor[a]] =
          [f \in Filters |-> IF f \in op[a].keys THEN Off ELSE @[f]]]
    /\ GoOn(a, [at |-> "clear"])
    /\ Regroup
    /\ UNCHANGED reverse

ClearIndex(a) ==
    /\ op[a].at = "clear"
    /\ reverse' = [reverse EXCEPT ![ActsFor[a]] = Nothing]
    /\ GoOn(a, Idle)
    /\ UNCHANGED <<store, rrCounter, picked>>

----------------------------------------------------------------------------
(***************************************************************************)
(* matches_shared.                                                         *)
(***************************************************************************)

\* The member at position n of the sorted list, counting from 0.
Nth(S, n) == CHOOSE c \in S : Cardinality({d \in S : d < c}) = n

\* Mutant: the counter is read, not advanced.
RouteMutant(f) ==
    LET c == Nth(Members(f), rrCounter[f] % Cardinality(Members(f))) IN
    /\ Members(f) # {}
    /\ \A d \in Clients : picked[f][d] < MaxRoutes
    /\ picked' = [picked EXCEPT ![f][c] = @ + 1]
    /\ UNCHANGED <<store, reverse, op, rrCounter>>

\* A message whose topic matches picks one member; fetch_add gives every message
\* its own number, so the read lock is enough.
Route(f) ==
    LET c == Nth(Members(f), rrCounter[f] % Cardinality(Members(f))) IN
    /\ Members(f) # {}
    /\ rrCounter[f] < MaxRoutes
    /\ rrCounter' = [rrCounter EXCEPT ![f] = @ + 1]
    /\ picked' = [picked EXCEPT ![f][c] = @ + 1]
    /\ UNCHANGED <<store, reverse, op>>

----------------------------------------------------------------------------
IndexInit ==
    /\ store = [c \in Clients |-> Nothing]
    /\ reverse = [c \in Clients |-> Nothing]
    /\ op = [a \in Actors |-> Idle]
    /\ rrCounter = [f \in Shared |-> 0]
    /\ picked = [f \in Shared |-> [c \in Clients |-> 0]]

Call(a) ==
    \/ \E f \in Filters : UnsubscribeStore(a, f) \/ \E q \in QoS : SubscribeStore(a, f, q)
    \/ ClearRoot(a)

Continue(a) ==
    \/ SubscribeIndex(a) \/ UnsubscribeIndex(a)
    \/ ScanShared(a) \/ ClearShared(a) \/ ClearIndex(a)

IndexNext ==
    \/ \E a \in Actors : Call(a) \/ Continue(a)
    \/ \E f \in Shared : Route(f)

IndexSpec == IndexInit /\ [][IndexNext]_indexVars

----------------------------------------------------------------------------
Ops ==
    {Idle} \cup [at : {"put"}, filter : Filters, qos : QoS]
    \cup [at : {"drop"}, filter : Filters]
    \cup [at : {"scan", "clear"}]
    \cup [at : {"shared"}, keys : SUBSET Shared]

\* The types of the variables.
IndexTypeOK ==
    /\ store \in [Clients -> Held]
    /\ reverse \in [Clients -> Held]
    /\ op \in [Actors -> Ops]
    /\ rrCounter \in [Shared -> Nat]
    /\ picked \in [Shared -> [Clients -> Nat]]

Quiet(c) == \A a \in Actors : ActsFor[a] = c => op[a] = Idle

\* The claim of the field's comment: "reverse index: client_id -> all the
\* subscriptions of this client", whenever no call for the client is under way.
IndexMatchesStore == \A c \in Clients : Quiet(c) => reverse[c] = store[c]

Alone(c) == \A a, b \in Actors : ActsFor[a] = c /\ ActsFor[b] = c => a = b

\* The same for a client that one actor acts for: calls for other clients never
\* come in between, although no lock is held across the structures.
IndexMatchesStoreAlone ==
    \A c \in Clients : Alone(c) /\ Quiet(c) => reverse[c] = store[c]

\* Two members of a shared subscription never differ by more than one message
\* since its members last changed, whatever the tasks that route (rr_counter).
RoundRobinFair ==
    \A f \in Shared : \A c, d \in Members(f) : picked[f][c] <= picked[f][d] + 1
=============================================================================
