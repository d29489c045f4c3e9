-------------------------- MODULE SessionOwnership --------------------------
(***************************************************************************)
(* What the session epochs promise.  At any time a client identifier is    *)
(* served by at most one connection, and a connection claims an identifier *)
(* at most once: after it has been displaced or has given the identifier   *)
(* up, nothing makes it the owner again.                                   *)
(***************************************************************************)
CONSTANTS Clients, Conns, Nobody

VARIABLES
    owner,  \* the connection that serves each client
    spent   \* the connections that have made their claim

ownVars == <<owner, spent>>

Init ==
    /\ owner = [c \in Clients |-> Nobody]
    /\ spent = {}

\* A connection that never owned anything takes an identifier, owned or not.
Claim(c, k) ==
    /\ k \notin spent
    /\ owner' = [owner EXCEPT ![c] = k]
    /\ spent' = spent \cup {k}

\* The owner leaves, or its session is removed.
Release(c) ==
    /\ owner[c] # Nobody
    /\ owner' = [owner EXCEPT ![c] = Nobody]
    /\ UNCHANGED spent

Next ==
    \/ \E c \in Clients, k \in Conns : Claim(c, k)
    \/ \E c \in Clients : Release(c)

Spec == Init /\ [][Next]_ownVars
=============================================================================
