---------------------------- MODULE MCSnGateway ----------------------------
EXTENDS SnGateway

CONSTANTS p1, p2, a, b, t1, t2, t3

\* An address two clients use in turn, and a client that moves to another
\* address; both kinds of session.
Roaming == {[peer |-> p1, id |-> a, clean |-> FALSE], [peer |-> p2, id |-> a, clean |-> TRUE],
            [peer |-> p1, id |-> b, clean |-> TRUE]}

\* The short name shares the number of the last id the table hands out.
LastId == [t \in {t2} |-> 2]
=============================================================================
