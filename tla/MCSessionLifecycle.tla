------------------------- MODULE MCSessionLifecycle -------------------------
EXTENDS SessionLifecycle, TLC

CONSTANTS c1, k1, k2, f1

\* Every CONNECT without a will; the expiry is read only without clean session.
PlainRequests == {r \in Request : ~r.will /\ (r.clean => r.expiry = "none")}

\* A clean CONNECT, and one with a will whose session expires after a while.
TakeoverRequests ==
    [client : Clients, clean : {TRUE}, will : {FALSE}, expiry : {"none"}]
        \cup [client : Clients, clean : {FALSE}, will : {TRUE}, expiry : {"timed"}]

\* The CONNECT whose session expires as soon as the connection ends.
ZeroRequest == {r \in PlainRequests : r.expiry = "zero"}

Silent == [k \in Conns |-> 0]
OneTalks == [k \in Conns |-> IF k = k1 THEN 1 ELSE 0]
AllTalk == [k \in Conns |-> 1]
AllTalkTwice == [k \in Conns |-> 2]

\* Connections differ only by what they do.
ConnSymmetry == Permutations(Conns)
=============================================================================
