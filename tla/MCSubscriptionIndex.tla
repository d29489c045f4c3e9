------------------------ MODULE MCSubscriptionIndex ------------------------
EXTENDS SubscriptionIndex, TLC

CONSTANTS a1, a2, a3, f1, g1

\* One task per client.
OneEach == a1 :> 1 @@ a2 :> 2 @@ a3 :> 3
\* Two tasks for client 1: a new connection and the cleanup of the old one.
TwoForOne == a1 :> 1 @@ a2 :> 1
=============================================================================
