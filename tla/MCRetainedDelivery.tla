------------------------- MODULE MCRetainedDelivery -------------------------
EXTENDS RetainedDelivery, TLC

CONSTANTS c1, c2

Symmetry == Permutations(Clients)
=============================================================================
