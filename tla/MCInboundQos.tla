---------------------------- MODULE MCInboundQos ----------------------------
EXTENDS InboundQos, TLC

CONSTANTS m1, m2, m3

\* Two QoS 2 messages and one of QoS 1.
TwoOne == m1 :> 2 @@ m2 :> 2 @@ m3 :> 1
=============================================================================
