--------------------------- MODULE MCOutboundQos ---------------------------
EXTENDS OutboundQos

CONSTANTS m1, m2, m3
=============================================================================
