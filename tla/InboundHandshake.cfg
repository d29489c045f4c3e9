CONSTANTS
  m1 = m1
  m2 = m2
  m3 = m3
  Messages = {m1, m2, m3}
  Level <- TwoOne
  MaxPid = 2
  Free = Free
  MaxConns = 2
  MaxResends = 1
SPECIFICATION FairSpec
CHECK_DEADLOCK FALSE
INVARIANTS
  OncePerConnection
  RefusedStaysRefused
  NotSwallowed
PROPERTIES
  HandshakesComplete
