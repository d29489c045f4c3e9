CONSTANTS
  m1 = m1
  m2 = m2
  m3 = m3
  Messages = {m1, m2, m3}
  QoS2 = {m1, m2}
  MaxPid = 2
  MaxInflight = 2
  MaxRetries = 1
  Free = Free
SPECIFICATION FairSpec
CHECK_DEADLOCK FALSE
INVARIANTS
  AckedWasReceived
  ExactlyOnce
PROPERTIES
  NeverOverwritten
  SlotsReleased
