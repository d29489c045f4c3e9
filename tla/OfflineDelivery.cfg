CONSTANTS
  r1 = r1
  r2 = r2
  Routers = {r1, r2}
  MaxMessages = 3
  Plans <- AloneOrTwo
  QoS0 = {2}
  MaxEpochs = 3
  MaxRestarts = 2
  ChannelCap = 1
  MaxInflight = 1
  MaxOffline = 2
  TtlMayPass = TRUE
  DiskMayFail = TRUE
SPECIFICATION FairSpec
CHECK_DEADLOCK FALSE
INVARIANTS
  NothingVanishes
  SentOncePerRun
  InOrder
PROPERTIES
  Settles
