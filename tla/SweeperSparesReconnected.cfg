CONSTANTS
  c1 = c1
  k1 = k1
  k2 = k2
  f1 = f1
  Clients = {c1}
  Conns = {k1, k2}
  Filters = {f1}
  Requests <- PlainRequests
  Actors = {"sweeper"}
  MaxSubs = 1
  MaxPackets <- Silent
  NoEntry = NoEntry
  NoWill = NoWill
SPECIFICATION Spec
CHECK_DEADLOCK FALSE
INVARIANT SweeperSparesReconnected
