CONSTANTS
  c1 = c1
  k1 = k1
  k2 = k2
  f1 = f1
  Clients = {c1}
  Conns = {k1, k2}
  Filters = {f1}
  Requests <- ZeroRequest
  Actors = {"shutdown"}
  MaxSubs = 1
  MaxPackets <- OneTalks
  NoEntry = NoEntry
  NoWill = NoWill
SPECIFICATION FairSpec
CHECK_DEADLOCK FALSE
PROPERTIES
  DisplacedEventuallyDone
  ShutdownDrains
