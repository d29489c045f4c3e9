CONSTANTS
  c1 = c1
  k1 = k1
  k2 = k2
  f1 = f1
  Clients = {c1}
  Conns = {k1, k2}
  Filters = {}
  Requests <- TakeoverRequests
  Actors = {"sweeper", "admin"}
  MaxSubs = 1
  MaxPackets <- Silent
  NoEntry = NoEntry
  NoWill = NoWill
SPECIFICATION Spec
SYMMETRY ConnSymmetry
CHECK_DEADLOCK FALSE
INVARIANTS
  OnlineSessionHasTask
  TaskKeepsSession
  DisplacedNeverUnsubscribes
  OnlineCountAccounted
  WillFiredRight
PROPERTY ImplementsOwnership
