CONSTANTS
  NoMessage = NoMessage
  c1 = c1
  c2 = c2
  Clients = {c1, c2}
  Publishers = {c1, c2}
  Kinds = {"plain", "value", "clear"}
  ChannelSize = 1
  SetMayFail = TRUE
  TableMayFill = TRUE
  MayRestart = TRUE
  MaxPublishes = 2
  MaxSubscribes = 2
SPECIFICATION Spec
SYMMETRY Symmetry
CHECK_DEADLOCK FALSE
INVARIANTS
  MapMatchesStorage
  SubscriberUpToDate
  LastSentNotOlder
