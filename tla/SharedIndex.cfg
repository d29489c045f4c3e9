CONSTANTS
  a1 = a1
  a2 = a2
  a3 = a3
  f1 = f1
  g1 = g1
  Clients = {1, 2, 3}
  Actors = {a1, a2, a3}
  ActsFor <- OneEach
  Plain = {f1}
  Shared = {g1}
  QoS = {1}
  Off = Off
  MaxRoutes = 4
SPECIFICATION IndexSpec
INVARIANTS
  IndexMatchesStoreAlone
  RoundRobinFair
