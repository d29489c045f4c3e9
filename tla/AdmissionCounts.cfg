CONSTANTS
  c1 = c1
  c2 = c2
  c3 = c3
  tcp = tcp
  tls = tls
  Listeners = {tcp, tls}
  MaxBits <- Widths
  ListenerOf <- TwoListeners
  IpOf <- TwoAddresses
  Conns = {c1, c2, c3}
  MaxConnections = 2
  Configs <- AllConfigs
  MaxReloads = 1
SPECIFICATION Spec
CHECK_DEADLOCK FALSE
INVARIANTS
  ListsExact
  CountersExact
  LimitsUnlessRaced
