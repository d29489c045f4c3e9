SPECIFICATION Spec
CONSTANTS
    k1 = k1
    k2 = k2
    api = api
    a = a
    adm = adm
    t1 = t1
    t2 = t2
    good = good
    bad = bad
    None = None
    r1 = r1
    r2 = r2
    Conns <- MCConns
    Admin <- MCAdmin
    ClientOf <- MCClientOf
    Scenarios <- MCScenarios
    MaxPacket = 2
    DefaultQueue = 2
    Requests <- MCRequests
    MaxTime = 1
INVARIANTS
    RateBounded
    ReloadInForce
    ForwardInOrder
PROPERTIES
    ForwardEnds
CHECK_DEADLOCK FALSE
