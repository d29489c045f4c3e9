SPECIFICATION Spec
CONSTANTS
    p1 = p1
    p2 = p2
    a = a
    b = b
    t1 = t1
    t2 = t2
    t3 = t3
    None = None
    Peers = {p1, p2}
    Clients = {a, b}
    Topics = {t1, t2, t3}
    ShortTopics = {t2}
    ShortId <- LastId
    TopicIdMax = 2
    MaxConnections = 2
    Others = {0, 1}
    QueueCap = 1
    Devices <- Roaming
    MaxEpochs = 2
    MaxInputs = 4
INVARIANTS
    TopicIdsHold
    GaugeUnlessDrifted
    OnlineIsWatched
PROPERTIES
    SilentGoesOffline
    LostForwarderEnds
    ShutdownOffline
\* Devices may fall silent for good, and a shutdown ends the gateway.
CHECK_DEADLOCK FALSE
