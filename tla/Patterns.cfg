CONSTANTS
    Keys = {k1, k2}
    Clients = {c1}
    Base = 2
    HighWater = 2
    MaxUpdates = 8
    PirateClients = {p1}
    Workers = {w1, w2}
    PirateServer = w1
    None = None
    READY = READY
    HEARTBEAT = HEARTBEAT
    REQUEST_RETRIES <- Retries
    MaxSequence <- RequestCounts
    HEARTBEAT_LIVENESS = 2
    Expiry = 2
    MaxSocket = 1
    MaxInbox = 1
    ChatClients = {1, 2, 3}
    Fds = {1, 2, 3}
    MAX_CLNT = 4
    MaxMessages = 1
SPECIFICATION BoundedSpec
CHECK_DEADLOCK FALSE
INVARIANTS
    ReplicaConsistent
    RangeIsExact
    NoStaleReply
    OneAtATime
    ListInOrder
    SameOrder
PROPERTY NeverBack
