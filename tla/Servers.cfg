CONSTANTS
    Conns = {c1, c2}
    Threads = {t1, t2}
    MaxData = 3
    listenfd = listenfd
    None = None
    PirateClient = p1
    W = w1
    READY = READY
    HEARTBEAT = HEARTBEAT
SPECIFICATION ServersSpec
CHECK_DEADLOCK FALSE
INVARIANT OneThreadPerSocket
PROPERTIES
    ArrivalIsRead
    ArrivalsRead
    ExchangeGoesOn
    WorkerReturns
