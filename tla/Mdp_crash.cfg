CONSTANTS
    Workers = {w1}
    Clients = {c1}
    AsyncClients = {}
    Services = {echo}
    MmiNames = {}
    None = None
    MaxSockets = 3
    MaxQueue = 2
    MaxBeats = 1
    MaxRestarts = 1
    Timely = FALSE
    HEARTBEAT_LIVENESS = 1
    MaxCrashes = 1
    Retries = 2
    MaxRequests = 2
SPECIFICATION Spec
CHECK_DEADLOCK FALSE
INVARIANTS
    OneRequestPerWorker
    RepliesMatch
    RequestConserved
