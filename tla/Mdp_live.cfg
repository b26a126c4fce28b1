CONSTANTS
    Workers = {w1}
    Clients = {c1}
    AsyncClients = {}
    Services = {echo}
    MmiNames = {"mmi.service", "mmi.unknown"}
    None = None
    MaxSockets = 2
    MaxQueue = 2
    MaxBeats = 1
    MaxRestarts = 1
    Timely = TRUE
    HEARTBEAT_LIVENESS = 2
    MaxCrashes = 0
    Retries = 2
    MaxRequests = 1
SPECIFICATION FairSpec
CHECK_DEADLOCK FALSE
PROPERTIES
    WorkerComesBack
    BacklogDrains
    ClientReturns
