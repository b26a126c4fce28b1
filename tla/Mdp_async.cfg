CONSTANTS
    Workers = {w1, w2}
    Clients = {}
    AsyncClients = {a1}
    Services = {echo, other}
    MmiNames = {}
    None = None
    MaxSockets = 1
    MaxQueue = 2
    MaxBeats = 1
    MaxRestarts = 0
    Timely = FALSE
    HEARTBEAT_LIVENESS = 2
    MaxCrashes = 1
    Retries = 1
    MaxRequests = 2
SYMMETRY Symmetry
SPECIFICATION Spec
CHECK_DEADLOCK FALSE
INVARIANTS
    ListsAgree
    NoIdleBacklog
    AsyncRepliesDistinct
