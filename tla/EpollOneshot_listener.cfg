CONSTANTS
    Conns = {c1, c2}
    Threads = {t1, t2}
    MaxData = 2
    listenfd = listenfd
    None = None
SPECIFICATION Spec
CHECK_DEADLOCK FALSE
INVARIANT ListenerStaysArmed
