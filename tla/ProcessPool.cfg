CONSTANTS
    m_process_number = 3
    Parent = Parent
    MaxConns = 2
    MaxKills = 1
    MaxCrashes = 1
SPECIFICATION FairSpec
CHECK_DEADLOCK FALSE
INVARIANTS
    ParentLeavesLast
    ZombieIsAnnounced
    RoundRobin
PROPERTY ShutdownCompletes
