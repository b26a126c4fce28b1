CONSTANTS
    m_process_number = 2
    Parent = Parent
    MaxConns = 2
    MaxKills = 0
    MaxCrashes = 0
SPECIFICATION FairSpec
CHECK_DEADLOCK FALSE
PROPERTY ConnectionIsAccepted
