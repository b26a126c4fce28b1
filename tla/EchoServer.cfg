CONSTANTS
    MAX_LINE = 3
    MaxBytes = 5
SPECIFICATION FairSpec
CHECK_DEADLOCK FALSE
INVARIANTS
    IndicesOrdered
    LinePendingHasEvent
    EchoInOrder
PROPERTY LineIsSent
