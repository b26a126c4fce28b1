CONSTANTS
    Workers = {w1, w2, w3}
    NumTasks = 3
    None = None
SPECIFICATION FairSpec
INVARIANTS
    AssertsHoldWithMemory
    QueueIsFifo
    TakenExactlyOnce
    FreedOnlyWhenAllExited
PROPERTY EveryTaskRuns
