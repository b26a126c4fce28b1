CONSTANTS
    Workers = {w1, w2}
    NumTasks = 1
    None = None
SPECIFICATION FairSpec
PROPERTY DestroyReturns
