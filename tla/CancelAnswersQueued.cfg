CONSTANTS
    TaskCapacity = 2
    NumThreads = 1
    MaxTaskId = 2
    c1 = c1
    c2 = c2
    w1 = w1
    w2 = w2
    w3 = w3
    Callers <- TwoCallers
    Workers <- OneWorker
SPECIFICATION HistorySpec
INVARIANT SucceedsOnlyWhileQueued
CHECK_DEADLOCK FALSE
