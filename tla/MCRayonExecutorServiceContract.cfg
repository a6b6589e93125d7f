CONSTANTS
    TaskCapacity = 2
    NumThreads = 2
    MaxTaskId = 2
    c1 = c1
    c2 = c2
    w1 = w1
    w2 = w2
    w3 = w3
    Callers <- TwoCallers
    Workers <- TwoWorkers
SPECIFICATION FairSpec
CHECK_DEADLOCK FALSE
PROPERTIES
    ImplementsContract
