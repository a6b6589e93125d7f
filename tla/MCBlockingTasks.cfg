CONSTANTS
    TaskCapacity = 4
    NumThreads = 3
    MaxTaskId = 4
    Callers <- NoCallers
SPECIFICATION FairSpec
INVARIANTS
    EndNeverSeenFromInside
    PoolNotStuck
PROPERTIES
    ResultsArrive
