CONSTANTS
    TaskCapacity = 4
    NumThreads = 3
    MaxTaskId = 5
    c1 = c1
    c2 = c2
    Callers <- MCCallers
SPECIFICATION StateSpec
INVARIANTS
    OwnershipConsistent
    CapacityRespected
    WorkIsReserved
    NoLostTerminationWakeup
PROPERTIES
    StateKeepsContract
