CONSTANTS
    TaskCapacity = 2
    NumThreads = 2
    MaxTaskId = 3
    t1 = t1
    t2 = t2
    p1 = p1
    p2 = p2
    a1 = a1
    Callers = {}
    Threads <- TwoThreads
    Producers <- TwoProducers
    Awaiters <- OneAwaiter
    Panicky = {p2}
    Reentrant = {a1}
    Careless = {p2}
SPECIFICATION Spec
INVARIANTS
    ProducerNotForgotten
    AwaiterNotForgotten
    AwaitedTerminationIsReal
    NothingDropped
    RestIsClean
PROPERTIES
    KeepsStateProtocol
    NotifyingSpendsWork
