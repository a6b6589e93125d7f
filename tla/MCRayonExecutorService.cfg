CONSTANTS
    TaskCapacity = 2
    NumThreads = 3
    MaxTaskId = 3
    c1 = c1
    c2 = c2
    w1 = w1
    w2 = w2
    w3 = w3
    Callers <- TwoCallers
    Workers <- ThreeWorkers
SPECIFICATION Spec
CHECK_DEADLOCK FALSE
SYMMETRY Symmetry
INVARIANTS
    TypeOK
    ReservationsConserved
    ClosuresMeetDemand
    SingleOwner
    TerminatedIsQuiescent
    AnswersSound
    EndpointFallbackHarmless
    QuietIsClean
PROPERTIES
    KeepsStateProtocol
    GoingOnSpendsWork
