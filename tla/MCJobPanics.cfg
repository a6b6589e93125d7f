CONSTANTS
    TaskCapacity = 3
    NumThreads = 2
    MaxTaskId = 4
    Callers <- NoCallers
    Detached <- OneDetached
SPECIFICATION FairSpec
\* An aborted process takes no step.
CHECK_DEADLOCK FALSE
INVARIANTS
    PanicReported
PROPERTIES
    JobsEnd
    PanicsKeepContract
