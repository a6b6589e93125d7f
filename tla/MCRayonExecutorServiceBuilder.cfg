CONSTANTS
    Values <- MCValues
    AvailableParallelism = 0
    MaxPoolThreads = 2
SPECIFICATION Spec
INVARIANTS
    NoUnaskedPool
