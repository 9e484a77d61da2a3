SPECIFICATION Spec
CONSTANTS
    a = a
    b = b
    Workers = {a, b}
    PerTick = 2
    Second = 2
    Chunks <- MixedChunks
INVARIANTS
    TypeOK
PROPERTIES
    ImplementsTokenBucket
    EveryWorkerStops
