SPECIFICATION Spec
CONSTANTS
    p1 = p1
    p2 = p2
    p3 = p3
    Job = Job
    Workers = {p1, p2, p3}
    MaxParallel = 1
    QueueLimit = 1
    MaxRetries = 1
    SpawnMayFail = TRUE
    MaxClears = 0
SYMMETRY PeerSymmetry
INVARIANTS
    TypeOK
    ParallelismBounded
    ParentNeverHidesFailure
PROPERTIES
    CancellationIsReported
