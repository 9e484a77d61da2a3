SPECIFICATION Spec
CONSTANTS
    p1 = p1
    p2 = p2
    Job = Job
    Workers = {p1, p2}
    MaxParallel = 1
    QueueLimit = 1
    MaxRetries = 0
    SpawnMayFail = TRUE
    MaxClears = 1
PROPERTIES
    EveryChildExits
    ParentSettles

