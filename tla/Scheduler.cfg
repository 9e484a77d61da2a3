SPECIFICATION FairSchedSpec
CONSTANTS
    Workers = {w1, w2, w3, w4, w5}
    MaxParallel = 2
    QueueLimit = 2
INVARIANTS
    SchedTypeOK
    PermitAccounting
    QueueMatchesWorkers
    SleepingHeadHasWaker
PROPERTIES
    ImplementsAdmission
    EveryWaiterAdmitted
