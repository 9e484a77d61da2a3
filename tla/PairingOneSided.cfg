SPECIFICATION Spec
CONSTANTS
    Devices = {d, e}
    MaxGenerations = 1
    MaxRequests = 1
    MaxPending = 1
    SaveMayFail = FALSE
    CrashesHappen = FALSE
INVARIANTS
    TrustIsMutual
