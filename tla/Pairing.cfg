SPECIFICATION Spec
CONSTANTS
    Devices = {d, e}
    MaxGenerations = 2
    MaxRequests = 2
    MaxPending = 1
    SaveMayFail = TRUE
    CrashesHappen = TRUE
INVARIANTS
    TypeOK
    TrustNeedsBothUsers
    RevokedStaysRevoked
PROPERTIES
    EveryCommandReturns
