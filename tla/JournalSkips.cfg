SPECIFICATION Spec
CONSTANTS
    ItemCount = 2
    Size <- WholeAndShort
    PieceSize = 2
    MaxAttempts = 3
    MaxVersions = 1
    MaxRestarts = 0
    MaxAtWork = 1
    Buffer = 1
    Policies = {"rename"}
INVARIANTS
    SkippedBytesAreThere
