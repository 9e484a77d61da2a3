SPECIFICATION Spec
CONSTANTS
    ItemCount = 2
    Size = 2
    MaxAttempts = 2
    MaxVersions = 2
    MaxRestarts = 1
    Buffer = 1
    Policies = {"rename", "skip"}
    FilesAppear = TRUE
    EditsAnyTime = FALSE
INVARIANTS
    TypeOK
    NothingMixed
    CompletedMeansDelivered
PROPERTIES
    OthersFilesKept
