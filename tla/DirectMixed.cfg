SPECIFICATION Spec
CONSTANTS
    ItemCount = 1
    Size = 2
    MaxAttempts = 3
    MaxVersions = 1
    MaxRestarts = 0
    Buffer = 1
    Policies = {"rename"}
    FilesAppear = FALSE
    EditsAnyTime = TRUE
INVARIANTS
    NothingMixed
