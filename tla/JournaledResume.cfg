SPECIFICATION Spec
CONSTANTS
    ItemCount = 2
    Size <- WholeAndShort
    PieceSize = 2
    MaxAttempts = 2
    MaxVersions = 2
    MaxRestarts = 1
    MaxAtWork = 1
    Buffer = 1
    Policies = {"rename", "skip"}
INVARIANTS
    TypeOK
    BothCountTheSamePieces
    CompletionAccountsForAll
    NothingMixed
    JournalledCompleteIsPublished
    CompletedMeansDelivered
    CompletedHistoryIsTrue
