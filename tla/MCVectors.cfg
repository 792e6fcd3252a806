\* Three uploads and two disturbances: deletion, expiry, setting, failure or death.
SPECIFICATION VSpec
CONSTANTS
    Versions = {a, b}
    None = None
    Batches <- MCBatches
    MaxAttempts = 2
    MaxUploads = 3
    MaxEvents = 2
SYMMETRY MCSymmetry
INVARIANTS
    VTypeOK
    DeletedLeavesNoVectors
    ReadyUntilDeleted
    MarkedIsCurrent
    NothingLeftBehind
    VisualHasPreviews
CHECK_DEADLOCK FALSE
