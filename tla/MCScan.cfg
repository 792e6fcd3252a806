\* The daemon and the "scan" command: four scans, one edit, one failure or death.
SPECIFICATION SSpec
CONSTANTS
    NPaths = 2
    Contents = {a, b}
    None = None
    Scanners = {s, t}
    Confirmations = 2
    MaxIds = 4
    MaxEdits = 1
    MaxScans = 4
    MaxTroubles = 1
SYMMETRY MCSymmetry
INVARIANTS
    STypeOK
    SavedIsAccepted
PROPERTIES
    PresentIsKept
    LiveIsFound
    FoundIsKnown
CHECK_DEADLOCK FALSE
