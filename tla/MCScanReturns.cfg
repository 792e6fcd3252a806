\* One scanner and nothing that fails: three edits, four scans.
SPECIFICATION SSpec
CONSTANTS
    NPaths = 2
    Contents = {a, b}
    None = None
    Scanners = {s}
    Confirmations = 2
    MaxIds = 3
    MaxEdits = 3
    MaxScans = 4
    MaxTroubles = 0
SYMMETRY MCSymmetry
INVARIANT SentIsAccepted
CHECK_DEADLOCK FALSE
