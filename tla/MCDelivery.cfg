\* One connector and three artifacts of one name; a death, a refused operation or an edit.
SPECIFICATION DSpec
CONSTANTS
    file = file
    twin = twin
    note = note
    name = name
    fileBytes = fileBytes
    fileNote = fileNote
    twinNote = twinNote
    noteText = noteText
    NoText = NoText
    None = None
    Partial = Partial
    Foreign = Foreign
    Artifacts <- MCArtifacts
    Notes <- MCNotes
    NameOf <- MCNameOf
    ContentOf <- MCContentOf
    NoteOf <- MCNoteOf
    Connectors = {c1}
    Tries = 2
    Listed = 1
    MaxTroubles = 1
INVARIANTS
    DTypeOK
    BytesFollowState
    SavedInOnePlace
    OnlyDeliveriesStay
    DeliveredWhole
PROPERTIES
    KeepsPromise
    OthersFilesStay
CHECK_DEADLOCK FALSE
