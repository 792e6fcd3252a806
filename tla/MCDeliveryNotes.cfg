\* One connector and a note whose report may be lost.
SPECIFICATION DSpec
CONSTANTS
    file = file
    twin = twin
    note = note
    name = name
    fileBytes = fileBytes
    fileNote = fileNote
    twinNote = twinNote
    noteText = noteText
    NoText = NoText
    None = None
    Partial = Partial
    Foreign = Foreign
    Artifacts <- MCNotes
    Notes <- MCNotes
    NameOf <- MCNameOf
    ContentOf <- MCContentOf
    NoteOf <- MCNoteOf
    Connectors = {c1}
    Tries = 2
    Listed = 2
    MaxTroubles = 0
INVARIANT NotesStandAlone
CHECK_DEADLOCK FALSE
