\* A search beside the paid calls of a job: two revisions, two attempts whose estimates do not
\* both fit, one change of the catalogue, the settings or the month.
SPECIFICATION QSpec
CONSTANTS
    Requests = {r}
    Workers = {w}
    Callers <- MCCallers
    Documents = {d}
    Versions = {u, v}
    None = None
    NChunks = 1
    Limits = {4}
    Candidates = 1
    Fusion = 2
    Reranked = 2
    PerDocument = 1
    Costs = {2}
    Allowances = {0, 3}
    Unknown = Unknown
    MaxCalls = 2
    MaxEvents = 1
    MaxChanges = 1
SYMMETRY MCSymmetry
INVARIANTS
    QTypeOK
    BilledIsCounted
    WithinAllowance
    AnswerIsFresh
    LexicalStays
    Diverse
CHECK_DEADLOCK FALSE
