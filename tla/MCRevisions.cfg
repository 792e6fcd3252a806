\* Two revisions, three uploads, three scans, two edits, one death of the worker.
SPECIFICATION RSpec
CONSTANTS
    vault = vault
    r1 = r1
    r2 = r2
    NoJob = NoJob
    None = None
    Vaults <- MCVaults
    Jobs <- MCJobs
    VaultOf <- MCVaultOf
    Priority <- MCPriority
    Supersedes <- MCSupersedes
    Slow = {}
    Workers = {w1}
    MaxAttempts = 2
    MaxRequests = 4
    MaxWaits = 0
    MaxCrashes = 1
    Yields = {"chunks", "cells"}
    Confirmations = 1
    MaxUploads = 3
    MaxEdits = 2
    MaxScans = 3
SYMMETRY MCSymmetry
INVARIANTS
    RTypeOK
    DeletionIsComplete
PROPERTIES
    IndexedIsWhole
    KeepsDocument
CHECK_DEADLOCK FALSE
