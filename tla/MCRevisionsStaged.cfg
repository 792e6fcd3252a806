\* An upload whose reply is lost is repeated: its first staged copy is forgotten.
SPECIFICATION RSpec
CONSTANTS
    vault = vault
    r1 = r1
    r2 = r2
    NoJob = NoJob
    None = None
    Vaults <- MCVaults
    Jobs <- MCJobs
    VaultOf <- MCVaultOf
    Priority <- MCPriority
    Supersedes <- MCSupersedes
    Slow = {}
    Workers = {w1}
    MaxAttempts = 2
    MaxRequests = 4
    MaxWaits = 0
    MaxCrashes = 1
    Yields = {"chunks", "cells"}
    Confirmations = 2
    MaxUploads = 3
    MaxEdits = 1
    MaxScans = 4
INVARIANT UploadsAreOnRecord
CHECK_DEADLOCK FALSE
