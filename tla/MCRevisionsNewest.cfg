\* Two revisions, one change of the file, and an index that settles on the old one.
SPECIFICATION RSpec
CONSTANTS
    vault = vault
    r1 = r1
    r2 = r2
    NoJob = NoJob
    None = None
    Vaults <- MCVaults
    Jobs <- MCJobs
    VaultOf <- MCVaultOf
    Priority <- MCPriority
    Supersedes <- MCSupersedes
    Slow = {}
    Workers = {w1}
    MaxAttempts = 2
    MaxRequests = 4
    MaxWaits = 0
    MaxCrashes = 0
    Yields = {"chunks", "cells"}
    Confirmations = 2
    MaxUploads = 3
    MaxEdits = 1
    MaxScans = 4
INVARIANT SettledIsNewest
CHECK_DEADLOCK FALSE
