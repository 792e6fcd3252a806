\* The poll of an attachment that once was complete: one death of the worker.
SPECIFICATION FairISpec
CONSTANTS
    v1 = v1
    i1 = i1
    i2 = i2
    NoJob = NoJob
    Vaults <- MCVaults
    Jobs <- MCJobs
    VaultOf <- MCVaultOf
    Priority <- MCPriority
    Supersedes <- MCSupersedes
    Slow <- MCJobs
    Workers = {w1}
    MaxAttempts = 3
    MaxRequests = 3
    MaxWaits = 0
    MaxCrashes = 1
PROPERTY CompleteStays
CHECK_DEADLOCK FALSE
