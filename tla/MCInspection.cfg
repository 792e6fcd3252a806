\* Two attachments, failures of every kind and one end of the worker's process at any point.
SPECIFICATION FairISpec
CONSTANTS
    v1 = v1
    i1 = i1
    i2 = i2
    NoJob = NoJob
    Vaults <- MCVaults
    Jobs <- MCJobs
    VaultOf <- MCVaultOf
    Priority <- MCPriority
    Supersedes <- MCSupersedes
    Slow <- MCJobs
    Workers = {w1}
    MaxAttempts = 3
    MaxRequests = 3
    MaxWaits = 0
    MaxCrashes = 1
INVARIANTS
    ITypeOK
    StrayBytesHaveACause
    ExtractsOnlyQueued
PROPERTY PollEnds
CHECK_DEADLOCK FALSE
