\* Two workers whose handlers end within their lease.
SPECIFICATION FairRSpec
CONSTANTS
    v1 = v1
    v2 = v2
    extract1 = extract1
    extract2 = extract2
    urgent = urgent
    NoJob = NoJob
    Vaults <- MCVaults
    Jobs <- MCJobs
    VaultOf <- MCVaultOf
    Priority <- MCPriority
    Supersedes <- MCSupersedes
    Slow = {}
    Workers = {w1, w2}
    MaxAttempts = 2
    MaxRequests = 3
    MaxWaits = 1
    MaxCrashes = 1
INVARIANTS
    TypeOK
    Exclusive
    VerdictFitsRow
    RetryBudget
    PassedStandBehind
PROPERTIES
    NoSecondOvertake
    QueueDrains
    InterruptedJobReturns
CHECK_DEADLOCK FALSE
