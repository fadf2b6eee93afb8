\* Expected to fail: a report is accepted after its lease expired, because the clock was read before the wait for the lock.
CONSTANTS
    Jobs = {1}
    OfflineWorkers = {w1}
    MaxClaims = 2
    Lease = 2
    MaxLag = 1
    RetryDelay = 1
    Debounce = 1
    Batch = 5
    Faults = {}
    MaxFailures = 0
SPECIFICATION QueueSpec
PROPERTY OnlyUnexpiredOwnerActs
CHECK_DEADLOCK FALSE
