CONSTANTS
    Jobs = {1}
    OfflineWorkers = {w1, w2}
    MaxClaims = 2
    Lease = 2
    MaxLag = 1
    RetryDelay = 1
    Debounce = 1
    Batch = 5
    Faults = {"busy", "crash"}
    MaxFailures = 2
SPECIFICATION FairSpec
INVARIANT StagedMatchesEvent
PROPERTIES LiveReservationIsTheOwners EveryJobConcludes
CHECK_DEADLOCK FALSE
