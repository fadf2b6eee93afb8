CONSTANTS
    Legacy = Legacy
    None = None
    Candidates = {g1, g2}
    Sound = {g1}
    Drivers = {d1}
    Requests = {q1, q2}
    Faults = {"raise", "driver_crash"}
    MaxFaults = 3
SPECIFICATION FairTransition
INVARIANTS ReportsAreTrue OneVectorWorker
PROPERTY PendingIsReconciled
CHECK_DEADLOCK FALSE
