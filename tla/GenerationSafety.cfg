CONSTANTS
    Legacy = Legacy
    None = None
    Candidates = {g1, g2}
    Sound = {g1}
    Drivers = {d1, d2}
    Requests = {q1, q2}
    Faults = {"raise", "driver_crash", "mcp_crash"}
    MaxFaults = 2
SYMMETRY ProcessSymmetry
SPECIFICATION Transition
INVARIANTS ReadersSeeServedGeneration PendingIsRecoverable
PROPERTY ImplementsService
CHECK_DEADLOCK FALSE
