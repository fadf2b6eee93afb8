\* Expected to fail: the vector worker of a server that died runs beside the next one.
CONSTANTS
    Legacy = Legacy
    None = None
    Candidates = {g1, g2}
    Sound = {g1}
    Drivers = {d1}
    Requests = {q1, q2}
    Faults = {"mcp_crash"}
    MaxFaults = 1
SPECIFICATION Transition
INVARIANT OneVectorWorker
CHECK_DEADLOCK FALSE
