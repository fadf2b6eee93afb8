\* Expected to fail: an adapter that crashes before it stored the answer does the operation again.
CONSTANTS
    None = None
    Clients = {c1}
    Handlers = {h1, h2}
    Requests = {start, stop}
    NewWork = {start}
    Starts = {start}
    Contents = {a}
    Faults = {"crash", "timeout"}
    MaxFaults = 1
SPECIFICATION Spec
INVARIANT ReplayIsIdempotent
CHECK_DEADLOCK FALSE
