CONSTANTS
    None = None
    Clients = {c1}
    Handlers = {h1, h2}
    Requests = {start, stop}
    NewWork = {start}
    Starts = {start}
    Contents = {a, b}
    Faults = {"give_up", "crash", "control", "timeout"}
    MaxFaults = 2
SPECIFICATION Spec
INVARIANTS NeverRepeatedUnlessCrashed BlockedMeansNotStarted
PROPERTY ImplementsExchange
