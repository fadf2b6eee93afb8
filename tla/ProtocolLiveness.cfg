CONSTANTS
    None = None
    Clients = {c1, c2}
    Handlers = {h1, h2}
    Requests = {start}
    NewWork = {start}
    Starts = {start}
    Contents = {a, b}
    Faults = {"give_up", "crash", "control", "timeout"}
    MaxFaults = 2
SPECIFICATION FairSpec
INVARIANT AnswersAgree
PROPERTY WaitingIsAnswered
