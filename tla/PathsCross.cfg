CONSTANTS
    cmd = cmd
    p1 = p1
    p2 = p2
    j1 = j1
    None = None
    Targets = {cmd}
    ClearingTargets = {}
    Requests = {p1, p2, j1}
    Externals = {p1, p2}
    Jobs = {j1}
    TargetOf <- OneTerminal
    MaxRestarts = 1
    Cancellers = {"cancel", "force_stop"}
    Recyclers = {"cancel", "force_stop", "snapshot"}
    Environments <- BothPaths
SPECIFICATION Spec
INVARIANT FinishedRan
CHECK_DEADLOCK FALSE
