\* Expected to fail: a session that died between prepare and Enter is replaced by a fresh one, and the command counts as finished.
CONSTANTS
    None = None
    Targets = {cmd, powershell}
    ClearingTargets = {powershell}
    Requests = {r1, r2}
    Cancellers = {"stop", "force_stop"}
    Recyclers = {"stop", "force_stop", "snapshot"}
    Environments = {{"session_loss"}}
SYMMETRY RequestSymmetry
SPECIFICATION Spec
INVARIANT FinishedRan
CHECK_DEADLOCK FALSE
