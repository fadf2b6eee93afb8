CONSTANTS
    None = None
    Targets = {cmd, powershell}
    ClearingTargets = {powershell}
    Requests = {r1, r2}
    Cancellers = {"stop", "force_stop"}
    Recyclers = {"stop", "force_stop", "snapshot"}
    Environments = {{"stop_created", "restart"}, {"stop_created", "restart", "snapshot"}, {"stop_created", "restart", "session_loss"}, {"stop_created", "session_loss", "stop_running"}}
SYMMETRY RequestSymmetry
SPECIFICATION Spec
INVARIANTS EnterRunsOwnText CancelledBeforeEnterNeverRuns TerminalIsExclusive
PROPERTY ImplementsService
CHECK_DEADLOCK FALSE
