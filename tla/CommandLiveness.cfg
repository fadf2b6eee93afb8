CONSTANTS
    None = None
    Targets = {cmd}
    ClearingTargets = {}
    Requests = {r1}
    Cancellers = {"stop", "force_stop"}
    Recyclers = {"stop", "force_stop", "snapshot"}
    Environments = {{"snapshot", "force_stop", "stop_running", "session_loss"}}
SPECIFICATION FairSpec
PROPERTIES CommandsConclude AcceptedCancelEndsCommand
CHECK_DEADLOCK FALSE
