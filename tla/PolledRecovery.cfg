\* Expected to fail: a poll that acts on what it read before it looked for an owner frees the authority of a command that runs.
\* So does cancel_active between RUNNING and Enter: Environments = {{"stop_running"}}, with r1 and r2.
CONSTANTS
    None = None
    Targets = {cmd, powershell}
    ClearingTargets = {powershell}
    Requests = {r1, r2, r3}
    Cancellers = {"stop", "force_stop"}
    Recyclers = {"stop", "force_stop", "snapshot"}
    Environments = {{"snapshot"}}
SYMMETRY RequestSymmetry
SPECIFICATION Spec
INVARIANT AuthorityIsExclusive
CHECK_DEADLOCK FALSE
