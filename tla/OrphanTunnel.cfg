\* Expected to fail: the tunnel client of a bridge that died is not recognised by the next one.
CONSTANTS
    Pids = {1, 2, 3, 4}
    MaxBirths = 5
    MaxBoots = 2
    OthersStart = {"adapter", "tunnel"}
SPECIFICATION Spec
PROPERTY OrphanTunnelIsRecycled
\* Also expected to fail: a bridge of another session that lives loses its tunnel.
\* INVARIANT LiveOwnerIsNeverKilled
CHECK_DEADLOCK FALSE
