CONSTANTS
    Readers = {r1}
    MaxPieces = 2
    UnitsOfPiece = 2
    ReadSize = 3
    MaxFinal = 3
    MaxFailures = 2
    MaxOthers = 1
    Callers = {c1, c2}
    Askers = {c1}
    Tabs = {t1}
    MaxTurns = 2
    MaxAsks = 1
    MaxEvents = 2
    Threads = {t1, t2}
    MaxInstances = 3
    MaxRequests = 2
    MaxIdle = 1
    Pids = {1, 2, 3}
    MaxBirths = 4
    MaxBoots = 2
    OthersStart = {"adapter", "tunnel"}
    MaxCommands = 2
    MaxInterrupts = 1
SPECIFICATION FairSpec
INVARIANTS NothingIsLost GateIsTimely CallsReachTheBridge OnlyOrphansAreStopped ChannelKeepsInStep
PROPERTY ServicesGoOn
CHECK_DEADLOCK FALSE
