CONSTANTS
    LastCommand = 2
    Settings <- Each
SPECIFICATION FairSpec
INVARIANTS OutputIsTrue VerdictIsTrue
PROPERTIES RunsInOwnExecution ExecuteReturns
CHECK_DEADLOCK FALSE
