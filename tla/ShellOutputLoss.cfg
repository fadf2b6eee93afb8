\* Expected to fail: the prefix that is held back when a cancelled script ends is lost.
CONSTANTS
    LastCommand = 2
    Settings <- Each
SPECIFICATION Spec
INVARIANT OutputIsComplete
CHECK_DEADLOCK FALSE
