SPECIFICATION Spec
CONSTANTS
    Arguments <- Typed
    MaxRuns = 3
    MaxLives = 2
    Depth = 2
    LongHalf = 32
    IntHalf = 8
    Bytes = 4
INVARIANTS
    RunsHeardInOrder HeardAsRead
CHECK_DEADLOCK FALSE
