SPECIFICATION Spec
CONSTANTS
    Payloads <- OfEveryKind
    Subtypes <- DataTypes
    TfPeriod = 1
    BroadcastTf = FALSE
    IntMax = 1
    MaxFrames = 2
    MaxConns = 1
INVARIANTS
    Forwarded
CHECK_DEADLOCK FALSE
