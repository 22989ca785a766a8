SPECIFICATION Spec
CONSTANTS
    tx = tx
    main = main
    device = device
    Writers = {tx, main}
    Script <- NodeScript
    Interruptible = {tx}
    Resets = FALSE
    HeaderSize = 2
    CrcSize = 1
    Modulus = 5
INVARIANTS
    LengthCoversCrc
CHECK_DEADLOCK FALSE
