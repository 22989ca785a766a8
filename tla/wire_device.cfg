SPECIFICATION Spec
CONSTANTS
    tx = tx
    main = main
    device = device
    Writers = {device}
    Script <- DeviceScript
    Interruptible = {}
    Resets = TRUE
    HeaderSize = 2
    CrcSize = 2
    Modulus = 9
INVARIANTS
    NeverGivenUp
CHECK_DEADLOCK FALSE
