SPECIFICATION FairSpec
CONSTANTS
    tx = tx
    main = main
    device = device
    Writers = {tx, main}
    Script <- NodeScript
    Interruptible = {tx}
    Resets = TRUE
    HeaderSize = 2
    CrcSize = 1
    Modulus = 5
INVARIANTS
    TypeOK InStep GivenUpMeansMixed
PROPERTIES
    WholeFramesArrive ImplementsChannel
CHECK_DEADLOCK FALSE
