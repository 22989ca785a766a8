SPECIFICATION Spec
CONSTANTS
    Fds = {3}
    CmdValues = {3, 4}
    address = address
    junk = junk
    IpValues = {address, junk}
    ValidIps = {address}
    StrictClock = TRUE
    Vanish = FALSE
    MaxSocks = 1
    Cmds = 2
    Ips = 0
    MaxPubs <- PubsPerTopic
INVARIANTS
    ResetPairKept
