SPECIFICATION Spec
CONSTANTS
    Fds = {3, 4}
    CmdValues = {9}
    address = address
    junk = junk
    IpValues = {address, junk}
    ValidIps = {address}
    StrictClock = TRUE
    Vanish = TRUE
    MaxSocks = 2
    Cmds = 2
    Ips = 1
    MaxPubs <- PubsPerTopic
INVARIANTS
    TypeOK ThreadsOnOwnConnection OrderedDelivery GaplessSession HandledMeansSent BoundedOvertake StopDelivered SessionInv
PROPERTIES
    QuietAfterShutdown
