SPECIFICATION Spec
CONSTANTS
    Fds = {3, 4}
    CmdValues = {3}
    address = address
    junk = junk
    IpValues = {address, junk}
    ValidIps = {address}
    StrictClock = FALSE
    Vanish = FALSE
    MaxSocks = 3
    Cmds = 2
    Ips = 0
    MaxPubs <- PubsPerTopic
INVARIANTS
    SocketsInv DeliveryInv
PROPERTIES
    ImplementsRelay
