SPECIFICATION FairSpec
CONSTANTS
    Fds = {3}
    CmdValues = {3}
    address = address
    junk = junk
    IpValues = {address, junk}
    ValidIps = {address}
    StrictClock = TRUE
    Vanish = TRUE
    MaxSocks = 2
    Cmds = 2
    Ips = 0
    MaxPubs <- PubsPerTopic
PROPERTIES
    LatestReachesEveryConnection SigintEnds LostConnectionReplaced
