SPECIFICATION Spec
CONSTANTS
    p1 = p1
    p2 = p2
    a1 = a1
    a2 = a2
    ip1 = ip1
    ip2 = ip2
    Players <- MCPlayers
    Addrs <- MCAddrs
    Ips <- MCIps
    IpOf <- MCIpOf
    Loopback <- MCLoopback
    Tokens = {t1, t2}
    MaxPlayers = 1
    IpSecondaryCheck = TRUE
    SessionTimeout = 1
    TokenTtl = 1
    MaxKeys = 2
    MaxCounter = 1
    MaxSends = 1
    NoSession = NoSession
    NoPlayer = NoPlayer
    AnyIp = AnyIp
    NoToken = NoToken

PROPERTIES GoneIsClean
