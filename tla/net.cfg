SPECIFICATION FairSpec
CONSTANTS
    Macs = {m1, m2}
    NoMac = NoMac
    Ips = {gw, a}
    NoIp = NoIp
    GatewayIp = gw
    N = 1
    Counts = {1, 2}
    MaxMessages = 2
    MaxStrange = 1
    MaxRefused = 1
INVARIANTS InOrder CacheCurrent
PROPERTIES MessagesLeave
