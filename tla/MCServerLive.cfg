CONSTANTS
    Keys = {k1}
    Addrs = {}
    NoAddr = NoAddr
    Passwords = {}
    NoPassword = NoPassword
    ModHashes = {}
    Locs = {Commonwealth}
    NoLoc = NoLoc
    Commonwealth = Commonwealth
    Data = {d1}
    NoData = NoData
    NoRec = NoRec
    MaxPeer = 2
    MaxConn = 2
    TokenPeriod = 2
    InCap = 2
    OutCap = 1
    JobCap = 1
    HasPersist = FALSE
    TcpMsgs <- JoinMsgs
    UdpMsgs <- NoMsgs
    Commands = {}
    Configs <- OneConfig
    Tracked = {}
SPECIFICATION FairServerSpec
INVARIANTS MapsInverse ReportsOrdered
PROPERTIES DeadClientsLeave PendingEnds
