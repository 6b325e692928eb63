CONSTANTS
    Keys = {k1, k2, k3}
    Addrs = {}
    NoAddr = NoAddr
    Passwords = {}
    NoPassword = NoPassword
    ModHashes = {}
    Locs = {Commonwealth}
    NoLoc = NoLoc
    Commonwealth = Commonwealth
    Data = {d1}
    NoData = NoData
    NoRec = NoRec
    MaxPeer = 3
    MaxConn = 3
    TokenPeriod = 2
    InCap = 1
    OutCap = 4
    JobCap = 1
    HasPersist = FALSE
    TcpMsgs <- Hellos
    UdpMsgs <- NoMsgs
    Commands = {"kick"}
    Configs <- OneConfig
    Tracked = {"Bye", "Roster"}
SYMMETRY Symmetry
CONSTRAINT NoLoss
SPECIFICATION ServerSpec
INVARIANT MarkersClear
