CONSTANTS
    Keys = {k1, k2}
    Addrs = {}
    NoAddr = NoAddr
    Passwords = {}
    NoPassword = NoPassword
    ModHashes = {}
    Locs = {Commonwealth}
    NoLoc = NoLoc
    Commonwealth = Commonwealth
    Data = {d1}
    NoData = NoData
    NoRec = NoRec
    MaxPeer = 2
    MaxConn = 2
    TokenPeriod = 2
    InCap = 2
    OutCap = 4
    JobCap = 1
    HasPersist = FALSE
    TcpMsgs <- JoinMsgs
    UdpMsgs <- NoMsgs
    Commands = {"kick"}
    Configs <- OneConfig
    Tracked = {"Bye", "Roster"}
SYMMETRY Symmetry
CONSTRAINT NoLoss
SPECIFICATION ServerSpec
INVARIANTS Agreement NoGhostPeers
PROPERTIES ImplementsSim
