CONSTANTS
    Keys = {k1}
    Addrs = {}
    NoAddr = NoAddr
    Passwords = {}
    NoPassword = NoPassword
    ModHashes = {}
    Locs = {Commonwealth}
    NoLoc = NoLoc
    Commonwealth = Commonwealth
    Data = {d1}
    NoData = NoData
    NoRec = NoRec
    MaxPeer = 1
    MaxConn = 1
    TokenPeriod = 2
    InCap = 1
    OutCap = 0
    JobCap = 1
    HasPersist = TRUE
    Torn = Torn
    Absent = Absent
    MaxStarts = 2
    TcpMsgs <- RecordMsgs
    UdpMsgs <- NoMsgs
    Commands = {"kick"}
    Configs <- OneConfig
    Tracked = {}
SPECIFICATION FairStoreSpec
INVARIANTS StoreInv BansOnDisk ShutdownSaves
PROPERTIES ShutdownEnds
