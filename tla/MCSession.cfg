\* Sim: the gates of a Hello, the mod lock, the rules, the records and their marks.
CONSTANTS
    Keys = {k1, k2}
    Addrs = {}
    NoAddr = NoAddr
    Passwords = {w1}
    NoPassword = NoPassword
    ModHashes = {1}
    Locs = {Commonwealth}
    NoLoc = NoLoc
    Commonwealth = Commonwealth
    Data = {d1}
    NoData = NoData
    NoRec = NoRec
    MaxPeer = 2
    MaxConn = 2
    TokenPeriod = 2
    InCap = 1
    OutCap = 0
    JobCap = 1
    HasPersist = TRUE
    TcpMsgs <- SessionMsgs
    UdpMsgs <- NoMsgs
    Commands = {"save", "say", "maxplayers", "reload", "ban"}
    Configs <- TwoConfigs
    Tracked = {}
SYMMETRY KeySymmetry
SPECIFICATION Spec
INVARIANTS LiveRecords
PROPERTIES ModLockStable ImplementsParty
