\* Sim: joins, leaves, reconnects, kicks, bans, expiry and UDP binding, under
\* any net thread.
CONSTANTS
    Keys = {k1, k2}
    Addrs = {a1, a2}
    NoAddr = NoAddr
    Passwords = {}
    NoPassword = NoPassword
    ModHashes = {}
    Locs = {Commonwealth}
    NoLoc = NoLoc
    Commonwealth = Commonwealth
    Data = {d1}
    NoData = NoData
    NoRec = NoRec
    MaxPeer = 3
    MaxConn = 2
    TokenPeriod = 2
    InCap = 1
    OutCap = 0
    JobCap = 1
    HasPersist = FALSE
    TcpMsgs <- JoinAndBlob
    UdpMsgs <- UdpMsgsAll
    Commands = {"kick", "unban"}
    Configs <- OneConfig
    Tracked = {}
SYMMETRY Symmetry
SPECIFICATION Spec
INVARIANTS TypeOK UniqueKeys ConnOwnership HostLive UdpMapSound
PROPERTIES BanHolds TokenRenewalUnbinds
