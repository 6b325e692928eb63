-------------------------------- MODULE Sim --------------------------------
(***************************************************************************)
(* ServerRuntime: the simulation thread of CommonwealthMP.Server           *)
(* (server/src/handlers.cpp, admin_cmds.cpp, net_util.cpp and the main     *)
(* loop).  It owns the session: who is connected, who is waiting to join,  *)
(* which UDP address belongs to whom, who the host is, the player records  *)
(* and what of them is still to be saved.                                  *)
(*                                                                         *)
(* A handler is one step.  It pops one event, changes the session and      *)
(* pushes its commands; the net thread only sees the queues, so its pops   *)
(* and pushes commute with the rest of the handler.  Time is abstracted: a *)
(* client or a pending connection may have been silent past its timeout    *)
(* whenever the loop, having drained inbound, comes to the expiry checks,  *)
(* and a rate limiter may be exhausted whenever it is asked.               *)
(*                                                                         *)
(* Next is closed by NetThread and PersistThread, which leave the session  *)
(* alone and treat the queues as any net thread and persist worker may.    *)
(***************************************************************************)
EXTENDS ServerTypes

VARIABLES
    inbound, outbound, jobs, \* the three AsyncQueues
    nextConn,       \* NetIo::nextConnId_
    clients,        \* peer id -> Client
    pendingTcp,     \* connections that have not joined
    udpPeerByAddr,  \* UDP address -> peer id
    hostPeerId, hostLocation, \* SessionWorld, the fields that are not saved
    world,          \* SessionWorld, the fields that are saved
    players,        \* player key -> PlayerRec or NoRec
    bannedKeys, cfg, sessionModHash,
    nextPeer, nextToken,
    worldDirty, dirtyPlayers,
    outLost,        \* history: a push to outbound was refused
    jobLost         \* history: a push to the persist queue was refused

memberVars == <<clients, pendingTcp, udpPeerByAddr, hostPeerId>>
idVars     == <<nextPeer, nextToken>>
adminVars  == <<bannedKeys, cfg>>
recordVars == <<world, players>>
saveVars   == <<worldDirty, dirtyPlayers, jobs, jobLost>>
outVars    == <<outbound, outLost>>
simVars    == <<memberVars, idVars, adminVars, recordVars, worldDirty,
                dirtyPlayers, hostLocation, sessionModHash, outLost, jobLost>>
vars       == <<inbound, outbound, jobs, nextConn, simVars>>

Client == [conn : ConnIds, key : Keys, token : Tokens,
           udp : Addrs \cup {NoAddr}]

TypeOK ==
    /\ inbound \in Seq(InboundEvent) /\ Len(inbound) =< InCap
    /\ outbound \in Seq(OutboundCmd) /\ Len(outbound) =< OutCap
    /\ jobs \in Seq(PersistJob) /\ Len(jobs) =< JobCap
    /\ nextConn \in 1..(MaxConn + 1)
    /\ \E P \in SUBSET PeerIds : clients \in [P -> Client]
    /\ pendingTcp \in SUBSET ConnIds
    /\ \E A \in SUBSET Addrs : udpPeerByAddr \in [A -> PeerIds]
    /\ hostPeerId \in PeerIds \cup {0}
    /\ hostLocation \in Locs
    /\ world \in [created : BOOLEAN, clock : Clocks]
    /\ players \in [Keys -> PlayerRec \cup {NoRec}]
    /\ bannedKeys \in SUBSET Keys
    /\ cfg \in Config
    /\ sessionModHash \in ModHashes \cup {0}
    /\ nextPeer \in 1..(MaxPeer + 1)
    /\ nextToken \in Tokens
    /\ worldDirty \in BOOLEAN
    /\ dirtyPlayers \in SUBSET Keys
    /\ outLost \in BOOLEAN /\ jobLost \in BOOLEAN

(* A server started on an empty session folder. *)
Init ==
    /\ inbound = <<>> /\ outbound = <<>> /\ jobs = <<>>
    /\ nextConn = 1
    /\ clients = <<>> /\ pendingTcp = {} /\ udpPeerByAddr = <<>>
    /\ hostPeerId = 0 /\ hostLocation = Commonwealth
    /\ world = [created |-> FALSE, clock |-> NoData]
    /\ players = [k \in Keys |-> NoRec]
    /\ bannedKeys = {}
    /\ cfg \in Configs /\ sessionModHash = cfg.modHash
    /\ nextPeer = 1 /\ nextToken = 1
    /\ worldDirty = FALSE /\ dirtyPlayers = {}
    /\ outLost = FALSE /\ jobLost = FALSE

-----------------------------------------------------------------------------
(* Commands to the net thread *)

ConnOf(P) == {clients[p].conn : p \in P}
Others(p) == DOMAIN clients \ {p}

SendTcp(S, m) ==
    IF m.type \in Tracked /\ S # {} THEN <<TcpSend(S, m)>> ELSE <<>>

SendUdp(P) ==
    LET A == {clients[p].udp : p \in P} \ {NoAddr}
    IN  IF "PlayerPose" \in Tracked /\ A # {} THEN <<UdpSend(A)>> ELSE <<>>

Emit(cmds) ==
    /\ outbound' \in PushAll(outbound, OutCap, cmds)
    /\ outLost' = (outLost \/ Len(cmds) > Room(outbound, OutCap))

-----------------------------------------------------------------------------
(* Helpers of ServerRuntime *)

(* Mutant: nobody takes over from a host that has left. *)
FindHostNoHandoff(P, h) == IF h \in P THEN {h} ELSE {0}

(* find_host: the host if it is live, else any client (the first of an     *)
(* unordered_map), else nobody.                                            *)
FindHost(P, h) == IF h \in P THEN {h} ELSE IF P = {} THEN {0} ELSE P

(* Mutant: the entry in udpPeerByAddr is left behind. *)
UnbindUdpForgotten(p) == udpPeerByAddr

(* unbind_udp erases the entry of the client's address, whoever holds it. *)
UnbindUdp(p) ==
    IF clients[p].udp = NoAddr THEN udpPeerByAddr
    ELSE Without(udpPeerByAddr, clients[p].udp)

(* Mutant: the lookup goes by connection. *)
KeyHoldersByConn(k) ==
    {p \in DOMAIN clients : clients[p].conn = Head(inbound).conn}

(* The clients with a player key: at most one, see UniqueKeys. *)
KeyHolders(k) == {p \in DOMAIN clients : clients[p].key = k}

(* Mutant: a counter that does not wrap. *)
NewTokenUnwrapped == nextToken + 1

NewToken == IF nextToken = TokenPeriod THEN 1 ELSE nextToken + 1

(* flush_dirty_async: the marks are cleared before the job is offered to   *)
(* the persist queue.                                                      *)
FlushDirty(dw, dp) ==
    LET recs == {k \in dp : players[k] # NoRec}
        job  == [world |-> dw, worldSnap |-> world.clock,
                 players |-> [k \in recs |-> players[k]],
                 writeBans |-> FALSE, banKeys |-> {}]
        none == ~dw /\ recs = {}
    IN  IF HasPersist
        THEN /\ worldDirty' = FALSE /\ dirtyPlayers' = {}
             /\ jobs' = IF none THEN jobs ELSE Push(jobs, JobCap, job)
             /\ jobLost' = (jobLost \/ (~none /\ Full(jobs, JobCap)))
        ELSE /\ worldDirty' = dw /\ dirtyPlayers' = dp
             /\ UNCHANGED <<jobs, jobLost>>

(* Mutant: the keys are copied before the change. *)
BanJobStale(B) == [world |-> FALSE, worldSnap |-> NoData, players |-> <<>>,
                   writeBans |-> TRUE, banKeys |-> bannedKeys]

BanJob(B) == [world |-> FALSE, worldSnap |-> NoData, players |-> <<>>,
              writeBans |-> TRUE, banKeys |-> B]

PersistBans(B) ==
    IF HasPersist
    THEN /\ jobs' = Push(jobs, JobCap, BanJob(B))
         /\ jobLost' = (jobLost \/ Full(jobs, JobCap))
    ELSE UNCHANGED <<jobs, jobLost>>

(* Mutant: as for a kick, the leaving client alone is told. *)
TellByeToLeaver(p) == SendTcp(ConnOf({p}), Say("Bye", p))

TellBye(p) == SendTcp(ConnOf(Others(p)), Say("Bye", p))

(* remove_client: pend is pendingTcp as the caller left it, conn the       *)
(* client's connection or 0 when the caller has already dropped it.        *)
RemoveClient(p, keepTcp, pend, conn) ==
    LET key == clients[p].key
    IN  /\ clients' = Without(clients, p)
        /\ udpPeerByAddr' = UnbindUdp(p)
        /\ hostPeerId' \in
               FindHost(Others(p), IF hostPeerId = p THEN 0 ELSE hostPeerId)
        /\ IF keepTcp
           THEN /\ pendingTcp' = pend \cup {conn}
                /\ Emit(TellBye(p) \o <<KeepPending(p)>>)
           ELSE /\ pendingTcp' = pend
                /\ Emit(TellBye(p) \o IF conn = 0 THEN <<>> ELSE <<CloseConn(conn)>>)
        /\ FlushDirty(worldDirty,
                      dirtyPlayers \cup {k \in {key} : players[k] # NoRec})
        /\ UNCHANGED <<idVars, adminVars, recordVars, hostLocation,
                       sessionModHash>>

-----------------------------------------------------------------------------
(* apply_inbound: one event from the net thread *)

Event   == Head(inbound)
Take(k) == /\ inbound # <<>>
           /\ Event.kind = k
           /\ inbound' = Tail(inbound)
           /\ UNCHANGED nextConn

(* A frame goes to the client its peer id names; otherwise to the pending  *)
(* connection it came on; otherwise to the client on that connection.      *)
ForPending == Event.peer \notin DOMAIN clients /\ Event.conn \in pendingTcp
Receivers ==
    IF Event.peer \in DOMAIN clients THEN {Event.peer}
    ELSE IF Event.conn \in pendingTcp THEN {}
    ELSE {p \in DOMAIN clients : clients[p].conn = Event.conn}

FromPending(t) == Take("TcpFrame") /\ ForPending /\ Event.msg.type = t
FromClient(p, t) ==
    /\ Take("TcpFrame")
    /\ p \in Receivers
    /\ Event.msg.type = t

TcpAccept ==
    /\ Take("TcpAccept")
    /\ pendingTcp' = pendingTcp \cup {Event.conn}
    /\ UNCHANGED <<outVars, clients, udpPeerByAddr, hostPeerId, hostLocation,
                   idVars, adminVars, recordVars, saveVars, sessionModHash>>

(* TcpClosed names the peer the net thread had on the connection. *)
TcpClosed ==
    LET pend   == pendingTcp \ {Event.conn}
        onConn == {p \in DOMAIN clients : clients[p].conn = Event.conn}
    IN  /\ Take("TcpClosed")
        /\ \/ /\ Event.peer \in DOMAIN clients
              /\ RemoveClient(Event.peer, FALSE, pend,
                              clients[Event.peer].conn)
           \/ /\ Event.peer = 0
              /\ \E p \in onConn : RemoveClient(p, FALSE, pend, 0)
           \/ /\ Event.peer \notin DOMAIN clients
              /\ Event.peer = 0 => onConn = {}
              /\ pendingTcp' = pend
              /\ UNCHANGED <<outVars, clients, udpPeerByAddr, hostPeerId,
                             hostLocation, idVars, adminVars, recordVars,
                             saveVars, sessionModHash>>

(* A SessionQuery is answered with the host, which find_host refreshes. *)
SessionQuery ==
    /\ FromPending("SessionQuery")
    /\ hostPeerId' \in FindHost(DOMAIN clients, hostPeerId)
    /\ Emit(SendTcp({Event.conn}, Say("SessionInfo", hostPeerId')))
    /\ UNCHANGED <<clients, pendingTcp, udpPeerByAddr, hostLocation, idVars,
                   adminVars, recordVars, saveVars, sessionModHash>>

(* Mutant: the ban list is not asked. *)
GateRefusalNoBans(m) ==
    IF ~m.ok THEN "Version"
    ELSE IF cfg.password # NoPassword /\ m.password # cfg.password
    THEN "Password"
    ELSE IF sessionModHash # 0 /\ m.modHash # sessionModHash
    THEN "ModMismatch"
    ELSE "none"

(* The checks of a Hello, in the code's order; "none" lets it pass. *)
GateRefusal(m) ==
    IF ~m.ok THEN "Version"
    ELSE IF m.key \in bannedKeys THEN "Banned"
    ELSE IF cfg.password # NoPassword /\ m.password # cfg.password
    THEN "Password"
    ELSE IF sessionModHash # 0 /\ m.modHash # sessionModHash
    THEN "ModMismatch"
    ELSE "none"

(* A Hello that requires a host has find_host look for one. *)
HostSeen(m) ==
    IF m.requireHost /\ GateRefusal(m) = "none"
    THEN FindHost(DOMAIN clients, hostPeerId) ELSE {hostPeerId}

Refusal(m, host) ==
    IF GateRefusal(m) # "none" THEN GateRefusal(m)
    ELSE IF m.requireHost /\ host = 0 THEN "NoHost"
    ELSE IF m.requireHost /\ hostLocation # Commonwealth
    THEN "HostNotStreaming"
    ELSE IF /\ KeyHolders(m.key) = {}
            /\ Cardinality(DOMAIN clients) >= cfg.maxPlayers
    THEN "Full"
    ELSE "none"

(* A refused Hello leaves its connection pending. *)
HelloRefused ==
    /\ FromPending("Hello")
    /\ hostPeerId' \in HostSeen(Event.msg)
    /\ Refusal(Event.msg, hostPeerId') # "none"
    /\ Emit(SendTcp({Event.conn}, Say("Reject", 0)))
    /\ UNCHANGED <<clients, pendingTcp, udpPeerByAddr, hostLocation, idVars,
                   adminVars, recordVars, saveVars, sessionModHash>>

(* Mutant: the pending entry stays when the client takes the connection. *)
ClaimedTwice(c) == pendingTcp

Claimed(c) == pendingTcp \ {c}

(* Mutant: the record waits for the first pose. *)
WithRecordLater(k) == players

WithRecord(k) ==
    IF players[k] # NoRec THEN players
    ELSE [players EXCEPT ![k] = [havePose |-> FALSE, data |-> NoData]]

(* What joining does once the client holds the connection: the record, the *)
(* world and, for the host, the clock, the location and the mod lock; then *)
(* Welcome, WorldSnapshot and the looks of the other players.              *)
Joined(p, cmds) ==
    LET m      == Event.msg
        isHost == p = hostPeerId'
    IN  /\ pendingTcp' = Claimed(Event.conn)
        /\ players' = WithRecord(m.key)
        /\ world' = [created |-> TRUE,
                     clock |-> IF isHost THEN m.clock ELSE world.clock]
        /\ worldDirty' = (worldDirty \/ ~world.created \/ isHost)
        /\ hostLocation' = IF isHost /\ m.location # NoLoc
                           THEN m.location ELSE hostLocation
        /\ sessionModHash' = IF isHost /\ sessionModHash = 0
                             THEN m.modHash ELSE sessionModHash
        /\ nextToken' = NewToken
        /\ Emit(cmds \o SendTcp({Event.conn}, Say("Welcome", p))
                     \o SendTcp({Event.conn}, Say("WorldSnapshot", hostPeerId'))
                     \o SendTcp({Event.conn}, [type |-> "Roster", peer |-> p,
                                               peers |-> Others(p)]))
        /\ UNCHANGED <<adminVars, dirtyPlayers, jobs, jobLost>>

(* A Hello with the key of a live client moves that client here. *)
SoftReconnect(p) ==
    LET m == Event.msg
        c == Event.conn
    IN  /\ FromPending("Hello")
        /\ hostPeerId' \in HostSeen(m)
        /\ Refusal(m, hostPeerId') = "none"
        /\ p \in KeyHolders(m.key)
        /\ udpPeerByAddr' = UnbindUdp(p)
        /\ clients' = [clients EXCEPT ![p] =
                         [conn |-> c, key |-> m.key, token |-> nextToken,
                          udp |-> NoAddr]]
        /\ Joined(p, (IF clients[p].conn = c THEN <<>>
                      ELSE <<CloseConn(clients[p].conn)>>) \o <<BindPeer(c, p)>>)
        /\ UNCHANGED nextPeer

(* A new peer; it becomes the host when there is none.  That branch's      *)
(* requireHost exit is dead code: find_host has then found a host.         *)
HelloNew ==
    LET m == Event.msg
        c == Event.conn
    IN  /\ FromPending("Hello")
        /\ nextPeer \in PeerIds                            \* bound: MaxPeer
        /\ \E h \in HostSeen(m) :
             /\ Refusal(m, h) = "none"
             /\ hostPeerId' = IF h = 0 THEN nextPeer ELSE h
        /\ KeyHolders(m.key) = {}
        /\ clients' = Put(clients, nextPeer,
                          [conn |-> c, key |-> m.key, token |-> nextToken,
                           udp |-> NoAddr])
        /\ nextPeer' = nextPeer + 1
        /\ Joined(nextPeer, <<BindPeer(c, nextPeer)>>)
        /\ UNCHANGED udpPeerByAddr

(* Bye removes the client and puts its connection back among the pending. *)
ClientBye(p) ==
    /\ FromClient(p, "Bye")
    /\ RemoveClient(p, TRUE, pendingTcp, clients[p].conn)

(* Hello from a client that has joined renews its UDP token. *)
HelloAgain(p) ==
    /\ FromClient(p, "Hello")
    /\ udpPeerByAddr' = UnbindUdp(p)
    /\ clients' = [clients EXCEPT ![p].token = nextToken, ![p].udp = NoAddr]
    /\ nextToken' = NewToken
    /\ Emit(SendTcp({clients[p].conn}, Say("Welcome", p)))
    /\ UNCHANGED <<pendingTcp, hostPeerId, hostLocation, nextPeer, adminVars,
                   recordVars, saveVars, sessionModHash>>

WorldSnapshot(p) ==
    LET m == Event.msg
    IN  /\ FromClient(p, "WorldSnapshot")
        /\ p = hostPeerId
        /\ world' = [world EXCEPT !.clock = m.clock]
        /\ hostLocation' = IF m.location # NoLoc THEN m.location
                           ELSE hostLocation
        /\ worldDirty' = TRUE
        /\ UNCHANGED <<outVars, memberVars, idVars, adminVars, players,
                       dirtyPlayers, jobs, jobLost, sessionModHash>>

(* The chunk that completes an appearance or inventory blob. *)
BlobComplete(p) ==
    LET key == clients[p].key
    IN  /\ FromClient(p, "Blob")
        /\ players' = [players EXCEPT ![key] =
                         [havePose |-> players[key].havePose,
                          data |-> Event.msg.data]]
        /\ dirtyPlayers' = dirtyPlayers \cup {key}
        /\ Emit(SendTcp(ConnOf(Others(p)),
                        [type |-> "Blob", peer |-> p, peers |-> {p}]))
        /\ UNCHANGED <<memberVars, hostLocation, idVars, adminVars, world,
                       worldDirty, jobs, jobLost, sessionModHash>>

(* Messages that are only passed on.  Kick and Teleport are the host's; a  *)
(* Hit needs pvp, its true attacker, another target and some damage.       *)
RelayTo(p, m) ==
    CASE m.type = "Heartbeat" -> {p}
      [] m.type = "Chat" -> Others(p)
      [] m.type \in {"Kick", "Teleport"} ->
           {q \in DOMAIN clients : p = hostPeerId /\ q = m.target}
      [] m.type = "Hit" ->
           {q \in Others(p) : cfg.pvp /\ m.attacker = p /\ m.harm
                                /\ q = m.target}

RelayTypes == {"Heartbeat", "Chat", "Kick", "Teleport", "Hit"}

ClientRelay(p) ==
    \E t \in RelayTypes :
       /\ FromClient(p, t)
       /\ Emit(SendTcp(ConnOf(RelayTo(p, Event.msg)), Say(t, p)))
       /\ UNCHANGED <<memberVars, hostLocation, idVars, adminVars, recordVars,
                      saveVars, sessionModHash>>

(* Frames without effect: from a connection the session does not know, of  *)
(* a type its state does not expect, over a rate limit, or a chunk that    *)
(* completes nothing.                                                      *)
FrameIgnored ==
    /\ Take("TcpFrame")
    /\ \/ ~ForPending /\ Receivers = {}
       \/ ForPending
       \/ /\ Receivers # {}
          /\ Event.msg.type \in {"Blob", "Chat", "Hit", "SessionQuery",
                                 "Unknown"}
       \/ /\ Event.msg.type = "WorldSnapshot"
          /\ \E p \in Receivers : p # hostPeerId
    /\ UNCHANGED <<outVars, memberVars, hostLocation, idVars, adminVars,
                   recordVars, saveVars, sessionModHash>>

-----------------------------------------------------------------------------
(* handle_udp_packet *)

UdpBind ==
    LET m == Event.msg
        p == m.peer
        a == Event.addr
    IN  /\ Take("UdpDatagram")
        /\ m.type = "UdpBind"
        /\ p \in DOMAIN clients /\ clients[p].token = m.token
        /\ udpPeerByAddr' = Put(UnbindUdp(p), a, p)
        /\ clients' = [clients EXCEPT ![p].udp = a]
        /\ Emit(IF "PlayerPose" \in Tracked /\ Others(p) # {}
                THEN <<UdpSend({a})>> ELSE <<>>)
        /\ UNCHANGED <<pendingTcp, hostPeerId, hostLocation, idVars, adminVars,
                       recordVars, saveVars, sessionModHash>>

(* find_by_udp drops an entry whose peer is gone. *)
UdpMapSeen(a) == [x \in {y \in DOMAIN udpPeerByAddr :
                           y # a \/ udpPeerByAddr[y] \in DOMAIN clients}
                    |-> udpPeerByAddr[x]]

(* A pose updates the record and, from the host, the host's location; it   *)
(* is passed on to the bound clients within the interest radius.           *)
PlayerPose(p) ==
    LET m   == Event.msg
        key == clients[p].key
    IN  /\ Take("UdpDatagram")
        /\ m.type = "PlayerPose"
        /\ Event.addr \in DOMAIN udpPeerByAddr
        /\ udpPeerByAddr[Event.addr] = p /\ p \in DOMAIN clients
        /\ players' = [players EXCEPT ![key] =
                         [havePose |-> TRUE, data |-> m.data]]
        /\ dirtyPlayers' = dirtyPlayers \cup {key}
        /\ hostLocation' = IF p = hostPeerId /\ m.location # NoLoc
                           THEN m.location ELSE hostLocation
        /\ worldDirty' = (worldDirty \/ p = hostPeerId)
        /\ \E near \in SUBSET Others(p) : Emit(SendUdp(near))
        /\ UNCHANGED <<memberVars, idVars, adminVars, world, jobs, jobLost,
                       sessionModHash>>

(* An actor pose is the host's to send, and changes nothing. *)
ActorPose(p) ==
    /\ Take("UdpDatagram")
    /\ Event.msg.type = "ActorPose"
    /\ Event.addr \in DOMAIN udpPeerByAddr
    /\ udpPeerByAddr[Event.addr] = p /\ p \in DOMAIN clients
    /\ p = hostPeerId
    /\ \E near \in SUBSET Others(p) : Emit(SendUdp(near))
    /\ UNCHANGED <<memberVars, hostLocation, idVars, adminVars, recordVars,
                   saveVars, sessionModHash>>

(* A bind with a wrong token, a datagram from an unbound address, one over *)
(* the rate limit, or an actor pose from a guest.                          *)
DatagramIgnored ==
    LET m == Event.msg
    IN  /\ Take("UdpDatagram")
        /\ m.type = "UdpBind" =>
              (m.peer \in DOMAIN clients => clients[m.peer].token # m.token)
        /\ udpPeerByAddr' = IF m.type = "UdpBind" THEN udpPeerByAddr
                            ELSE UdpMapSeen(Event.addr)
        /\ UNCHANGED <<outVars, clients, pendingTcp, hostPeerId, hostLocation,
                       idVars, adminVars, recordVars, saveVars,
                       sessionModHash>>

-----------------------------------------------------------------------------
(* The rest of the main loop.  inbound has just been drained. *)

Loop == inbound = <<>> /\ UNCHANGED <<inbound, nextConn>>

(* Mutant: the connection is closed and its entry kept. *)
ExpirePendingKept(c) ==
    /\ Loop
    /\ c \in pendingTcp
    /\ Emit(<<CloseConn(c)>>)
    /\ UNCHANGED <<memberVars, hostLocation, idVars, adminVars, recordVars,
                   saveVars, sessionModHash>>

ExpirePending(c) ==
    /\ Loop
    /\ c \in pendingTcp
    /\ pendingTcp' = pendingTcp \ {c}
    /\ Emit(<<CloseConn(c)>>)
    /\ UNCHANGED <<clients, udpPeerByAddr, hostPeerId, hostLocation, idVars,
                   adminVars, recordVars, saveVars, sessionModHash>>

(* Mutant: the host is never timed out. *)
ExpireGuest(p) ==
    /\ Loop
    /\ p \in DOMAIN clients \ {hostPeerId}
    /\ RemoveClient(p, FALSE, pendingTcp, clients[p].conn)

ExpireClient(p) ==
    /\ Loop
    /\ p \in DOMAIN clients
    /\ RemoveClient(p, FALSE, pendingTcp, clients[p].conn)

PersistTick ==
    /\ Loop
    /\ FlushDirty(worldDirty, dirtyPlayers)
    /\ UNCHANGED <<outVars, memberVars, hostLocation, idVars, adminVars,
                   recordVars, sessionModHash>>

SendHeartbeat ==
    /\ Loop
    /\ Emit(SendTcp(ConnOf(DOMAIN clients), Say("Heartbeat", 0)))
    /\ UNCHANGED <<memberVars, hostLocation, idVars, adminVars, recordVars,
                   saveVars, sessionModHash>>

-----------------------------------------------------------------------------
(* run_admin_command; commands are polled at the top of the loop *)

Typed(c) == c \in Commands /\ UNCHANGED <<inbound, nextConn>>

(* kick <peer|key> [ban]: the Bye goes to the kicked client alone, and     *)
(* nothing is flushed.                                                     *)
AdminKick(p, ban) ==
    LET key == clients[p].key
    IN  /\ Typed("kick")
        /\ IF ban THEN /\ bannedKeys' = bannedKeys \cup {key}
                       /\ PersistBans(bannedKeys')
                  ELSE UNCHANGED <<bannedKeys, jobs, jobLost>>
        /\ clients' = Without(clients, p)
        /\ udpPeerByAddr' = UnbindUdp(p)
        /\ hostPeerId' \in
               FindHost(Others(p), IF hostPeerId = p THEN 0 ELSE hostPeerId)
        /\ Emit(SendTcp({clients[p].conn}, Say("Bye", p))
                  \o <<CloseConn(clients[p].conn)>>)
        /\ dirtyPlayers' = dirtyPlayers
                             \cup {k \in {key} : players[k] # NoRec}
        /\ UNCHANGED <<pendingTcp, hostLocation, idVars, cfg, recordVars,
                       worldDirty, sessionModHash>>

AdminBan(k) ==
    /\ Typed("ban")
    /\ bannedKeys' = bannedKeys \cup {k}
    /\ PersistBans(bannedKeys')
    /\ UNCHANGED <<outVars, memberVars, hostLocation, idVars, cfg, recordVars,
                   worldDirty, dirtyPlayers, sessionModHash>>

AdminUnban(k) ==
    /\ Typed("unban")
    /\ bannedKeys' = bannedKeys \ {k}
    /\ PersistBans(bannedKeys')
    /\ UNCHANGED <<outVars, memberVars, hostLocation, idVars, cfg, recordVars,
                   worldDirty, dirtyPlayers, sessionModHash>>

AdminSave ==
    /\ Typed("save")
    /\ FlushDirty(TRUE, dirtyPlayers
                          \cup {clients[p].key : p \in DOMAIN clients})
    /\ UNCHANGED <<outVars, memberVars, hostLocation, idVars, adminVars,
                   recordVars, sessionModHash>>

AdminSay ==
    /\ Typed("say")
    /\ Emit(SendTcp(ConnOf(DOMAIN clients), Say("Chat", 0)))
    /\ UNCHANGED <<memberVars, hostLocation, idVars, adminVars, recordVars,
                   saveVars, sessionModHash>>

AdminMaxPlayers ==
    /\ Typed("maxplayers")
    /\ \E c \in Configs : cfg' = [cfg EXCEPT !.maxPlayers = c.maxPlayers]
    /\ UNCHANGED <<outVars, memberVars, hostLocation, idVars, bannedKeys,
                   recordVars, saveVars, sessionModHash>>

(* Mutant: a configuration that pins nothing lifts the lock. *)
PinnedOrNone(c) == c.modHash

Pinned(c) == IF c.modHash # 0 THEN c.modHash ELSE sessionModHash

(* reload, pvp and password change the rules and announce them. *)
AdminRules ==
    /\ Typed("reload")
    /\ \E c \in Configs :
         \/ /\ cfg' = [c EXCEPT !.modHash = IF @ # 0 THEN @ ELSE cfg.modHash]
            /\ sessionModHash' = Pinned(c)
         \/ /\ \/ cfg' = [cfg EXCEPT !.pvp = c.pvp]
               \/ /\ c.password # NoPassword
                  /\ cfg' = [cfg EXCEPT !.password = c.password]
            /\ UNCHANGED sessionModHash
    /\ Emit(SendTcp(ConnOf(DOMAIN clients), Say("SessionRules", 0)))
    /\ UNCHANGED <<memberVars, hostLocation, idVars, bannedKeys, recordVars,
                   saveVars>>

-----------------------------------------------------------------------------
(* The other threads, as the simulation thread sees them *)

(* The net thread pops commands and pushes events.  It reports only on     *)
(* connections it accepted and with peer ids it was given.                 *)
NetThread ==
    /\ \/ UNCHANGED outbound
       \/ outbound # <<>> /\ outbound' = Tail(outbound)
    /\ \/ UNCHANGED <<inbound, nextConn>>
       \/ /\ nextConn \in ConnIds                          \* bound: MaxConn
          /\ nextConn' = nextConn + 1
          /\ inbound' = Push(inbound, InCap, Accepted(nextConn))
       \/ /\ ~Full(inbound, InCap)
          /\ \/ \E c \in 1..(nextConn - 1), p \in 0..(nextPeer - 1) :
                   \/ inbound' = Append(inbound, Closed(c, p))
                   \/ \E m \in TcpMsgs :
                         inbound' = Append(inbound, Frame(c, p, m))
             \/ \E a \in Addrs, m \in UdpMsgs :
                   inbound' = Append(inbound, Datagram(a, m))
          /\ UNCHANGED nextConn
    /\ UNCHANGED <<jobs, simVars>>

PersistThread ==
    /\ jobs # <<>>
    /\ jobs' = Tail(jobs)
    /\ UNCHANGED <<inbound, outbound, nextConn, simVars>>

-----------------------------------------------------------------------------
HandleEvent ==
    \/ TcpAccept \/ TcpClosed
    \/ SessionQuery \/ HelloRefused \/ HelloNew
    \/ \E p \in DOMAIN clients :
         \/ SoftReconnect(p) \/ ClientBye(p) \/ HelloAgain(p)
         \/ WorldSnapshot(p) \/ BlobComplete(p) \/ ClientRelay(p)
         \/ PlayerPose(p) \/ ActorPose(p)
    \/ FrameIgnored \/ UdpBind \/ DatagramIgnored

LoopTail ==
    \/ \E c \in pendingTcp : ExpirePending(c)
    \/ \E p \in DOMAIN clients : ExpireClient(p)
    \/ PersistTick \/ SendHeartbeat

AdminOther ==
    \/ \E k \in Keys : AdminBan(k) \/ AdminUnban(k)
    \/ AdminSave \/ AdminSay \/ AdminMaxPlayers \/ AdminRules

Admin ==
    \/ \E p \in DOMAIN clients, ban \in BOOLEAN : AdminKick(p, ban)
    \/ AdminOther

SimThread == HandleEvent \/ LoopTail \/ Admin

Next == SimThread \/ NetThread \/ PersistThread

Spec == Init /\ [][Next]_vars

-----------------------------------------------------------------------------
(* Correctness of the session *)

(* A player key is live at most once: two sockets that say Hello with one  *)
(* key end up sharing one client (handle_pending_message).                 *)
UniqueKeys ==
    \A p, q \in DOMAIN clients : clients[p].key = clients[q].key => p = q

(* A TCP connection is owned once, by one client or as one pending entry,  *)
(* through Hello, Bye (which gives it back), reconnects and expiry.        *)
ConnOwnership ==
    /\ \A p, q \in DOMAIN clients : clients[p].conn = clients[q].conn => p = q
    /\ \A p \in DOMAIN clients : clients[p].conn \notin pendingTcp

(* There is a host exactly while somebody is connected, and it is live:    *)
(* every removal hands the session on (remove_client, kick, find_host).    *)
HostLive ==
    IF DOMAIN clients = {} THEN hostPeerId = 0
    ELSE hostPeerId \in DOMAIN clients

(* An address in udpPeerByAddr leads to a live client bound to that very   *)
(* address, so that a datagram is never credited to somebody else.         *)
UdpMapSound ==
    \A a \in DOMAIN udpPeerByAddr :
       /\ udpPeerByAddr[a] \in DOMAIN clients
       /\ clients[udpPeerByAddr[a]].udp = a

(* A banned player who is not connected stays out until the ban is lifted, *)
(* whichever way he tries to come in.                                      *)
BanHolds ==
    [][\A k \in bannedKeys \cap bannedKeys' :
         (\E p \in DOMAIN clients' : clients'[p].key = k)
           => \E p \in DOMAIN clients : clients[p].key = k]_vars

(* Whenever a client's UDP token is renewed its old UDP binding ends, so   *)
(* that the address of the previous session gets no more poses.            *)
TokenRenewalUnbinds ==
    [][\A p \in DOMAIN clients \cap DOMAIN clients' :
         clients'[p].token # clients[p].token
           => /\ clients'[p].udp = NoAddr
              /\ \A a \in DOMAIN udpPeerByAddr' : udpPeerByAddr'[a] # p]_vars

(* Once the host's mod list is locked, later hosts join with the same one; *)
(* only a reload that pins another replaces it.                            *)
ModLockStable ==
    [][sessionModHash # 0 /\ cfg' = cfg => sessionModHash' = sessionModHash]_vars

(* Every live client has a record: the handlers of its blobs and poses     *)
(* write to it, and leaving saves it.                                      *)
LiveRecords == \A p \in DOMAIN clients : players[clients[p].key] # NoRec
=============================================================================
