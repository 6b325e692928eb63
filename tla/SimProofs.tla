----------------------------- MODULE SimProofs -----------------------------
(***************************************************************************)
(* Proofs about the simulation thread, for every number of players,        *)
(* connections and addresses, every queue capacity, every configuration    *)
(* and whatever the clients send.                                          *)
(***************************************************************************)
EXTENDS SimParty, SequenceTheorems, FiniteSetTheorems, TLAPS

-----------------------------------------------------------------------------
(* The queues and maps of Containers *)

(* A push keeps a queue's element type and its limit. *)
LEMMA PushType ==
    ASSUME NEW S, NEW q \in Seq(S), NEW cap \in Nat, NEW x \in S,
           Len(q) =< cap
    PROVE  Push(q, cap, x) \in Seq(S) /\ Len(Push(q, cap, x)) =< cap
    BY DEF Push, Full

(* A pop does, too. *)
LEMMA TailType ==
    ASSUME NEW S, NEW q \in Seq(S), NEW cap \in Nat, Len(q) =< cap, q # <<>>
    PROVE  Tail(q) \in Seq(S) /\ Len(Tail(q)) =< cap /\ Head(q) \in S
    OBVIOUS

(* Whichever of the pushes of a handler get in, they fit and are its own. *)
LEMMA PushAllType ==
    ASSUME NEW S, NEW q \in Seq(S), NEW cap \in Nat, NEW xs \in Seq(S),
           Len(q) =< cap, NEW r \in PushAll(q, cap, xs)
    PROVE  r \in Seq(S) /\ Len(r) =< cap
<1>1. Room(q, cap) \in Nat /\ Room(q, cap) + Len(q) =< cap
    BY DEF Room, Full
<1>2. CASE Len(xs) =< Room(q, cap)
  <2>1. r = q \o xs
      BY <1>2 DEF PushAll
  <2>2. QED
      BY <1>1, <1>2, <2>1, ConcatProperties
<1>3. CASE ~(Len(xs) =< Room(q, cap))
  <2>1. PICK f \in [1..Room(q, cap) -> 1..Len(xs)] :
           r = q \o [i \in 1..Room(q, cap) |-> xs[f[i]]]
      BY <1>3 DEF PushAll
  <2> DEFINE g == [i \in 1..Room(q, cap) |-> xs[f[i]]]
  <2>2. g \in [1..Room(q, cap) -> S]
      OBVIOUS
  <2>3. g \in Seq(S) /\ Len(g) = Room(q, cap)
    <3> HIDE DEF g
    <3>1. g \in Seq(S)
        BY <1>1, <2>2, SeqDef
    <3>2. DOMAIN g = 1..Len(g) /\ Len(g) \in Nat /\ DOMAIN g = 1..Room(q, cap)
        BY <2>2, <3>1, LenProperties
    <3>3. QED
        BY <1>1, <3>1, <3>2
  <2>4. r = q \o g
      BY <2>1
  <2> HIDE DEF g
  <2>5. QED
      BY <1>1, <2>3, <2>4, ConcatProperties
<1>4. QED
    BY <1>2, <1>3

(* Inserting into and erasing from a map with keys in K and values in V. *)
LEMMA PutType ==
    ASSUME NEW K, NEW V, NEW f, \E D \in SUBSET K : f \in [D -> V],
           NEW k \in K, NEW v \in V
    PROVE  \E D \in SUBSET K : Put(f, k, v) \in [D -> V]
<1>1. PICK D \in SUBSET K : f \in [D -> V]
    OBVIOUS
<1>2. Put(f, k, v) \in [D \cup {k} -> V]
    BY <1>1 DEF Put
<1>3. QED
    BY <1>2

LEMMA WithoutType ==
    ASSUME NEW K, NEW V, NEW f, \E D \in SUBSET K : f \in [D -> V], NEW k
    PROVE  \E D \in SUBSET K : Without(f, k) \in [D -> V]
<1>1. PICK D \in SUBSET K : f \in [D -> V]
    OBVIOUS
<1>2. Without(f, k) \in [D \ {k} -> V]
    BY <1>1 DEF Without
<1>3. QED
    BY <1>2

-----------------------------------------------------------------------------
(* The parts of TypeOK, by what the actions change together. *)
InOK     == inbound \in Seq(InboundEvent) /\ Len(inbound) =< InCap
ConnOK   == nextConn \in 1..(MaxConn + 1)
OutOK    == /\ outbound \in Seq(OutboundCmd) /\ Len(outbound) =< OutCap
            /\ outLost \in BOOLEAN
JobOK    == /\ jobs \in Seq(PersistJob) /\ Len(jobs) =< JobCap
            /\ jobLost \in BOOLEAN
DirtyOK  == worldDirty \in BOOLEAN /\ dirtyPlayers \in SUBSET Keys
ClientOK == \E P \in SUBSET PeerIds : clients \in [P -> Client]
PendOK   == pendingTcp \in SUBSET ConnIds
UdpOK    == \E A \in SUBSET Addrs : udpPeerByAddr \in [A -> PeerIds]
HostOK   == hostPeerId \in PeerIds \cup {0}
LocOK    == hostLocation \in Locs
WorldOK  == world \in [created : BOOLEAN, clock : Clocks]
PlayerOK == players \in [Keys -> PlayerRec \cup {NoRec}]
AdminOK  == bannedKeys \in SUBSET Keys /\ cfg \in Config
LockOK   == sessionModHash \in ModHashes \cup {0}
PeerOK   == nextPeer \in 1..(MaxPeer + 1)
TokenOK  == nextToken \in Tokens

LEMMA TypeParts ==
    TypeOK <=> /\ InOK /\ ConnOK /\ OutOK /\ JobOK /\ DirtyOK
               /\ ClientOK /\ PendOK /\ UdpOK /\ HostOK /\ LocOK
               /\ WorldOK /\ PlayerOK /\ AdminOK /\ LockOK /\ PeerOK /\ TokenOK
    BY DEF TypeOK, InOK, ConnOK, OutOK, JobOK, DirtyOK, ClientOK, PendOK, UdpOK,
           HostOK, LocOK, WorldOK, PlayerOK, AdminOK, LockOK, PeerOK, TokenOK

LEMMA TypePartsNext ==
    (/\ InOK' /\ ConnOK' /\ OutOK' /\ JobOK' /\ DirtyOK'
     /\ ClientOK' /\ PendOK' /\ UdpOK' /\ HostOK' /\ LocOK'
     /\ WorldOK' /\ PlayerOK' /\ AdminOK' /\ LockOK' /\ PeerOK' /\ TokenOK')
       => TypeOK'
    BY DEF TypeOK, InOK, ConnOK, OutOK, JobOK, DirtyOK, ClientOK, PendOK, UdpOK,
           HostOK, LocOK, WorldOK, PlayerOK, AdminOK, LockOK, PeerOK, TokenOK

(* What an event and a message carry. *)
LEMMA EventFields ==
    ASSUME NEW e \in InboundEvent
    PROVE  /\ e.kind # "UdpDatagram" => e.conn \in ConnIds
           /\ e.kind = "TcpFrame" => e.msg \in TcpMsg
           /\ e.kind = "UdpDatagram" => e.addr \in Addrs /\ e.msg \in UdpMsg
    BY MessageAssumption DEF InboundEvent

LEMMA HelloFields ==
    ASSUME NEW m \in TcpMsg, m.type = "Hello"
    PROVE  /\ m.key \in Keys /\ m.modHash \in ModHashes \cup {0}
           /\ m.location \in Locs \cup {NoLoc} /\ m.clock \in Data
    BY DEF TcpMsg, HelloMsg, HitMsg, SnapMsg, OrderMsg, BlobMsg, PlainMsg

LEMMA ReportFields ==
    ASSUME NEW m \in TcpMsg
    PROVE  /\ m.type = "WorldSnapshot" =>
                m.location \in Locs \cup {NoLoc} /\ m.clock \in Data
           /\ m.type = "Blob" => m.data \in Data
    BY DEF TcpMsg, HelloMsg, HitMsg, SnapMsg, OrderMsg, BlobMsg, PlainMsg

LEMMA DatagramFields ==
    ASSUME NEW m \in UdpMsg
    PROVE  /\ m.type = "UdpBind" => m.peer \in PeerIds
           /\ m.type = "PlayerPose" =>
                m.location \in Locs \cup {NoLoc} /\ m.data \in Data
    BY DEF UdpMsg, BindMsg, PoseMsg, ActorMsg

(* Taking an event. *)
LEMMA TakeType ==
    ASSUME InOK, ConnOK, NEW k, Take(k)
    PROVE  InOK' /\ ConnOK' /\ Event \in InboundEvent /\ Event.kind = k
<1>1. inbound # <<>> /\ inbound' = Tail(inbound) /\ nextConn' = nextConn
    BY DEF Take
<1>2. InOK'
    BY <1>1, BoundsAssumption, TailType DEF InOK
<1>3. Event \in InboundEvent
    BY <1>1, BoundsAssumption, TailType DEF InOK, Event
<1>4. QED
    BY <1>1, <1>2, <1>3 DEF Take, ConnOK

(* A live client. *)
LEMMA ClientFields ==
    ASSUME ClientOK, NEW p \in DOMAIN clients
    PROVE  /\ p \in PeerIds /\ clients[p] \in Client
           /\ clients[p].conn \in ConnIds /\ clients[p].key \in Keys
           /\ clients[p].token \in Tokens /\ clients[p].udp \in Addrs \cup {NoAddr}
<1>1. p \in PeerIds /\ clients[p] \in Client
    BY DEF ClientOK
<1>2. QED
    BY <1>1 DEF Client

LEMMA ConnOfType ==
    ASSUME ClientOK, NEW P \in SUBSET DOMAIN clients
    PROVE  ConnOf(P) \in SUBSET ConnIds
    BY ClientFields DEF ConnOf

-----------------------------------------------------------------------------
(* The pushes of a handler *)

Cmds == Seq(OutboundCmd)

LEMMA SayType ==
    ASSUME NEW t \in ServerMsgTypes, NEW p \in PeerIds \cup {0}
    PROVE  Say(t, p) \in ServerMsg
    BY DEF Say, ServerMsg

LEMMA OneCmd == \A x \in OutboundCmd : <<x>> \in Cmds
    BY DEF Cmds

LEMMA NoCmd == <<>> \in Cmds
    BY DEF Cmds

LEMMA MoreCmds == \A xs, ys \in Cmds : xs \o ys \in Cmds
    BY ConcatProperties DEF Cmds

LEMMA SendTcpType ==
    ASSUME NEW S \in SUBSET ConnIds, NEW m \in ServerMsg
    PROVE  SendTcp(S, m) \in Cmds
<1>1. TcpSend(S, m) \in OutboundCmd
    BY DEF TcpSend, OutboundCmd
<1>2. QED
    BY <1>1, OneCmd, NoCmd DEF SendTcp

LEMMA UdpSendType ==
    ASSUME NEW A \in SUBSET Addrs
    PROVE  UdpSend(A) \in OutboundCmd
    BY DEF UdpSend, OutboundCmd

LEMMA SendUdpType ==
    ASSUME ClientOK, NEW P \in SUBSET DOMAIN clients
    PROVE  SendUdp(P) \in Cmds
<1>1. ({clients[p].udp : p \in P} \ {NoAddr}) \in SUBSET Addrs
    BY ClientFields
<1>2. UdpSend({clients[p].udp : p \in P} \ {NoAddr}) \in OutboundCmd
    BY <1>1, UdpSendType
<1>3. QED
    BY <1>2, OneCmd, NoCmd DEF SendUdp

LEMMA ConnCmds ==
    ASSUME NEW c \in ConnIds, NEW p \in PeerIds
    PROVE  /\ BindPeer(c, p) \in OutboundCmd /\ CloseConn(c) \in OutboundCmd
           /\ KeepPending(p) \in OutboundCmd
    BY DEF BindPeer, CloseConn, KeepPending, OutboundCmd

LEMMA EmitType ==
    ASSUME OutOK, NEW xs \in Cmds, Emit(xs)
    PROVE  OutOK'
<1>1. outbound' \in Seq(OutboundCmd) /\ Len(outbound') =< OutCap
    BY BoundsAssumption, PushAllType DEF OutOK, Emit, Cmds
<1>2. outLost' \in BOOLEAN
    BY DEF OutOK, Emit
<1>3. QED
    BY <1>1, <1>2 DEF OutOK

(* A save *)
LEMMA FlushType ==
    ASSUME JobOK, WorldOK, PlayerOK, NEW dw \in BOOLEAN, NEW dp \in SUBSET Keys,
           FlushDirty(dw, dp)
    PROVE  JobOK' /\ DirtyOK'
<1> DEFINE recs == {k \in dp : players[k] # NoRec}
           job  == [world |-> dw, worldSnap |-> world.clock,
                    players |-> [k \in recs |-> players[k]],
                    writeBans |-> FALSE, banKeys |-> {}]
<1>1. job \in PersistJob
  <2>1. [k \in recs |-> players[k]] \in [recs -> PlayerRec]
      BY DEF PlayerOK
  <2>2. recs \in SUBSET Keys /\ world.clock \in Clocks
      BY DEF WorldOK
  <2>3. QED
      BY <2>1, <2>2 DEF PersistJob
<1>2. Push(jobs, JobCap, job) \in Seq(PersistJob)
        /\ Len(Push(jobs, JobCap, job)) =< JobCap
    BY <1>1, BoundsAssumption, PushType DEF JobOK
<1>3. jobs' \in {jobs, Push(jobs, JobCap, job)}
    BY DEF FlushDirty
<1>4. jobLost' \in BOOLEAN /\ DirtyOK'
    BY DEF FlushDirty, JobOK, DirtyOK
<1>5. QED
    BY <1>2, <1>3, <1>4 DEF JobOK

LEMMA BansType ==
    ASSUME JobOK, NEW B \in SUBSET Keys, PersistBans(B)
    PROVE  JobOK'
<1>1. BanJob(B) \in PersistJob
  <2>1. <<>> \in [{} -> PlayerRec]
      OBVIOUS
  <2>2. QED
      BY <2>1 DEF BanJob, PersistJob, Clocks
<1>2. Push(jobs, JobCap, BanJob(B)) \in Seq(PersistJob)
        /\ Len(Push(jobs, JobCap, BanJob(B))) =< JobCap
    BY <1>1, BoundsAssumption, PushType DEF JobOK
<1>3. jobs' \in {jobs, Push(jobs, JobCap, BanJob(B))} /\ jobLost' \in BOOLEAN
    BY DEF PersistBans, JobOK
<1>4. QED
    BY <1>2, <1>3 DEF JobOK

-----------------------------------------------------------------------------
(* Leaving *)

LEMMA UnbindType ==
    ASSUME UdpOK, NEW p
    PROVE  \E A \in SUBSET Addrs : UnbindUdp(p) \in [A -> PeerIds]
<1>1. \E A \in SUBSET Addrs :
         Without(udpPeerByAddr, clients[p].udp) \in [A -> PeerIds]
    BY WithoutType DEF UdpOK
<1>2. QED
    BY <1>1 DEF UnbindUdp, UdpOK

LEMMA HostType ==
    ASSUME ClientOK, NEW P \in SUBSET DOMAIN clients, NEW h \in PeerIds \cup {0}
    PROVE  FindHost(P, h) \subseteq PeerIds \cup {0}
    BY ClientFields DEF FindHost

LEMMA ByeType ==
    ASSUME ClientOK, NEW p \in DOMAIN clients
    PROVE  TellBye(p) \in Cmds
<1>1. ConnOf(Others(p)) \in SUBSET ConnIds
    BY ConnOfType DEF Others
<1>2. Say("Bye", p) \in ServerMsg
    BY ClientFields, SayType DEF ServerMsgTypes
<1>3. QED
    BY <1>1, <1>2, SendTcpType DEF TellBye

LEMMA RemoveType ==
    ASSUME TypeOK, NEW p \in DOMAIN clients, NEW keep \in BOOLEAN,
           NEW pend \in SUBSET ConnIds, NEW conn \in ConnIds \cup {0},
           keep => conn # 0, RemoveClient(p, keep, pend, conn), InOK', ConnOK'
    PROVE  TypeOK'
<1> USE TypeParts
<1>1. p \in PeerIds /\ clients[p].key \in Keys
    BY ClientFields
<1>2. ClientOK'
    BY WithoutType DEF RemoveClient, ClientOK
<1>3. UdpOK'
    BY UnbindType DEF RemoveClient, UdpOK
<1>4. HostOK'
  <2>1. hostPeerId' \in
            FindHost(Others(p), IF hostPeerId = p THEN 0 ELSE hostPeerId)
      BY DEF RemoveClient
  <2>2. (IF hostPeerId = p THEN 0 ELSE hostPeerId) \in PeerIds \cup {0}
      BY DEF HostOK
  <2>3. Others(p) \in SUBSET DOMAIN clients
      BY DEF Others
  <2>4. QED
      BY <2>1, <2>2, <2>3, HostType DEF HostOK
<1>5. PendOK'
    BY DEF RemoveClient, PendOK
<1>6. OutOK'
  <2>1. TellBye(p) \in Cmds
      BY ByeType
  <2>2. conn # 0 => <<CloseConn(conn)>> \in Cmds
      BY <1>1, ConnCmds, OneCmd
  <2>3. <<KeepPending(p)>> \in Cmds
    <3>1. KeepPending(p) \in OutboundCmd
        BY <1>1 DEF KeepPending, OutboundCmd
    <3>2. QED
        BY <3>1, OneCmd
  <2>4. CASE keep
    <3>1. Emit(TellBye(p) \o <<KeepPending(p)>>)
        BY <2>4 DEF RemoveClient
    <3>2. QED
        BY <2>1, <2>3, <3>1, MoreCmds, EmitType
  <2>5. CASE ~keep
    <3>1. Emit(TellBye(p) \o IF conn = 0 THEN <<>> ELSE <<CloseConn(conn)>>)
        BY <2>5 DEF RemoveClient
    <3>2. QED
        BY <2>1, <2>2, <3>1, NoCmd, MoreCmds, EmitType
  <2>6. QED
      BY <2>4, <2>5
<1>7. JobOK' /\ DirtyOK'
  <2>1. FlushDirty(worldDirty, dirtyPlayers
                     \cup {k \in {clients[p].key} : players[k] # NoRec})
      BY DEF RemoveClient
  <2>2. QED
      BY <1>1, <2>1, FlushType DEF DirtyOK
<1>8. LocOK' /\ WorldOK' /\ PlayerOK' /\ AdminOK' /\ LockOK' /\ PeerOK' /\ TokenOK'
    BY DEF RemoveClient, idVars, adminVars, recordVars, LocOK, WorldOK, PlayerOK,
           AdminOK, LockOK, PeerOK, TokenOK
<1>9. QED
    BY <1>2, <1>3, <1>4, <1>5, <1>6, <1>7, <1>8, TypePartsNext

-----------------------------------------------------------------------------
(* What an action leaves alone keeps its type. *)
LEMMA Kept ==
    ASSUME TypeOK
    PROVE  /\ UNCHANGED <<inbound, nextConn>> => InOK' /\ ConnOK'
           /\ UNCHANGED <<outbound, outLost>> => OutOK'
           /\ UNCHANGED <<jobs, jobLost>> => JobOK'
           /\ UNCHANGED <<worldDirty, dirtyPlayers>> => DirtyOK'
           /\ UNCHANGED clients => ClientOK'
           /\ UNCHANGED pendingTcp => PendOK'
           /\ UNCHANGED udpPeerByAddr => UdpOK'
           /\ UNCHANGED hostPeerId => HostOK'
           /\ UNCHANGED hostLocation => LocOK'
           /\ UNCHANGED world => WorldOK'
           /\ UNCHANGED players => PlayerOK'
           /\ UNCHANGED <<bannedKeys, cfg>> => AdminOK'
           /\ UNCHANGED sessionModHash => LockOK'
           /\ UNCHANGED nextPeer => PeerOK'
           /\ UNCHANGED nextToken => TokenOK'
    BY DEF TypeOK, InOK, ConnOK, OutOK, JobOK, DirtyOK, ClientOK, PendOK, UdpOK,
           HostOK, LocOK, WorldOK, PlayerOK, AdminOK, LockOK, PeerOK, TokenOK

(* Handlers that change nothing but the queues and the marks. *)
LEMMA QuietType ==
    ASSUME TypeOK, InOK', ConnOK', OutOK', JobOK', DirtyOK',
           UNCHANGED <<memberVars, hostLocation, idVars, adminVars, recordVars,
                       sessionModHash>>
    PROVE  TypeOK'
    BY Kept, TypePartsNext DEF memberVars, idVars, adminVars, recordVars

(* The first client on a connection that a TcpClosed names, and the        *)
(* receiver of a frame, are live.                                          *)
LEMMA FromClientType ==
    ASSUME TypeOK, NEW p, NEW t, FromClient(p, t)
    PROVE  /\ InOK' /\ ConnOK' /\ p \in DOMAIN clients
           /\ Event.msg \in TcpMsg /\ Event.msg.type = t
<1>1. Take("TcpFrame") /\ p \in Receivers /\ Event.msg.type = t
    BY DEF FromClient
<1>2. p \in DOMAIN clients
    BY <1>1 DEF Receivers
<1>3. QED
    BY <1>1, <1>2, TypeParts, TakeType, EventFields

LEMMA FromPendingType ==
    ASSUME TypeOK, NEW t, FromPending(t)
    PROVE  /\ InOK' /\ ConnOK' /\ Event.conn \in pendingTcp
           /\ Event.conn \in ConnIds
           /\ Event.msg \in TcpMsg /\ Event.msg.type = t
<1>1. Take("TcpFrame") /\ ForPending /\ Event.msg.type = t
    BY DEF FromPending
<1>2. QED
    BY <1>1, TypeParts, TakeType, EventFields DEF ForPending

LEMMA AcceptType == ASSUME TypeOK, TcpAccept PROVE TypeOK'
<1>1. InOK' /\ ConnOK' /\ Event.conn \in ConnIds
    BY TypeParts, TakeType, EventFields DEF TcpAccept
<1>2. PendOK'
    BY <1>1, TypeParts DEF TcpAccept, PendOK
<1>3. QED
    BY <1>1, <1>2, Kept, TypePartsNext
       DEF TcpAccept, outVars, idVars, adminVars, recordVars, saveVars

LEMMA ClosedType == ASSUME TypeOK, TcpClosed PROVE TypeOK'
<1>1. InOK' /\ ConnOK' /\ Event.conn \in ConnIds
    BY TypeParts, TakeType, EventFields DEF TcpClosed
<1> DEFINE pend   == pendingTcp \ {Event.conn}
           onConn == {p \in DOMAIN clients : clients[p].conn = Event.conn}
<1>2. pend \in SUBSET ConnIds
    BY TypeParts DEF PendOK
<1>3. CASE /\ Event.peer \in DOMAIN clients
           /\ RemoveClient(Event.peer, FALSE, pend, clients[Event.peer].conn)
  <2>1. clients[Event.peer].conn \in ConnIds
      BY <1>3, TypeParts, ClientFields
  <2>2. QED
      BY <1>1, <1>2, <1>3, <2>1, RemoveType
<1>4. ASSUME NEW p \in onConn, RemoveClient(p, FALSE, pend, 0)
      PROVE  TypeOK'
    BY <1>1, <1>2, <1>4, RemoveType
<1>5. CASE /\ pendingTcp' = pend
           /\ UNCHANGED <<outVars, clients, udpPeerByAddr, hostPeerId,
                          hostLocation, idVars, adminVars, recordVars,
                          saveVars, sessionModHash>>
  <2>1. PendOK'
      BY <1>2, <1>5 DEF PendOK
  <2>2. QED
      BY <1>1, <1>5, <2>1, Kept, TypePartsNext
         DEF outVars, idVars, adminVars, recordVars, saveVars
<1>6. QED
    BY <1>3, <1>4, <1>5 DEF TcpClosed

LEMMA ByeHandlerType ==
    ASSUME TypeOK, NEW p, ClientBye(p) PROVE TypeOK'
<1>1. FromClient(p, "Bye") /\ RemoveClient(p, TRUE, pendingTcp, clients[p].conn)
    BY DEF ClientBye
<1>2. InOK' /\ ConnOK' /\ p \in DOMAIN clients
    BY <1>1, FromClientType
<1>3. clients[p].conn \in ConnIds /\ 0 \notin ConnIds /\ pendingTcp \in SUBSET ConnIds
    BY <1>2, TypeParts, ClientFields, BoundsAssumption DEF ConnIds, PendOK
<1>4. QED
    BY <1>1, <1>2, <1>3, RemoveType

LEMMA ExpireType ==
    ASSUME TypeOK, NEW p, ExpireClient(p) PROVE TypeOK'
<1>1. InOK' /\ ConnOK' /\ p \in DOMAIN clients
    BY Kept DEF ExpireClient, Loop
<1>2. clients[p].conn \in ConnIds /\ pendingTcp \in SUBSET ConnIds
    BY <1>1, TypeParts, ClientFields DEF PendOK
<1>3. RemoveClient(p, FALSE, pendingTcp, clients[p].conn)
    BY DEF ExpireClient
<1>4. QED
    BY <1>1, <1>2, <1>3, RemoveType

-----------------------------------------------------------------------------
(* Joining *)

LEMMA HostSeenType ==
    ASSUME TypeOK, NEW m PROVE HostSeen(m) \subseteq PeerIds \cup {0}
<1>1. FindHost(DOMAIN clients, hostPeerId) \subseteq PeerIds \cup {0}
    BY TypeParts, HostType DEF HostOK
<1>2. QED
    BY <1>1, TypeParts DEF HostSeen, HostOK

LEMMA TokenType == ASSUME TokenOK PROVE NewToken \in Tokens
    BY BoundsAssumption DEF TokenOK, NewToken, Tokens

LEMMA JoinedType ==
    ASSUME TypeOK, NEW p \in PeerIds, NEW xs \in Cmds, Joined(p, xs),
           Event.conn \in ConnIds, Event.msg \in TcpMsg,
           Event.msg.type = "Hello", HostOK'
    PROVE  /\ PendOK' /\ PlayerOK' /\ WorldOK' /\ DirtyOK' /\ LocOK' /\ LockOK'
           /\ TokenOK' /\ OutOK' /\ AdminOK' /\ JobOK'
<1> DEFINE m == Event.msg
<1>1. /\ m.key \in Keys /\ m.modHash \in ModHashes \cup {0}
      /\ m.location \in Locs \cup {NoLoc} /\ m.clock \in Data
    BY HelloFields
<1>2. PendOK'
    BY TypeParts DEF Joined, Claimed, PendOK
<1>3. PlayerOK'
  <2>1. [havePose |-> FALSE, data |-> NoData] \in PlayerRec
      BY DEF PlayerRec
  <2>2. players' = WithRecord(m.key)
      BY DEF Joined
  <2>3. QED
      BY <1>1, <2>1, <2>2, TypeParts DEF WithRecord, PlayerOK
<1>4. WorldOK'
    BY <1>1, TypeParts DEF Joined, WorldOK, Clocks
<1>5. DirtyOK' /\ LocOK' /\ LockOK'
    BY <1>1, TypeParts DEF Joined, DirtyOK, LocOK, LockOK
<1>6. TokenOK'
    BY TypeParts, TokenType DEF Joined, TokenOK
<1>7. AdminOK' /\ JobOK'
    BY Kept DEF Joined, adminVars
<1>8. OutOK'
  <2> DEFINE W == SendTcp({Event.conn}, Say("Welcome", p))
             N == SendTcp({Event.conn}, Say("WorldSnapshot", hostPeerId'))
             R == [type |-> "Roster", peer |-> p, peers |-> Others(p)]
             T == SendTcp({Event.conn}, R)
  <2>1. Say("Welcome", p) \in ServerMsg
      BY SayType DEF ServerMsgTypes
  <2>2. Say("WorldSnapshot", hostPeerId') \in ServerMsg
      BY SayType DEF ServerMsgTypes, HostOK
  <2>3. R \in ServerMsg
    <3>1. Others(p) \in SUBSET PeerIds
        BY TypeParts, ClientFields DEF Others
    <3>2. QED
        BY <3>1 DEF ServerMsg, ServerMsgTypes
  <2>4. W \in Cmds /\ N \in Cmds /\ T \in Cmds
    <3> HIDE DEF R
    <3>1. {Event.conn} \in SUBSET ConnIds
        OBVIOUS
    <3>2. QED
        BY <2>1, <2>2, <2>3, <3>1, SendTcpType
  <2>5. Emit(xs \o W \o N \o T)
      BY DEF Joined
  <2> HIDE DEF W, N, T
  <2>6. xs \o W \o N \o T \in Cmds
      BY <2>4, MoreCmds
  <2>7. QED
      BY <2>5, <2>6, TypeParts, EmitType
<1>9. QED
    BY <1>2, <1>3, <1>4, <1>5, <1>6, <1>7, <1>8

LEMMA NewType == ASSUME TypeOK, HelloNew PROVE TypeOK'
<1> DEFINE m == Event.msg
           c == Event.conn
           r == [conn |-> c, key |-> m.key, token |-> nextToken, udp |-> NoAddr]
<1>1. /\ InOK' /\ ConnOK' /\ c \in ConnIds /\ m \in TcpMsg /\ m.type = "Hello"
      /\ m.key \in Keys
    BY FromPendingType, HelloFields DEF HelloNew
<1>2. nextPeer \in PeerIds /\ nextPeer' = nextPeer + 1
    BY DEF HelloNew
<1>3. HostOK'
    BY <1>2, HostSeenType DEF HelloNew, HostOK
<1>4. ClientOK'
  <2>1. r \in Client
      BY <1>1, TypeParts DEF Client, TokenOK
  <2>2. clients' = Put(clients, nextPeer, r)
      BY DEF HelloNew
  <2> HIDE DEF r
  <2>3. PICK P \in SUBSET PeerIds : clients \in [P -> Client]
      BY TypeParts DEF ClientOK
  <2>4. Put(clients, nextPeer, r) \in [P \cup {nextPeer} -> Client]
      BY <2>1, <2>3 DEF Put
  <2>5. QED
      BY <1>2, <2>2, <2>4 DEF ClientOK
<1>5. PeerOK' /\ UdpOK'
    BY <1>2, Kept, BoundsAssumption DEF HelloNew, PeerOK, PeerIds
<1>6. Joined(nextPeer, <<BindPeer(c, nextPeer)>>)
        /\ <<BindPeer(c, nextPeer)>> \in Cmds
    BY <1>1, <1>2, ConnCmds, OneCmd DEF HelloNew
<1>7. QED
    BY <1>1, <1>2, <1>3, <1>4, <1>5, <1>6, JoinedType, TypePartsNext

LEMMA ReconnectType ==
    ASSUME TypeOK, NEW p, SoftReconnect(p) PROVE TypeOK'
<1> DEFINE m == Event.msg
           c == Event.conn
           r == [conn |-> c, key |-> m.key, token |-> nextToken, udp |-> NoAddr]
           xs == (IF clients[p].conn = c THEN <<>>
                  ELSE <<CloseConn(clients[p].conn)>>) \o <<BindPeer(c, p)>>
<1>1. /\ InOK' /\ ConnOK' /\ c \in ConnIds /\ m \in TcpMsg /\ m.type = "Hello"
      /\ m.key \in Keys
    BY FromPendingType, HelloFields DEF SoftReconnect
<1>2. p \in DOMAIN clients /\ p \in PeerIds /\ clients[p].conn \in ConnIds
    BY TypeParts, ClientFields DEF SoftReconnect, KeyHolders
<1>3. HostOK'
    BY HostSeenType DEF SoftReconnect, HostOK
<1>4. ClientOK'
  <2>1. r \in Client
      BY <1>1, TypeParts DEF Client, TokenOK
  <2>2. clients' = [clients EXCEPT ![p] = r]
      BY DEF SoftReconnect
  <2> HIDE DEF r
  <2>3. QED
      BY <2>1, <2>2, TypeParts DEF ClientOK
<1>5. UdpOK'
    BY TypeParts, UnbindType DEF SoftReconnect, UdpOK
<1>6. PeerOK'
    BY Kept DEF SoftReconnect
<1>7. Joined(p, xs)
    BY DEF SoftReconnect
<1>8. xs \in Cmds
    BY <1>1, <1>2, ConnCmds, OneCmd, NoCmd, MoreCmds
<1> HIDE DEF xs
<1>9. QED
    BY <1>1, <1>2, <1>3, <1>4, <1>5, <1>6, <1>7, <1>8, JoinedType, TypePartsNext

LEMMA AnswerType ==
    ASSUME TypeOK, SessionQuery \/ HelloRefused PROVE TypeOK'
<1>1. InOK' /\ ConnOK' /\ Event.conn \in ConnIds
    BY FromPendingType DEF SessionQuery, HelloRefused
<1>2. HostOK'
  <2>1. CASE SessionQuery
      BY <2>1, TypeParts, HostType DEF SessionQuery, HostOK
  <2>2. CASE HelloRefused
      BY <2>2, HostSeenType DEF HelloRefused, HostOK
  <2>3. QED
      BY <2>1, <2>2
<1>3. PICK s \in ServerMsg : Emit(SendTcp({Event.conn}, s))
  <2>1. Say("SessionInfo", hostPeerId') \in ServerMsg /\ Say("Reject", 0) \in ServerMsg
      BY <1>2, SayType DEF ServerMsgTypes, HostOK
  <2>2. QED
      BY <2>1 DEF SessionQuery, HelloRefused
<1>4. OutOK'
    BY <1>1, <1>3, TypeParts, SendTcpType, EmitType
<1>5. QED
    BY <1>1, <1>2, <1>4, Kept, TypePartsNext
       DEF SessionQuery, HelloRefused, idVars, adminVars, recordVars, saveVars

-----------------------------------------------------------------------------
(* The messages of a client that has joined *)

(* A session without a renewed token goes on as it is. *)
LEMMA AgainType ==
    ASSUME TypeOK, NEW p, HelloAgain(p) PROVE TypeOK'
<1>1. InOK' /\ ConnOK' /\ p \in DOMAIN clients
    BY FromClientType DEF HelloAgain
<1>2. p \in PeerIds /\ clients[p].conn \in ConnIds
    BY <1>1, TypeParts, ClientFields
<1>3. ClientOK'
  <2>1. [clients[p] EXCEPT !.token = nextToken, !.udp = NoAddr] \in Client
      BY <1>1, TypeParts, ClientFields DEF Client, TokenOK
  <2>2. clients' = [clients EXCEPT ![p] =
                      [clients[p] EXCEPT !.token = nextToken, !.udp = NoAddr]]
      BY <1>1, TypeParts, ClientFields DEF HelloAgain, Client, ClientOK
  <2>3. QED
      BY <1>1, <2>1, <2>2, TypeParts DEF ClientOK
<1>4. UdpOK'
    BY TypeParts, UnbindType DEF HelloAgain, UdpOK
<1>5. TokenOK'
    BY TypeParts, TokenType DEF HelloAgain, TokenOK
<1>6. OutOK'
  <2>1. Say("Welcome", p) \in ServerMsg
      BY <1>2, SayType DEF ServerMsgTypes
  <2>2. QED
      BY <1>2, <2>1, TypeParts, SendTcpType, EmitType DEF HelloAgain
<1>7. QED
    BY <1>1, <1>3, <1>4, <1>5, <1>6, Kept, TypePartsNext
       DEF HelloAgain, adminVars, recordVars, saveVars

LEMMA SnapshotType ==
    ASSUME TypeOK, NEW p, WorldSnapshot(p) PROVE TypeOK'
<1>1. /\ InOK' /\ ConnOK'
      /\ Event.msg.location \in Locs \cup {NoLoc} /\ Event.msg.clock \in Data
    BY FromClientType, ReportFields DEF WorldSnapshot
<1>2. WorldOK'
    BY <1>1, TypeParts DEF WorldSnapshot, WorldOK, Clocks
<1>3. LocOK' /\ DirtyOK'
    BY <1>1, TypeParts DEF WorldSnapshot, LocOK, DirtyOK
<1>4. QED
    BY <1>1, <1>2, <1>3, Kept, TypePartsNext
       DEF WorldSnapshot, outVars, memberVars, idVars, adminVars

(* The record of a live client is there to be written to. *)
LEMMA BlobType ==
    ASSUME TypeOK, LiveRecords, NEW p, BlobComplete(p) PROVE TypeOK'
<1> DEFINE key == clients[p].key
<1>1. /\ InOK' /\ ConnOK' /\ p \in DOMAIN clients /\ Event.msg.data \in Data
    BY FromClientType, ReportFields DEF BlobComplete
<1>2. p \in PeerIds /\ key \in Keys
    BY <1>1, TypeParts, ClientFields
<1>3. players[key].havePose \in BOOLEAN
    BY <1>1, <1>2, TypeParts DEF LiveRecords, PlayerOK, PlayerRec
<1>4. PlayerOK'
  <2>1. [havePose |-> players[key].havePose, data |-> Event.msg.data] \in PlayerRec
      BY <1>1, <1>3 DEF PlayerRec
  <2>2. QED
      BY <1>2, <2>1, TypeParts DEF BlobComplete, PlayerOK
<1>5. DirtyOK'
    BY <1>2, TypeParts DEF BlobComplete, DirtyOK
<1>6. OutOK'
  <2> DEFINE b == [type |-> "Blob", peer |-> p, peers |-> {p}]
  <2>1. b \in ServerMsg
      BY <1>2 DEF ServerMsg, ServerMsgTypes
  <2>2. ConnOf(Others(p)) \in SUBSET ConnIds
      BY TypeParts, ConnOfType DEF Others
  <2>3. Emit(SendTcp(ConnOf(Others(p)), b))
      BY DEF BlobComplete
  <2> HIDE DEF b
  <2>4. QED
      BY <2>1, <2>2, <2>3, TypeParts, SendTcpType, EmitType
<1>7. QED
    BY <1>1, <1>4, <1>5, <1>6, Kept, TypePartsNext
       DEF BlobComplete, memberVars, idVars, adminVars

LEMMA RelayType ==
    ASSUME TypeOK, NEW p, ClientRelay(p) PROVE TypeOK'
<1>1. PICK t \in RelayTypes :
         /\ FromClient(p, t)
         /\ Emit(SendTcp(ConnOf(RelayTo(p, Event.msg)), Say(t, p)))
         /\ UNCHANGED <<memberVars, hostLocation, idVars, adminVars, recordVars,
                        saveVars, sessionModHash>>
    BY DEF ClientRelay
<1>2. /\ InOK' /\ ConnOK' /\ p \in DOMAIN clients /\ Event.msg.type = t
    BY <1>1, FromClientType
<1>3. RelayTo(p, Event.msg) \in SUBSET DOMAIN clients
    BY <1>2 DEF RelayTo, RelayTypes, Others
<1>4. Say(t, p) \in ServerMsg
    BY <1>2, TypeParts, ClientFields, SayType DEF RelayTypes, ServerMsgTypes
<1>5. OutOK'
    BY <1>1, <1>3, <1>4, TypeParts, ConnOfType, SendTcpType, EmitType
<1>6. QED
    BY <1>1, <1>2, <1>5, Kept, QuietType DEF saveVars

LEMMA FrameIgnoredType == ASSUME TypeOK, FrameIgnored PROVE TypeOK'
<1>1. InOK' /\ ConnOK'
    BY TypeParts, TakeType DEF FrameIgnored
<1>2. QED
    BY <1>1, Kept, QuietType DEF FrameIgnored, outVars, saveVars

-----------------------------------------------------------------------------
(* Datagrams *)

LEMMA TakeUdpType ==
    ASSUME TypeOK, Take("UdpDatagram")
    PROVE  InOK' /\ ConnOK' /\ Event.addr \in Addrs /\ Event.msg \in UdpMsg
    BY TypeParts, TakeType, EventFields

LEMMA BindType == ASSUME TypeOK, UdpBind PROVE TypeOK'
<1> DEFINE p == Event.msg.peer
           a == Event.addr
<1>1. InOK' /\ ConnOK' /\ a \in Addrs
    BY TakeUdpType DEF UdpBind
<1>2. p \in DOMAIN clients /\ p \in PeerIds
    BY TypeParts, ClientFields DEF UdpBind
<1>3. ClientOK'
  <2>1. [clients[p] EXCEPT !.udp = a] \in Client
      BY <1>1, <1>2, TypeParts, ClientFields DEF Client
  <2>2. clients' = [clients EXCEPT ![p] = [clients[p] EXCEPT !.udp = a]]
      BY <1>2, TypeParts, ClientFields DEF UdpBind, Client, ClientOK
  <2>3. QED
      BY <1>2, <2>1, <2>2, TypeParts DEF ClientOK
<1>4. UdpOK'
  <2>1. PICK A \in SUBSET Addrs : UnbindUdp(p) \in [A -> PeerIds]
      BY TypeParts, UnbindType
  <2>2. Put(UnbindUdp(p), a, p) \in [A \cup {a} -> PeerIds]
      BY <1>2, <2>1 DEF Put
  <2>3. QED
      BY <1>1, <2>2 DEF UdpBind, UdpOK
<1>5. OutOK'
  <2>1. <<UdpSend({a})>> \in Cmds
      BY <1>1, UdpSendType, OneCmd
  <2>2. PICK xs \in {<<>>, <<UdpSend({a})>>} : Emit(xs)
      BY DEF UdpBind
  <2>3. QED
      BY <2>1, <2>2, NoCmd, TypeParts, EmitType
<1>6. QED
    BY <1>1, <1>3, <1>4, <1>5, Kept, TypePartsNext
       DEF UdpBind, idVars, adminVars, recordVars, saveVars

LEMMA PoseType ==
    ASSUME TypeOK, NEW p, PlayerPose(p) PROVE TypeOK'
<1> DEFINE m   == Event.msg
           key == clients[p].key
<1>1. /\ InOK' /\ ConnOK' /\ m.location \in Locs \cup {NoLoc} /\ m.data \in Data
    BY TakeUdpType, DatagramFields DEF PlayerPose
<1>2. p \in DOMAIN clients /\ key \in Keys
    BY TypeParts, ClientFields DEF PlayerPose
<1>3. PlayerOK'
  <2>1. [havePose |-> TRUE, data |-> m.data] \in PlayerRec
      BY <1>1 DEF PlayerRec
  <2>2. QED
      BY <1>2, <2>1, TypeParts DEF PlayerPose, PlayerOK
<1>4. DirtyOK' /\ LocOK'
    BY <1>1, <1>2, TypeParts DEF PlayerPose, DirtyOK, LocOK
<1>5. OutOK'
    BY TypeParts, SendUdpType, EmitType DEF PlayerPose, Others
<1>6. QED
    BY <1>1, <1>3, <1>4, <1>5, Kept, TypePartsNext
       DEF PlayerPose, memberVars, idVars, adminVars

LEMMA ActorType ==
    ASSUME TypeOK, NEW p, ActorPose(p) PROVE TypeOK'
<1>1. InOK' /\ ConnOK'
    BY TakeUdpType DEF ActorPose
<1>2. OutOK'
    BY TypeParts, SendUdpType, EmitType DEF ActorPose, Others
<1>3. QED
    BY <1>1, <1>2, Kept, QuietType DEF ActorPose, saveVars

LEMMA DatagramIgnoredType == ASSUME TypeOK, DatagramIgnored PROVE TypeOK'
<1>1. InOK' /\ ConnOK'
    BY TakeUdpType DEF DatagramIgnored
<1>2. UdpOK'
  <2>1. \E A \in SUBSET Addrs : UdpMapSeen(Event.addr) \in [A -> PeerIds]
      BY TypeParts DEF UdpOK, UdpMapSeen
  <2>2. QED
      BY <2>1, TypeParts DEF DatagramIgnored, UdpOK
<1>3. QED
    BY <1>1, <1>2, Kept, TypePartsNext
       DEF DatagramIgnored, outVars, idVars, adminVars, recordVars, saveVars

-----------------------------------------------------------------------------
(* The rest of the loop, the admin's commands and the other threads *)

LEMMA ExpirePendingType ==
    ASSUME TypeOK, NEW c, ExpirePending(c) PROVE TypeOK'
<1>1. InOK' /\ ConnOK' /\ c \in ConnIds
    BY Kept, TypeParts DEF ExpirePending, Loop, PendOK
<1>2. PendOK'
    BY TypeParts DEF ExpirePending, PendOK
<1>3. OutOK'
  <2>1. CloseConn(c) \in OutboundCmd
      BY <1>1 DEF CloseConn, OutboundCmd
  <2>2. QED
      BY <2>1, OneCmd, TypeParts, EmitType DEF ExpirePending
<1>4. QED
    BY <1>1, <1>2, <1>3, Kept, TypePartsNext
       DEF ExpirePending, idVars, adminVars, recordVars, saveVars

LEMMA TickType == ASSUME TypeOK, PersistTick PROVE TypeOK'
<1>1. JobOK' /\ DirtyOK'
    BY TypeParts, FlushType DEF PersistTick, DirtyOK
<1>2. QED
    BY <1>1, Kept, QuietType DEF PersistTick, Loop, outVars

(* A message of the server to all its clients. *)
LEMMA BroadcastType ==
    ASSUME TypeOK, NEW t \in ServerMsgTypes,
           Emit(SendTcp(ConnOf(DOMAIN clients), Say(t, 0)))
    PROVE  OutOK'
    BY TypeParts, ConnOfType, SayType, SendTcpType, EmitType

LEMMA AnnounceType ==
    ASSUME TypeOK, SendHeartbeat \/ AdminSay PROVE TypeOK'
<1>1. OutOK'
    BY BroadcastType DEF SendHeartbeat, AdminSay, ServerMsgTypes
<1>2. QED
    BY <1>1, Kept, QuietType DEF SendHeartbeat, AdminSay, Loop, Typed, saveVars

LEMMA KickType ==
    ASSUME TypeOK, NEW p \in DOMAIN clients, NEW ban \in BOOLEAN,
           AdminKick(p, ban)
    PROVE  TypeOK'
<1>1. p \in PeerIds /\ clients[p].key \in Keys /\ clients[p].conn \in ConnIds
    BY TypeParts, ClientFields
<1>2. ClientOK'
    BY TypeParts, WithoutType DEF AdminKick, ClientOK
<1>3. UdpOK'
    BY TypeParts, UnbindType DEF AdminKick, UdpOK
<1>4. HostOK'
  <2>1. hostPeerId' \in
            FindHost(Others(p), IF hostPeerId = p THEN 0 ELSE hostPeerId)
      BY DEF AdminKick
  <2>2. (IF hostPeerId = p THEN 0 ELSE hostPeerId) \in PeerIds \cup {0}
      BY TypeParts DEF HostOK
  <2>3. Others(p) \in SUBSET DOMAIN clients
      BY DEF Others
  <2>4. QED
      BY <2>1, <2>2, <2>3, TypeParts, HostType DEF HostOK
<1>5. AdminOK' /\ JobOK'
  <2>1. bannedKeys' \in SUBSET Keys /\ cfg' = cfg
      BY <1>1, TypeParts DEF AdminKick, AdminOK
  <2>2. CASE ban
    <3>1. PersistBans(bannedKeys')
        BY <2>2 DEF AdminKick
    <3>2. QED
        BY <2>1, <3>1, TypeParts, BansType DEF AdminOK
  <2>3. CASE ~ban
      BY <2>1, <2>3, Kept, TypeParts DEF AdminKick, AdminOK
  <2>4. QED
      BY <2>2, <2>3
<1>6. OutOK'
  <2> DEFINE B == SendTcp({clients[p].conn}, Say("Bye", p))
  <2>1. Say("Bye", p) \in ServerMsg
      BY <1>1, SayType DEF ServerMsgTypes
  <2>2. B \in Cmds
      BY <1>1, <2>1, SendTcpType
  <2>3. <<CloseConn(clients[p].conn)>> \in Cmds
      BY <1>1, ConnCmds, OneCmd
  <2>4. Emit(B \o <<CloseConn(clients[p].conn)>>)
      BY DEF AdminKick
  <2> HIDE DEF B
  <2>5. QED
      BY <2>2, <2>3, <2>4, MoreCmds, TypeParts, EmitType
<1>7. DirtyOK'
    BY <1>1, TypeParts DEF AdminKick, DirtyOK
<1>8. QED
    BY <1>2, <1>3, <1>4, <1>5, <1>6, <1>7, Kept, TypePartsNext
       DEF AdminKick, Typed, idVars, recordVars

LEMMA BanType ==
    ASSUME TypeOK, NEW k \in Keys, AdminBan(k) \/ AdminUnban(k) PROVE TypeOK'
<1>1. bannedKeys' \in SUBSET Keys /\ cfg' = cfg /\ PersistBans(bannedKeys')
    BY TypeParts DEF AdminBan, AdminUnban, AdminOK
<1>2. AdminOK' /\ JobOK'
    BY <1>1, TypeParts, BansType DEF AdminOK
<1>3. QED
    BY <1>2, Kept, TypePartsNext
       DEF AdminBan, AdminUnban, Typed, outVars, memberVars, idVars, recordVars

LEMMA SaveType == ASSUME TypeOK, AdminSave PROVE TypeOK'
<1>1. (dirtyPlayers \cup {clients[p].key : p \in DOMAIN clients}) \in SUBSET Keys
    BY TypeParts, ClientFields DEF DirtyOK
<1>2. JobOK' /\ DirtyOK'
    BY <1>1, TypeParts, FlushType DEF AdminSave
<1>3. QED
    BY <1>2, Kept, QuietType DEF AdminSave, Typed, outVars

LEMMA RulesType ==
    ASSUME TypeOK, AdminMaxPlayers \/ AdminRules PROVE TypeOK'
<1>1. \A c \in Configs : c \in Config
    BY MessageAssumption
<1>2. CASE AdminMaxPlayers
  <2>1. AdminOK'
      BY <1>1, <1>2, TypeParts DEF AdminMaxPlayers, AdminOK, Config
  <2>2. QED
      BY <1>2, <2>1, Kept, TypePartsNext
         DEF AdminMaxPlayers, Typed, outVars, memberVars, idVars, recordVars,
             saveVars
<1>3. CASE AdminRules
  <2>1. OutOK'
      BY <1>3, BroadcastType DEF AdminRules, ServerMsgTypes
  <2>2. AdminOK'
      BY <1>1, <1>3, TypeParts DEF AdminRules, AdminOK, Config
  <2>3. LockOK'
      BY <1>1, <1>3, TypeParts DEF AdminRules, Pinned, LockOK, Config
  <2>4. QED
      BY <1>3, <2>1, <2>2, <2>3, Kept, TypePartsNext
         DEF AdminRules, Typed, memberVars, idVars, recordVars, saveVars
<1>4. QED
    BY <1>2, <1>3

(* The events of the net thread are events. *)
LEMMA EventType ==
    ASSUME NEW c \in ConnIds, NEW p \in PeerIds \cup {0}
    PROVE  /\ Accepted(c) \in InboundEvent /\ Closed(c, p) \in InboundEvent
           /\ \A m \in TcpMsgs : Frame(c, p, m) \in InboundEvent
    BY DEF Accepted, Closed, Frame, InboundEvent

LEMMA DatagramType ==
    ASSUME NEW a \in Addrs, NEW m \in UdpMsgs
    PROVE  Datagram(a, m) \in InboundEvent
    BY DEF Datagram, InboundEvent

LEMMA NetType == ASSUME TypeOK, NetThread PROVE TypeOK'
<1> USE BoundsAssumption
<1>1. OutOK'
    BY TypeParts, TailType DEF NetThread, simVars, OutOK
<1>2. ConnOK'
    BY TypeParts DEF NetThread, ConnOK, ConnIds
<1>3. InOK'
  <2>1. CASE inbound' = inbound
      BY <2>1, TypeParts DEF InOK
  <2>2. CASE nextConn \in ConnIds /\ inbound' = Push(inbound, InCap, Accepted(nextConn))
    <3>1. Accepted(nextConn) \in InboundEvent
        BY <2>2 DEF Accepted, InboundEvent
    <3>2. QED
        BY <2>2, <3>1, TypeParts, PushType DEF InOK
  <2>3. ASSUME ~Full(inbound, InCap), NEW ev \in InboundEvent,
               inbound' = Append(inbound, ev)
        PROVE  InOK'
    <3>1. inbound' = Push(inbound, InCap, ev)
        BY <2>3 DEF Push
    <3>2. QED
        BY <2>3, <3>1, TypeParts, PushType DEF InOK
  <2>4. \A c \in 1..(nextConn - 1), p \in 0..(nextPeer - 1) :
           c \in ConnIds /\ p \in PeerIds \cup {0}
      BY TypeParts DEF ConnOK, PeerOK, ConnIds, PeerIds
  <2>5. QED
      BY <2>1, <2>2, <2>3, <2>4, EventType, DatagramType DEF NetThread
<1>4. QED
    BY <1>1, <1>2, <1>3, Kept, TypePartsNext
       DEF NetThread, simVars, memberVars, idVars, adminVars, recordVars

LEMMA PersistType == ASSUME TypeOK, PersistThread PROVE TypeOK'
<1>1. JobOK'
    BY TypeParts, TailType, BoundsAssumption DEF PersistThread, simVars, JobOK
<1>2. QED
    BY <1>1, Kept, TypePartsNext
       DEF PersistThread, simVars, memberVars, idVars, adminVars, recordVars

LEMMA TypeInit == ASSUME Init PROVE TypeOK /\ LiveRecords
<1> USE BoundsAssumption
<1>1. InOK /\ OutOK /\ JobOK /\ ConnOK /\ DirtyOK
  <2>0. /\ inbound = <<>> /\ outbound = <<>> /\ jobs = <<>>
        /\ outLost \in BOOLEAN /\ jobLost \in BOOLEAN
      BY DEF Init
  <2>1. InOK
      BY <2>0 DEF InOK
  <2>2. OutOK
      BY <2>0 DEF OutOK
  <2>3. JobOK
      BY <2>0 DEF JobOK
  <2>4. nextConn = 1 /\ worldDirty \in BOOLEAN /\ dirtyPlayers = {}
      BY DEF Init
  <2>5. ConnOK
      BY <2>4 DEF ConnOK
  <2>6. DirtyOK
      BY <2>4 DEF DirtyOK
  <2>7. QED
      BY <2>1, <2>2, <2>3, <2>5, <2>6
<1>2. ClientOK /\ UdpOK
  <2>1. clients \in [{} -> Client] /\ udpPeerByAddr \in [{} -> PeerIds]
      BY DEF Init
  <2>2. QED
      BY <2>1 DEF ClientOK, UdpOK
<1>3. PendOK /\ HostOK /\ LocOK /\ PeerOK /\ TokenOK
    BY ValueAssumption DEF Init, PendOK, HostOK, LocOK, PeerOK, TokenOK, Tokens
<1>4. WorldOK /\ PlayerOK
    BY DEF Init, WorldOK, PlayerOK, Clocks
<1>5. AdminOK /\ LockOK
    BY MessageAssumption DEF Init, AdminOK, LockOK, Config
<1>6. LiveRecords
    BY DEF Init, LiveRecords
<1>7. QED
    BY <1>1, <1>2, <1>3, <1>4, <1>5, <1>6, TypeParts

LEMMA TypeStep == TypeOK /\ LiveRecords /\ [Next]_vars => TypeOK'
<1> SUFFICES ASSUME TypeOK, LiveRecords, [Next]_vars PROVE TypeOK'
    OBVIOUS
<1>1. CASE HandleEvent
    BY <1>1, AcceptType, ClosedType, AnswerType, NewType, ReconnectType,
       ByeHandlerType, AgainType, SnapshotType, BlobType, RelayType, PoseType,
       ActorType, FrameIgnoredType, BindType, DatagramIgnoredType
       DEF HandleEvent
<1>2. CASE LoopTail
    BY <1>2, ExpirePendingType, ExpireType, TickType, AnnounceType DEF LoopTail
<1>3. CASE Admin
    BY <1>3, KickType, BanType, SaveType, AnnounceType, RulesType DEF Admin, AdminOther
<1>4. CASE NetThread \/ PersistThread
    BY <1>4, NetType, PersistType
<1>5. CASE UNCHANGED vars
    BY <1>5, Kept, TypePartsNext
       DEF vars, simVars, memberVars, idVars, adminVars, recordVars
<1>6. QED
    BY <1>1, <1>2, <1>3, <1>4, <1>5 DEF Next, SimThread

-----------------------------------------------------------------------------
(* What a step can do to the members of the session.  The rest of the      *)
(* proofs only look at these six cases.                                    *)

SameMembers == UNCHANGED <<memberVars, nextPeer>>

(* p leaves; its connection may become pending again. *)
Leaves(p) ==
    /\ p \in DOMAIN clients
    /\ clients' = Without(clients, p)
    /\ udpPeerByAddr' = UnbindUdp(p)
    /\ hostPeerId' \in FindHost(Others(p), IF hostPeerId = p THEN 0 ELSE hostPeerId)
    /\ pendingTcp' \subseteq pendingTcp \cup {clients[p].conn}
    /\ UNCHANGED nextPeer

(* A connection comes to be pending, or is no longer, or the host is asked *)
(* for; everybody stays.                                                   *)
Waits ==
    /\ hostPeerId' \in {hostPeerId} \cup FindHost(DOMAIN clients, hostPeerId)
    /\ UNCHANGED <<clients, nextPeer>>
    /\ \A a \in DOMAIN udpPeerByAddr' : /\ a \in DOMAIN udpPeerByAddr
                                        /\ udpPeerByAddr'[a] = udpPeerByAddr[a]

Members ==
    \/ SameMembers
    \/ \E p \in DOMAIN clients : Leaves(p)
    \/ TcpAccept
    \/ Waits /\ pendingTcp' \subseteq pendingTcp
    \/ HelloNew
    \/ \E p \in DOMAIN clients : SoftReconnect(p) \/ HelloAgain(p)
    \/ UdpBind

LEMMA RemoveLeaves ==
    ASSUME NEW p \in DOMAIN clients, NEW keep \in BOOLEAN,
           NEW pend \in SUBSET pendingTcp, NEW conn,
           keep => conn = clients[p].conn, RemoveClient(p, keep, pend, conn)
    PROVE  Leaves(p)
    BY DEF RemoveClient, Leaves, idVars

LEMMA MembersStep == TypeOK /\ [Next]_vars => Members
<1> SUFFICES ASSUME TypeOK, [Next]_vars PROVE Members
    OBVIOUS
<1>1. CASE TcpClosed
  <2> DEFINE pend == pendingTcp \ {Event.conn}
  <2>1. CASE /\ Event.peer \in DOMAIN clients
             /\ RemoveClient(Event.peer, FALSE, pend, clients[Event.peer].conn)
      BY <2>1, RemoveLeaves DEF Members
  <2>2. ASSUME NEW p \in DOMAIN clients, RemoveClient(p, FALSE, pend, 0)
        PROVE  Members
      BY <2>2, RemoveLeaves DEF Members
  <2>3. CASE /\ pendingTcp' = pend
             /\ UNCHANGED <<outVars, clients, udpPeerByAddr, hostPeerId,
                            hostLocation, idVars, adminVars, recordVars,
                            saveVars, sessionModHash>>
      BY <2>3 DEF Members, Waits, idVars
  <2>4. QED
      BY <1>1, <2>1, <2>2, <2>3 DEF TcpClosed
<1>2. ASSUME NEW p \in DOMAIN clients, ClientBye(p) \/ ExpireClient(p)
      PROVE  Members
  <2>1. PICK keep \in BOOLEAN : RemoveClient(p, keep, pendingTcp, clients[p].conn)
      BY <1>2 DEF ClientBye, ExpireClient
  <2>2. Leaves(p)
      BY <2>1, RemoveLeaves
  <2>3. QED
      BY <2>2 DEF Members
<1>3. ASSUME NEW p \in DOMAIN clients, NEW ban, AdminKick(p, ban)
      PROVE  Members
  <2>1. Leaves(p)
      BY <1>3 DEF AdminKick, Leaves, idVars
  <2>2. QED
      BY <2>1 DEF Members
<1>4. CASE SessionQuery
    BY <1>4 DEF SessionQuery, Members, Waits, idVars
<1>5. CASE HelloRefused
    BY <1>5 DEF HelloRefused, HostSeen, Members, Waits, idVars
<1>6. CASE DatagramIgnored
    BY <1>6 DEF DatagramIgnored, UdpMapSeen, Members, Waits, idVars
<1>7. ASSUME NEW c, ExpirePending(c) PROVE Members
    BY <1>7 DEF ExpirePending, Members, Waits, idVars
<1>8. ASSUME NEW p, \/ WorldSnapshot(p) \/ BlobComplete(p) \/ ClientRelay(p)
                    \/ PlayerPose(p) \/ ActorPose(p)
      PROVE  SameMembers
    BY <1>8 DEF WorldSnapshot, BlobComplete, ClientRelay, PlayerPose, ActorPose,
                SameMembers, idVars
<1>9. CASE FrameIgnored \/ PersistTick \/ SendHeartbeat
    BY <1>9 DEF FrameIgnored, PersistTick, SendHeartbeat, SameMembers, Members,
                idVars
<1>10. ASSUME NEW k, AdminBan(k) \/ AdminUnban(k) PROVE SameMembers
    BY <1>10 DEF AdminBan, AdminUnban, SameMembers, idVars
<1>11. CASE AdminSave \/ AdminSay \/ AdminMaxPlayers \/ AdminRules
    BY <1>11 DEF AdminSave, AdminSay, AdminMaxPlayers, AdminRules, SameMembers,
                 Members, idVars
<1>12. CASE NetThread \/ PersistThread \/ UNCHANGED vars
    BY <1>12 DEF NetThread, PersistThread, vars, simVars, SameMembers, Members,
                 idVars
<1>13. CASE HandleEvent
    BY <1>1, <1>2, <1>4, <1>5, <1>6, <1>8, <1>9, <1>13 DEF HandleEvent, Members
<1>14. CASE LoopTail
    BY <1>2, <1>7, <1>9, <1>14 DEF LoopTail
<1>15. CASE Admin
    BY <1>3, <1>10, <1>11, <1>15 DEF Admin, AdminOther, Members
<1>16. QED
    BY <1>12, <1>13, <1>14, <1>15 DEF Next, SimThread

-----------------------------------------------------------------------------
(* Records *)

(* A player's record is never dropped. *)
LEMMA RecordsStay ==
    ASSUME TypeOK, LiveRecords, [Next]_vars, NEW k \in Keys, players[k] # NoRec
    PROVE  players'[k] # NoRec
<1> USE ValueAssumption
<1>0. players \in [Keys -> PlayerRec \cup {NoRec}]
    BY TypeParts DEF PlayerOK
<1>1. CASE players' = players
    BY <1>1
<1>2. ASSUME NEW p, NEW xs, Joined(p, xs) PROVE players'[k] # NoRec
  <2>1. [havePose |-> FALSE, data |-> NoData] \in PlayerRec
      BY DEF PlayerRec
  <2>2. QED
      BY <1>0, <1>2, <2>1 DEF Joined, WithRecord
<1>3. ASSUME NEW p \in DOMAIN clients, BlobComplete(p) PROVE players'[k] # NoRec
  <2>1. Event.msg.data \in Data
      BY <1>3, FromClientType, ReportFields DEF BlobComplete
  <2>2. players[clients[p].key].havePose \in BOOLEAN
      BY <1>0, TypeParts, ClientFields DEF LiveRecords, PlayerRec
  <2>3. [havePose |-> players[clients[p].key].havePose,
         data |-> Event.msg.data] \in PlayerRec
      BY <2>1, <2>2 DEF PlayerRec
  <2>4. QED
      BY <1>0, <1>3, <2>3 DEF BlobComplete
<1>4. ASSUME NEW p \in DOMAIN clients, PlayerPose(p) PROVE players'[k] # NoRec
  <2>1. Event.msg.data \in Data
      BY <1>4, TakeUdpType, DatagramFields DEF PlayerPose
  <2>2. [havePose |-> TRUE, data |-> Event.msg.data] \in PlayerRec
      BY <2>1 DEF PlayerRec
  <2>3. QED
      BY <1>0, <1>4, <2>2 DEF PlayerPose
<1>5. ASSUME NEW p, \/ WorldSnapshot(p) \/ ClientRelay(p) \/ ActorPose(p)
                    \/ ClientBye(p) \/ HelloAgain(p) \/ ExpireClient(p)
      PROVE  players' = players
    BY <1>5 DEF WorldSnapshot, ClientRelay, ActorPose, ClientBye, HelloAgain,
                ExpireClient, RemoveClient, recordVars
<1>6. CASE TcpAccept \/ SessionQuery \/ HelloRefused \/ FrameIgnored \/ UdpBind
             \/ DatagramIgnored
    BY <1>1, <1>6 DEF TcpAccept, SessionQuery, HelloRefused, FrameIgnored,
                      UdpBind, DatagramIgnored, recordVars
<1>7. CASE TcpClosed
    BY <1>1, <1>7 DEF TcpClosed, RemoveClient, recordVars
<1>8. CASE HandleEvent
    BY <1>1, <1>2, <1>3, <1>4, <1>5, <1>6, <1>7, <1>8
       DEF HandleEvent, HelloNew, SoftReconnect
<1>9. ASSUME NEW c, ExpirePending(c) PROVE players' = players
    BY <1>9 DEF ExpirePending, recordVars
<1>10. CASE LoopTail
    BY <1>1, <1>5, <1>9, <1>10 DEF LoopTail, PersistTick, SendHeartbeat, recordVars
<1>11. ASSUME NEW p, NEW ban, AdminKick(p, ban) PROVE players' = players
    BY <1>11 DEF AdminKick, recordVars
<1>12. ASSUME NEW c, AdminBan(c) \/ AdminUnban(c) PROVE players' = players
    BY <1>12 DEF AdminBan, AdminUnban, recordVars
<1>13. CASE Admin
    BY <1>1, <1>11, <1>12, <1>13
       DEF Admin, AdminOther, AdminSave, AdminSay, AdminMaxPlayers, AdminRules, recordVars
<1>14. CASE NetThread \/ PersistThread \/ UNCHANGED vars
    BY <1>1, <1>14 DEF NetThread, PersistThread, vars, simVars, recordVars
<1>15. QED
    BY <1>8, <1>10, <1>13, <1>14 DEF Next, SimThread

(* What the two ways of joining make of the clients. *)
LEMMA NewClient ==
    ASSUME TypeOK, HelloNew
    PROVE  /\ DOMAIN clients' = DOMAIN clients \cup {nextPeer}
           /\ \A q \in DOMAIN clients : q # nextPeer => clients'[q] = clients[q]
           /\ clients'[nextPeer].conn = Event.conn
           /\ clients'[nextPeer].key = Event.msg.key
           /\ clients'[nextPeer].udp = NoAddr
    BY TypeParts DEF HelloNew, Put, ClientOK

LEMMA MovedClient ==
    ASSUME TypeOK, NEW p, SoftReconnect(p)
    PROVE  /\ p \in DOMAIN clients /\ DOMAIN clients' = DOMAIN clients
           /\ \A q \in DOMAIN clients : q # p => clients'[q] = clients[q]
           /\ clients'[p].conn = Event.conn
           /\ clients'[p].key = clients[p].key /\ clients[p].key = Event.msg.key
           /\ clients'[p].udp = NoAddr
    BY TypeParts DEF SoftReconnect, KeyHolders, ClientOK

LEMMA RenewedClient ==
    ASSUME TypeOK, NEW p, HelloAgain(p)
    PROVE  /\ p \in DOMAIN clients /\ DOMAIN clients' = DOMAIN clients
           /\ \A q \in DOMAIN clients : q # p => clients'[q] = clients[q]
           /\ clients'[p].conn = clients[p].conn
           /\ clients'[p].key = clients[p].key
           /\ clients'[p].udp = NoAddr
<1>1. p \in DOMAIN clients
    BY FromClientType DEF HelloAgain
<1>2. clients[p] \in Client
    BY <1>1, TypeParts, ClientFields
<1>3. QED
    BY <1>1, <1>2, TypeParts DEF HelloAgain, ClientOK, Client

LEMMA BoundClient ==
    ASSUME TypeOK, UdpBind
    PROVE  /\ Event.msg.peer \in DOMAIN clients
           /\ DOMAIN clients' = DOMAIN clients
           /\ \A q \in DOMAIN clients : q # Event.msg.peer => clients'[q] = clients[q]
           /\ clients'[Event.msg.peer].conn = clients[Event.msg.peer].conn
           /\ clients'[Event.msg.peer].key = clients[Event.msg.peer].key
           /\ clients'[Event.msg.peer].udp = Event.addr
<1>1. Event.msg.peer \in DOMAIN clients
    BY DEF UdpBind
<1>2. clients[Event.msg.peer] \in Client
    BY <1>1, TypeParts, ClientFields
<1>3. QED
    BY <1>1, <1>2, TypeParts DEF UdpBind, ClientOK, Client

LEMMA RecordStep == TypeOK /\ LiveRecords /\ [Next]_vars => LiveRecords'
<1> SUFFICES ASSUME TypeOK, LiveRecords, [Next]_vars PROVE LiveRecords'
    OBVIOUS
<1>0. \A p \in DOMAIN clients : players'[clients[p].key] # NoRec
    BY TypeParts, ClientFields, RecordsStay DEF LiveRecords
<1>1. CASE HelloNew
  <2>1. Event.msg.key \in Keys
      BY <1>1, FromPendingType, HelloFields DEF HelloNew
  <2>2. players'[Event.msg.key] # NoRec
    <3>1. CASE players[Event.msg.key] # NoRec
        BY <2>1, <3>1, RecordsStay
    <3>2. CASE players[Event.msg.key] = NoRec
      <4>1. [havePose |-> FALSE, data |-> NoData] # NoRec
        <5>1. [havePose |-> FALSE, data |-> NoData] \in PlayerRec
            BY DEF PlayerRec
        <5>2. QED
            BY <5>1, ValueAssumption
      <4>2. players' = [players EXCEPT ![Event.msg.key] =
                          [havePose |-> FALSE, data |-> NoData]]
          BY <1>1, <3>2 DEF HelloNew, Joined, WithRecord
      <4>3. QED
          BY <2>1, <4>1, <4>2, TypeParts DEF PlayerOK
    <3>3. QED
        BY <3>1, <3>2
  <2>3. QED
      BY <1>0, <1>1, <2>2, NewClient DEF LiveRecords
<1>2. ASSUME NEW p \in DOMAIN clients, Leaves(p) PROVE LiveRecords'
    BY <1>0, <1>2 DEF Leaves, Without, LiveRecords
<1>3. CASE clients' = clients
    BY <1>0, <1>3 DEF LiveRecords
<1>4. ASSUME NEW p \in DOMAIN clients, SoftReconnect(p) \/ HelloAgain(p)
      PROVE  LiveRecords'
    BY <1>0, <1>4, MovedClient, RenewedClient DEF LiveRecords
<1>5. CASE UdpBind
    BY <1>0, <1>5, BoundClient DEF LiveRecords
<1>6. QED
    BY <1>1, <1>2, <1>3, <1>4, <1>5, MembersStep
       DEF Members, SameMembers, memberVars, Waits, TcpAccept

(* Every field of the session keeps its type, and every queue its limit,   *)
(* whatever the clients send and the admin types (handlers.cpp,            *)
(* admin_cmds.cpp).  A live client's record is needed for it: a blob       *)
(* writes into the record.                                                 *)
THEOREM SimType == Spec => []TypeOK
    BY TypeInit, TypeStep, RecordStep, PTL DEF Spec

(* Every live client has a record (handle_pending_message makes it, and    *)
(* nothing takes it away).                                                 *)
THEOREM SimRecords == Spec => []LiveRecords
    BY TypeInit, TypeStep, RecordStep, PTL DEF Spec

-----------------------------------------------------------------------------
(* Peer ids are not reused: every live client has an older one than the    *)
(* next.                                                                   *)
PeersFresh == \A p \in DOMAIN clients : p < nextPeer

LEMMA PeersStep == TypeOK /\ PeersFresh /\ [Next]_vars => PeersFresh'
<1> SUFFICES ASSUME TypeOK, PeersFresh, [Next]_vars PROVE PeersFresh'
    OBVIOUS
<1>1. CASE HelloNew
  <2>1. nextPeer \in Nat /\ nextPeer' = nextPeer + 1
      BY <1>1, TypeParts, BoundsAssumption DEF HelloNew, PeerOK
  <2>2. \A p \in DOMAIN clients : p \in Nat
      BY TypeParts, ClientFields, BoundsAssumption DEF PeerIds
  <2>3. QED
      BY <1>1, <2>1, <2>2, NewClient DEF PeersFresh
<1>2. ASSUME NEW p \in DOMAIN clients, Leaves(p) PROVE PeersFresh'
    BY <1>2 DEF Leaves, Without, PeersFresh
<1>3. CASE UNCHANGED <<clients, nextPeer>>
    BY <1>3 DEF PeersFresh
<1>4. ASSUME NEW p \in DOMAIN clients, SoftReconnect(p) \/ HelloAgain(p)
      PROVE  PeersFresh'
    BY <1>4, MovedClient, RenewedClient
       DEF PeersFresh, SoftReconnect, HelloAgain
<1>5. CASE UdpBind
    BY <1>5, BoundClient DEF PeersFresh, UdpBind, idVars
<1>6. QED
    BY <1>1, <1>2, <1>3, <1>4, <1>5, MembersStep
       DEF Members, SameMembers, memberVars, Waits, TcpAccept, idVars

LEMMA KeysStep ==
    TypeOK /\ PeersFresh /\ UniqueKeys /\ [Next]_vars => UniqueKeys'
<1> SUFFICES ASSUME TypeOK, PeersFresh, UniqueKeys, [Next]_vars PROVE UniqueKeys'
    OBVIOUS
<1>1. CASE HelloNew
  <2>1. \A q \in DOMAIN clients : clients[q].key # Event.msg.key
      BY <1>1 DEF HelloNew, KeyHolders
  <2>2. \A q \in DOMAIN clients : q # nextPeer
      BY TypeParts, BoundsAssumption DEF PeersFresh, PeerOK
  <2>3. QED
      BY <1>1, <2>1, <2>2, NewClient DEF UniqueKeys
<1>2. ASSUME NEW p \in DOMAIN clients, Leaves(p) PROVE UniqueKeys'
    BY <1>2 DEF Leaves, Without, UniqueKeys
<1>3. CASE clients' = clients
    BY <1>3 DEF UniqueKeys
<1>4. ASSUME NEW p \in DOMAIN clients, SoftReconnect(p) \/ HelloAgain(p)
      PROVE  UniqueKeys'
    BY <1>4, MovedClient, RenewedClient DEF UniqueKeys
<1>5. CASE UdpBind
    BY <1>5, BoundClient DEF UniqueKeys
<1>6. QED
    BY <1>1, <1>2, <1>3, <1>4, <1>5, MembersStep
       DEF Members, SameMembers, memberVars, Waits, TcpAccept

(* A player key is live at most once, however many sockets say Hello with  *)
(* it and in whatever order (handle_pending_message's reconnect lookup).   *)
THEOREM SimUniqueKeys == Spec => []UniqueKeys
<1>1. Init => PeersFresh /\ UniqueKeys
    BY DEF Init, PeersFresh, UniqueKeys
<1>2. QED
    BY <1>1, TypeInit, TypeStep, RecordStep, PeersStep, KeysStep, PTL DEF Spec

-----------------------------------------------------------------------------
LEMMA HostStep == TypeOK /\ HostLive /\ [Next]_vars => HostLive'
<1> SUFFICES ASSUME TypeOK, HostLive, [Next]_vars PROVE HostLive'
    OBVIOUS
<1>1. CASE HelloNew
  <2>1. PICK h \in HostSeen(Event.msg) :
           hostPeerId' = IF h = 0 THEN nextPeer ELSE h
      BY <1>1 DEF HelloNew
  <2>2. h = 0 \/ h \in DOMAIN clients
      BY <2>1 DEF HostSeen, FindHost, HostLive
  <2>3. QED
      BY <1>1, <2>1, <2>2, NewClient DEF HostLive
<1>2. ASSUME NEW p \in DOMAIN clients, Leaves(p) PROVE HostLive'
  <2>1. DOMAIN clients' = Others(p)
      BY <1>2 DEF Leaves, Without, Others
  <2>2. hostPeerId' \in FindHost(Others(p), IF hostPeerId = p THEN 0 ELSE hostPeerId)
      BY <1>2 DEF Leaves
  <2>3. QED
      BY <2>1, <2>2 DEF FindHost, HostLive
<1>3. CASE /\ DOMAIN clients' = DOMAIN clients
           /\ hostPeerId' \in {hostPeerId} \cup FindHost(DOMAIN clients, hostPeerId)
    BY <1>3 DEF FindHost, HostLive
<1>4. ASSUME NEW p \in DOMAIN clients, SoftReconnect(p) PROVE HostLive'
    BY <1>3, <1>4, MovedClient DEF SoftReconnect, HostSeen
<1>5. ASSUME NEW p \in DOMAIN clients, HelloAgain(p) PROVE HostLive'
    BY <1>3, <1>5, RenewedClient DEF HelloAgain
<1>6. CASE UdpBind
    BY <1>3, <1>6, BoundClient DEF UdpBind
<1>7. QED
    BY <1>1, <1>2, <1>3, <1>4, <1>5, <1>6, MembersStep
       DEF Members, SameMembers, memberVars, Waits, TcpAccept

(* The session has a host exactly while somebody is connected, and the     *)
(* host is one of them (remove_client, kick, find_host).                   *)
THEOREM SimHostLive == Spec => []HostLive
<1>1. Init => HostLive
    BY DEF Init, HostLive
<1>2. QED
    BY <1>1, TypeInit, TypeStep, RecordStep, HostStep, PTL DEF Spec

-----------------------------------------------------------------------------
LEMMA UdpStep ==
    TypeOK /\ PeersFresh /\ UdpMapSound /\ [Next]_vars => UdpMapSound'
<1> SUFFICES ASSUME TypeOK, PeersFresh, UdpMapSound, [Next]_vars
             PROVE  UdpMapSound'
    OBVIOUS
(* Once p's address is unbound, every entry left leads to somebody else. *)
<1>0. ASSUME NEW p \in DOMAIN clients
      PROVE  \A a \in DOMAIN UnbindUdp(p) :
                /\ UnbindUdp(p)[a] \in DOMAIN clients \ {p}
                /\ clients[UnbindUdp(p)[a]].udp = a
  <2>0. \E A \in SUBSET Addrs : udpPeerByAddr \in [A -> PeerIds]
      BY TypeParts DEF UdpOK
  <2>1. CASE clients[p].udp = NoAddr
      BY <2>0, <2>1, ValueAssumption DEF UnbindUdp, UdpMapSound
  <2>2. CASE clients[p].udp # NoAddr
      BY <2>0, <2>2 DEF UnbindUdp, Without, UdpMapSound
  <2>3. QED
      BY <2>1, <2>2
<1>1. CASE HelloNew
  <2>1. \A q \in DOMAIN clients : q # nextPeer
      BY TypeParts, BoundsAssumption DEF PeersFresh, PeerOK
  <2>2. udpPeerByAddr' = udpPeerByAddr
      BY <1>1 DEF HelloNew
  <2>3. QED
      BY <1>1, <2>1, <2>2, NewClient DEF UdpMapSound
<1>2. ASSUME NEW p \in DOMAIN clients, Leaves(p) PROVE UdpMapSound'
    BY <1>0, <1>2 DEF Leaves, Without, UdpMapSound
<1>3. CASE /\ clients' = clients
           /\ \A a \in DOMAIN udpPeerByAddr' :
                 /\ a \in DOMAIN udpPeerByAddr
                 /\ udpPeerByAddr'[a] = udpPeerByAddr[a]
    BY <1>3 DEF UdpMapSound
<1>4. ASSUME NEW p \in DOMAIN clients, SoftReconnect(p) \/ HelloAgain(p)
      PROVE  UdpMapSound'
  <2>1. udpPeerByAddr' = UnbindUdp(p)
      BY <1>4 DEF SoftReconnect, HelloAgain
  <2>2. QED
      BY <1>0, <1>4, <2>1, MovedClient, RenewedClient DEF UdpMapSound
<1>5. CASE UdpBind
  <2> DEFINE p == Event.msg.peer
             a == Event.addr
  <2>1. udpPeerByAddr' = Put(UnbindUdp(p), a, p) /\ p \in DOMAIN clients
      BY <1>5 DEF UdpBind
  <2>2. /\ DOMAIN udpPeerByAddr' = DOMAIN UnbindUdp(p) \cup {a}
        /\ \A x \in DOMAIN udpPeerByAddr' :
              udpPeerByAddr'[x] = IF x = a THEN p ELSE UnbindUdp(p)[x]
      BY <2>1 DEF Put
  <2>3. QED
      BY <1>0, <1>5, <2>1, <2>2, BoundClient DEF UdpMapSound
<1>6. QED
    BY <1>1, <1>2, <1>3, <1>4, <1>5, MembersStep
       DEF Members, SameMembers, memberVars, Waits, TcpAccept

(* An address in udpPeerByAddr always leads to the live client bound to    *)
(* it, even when two clients bind the same address one after the other     *)
(* (unbind_udp, find_by_udp, UdpBind).                                     *)
THEOREM SimUdpMap == Spec => []UdpMapSound
<1>1. Init => PeersFresh /\ UdpMapSound
    BY DEF Init, PeersFresh, UdpMapSound
<1>2. QED
    BY <1>1, TypeInit, TypeStep, RecordStep, PeersStep, UdpStep, PTL DEF Spec

-----------------------------------------------------------------------------
(* The connections the session knows, and the strengthening ConnOwnership  *)
(* needs: a connection whose TcpAccept is still queued is new to the       *)
(* session, and is announced once.                                         *)
Known == pendingTcp \cup ConnOf(DOMAIN clients)

AcceptsFresh ==
    /\ \A c \in Known : c < nextConn
    /\ \A i \in 1..Len(inbound) :
         inbound[i].kind = "TcpAccept" =>
            inbound[i].conn < nextConn /\ inbound[i].conn \notin Known
    /\ \A i, j \in 1..Len(inbound) :
         (i < j /\ inbound[i].kind = "TcpAccept" /\ inbound[j].kind = "TcpAccept")
            => inbound[i].conn # inbound[j].conn

LEMMA KnownStep ==
    ASSUME TypeOK, PeersFresh, [Next]_vars
    PROVE  TcpAccept \/ Known' \subseteq Known
<1>1. CASE HelloNew
  <2>1. Event.conn \in pendingTcp
      BY <1>1, FromPendingType DEF HelloNew
  <2>2. \A q \in DOMAIN clients : q # nextPeer
      BY TypeParts, BoundsAssumption DEF PeersFresh, PeerOK
  <2>3. pendingTcp' \subseteq pendingTcp
      BY <1>1 DEF HelloNew, Joined, Claimed
  <2>4. QED
      BY <1>1, <2>1, <2>2, <2>3, NewClient DEF Known, ConnOf
<1>2. ASSUME NEW p \in DOMAIN clients, Leaves(p) PROVE Known' \subseteq Known
    BY <1>2 DEF Leaves, Without, Known, ConnOf
<1>3. CASE clients' = clients /\ pendingTcp' \subseteq pendingTcp
    BY <1>3 DEF Known, ConnOf
<1>4. ASSUME NEW p \in DOMAIN clients, SoftReconnect(p)
      PROVE  Known' \subseteq Known
  <2>1. Event.conn \in pendingTcp
      BY <1>4, FromPendingType DEF SoftReconnect
  <2>2. pendingTcp' \subseteq pendingTcp
      BY <1>4 DEF SoftReconnect, Joined, Claimed
  <2>3. QED
      BY <1>4, <2>1, <2>2, MovedClient DEF Known, ConnOf
<1>5. ASSUME NEW p \in DOMAIN clients, HelloAgain(p)
      PROVE  Known' \subseteq Known
  <2>1. pendingTcp' = pendingTcp
      BY <1>5 DEF HelloAgain
  <2>2. QED
      BY <1>5, <2>1, RenewedClient DEF Known, ConnOf
<1>6. CASE UdpBind
  <2>1. pendingTcp' = pendingTcp
      BY <1>6 DEF UdpBind
  <2>2. QED
      BY <1>6, <2>1, BoundClient DEF Known, ConnOf
<1>7. QED
    BY <1>1, <1>2, <1>3, <1>4, <1>5, <1>6, MembersStep
       DEF Members, SameMembers, memberVars, Waits

(* Only the net thread adds to inbound; the simulation thread takes from   *)
(* its front.                                                              *)
LEMMA QueueStep ==
    ASSUME [Next]_vars
    PROVE  \/ NetThread
           \/ /\ nextConn' = nextConn
              /\ inbound' = inbound \/ (inbound # <<>> /\ inbound' = Tail(inbound))
<1> DEFINE Took == /\ nextConn' = nextConn
                   /\ inbound' = inbound
                        \/ (inbound # <<>> /\ inbound' = Tail(inbound))
<1>1. ASSUME NEW k, Take(k) PROVE Took
    BY <1>1 DEF Take
<1>2. ASSUME NEW p, \/ SoftReconnect(p) \/ ClientBye(p) \/ HelloAgain(p)
                    \/ WorldSnapshot(p) \/ BlobComplete(p) \/ ClientRelay(p)
                    \/ PlayerPose(p) \/ ActorPose(p)
      PROVE  Took
    BY <1>1, <1>2 DEF SoftReconnect, ClientBye, HelloAgain, WorldSnapshot,
       BlobComplete, ClientRelay, PlayerPose, ActorPose, FromPending, FromClient
<1>3. CASE HandleEvent
    BY <1>1, <1>2, <1>3 DEF HandleEvent, TcpAccept, TcpClosed, SessionQuery,
       HelloRefused, HelloNew, FrameIgnored, UdpBind, DatagramIgnored, FromPending
<1>4. CASE LoopTail
    BY <1>4 DEF LoopTail, ExpirePending, ExpireClient, PersistTick,
                SendHeartbeat, Loop
<1>5. CASE Admin
    BY <1>5 DEF Admin, AdminOther, AdminKick, AdminBan, AdminUnban, AdminSave, AdminSay,
                AdminMaxPlayers, AdminRules, Typed
<1>6. CASE PersistThread \/ UNCHANGED vars
    BY <1>6 DEF PersistThread, vars
<1>7. QED
    BY <1>3, <1>4, <1>5, <1>6 DEF Next, SimThread

LEMMA AcceptsStep ==
    TypeOK /\ PeersFresh /\ AcceptsFresh /\ [Next]_vars => AcceptsFresh'
<1> SUFFICES ASSUME TypeOK, PeersFresh, AcceptsFresh, [Next]_vars
             PROVE  AcceptsFresh'
    OBVIOUS
<1>0. /\ nextConn \in Nat /\ Len(inbound) \in Nat
      /\ \A c \in Known : c \in Nat
      /\ \A i \in 1..Len(inbound) :
            inbound[i].kind = "TcpAccept" => inbound[i].conn \in Nat
  <2>1. nextConn \in Nat /\ inbound \in Seq(InboundEvent)
      BY TypeParts, BoundsAssumption DEF ConnOK, InOK
  <2>2. \A c \in Known : c \in ConnIds
      BY TypeParts, ConnOfType DEF Known, PendOK
  <2>3. \A i \in 1..Len(inbound) :
           inbound[i].kind = "TcpAccept" => inbound[i].conn \in ConnIds
      BY <2>1, EventFields
  <2>4. QED
      BY <2>1, <2>2, <2>3, BoundsAssumption DEF ConnIds
<1>1. CASE TcpAccept
  <2>1. /\ inbound # <<>> /\ inbound' = Tail(inbound) /\ nextConn' = nextConn
        /\ inbound[1].kind = "TcpAccept"
        /\ pendingTcp' = pendingTcp \cup {inbound[1].conn} /\ clients' = clients
      BY <1>1 DEF TcpAccept, Take, Event
  <2>2. /\ 1 \in 1..Len(inbound) /\ Len(inbound') = Len(inbound) - 1
        /\ \A i \in 1..Len(inbound') :
              inbound'[i] = inbound[i + 1] /\ i + 1 \in 1..Len(inbound) /\ 1 < i + 1
      BY <1>0, <2>1, TypeParts DEF InOK
  <2>3. Known' = Known \cup {inbound[1].conn}
      BY <2>1 DEF Known, ConnOf
  <2>4. \A c \in Known' : c < nextConn'
      BY <2>1, <2>2, <2>3 DEF AcceptsFresh
  <2>5. \A i \in 1..Len(inbound') :
           inbound'[i].kind = "TcpAccept" =>
              inbound'[i].conn < nextConn' /\ inbound'[i].conn \notin Known'
      BY <2>1, <2>2, <2>3 DEF AcceptsFresh
  <2>6. ASSUME NEW i \in 1..Len(inbound'), NEW j \in 1..Len(inbound'), i < j,
               inbound'[i].kind = "TcpAccept", inbound'[j].kind = "TcpAccept"
        PROVE  inbound'[i].conn # inbound'[j].conn
    <3>1. i + 1 < j + 1
        BY <2>6
    <3>2. QED
        BY <2>2, <2>6, <3>1 DEF AcceptsFresh
  <2>7. QED
      BY <2>4, <2>5, <2>6 DEF AcceptsFresh
<1>2. ASSUME Known' \subseteq Known, nextConn' = nextConn,
             inbound' = inbound \/ (inbound # <<>> /\ inbound' = Tail(inbound))
      PROVE  AcceptsFresh'
  <2>1. CASE inbound' = inbound
      BY <1>2, <2>1 DEF AcceptsFresh
  <2>2. CASE inbound # <<>> /\ inbound' = Tail(inbound)
    <3>1. /\ Len(inbound') = Len(inbound) - 1
          /\ \A i \in 1..Len(inbound') :
                inbound'[i] = inbound[i + 1] /\ i + 1 \in 1..Len(inbound)
        BY <1>0, <2>2, TypeParts DEF InOK
    <3>2. ASSUME NEW i \in 1..Len(inbound'), NEW j \in 1..Len(inbound'), i < j,
                 inbound'[i].kind = "TcpAccept", inbound'[j].kind = "TcpAccept"
          PROVE  inbound'[i].conn # inbound'[j].conn
      <4>1. i + 1 < j + 1
          BY <3>2
      <4>2. QED
          BY <3>1, <3>2, <4>1 DEF AcceptsFresh
    <3>3. QED
        BY <1>2, <3>1, <3>2 DEF AcceptsFresh
  <2>3. QED
      BY <1>2, <2>1, <2>2
<1>3. ASSUME Known' \subseteq Known, NEW ev, inbound' = Append(inbound, ev),
             \/ ev.kind # "TcpAccept" /\ nextConn' = nextConn
             \/ ev = Accepted(nextConn) /\ nextConn' = nextConn + 1
      PROVE  AcceptsFresh'
  <2>1. /\ Len(inbound') = Len(inbound) + 1 /\ inbound'[Len(inbound')] = ev
        /\ \A i \in 1..Len(inbound) : inbound'[i] = inbound[i]
      BY <1>3, TypeParts DEF InOK
  <2>2. \A i \in 1..Len(inbound') : i \in 1..Len(inbound) \/ i = Len(inbound')
      BY <1>0, <2>1
  <2>3. ev.kind = "TcpAccept" =>
           ev.conn = nextConn /\ nextConn' = nextConn + 1
      BY <1>3 DEF Accepted
  <2>4. nextConn' \in Nat /\ nextConn =< nextConn'
      BY <1>0, <1>3
  <2>5. \A c \in Known' : c < nextConn'
      BY <1>0, <1>3, <2>4 DEF AcceptsFresh
  <2>6. ASSUME NEW i \in 1..Len(inbound'), inbound'[i].kind = "TcpAccept"
        PROVE  inbound'[i].conn < nextConn' /\ inbound'[i].conn \notin Known'
    <3>1. CASE i \in 1..Len(inbound)
        BY <1>0, <1>3, <2>1, <2>4, <2>6, <3>1 DEF AcceptsFresh
    <3>2. CASE i = Len(inbound')
        BY <1>0, <1>3, <2>1, <2>3, <2>6, <3>2 DEF AcceptsFresh
    <3>3. QED
        BY <2>2, <3>1, <3>2
  <2>7. ASSUME NEW i \in 1..Len(inbound'), NEW j \in 1..Len(inbound'), i < j,
               inbound'[i].kind = "TcpAccept", inbound'[j].kind = "TcpAccept"
        PROVE  inbound'[i].conn # inbound'[j].conn
    <3>1. i \in 1..Len(inbound)
        BY <1>0, <2>1, <2>7
    <3>2. CASE j \in 1..Len(inbound)
        BY <2>1, <2>7, <3>1, <3>2 DEF AcceptsFresh
    <3>3. CASE j = Len(inbound')
        BY <1>0, <2>1, <2>3, <2>7, <3>1, <3>3 DEF AcceptsFresh
    <3>4. QED
        BY <2>2, <3>2, <3>3
  <2>8. QED
      BY <2>5, <2>6, <2>7 DEF AcceptsFresh
<1>4. CASE NetThread
  <2>1. Known' \subseteq Known
      BY <1>4 DEF NetThread, simVars, memberVars, Known, ConnOf
  <2>2. CASE UNCHANGED <<inbound, nextConn>>
      BY <1>2, <2>1, <2>2
  <2>3. CASE /\ nextConn' = nextConn + 1
             /\ inbound' = Push(inbound, InCap, Accepted(nextConn))
    <3>1. CASE inbound' = inbound
        BY <1>0, <2>1, <2>3, <3>1 DEF AcceptsFresh
    <3>2. CASE inbound' = Append(inbound, Accepted(nextConn))
        BY <1>3, <2>1, <2>3, <3>2
    <3>3. QED
        BY <2>3, <3>1, <3>2 DEF Push
  <2>4. ASSUME NEW ev, ev.kind # "TcpAccept", inbound' = Append(inbound, ev),
               nextConn' = nextConn
        PROVE  AcceptsFresh'
      BY <1>3, <2>1, <2>4
  <2>5. /\ \A c, p : Closed(c, p).kind # "TcpAccept"
        /\ \A c, p, m : Frame(c, p, m).kind # "TcpAccept"
        /\ \A a, m : Datagram(a, m).kind # "TcpAccept"
      BY DEF Closed, Frame, Datagram
  <2>6. QED
      BY <1>4, <2>2, <2>3, <2>4, <2>5 DEF NetThread
<1>5. QED
    BY <1>1, <1>2, <1>4, KnownStep, QueueStep

LEMMA OwnStep ==
    TypeOK /\ PeersFresh /\ AcceptsFresh /\ ConnOwnership /\ [Next]_vars
      => ConnOwnership'
<1> SUFFICES ASSUME TypeOK, PeersFresh, AcceptsFresh, ConnOwnership, [Next]_vars
             PROVE  ConnOwnership'
    OBVIOUS
<1>1. CASE HelloNew
  <2>1. Event.conn \in pendingTcp
      BY <1>1, FromPendingType DEF HelloNew
  <2>2. \A q \in DOMAIN clients : q # nextPeer
      BY TypeParts, BoundsAssumption DEF PeersFresh, PeerOK
  <2>3. pendingTcp' = pendingTcp \ {Event.conn}
      BY <1>1 DEF HelloNew, Joined, Claimed
  <2>4. QED
      BY <1>1, <2>1, <2>2, <2>3, NewClient DEF ConnOwnership
<1>2. ASSUME NEW p \in DOMAIN clients, Leaves(p) PROVE ConnOwnership'
    BY <1>2 DEF Leaves, Without, ConnOwnership
<1>3. CASE clients' = clients /\ pendingTcp' \subseteq pendingTcp
    BY <1>3 DEF ConnOwnership
<1>4. ASSUME NEW p \in DOMAIN clients, SoftReconnect(p) PROVE ConnOwnership'
  <2>1. Event.conn \in pendingTcp
      BY <1>4, FromPendingType DEF SoftReconnect
  <2>2. pendingTcp' = pendingTcp \ {Event.conn}
      BY <1>4 DEF SoftReconnect, Joined, Claimed
  <2>3. QED
      BY <1>4, <2>1, <2>2, MovedClient DEF ConnOwnership
<1>5. ASSUME NEW p \in DOMAIN clients, HelloAgain(p) PROVE ConnOwnership'
  <2>1. pendingTcp' = pendingTcp
      BY <1>5 DEF HelloAgain
  <2>2. QED
      BY <1>5, <2>1, RenewedClient DEF ConnOwnership
<1>6. CASE UdpBind
  <2>1. pendingTcp' = pendingTcp
      BY <1>6 DEF UdpBind
  <2>2. QED
      BY <1>6, <2>1, BoundClient DEF ConnOwnership
<1>7. CASE TcpAccept
  <2>1. /\ inbound # <<>> /\ inbound[1].kind = "TcpAccept"
        /\ pendingTcp' = pendingTcp \cup {inbound[1].conn} /\ clients' = clients
      BY <1>7 DEF TcpAccept, Take, Event
  <2>2. 1 \in 1..Len(inbound)
      BY <2>1, TypeParts DEF InOK
  <2>3. inbound[1].conn \notin Known
      BY <2>1, <2>2 DEF AcceptsFresh
  <2>4. QED
      BY <2>1, <2>3 DEF ConnOwnership, Known, ConnOf
<1>8. QED
    BY <1>1, <1>2, <1>3, <1>4, <1>5, <1>6, <1>7, MembersStep
       DEF Members, SameMembers, memberVars, Waits

(* A TCP connection is owned once, by one client or as one pending entry,  *)
(* whatever order accepts, Hellos, Byes, closes and timeouts come in       *)
(* (apply_inbound, handle_pending_message, remove_client).                 *)
THEOREM SimOwnership == Spec => []ConnOwnership
<1>1. Init => PeersFresh /\ AcceptsFresh /\ ConnOwnership
    BY DEF Init, PeersFresh, AcceptsFresh, ConnOwnership, Known, ConnOf
<1>2. QED
    BY <1>1, TypeInit, TypeStep, RecordStep, PeersStep, AcceptsStep, OwnStep, PTL
       DEF Spec

-----------------------------------------------------------------------------
(* Action properties *)

BanStep == \A k \in bannedKeys \cap bannedKeys' :
             (\E p \in DOMAIN clients' : clients'[p].key = k)
               => \E p \in DOMAIN clients : clients[p].key = k

LEMMA BanKept == TypeOK /\ PeersFresh /\ [Next]_vars => BanStep
<1> SUFFICES ASSUME TypeOK, PeersFresh, [Next]_vars PROVE BanStep
    OBVIOUS
<1>1. CASE HelloNew
  <2>1. PICK h \in HostSeen(Event.msg) : Refusal(Event.msg, h) = "none"
      BY <1>1 DEF HelloNew
  <2>2. Event.msg.key \notin bannedKeys
      BY <2>1 DEF Refusal, GateRefusal
  <2>3. \A q \in DOMAIN clients : q # nextPeer
      BY TypeParts, BoundsAssumption DEF PeersFresh, PeerOK
  <2>4. QED
      BY <1>1, <2>2, <2>3, NewClient DEF BanStep
<1>2. ASSUME NEW p \in DOMAIN clients, Leaves(p) PROVE BanStep
    BY <1>2 DEF Leaves, Without, BanStep
<1>3. CASE clients' = clients
    BY <1>3 DEF BanStep
<1>4. ASSUME NEW p \in DOMAIN clients, SoftReconnect(p) \/ HelloAgain(p)
      PROVE  BanStep
    BY <1>4, MovedClient, RenewedClient DEF BanStep
<1>5. CASE UdpBind
    BY <1>5, BoundClient DEF BanStep
<1>6. QED
    BY <1>1, <1>2, <1>3, <1>4, <1>5, MembersStep
       DEF Members, SameMembers, memberVars, Waits, TcpAccept

(* A banned player who is not connected stays out until the ban is lifted: *)
(* every way into the session passes the ban list.                         *)
THEOREM SimBanHolds == Spec => BanHolds
<1>1. Init => PeersFresh
    BY DEF Init, PeersFresh
<1>2. QED
    BY <1>1, TypeInit, TypeStep, RecordStep, PeersStep, BanKept, PTL
       DEF Spec, BanHolds, BanStep

TokenStep == \A p \in DOMAIN clients \cap DOMAIN clients' :
               clients'[p].token # clients[p].token
                 => /\ clients'[p].udp = NoAddr
                    /\ \A a \in DOMAIN udpPeerByAddr' : udpPeerByAddr'[a] # p

LEMMA TokenKept == TypeOK /\ PeersFresh /\ UdpMapSound /\ [Next]_vars => TokenStep
<1> SUFFICES ASSUME TypeOK, PeersFresh, UdpMapSound, [Next]_vars PROVE TokenStep
    OBVIOUS
<1>1. CASE HelloNew
  <2>1. \A q \in DOMAIN clients : q # nextPeer
      BY TypeParts, BoundsAssumption DEF PeersFresh, PeerOK
  <2>2. QED
      BY <1>1, <2>1, NewClient DEF TokenStep
<1>2. ASSUME NEW p \in DOMAIN clients, Leaves(p) PROVE TokenStep
    BY <1>2 DEF Leaves, Without, TokenStep
<1>3. CASE clients' = clients
    BY <1>3 DEF TokenStep
<1>4. ASSUME NEW p \in DOMAIN clients, SoftReconnect(p) \/ HelloAgain(p)
      PROVE  TokenStep
  <2>1. udpPeerByAddr' = UnbindUdp(p)
      BY <1>4 DEF SoftReconnect, HelloAgain
  <2>2. ASSUME NEW a \in DOMAIN udpPeerByAddr' PROVE udpPeerByAddr'[a] # p
    <3>1. UdpMapSound'
        BY UdpStep
    <3>2. clients'[p].udp = NoAddr /\ NoAddr \notin Addrs
        BY <1>4, MovedClient, RenewedClient, ValueAssumption
    <3>3. a \in Addrs
        BY <2>1, TypeParts, UnbindType
    <3>4. QED
        BY <3>1, <3>2, <3>3 DEF UdpMapSound
  <2>3. QED
      BY <1>4, <2>2, MovedClient, RenewedClient DEF TokenStep
<1>5. CASE UdpBind
  <2>1. clients[Event.msg.peer] \in Client /\ Event.msg.peer \in DOMAIN clients
      BY <1>5, BoundClient, TypeParts, ClientFields
  <2>2. clients'[Event.msg.peer].token = clients[Event.msg.peer].token
      BY <1>5, <2>1, TypeParts DEF UdpBind, Client, ClientOK
  <2>3. QED
      BY <1>5, <2>2, BoundClient DEF TokenStep
<1>6. QED
    BY <1>1, <1>2, <1>3, <1>4, <1>5, MembersStep
       DEF Members, SameMembers, memberVars, Waits, TcpAccept

(* Renewing a client's UDP token always ends its old UDP binding (soft     *)
(* reconnect and a second Hello).                                          *)
THEOREM SimTokenRenewal == Spec => TokenRenewalUnbinds
<1>1. Init => PeersFresh /\ UdpMapSound
    BY DEF Init, PeersFresh, UdpMapSound
<1>2. QED
    BY <1>1, TypeInit, TypeStep, RecordStep, PeersStep, UdpStep, TokenKept, PTL
       DEF Spec, TokenRenewalUnbinds, TokenStep

-----------------------------------------------------------------------------
(* Rules and bans *)

(* What a step does to the ban list and the configuration. *)
Rules ==
    \/ UNCHANGED adminVars
    \/ /\ SameMembers /\ cfg' = cfg
       /\ \E k \in Keys : bannedKeys' \in {bannedKeys \cup {k}, bannedKeys \ {k}}
    \/ SameMembers /\ bannedKeys' = bannedKeys
    \/ \E p \in DOMAIN clients :
          /\ Leaves(p) /\ cfg' = cfg
          /\ bannedKeys' \in {bannedKeys, bannedKeys \cup {clients[p].key}}

LEMMA RulesStep == [Next]_vars => Rules
<1> SUFFICES ASSUME [Next]_vars PROVE Rules
    OBVIOUS
<1>1. CASE HandleEvent
  <2>1. ASSUME NEW p, \/ SoftReconnect(p) \/ ClientBye(p) \/ HelloAgain(p)
                      \/ WorldSnapshot(p) \/ BlobComplete(p) \/ ClientRelay(p)
                      \/ PlayerPose(p) \/ ActorPose(p)
        PROVE  UNCHANGED adminVars
      BY <2>1 DEF SoftReconnect, Joined, ClientBye, RemoveClient, HelloAgain,
                  WorldSnapshot, BlobComplete, ClientRelay, PlayerPose, ActorPose
  <2>2. CASE TcpAccept \/ TcpClosed \/ SessionQuery \/ HelloRefused \/ HelloNew
      BY <2>2 DEF TcpAccept, TcpClosed, RemoveClient, SessionQuery, HelloRefused,
                  HelloNew, Joined, Rules
  <2>3. CASE FrameIgnored \/ UdpBind \/ DatagramIgnored
      BY <2>3 DEF FrameIgnored, UdpBind, DatagramIgnored, Rules
  <2>4. QED
      BY <1>1, <2>1, <2>2, <2>3 DEF HandleEvent, Rules
<1>2. CASE LoopTail
  <2>1. ASSUME NEW x, ExpirePending(x) \/ ExpireClient(x) PROVE UNCHANGED adminVars
      BY <2>1 DEF ExpirePending, ExpireClient, RemoveClient
  <2>2. QED
      BY <1>2, <2>1 DEF LoopTail, PersistTick, SendHeartbeat, Rules
<1>3. ASSUME NEW p \in DOMAIN clients, NEW ban \in BOOLEAN, AdminKick(p, ban)
      PROVE  Rules
  <2>1. Leaves(p) /\ cfg' = cfg
      BY <1>3 DEF AdminKick, Leaves, idVars
  <2>2. bannedKeys' \in {bannedKeys, bannedKeys \cup {clients[p].key}}
      BY <1>3 DEF AdminKick
  <2>3. QED
      BY <2>1, <2>2 DEF Rules
<1>4. ASSUME NEW k \in Keys, AdminBan(k) \/ AdminUnban(k) PROVE Rules
  <2>1. SameMembers /\ cfg' = cfg
      BY <1>4 DEF AdminBan, AdminUnban, SameMembers, idVars
  <2>2. bannedKeys' \in {bannedKeys \cup {k}, bannedKeys \ {k}}
      BY <1>4 DEF AdminBan, AdminUnban
  <2>3. QED
      BY <2>1, <2>2 DEF Rules
<1>5. CASE AdminSave \/ AdminSay
    BY <1>5 DEF AdminSave, AdminSay, Rules
<1>6. CASE AdminMaxPlayers \/ AdminRules
  <2>1. SameMembers
      BY <1>6 DEF AdminMaxPlayers, AdminRules, SameMembers, idVars
  <2>2. bannedKeys' = bannedKeys
      BY <1>6 DEF AdminMaxPlayers, AdminRules
  <2>3. QED
      BY <2>1, <2>2 DEF Rules
<1>7. CASE NetThread \/ PersistThread \/ UNCHANGED vars
    BY <1>7 DEF NetThread, PersistThread, vars, simVars, Rules
<1>8. QED
    BY <1>1, <1>2, <1>3, <1>4, <1>5, <1>6, <1>7 DEF Next, SimThread, Admin, AdminOther

(* The mod lock *)
LockStep == sessionModHash # 0 /\ cfg' = cfg => sessionModHash' = sessionModHash

(* A reload that leaves the configuration as it is pins what was pinned, so *)
(* the lock is what the configuration pins whenever that pins anything.    *)
LockPinned == cfg.modHash # 0 => sessionModHash = cfg.modHash

Lock ==
    \/ cfg'.modHash = cfg.modHash /\ sessionModHash' = sessionModHash
    \/ cfg' = cfg /\ (sessionModHash # 0 => sessionModHash' = sessionModHash)
    \/ \E c \in Configs :
          /\ cfg'.modHash = IF c.modHash # 0 THEN c.modHash ELSE cfg.modHash
          /\ sessionModHash' = Pinned(c)

LEMMA LockCases == TypeOK /\ [Next]_vars => Lock
<1> SUFFICES ASSUME TypeOK, [Next]_vars PROVE Lock
    OBVIOUS
<1>0. cfg \in Config /\ Configs \subseteq Config
    BY TypeParts, MessageAssumption DEF AdminOK
<1>1. ASSUME NEW p, NEW xs, Joined(p, xs) PROVE Lock
    BY <1>1 DEF Joined, Lock, adminVars
<1>2. CASE HandleEvent
  <2>1. ASSUME NEW p, \/ ClientBye(p) \/ HelloAgain(p)
                      \/ WorldSnapshot(p) \/ BlobComplete(p) \/ ClientRelay(p)
                      \/ PlayerPose(p) \/ ActorPose(p)
        PROVE  UNCHANGED <<cfg, sessionModHash>>
      BY <2>1 DEF ClientBye, RemoveClient, HelloAgain, WorldSnapshot, adminVars,
                  BlobComplete, ClientRelay, PlayerPose, ActorPose
  <2>2. CASE TcpAccept \/ TcpClosed \/ SessionQuery \/ HelloRefused
      BY <2>2 DEF TcpAccept, TcpClosed, RemoveClient, SessionQuery, HelloRefused,
                  adminVars, Lock
  <2>3. CASE FrameIgnored \/ UdpBind \/ DatagramIgnored
      BY <2>3 DEF FrameIgnored, UdpBind, DatagramIgnored, adminVars, Lock
  <2>4. CASE HelloNew \/ \E p \in DOMAIN clients : SoftReconnect(p)
      BY <1>1, <2>4 DEF HelloNew, SoftReconnect
  <2>5. QED
      BY <1>2, <2>1, <2>2, <2>3, <2>4 DEF HandleEvent, Lock
<1>3. CASE LoopTail
  <2>1. ASSUME NEW x, ExpirePending(x) \/ ExpireClient(x)
        PROVE  UNCHANGED <<cfg, sessionModHash>>
      BY <2>1 DEF ExpirePending, ExpireClient, RemoveClient, adminVars
  <2>2. QED
      BY <1>3, <2>1 DEF LoopTail, PersistTick, SendHeartbeat, adminVars, Lock
<1>4. ASSUME NEW x, \/ \E ban \in BOOLEAN : AdminKick(x, ban)
                    \/ AdminBan(x) \/ AdminUnban(x)
      PROVE  UNCHANGED <<cfg, sessionModHash>>
    BY <1>4 DEF AdminKick, AdminBan, AdminUnban
<1>5. CASE AdminSave \/ AdminSay
    BY <1>5 DEF AdminSave, AdminSay, adminVars, Lock
<1>6. CASE AdminMaxPlayers
  <2>1. PICK c \in Configs : cfg' = [cfg EXCEPT !.maxPlayers = c.maxPlayers]
      BY <1>6 DEF AdminMaxPlayers
  <2>2. cfg'.modHash = cfg.modHash /\ sessionModHash' = sessionModHash
      BY <1>0, <1>6, <2>1 DEF AdminMaxPlayers, Config
  <2>3. QED
      BY <2>2 DEF Lock
<1>7. CASE AdminRules
  <2>1. PICK c \in Configs :
           \/ /\ cfg' = [c EXCEPT !.modHash = IF @ # 0 THEN @ ELSE cfg.modHash]
              /\ sessionModHash' = Pinned(c)
           \/ /\ \/ cfg' = [cfg EXCEPT !.pvp = c.pvp]
                 \/ cfg' = [cfg EXCEPT !.password = c.password]
              /\ sessionModHash' = sessionModHash
      BY <1>7 DEF AdminRules
  <2>2. CASE /\ cfg' = [c EXCEPT !.modHash = IF @ # 0 THEN @ ELSE cfg.modHash]
             /\ sessionModHash' = Pinned(c)
    <3>1. c \in Config
        BY <1>0
    <3>2. cfg'.modHash = IF c.modHash # 0 THEN c.modHash ELSE cfg.modHash
        BY <2>2, <3>1 DEF Config
    <3>3. QED
        BY <2>2, <3>2 DEF Lock
  <2>3. CASE /\ \/ cfg' = [cfg EXCEPT !.pvp = c.pvp]
                \/ cfg' = [cfg EXCEPT !.password = c.password]
             /\ sessionModHash' = sessionModHash
    <3>1. cfg'.modHash = cfg.modHash
        BY <1>0, <2>3 DEF Config
    <3>2. QED
        BY <2>3, <3>1 DEF Lock
  <2>4. QED
      BY <2>1, <2>2, <2>3
<1>8. CASE NetThread \/ PersistThread \/ UNCHANGED vars
    BY <1>8 DEF NetThread, PersistThread, vars, simVars, adminVars, Lock
<1>9. QED
    BY <1>2, <1>3, <1>4, <1>5, <1>6, <1>7, <1>8 DEF Next, SimThread, Admin, AdminOther, Lock

LEMMA LockKept == TypeOK /\ LockPinned /\ [Next]_vars => LockPinned' /\ LockStep
    BY LockCases DEF Lock, LockPinned, LockStep, Pinned

(* The mod list that the first host locked stays: a later host, a soft     *)
(* reconnect of the host and a reload that pins nothing new leave it, as   *)
(* what the configuration pins is already the lock.                        *)
THEOREM SimModLock == Spec => ModLockStable
<1>1. Init => LockPinned
    BY DEF Init, LockPinned
<1>2. QED
    BY <1>1, TypeInit, TypeStep, RecordStep, LockKept, PTL
       DEF Spec, ModLockStable, LockStep

-----------------------------------------------------------------------------
(* The session implements Party *)

LEMMA SameCardinality == ASSUME NEW S PROVE Abstract!Cardinality(S) = Cardinality(S)
    BY DEF Abstract!Cardinality, Cardinality, Abstract!IsFiniteSet, IsFiniteSet

LEMMA PartyDefs ==
    /\ Abstract!PartyNext <=> Abstract!Resize \/ \E k \in Keys :
          Abstract!Arrive(k) \/ Abstract!Depart(k) \/ Abstract!Judge(k)
    BY DEF Abstract!PartyNext

HostKey == KeyOf({hostPeerId} \cap DOMAIN clients)

(* No more keys than peers. *)
LEMMA KeyCount ==
    ASSUME TypeOK
    PROVE  /\ Cardinality(KeyOf(DOMAIN clients)) =< Cardinality(DOMAIN clients)
           /\ Cardinality(KeyOf(DOMAIN clients)) \in Nat
           /\ Cardinality(DOMAIN clients) \in Nat
<1>1. DOMAIN clients \subseteq 1..MaxPeer
    BY TypeParts DEF ClientOK, PeerIds
<1>2. IsFiniteSet(DOMAIN clients)
  <2>1. IsFiniteSet(1..MaxPeer)
      BY BoundsAssumption, FS_Interval
  <2>2. QED
      BY <1>1, <2>1, FS_Subset
<1> DEFINE f == [p \in DOMAIN clients |-> clients[p].key]
<1>3. f \in Surjection(DOMAIN clients, KeyOf(DOMAIN clients))
    BY DEF Surjection, KeyOf
<1>4. QED
    BY <1>2, <1>3, FS_Surjection, FS_CardinalityType

(* The keys and the host of a session whose clients keep their keys. *)
LEMMA SameParty ==
    ASSUME TypeOK, HostLive,
           DOMAIN clients' = DOMAIN clients,
           \A p \in DOMAIN clients : clients'[p].key = clients[p].key,
           hostPeerId' \in {hostPeerId} \cup FindHost(DOMAIN clients, hostPeerId)
    PROVE  KeyOf(DOMAIN clients)' = KeyOf(DOMAIN clients) /\ HostKey' = HostKey
<1>1. hostPeerId' = hostPeerId
    BY DEF FindHost, HostLive
<1>2. QED
    BY <1>1 DEF KeyOf, HostKey

PartyStep == Abstract!PartyNext \/ UNCHANGED Abstract!partyVars

LEMMA ArriveStep ==
    ASSUME TypeOK, PeersFresh, HostLive, HelloNew
    PROVE  Abstract!Arrive(Event.msg.key) /\ Event.msg.key \in Keys
<1> DEFINE k == Event.msg.key
<1>1. k \in Keys /\ UNCHANGED <<bannedKeys, cfg>>
    BY FromPendingType, HelloFields DEF HelloNew, Joined, adminVars
<1>2. PICK h \in HostSeen(Event.msg) :
         Refusal(Event.msg, h) = "none" /\ hostPeerId' = IF h = 0 THEN nextPeer ELSE h
    BY DEF HelloNew
<1>3. k \notin bannedKeys
    BY <1>2 DEF Refusal, GateRefusal
<1>4. KeyHolders(k) = {}
    BY DEF HelloNew
<1>5. k \notin KeyOf(DOMAIN clients)
    BY <1>4 DEF KeyHolders, KeyOf
<1>6. ~(Cardinality(DOMAIN clients) >= cfg.maxPlayers)
    BY <1>2, <1>4 DEF Refusal
<1>7. Cardinality(KeyOf(DOMAIN clients)) < cfg.maxPlayers
  <2>1. cfg.maxPlayers \in Nat
      BY TypeParts DEF AdminOK, Config
  <2>2. QED
      BY <1>6, <2>1, KeyCount
<1>8. /\ nextPeer \notin DOMAIN clients
      /\ DOMAIN clients' = DOMAIN clients \cup {nextPeer}
      /\ \A q \in DOMAIN clients : clients'[q] = clients[q]
      /\ clients'[nextPeer].key = k
  <2>1. \A q \in DOMAIN clients : q # nextPeer
      BY TypeParts, BoundsAssumption DEF PeersFresh, PeerOK
  <2>2. QED
      BY <2>1, NewClient
<1>9. KeyOf(DOMAIN clients)' = KeyOf(DOMAIN clients) \cup {k}
    BY <1>8 DEF KeyOf
<1>10. HostKey' = IF KeyOf(DOMAIN clients) = {} THEN {k} ELSE HostKey
  <2>1. CASE DOMAIN clients = {}
    <3>1. h = 0 /\ KeyOf(DOMAIN clients) = {}
        BY <1>2, <2>1 DEF HostSeen, FindHost, HostLive, KeyOf
    <3>2. hostPeerId' = nextPeer
        BY <1>2, <3>1
    <3>3. QED
        BY <1>8, <2>1, <3>1, <3>2 DEF HostKey, KeyOf
  <2>2. CASE DOMAIN clients # {}
    <3>1. hostPeerId \in DOMAIN clients /\ h = hostPeerId
        BY <1>2, <2>2 DEF HostSeen, FindHost, HostLive
    <3>2. h # 0
        BY <3>1, TypeParts, ClientFields, BoundsAssumption DEF PeerIds
    <3>3. hostPeerId' = hostPeerId
        BY <1>2, <3>1, <3>2
    <3>4. KeyOf(DOMAIN clients) # {}
        BY <2>2 DEF KeyOf
    <3>5. QED
        BY <1>8, <3>1, <3>3, <3>4 DEF HostKey, KeyOf
  <2>3. QED
      BY <2>1, <2>2
<1>11. QED
    BY <1>1, <1>3, <1>5, <1>7, <1>9, <1>10, SameCardinality DEF Abstract!Arrive, HostKey

LEMMA DepartStep ==
    ASSUME TypeOK, UniqueKeys, HostLive, NEW p \in DOMAIN clients, Leaves(p),
           cfg' = cfg,
           bannedKeys' \in {bannedKeys, bannedKeys \cup {clients[p].key}}
    PROVE  Abstract!Depart(clients[p].key) /\ clients[p].key \in Keys
<1> DEFINE k == clients[p].key
           M == KeyOf(DOMAIN clients)
<1>1. k \in Keys /\ k \in M
    BY TypeParts, ClientFields DEF KeyOf
<1>2. /\ DOMAIN clients' = Others(p)
      /\ \A q \in Others(p) : clients'[q] = clients[q] /\ q \in DOMAIN clients
      /\ hostPeerId' \in FindHost(Others(p), IF hostPeerId = p THEN 0 ELSE hostPeerId)
    BY DEF Leaves, Without, Others
<1>3. KeyOf(DOMAIN clients)' = M \ {k}
  <2>1. KeyOf(DOMAIN clients)' = {clients[q].key : q \in Others(p)}
      BY <1>2 DEF KeyOf
  <2>2. \A q \in Others(p) : clients[q].key # k
      BY DEF Others, UniqueKeys
  <2>3. M = {clients[q].key : q \in Others(p)} \cup {k}
      BY DEF KeyOf, Others
  <2>4. QED
      BY <2>1, <2>2, <2>3
<1>4. 0 \notin Others(p)
    BY TypeParts, ClientFields, BoundsAssumption DEF Others, PeerIds
<1>5. hostPeerId \in DOMAIN clients
    BY DEF HostLive
<1>6. HostKey = {clients[hostPeerId].key}
    BY <1>5 DEF HostKey, KeyOf
<1>7. CASE hostPeerId = p
  <2>1. HostKey = {k}
      BY <1>6, <1>7
  <2>2. CASE Others(p) = {}
    <3>1. HostKey' = {} /\ KeyOf(DOMAIN clients)' = {}
        BY <1>2, <2>2 DEF HostKey, KeyOf
    <3>2. QED
        BY <1>1, <1>3, <2>1, <3>1 DEF Abstract!Depart, HostKey
  <2>3. CASE Others(p) # {}
    <3>1. hostPeerId' \in Others(p)
        BY <1>2, <1>4, <1>7, <2>3 DEF FindHost
    <3>2. HostKey' = {clients[hostPeerId'].key}
        BY <1>2, <3>1 DEF HostKey, KeyOf
    <3>3. clients[hostPeerId'].key \in KeyOf(DOMAIN clients)'
        BY <1>2, <3>1 DEF KeyOf
    <3>4. QED
        BY <1>1, <1>3, <2>1, <3>2, <3>3 DEF Abstract!Depart, HostKey
  <2>4. QED
      BY <2>2, <2>3
<1>8. CASE hostPeerId # p
  <2>1. hostPeerId \in Others(p)
      BY <1>5, <1>8 DEF Others
  <2>2. hostPeerId' = hostPeerId
      BY <1>2, <1>8, <2>1 DEF FindHost
  <2>3. HostKey' = HostKey
      BY <1>2, <1>5, <2>1, <2>2 DEF HostKey, KeyOf
  <2>4. k \notin HostKey
      BY <1>5, <1>6, <1>8 DEF UniqueKeys
  <2>5. QED
      BY <1>1, <1>3, <2>3, <2>4 DEF Abstract!Depart, HostKey
<1>9. QED
    BY <1>7, <1>8

LEMMA PartySteps ==
    TypeOK /\ PeersFresh /\ UniqueKeys /\ HostLive /\ TypeOK' /\ [Next]_vars => PartyStep
<1> SUFFICES ASSUME TypeOK, PeersFresh, UniqueKeys, HostLive, TypeOK', [Next]_vars
             PROVE  PartyStep
    OBVIOUS
<1> USE DEF PartyStep
<1>1. CASE HelloNew
    BY <1>1, ArriveStep, PartyDefs
<1>2. ASSUME NEW p \in DOMAIN clients, Leaves(p), cfg' = cfg,
             bannedKeys' \in {bannedKeys, bannedKeys \cup {clients[p].key}}
      PROVE  PartyStep
    BY <1>2, DepartStep, PartyDefs
<1>3. ASSUME SameMembers, cfg' = cfg, NEW k \in Keys,
             bannedKeys' \in {bannedKeys \cup {k}, bannedKeys \ {k}}
      PROVE  PartyStep
  <2>1. KeyOf(DOMAIN clients)' = KeyOf(DOMAIN clients) /\ HostKey' = HostKey
      BY <1>3 DEF SameMembers, memberVars, KeyOf, HostKey
  <2>2. Abstract!Judge(k)
      BY <1>3, <2>1 DEF Abstract!Judge, HostKey
  <2>3. QED
      BY <2>2, PartyDefs
<1>4. ASSUME SameMembers, bannedKeys' = bannedKeys PROVE PartyStep
  <2>1. KeyOf(DOMAIN clients)' = KeyOf(DOMAIN clients) /\ HostKey' = HostKey
      BY <1>4 DEF SameMembers, memberVars, KeyOf, HostKey
  <2>2. cfg'.maxPlayers \in Nat \ {0}
      BY TypeParts DEF TypeOK, Config
  <2>3. Abstract!Resize
      BY <1>4, <2>1, <2>2 DEF Abstract!Resize, HostKey
  <2>4. QED
      BY <2>3, PartyDefs
<1>5. ASSUME UNCHANGED adminVars, DOMAIN clients' = DOMAIN clients,
             \A p \in DOMAIN clients : clients'[p].key = clients[p].key,
             hostPeerId' \in {hostPeerId} \cup FindHost(DOMAIN clients, hostPeerId)
      PROVE  PartyStep
  <2>1. KeyOf(DOMAIN clients)' = KeyOf(DOMAIN clients) /\ HostKey' = HostKey
      BY <1>5, SameParty
  <2>2. QED
      BY <1>5, <2>1 DEF Abstract!partyVars, adminVars, HostKey
<1>6. CASE UNCHANGED adminVars
  <2>1. ASSUME NEW p \in DOMAIN clients, Leaves(p) PROVE PartyStep
      BY <1>2, <1>6, <2>1 DEF adminVars
  <2>2. ASSUME NEW p \in DOMAIN clients, SoftReconnect(p) PROVE PartyStep
      BY <1>5, <1>6, <2>2, MovedClient DEF SoftReconnect, HostSeen
  <2>3. ASSUME NEW p \in DOMAIN clients, HelloAgain(p) PROVE PartyStep
      BY <1>5, <1>6, <2>3, RenewedClient DEF HelloAgain
  <2>4. CASE UdpBind
      BY <1>5, <1>6, <2>4, BoundClient DEF UdpBind
  <2>5. CASE SameMembers \/ TcpAccept \/ Waits
      BY <1>5, <1>6, <2>5 DEF SameMembers, memberVars, TcpAccept, Waits
  <2>6. QED
      BY <1>1, <2>1, <2>2, <2>3, <2>4, <2>5, MembersStep DEF Members
<1>7. QED
    BY <1>2, <1>3, <1>4, <1>6, RulesStep DEF Rules

LEMMA PartyStart == Init => Abstract!PartyInit
<1> SUFFICES ASSUME Init PROVE Abstract!PartyInit
    OBVIOUS
<1>1. DOMAIN clients = {} /\ bannedKeys = {} /\ cfg \in Config
    BY MessageAssumption DEF Init
<1>2. cfg.maxPlayers \in Nat \ {0}
    BY <1>1 DEF Config
<1>3. QED
    BY <1>1, <1>2 DEF Abstract!PartyInit, KeyOf

(* The session implements Party: with the players' keys for its members,   *)
(* every handler, timeout and admin command is an arrival, a departure, a  *)
(* judgement or a change of size, or nothing at all, for the players.      *)
THEOREM SimIsParty == Spec => ImplementsParty
<1>1. Init => PeersFresh /\ UniqueKeys /\ HostLive
    BY DEF Init, PeersFresh, UniqueKeys, HostLive
<1>2. QED
    BY <1>1, TypeInit, TypeStep, RecordStep, PeersStep, KeysStep, HostStep,
       PartyStart, PartySteps, PTL
       DEF Spec, ImplementsParty, Abstract!PartySpec, PartyStep
=============================================================================
