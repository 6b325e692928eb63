---------------------------- MODULE ServerTypes ----------------------------
(***************************************************************************)
(* The identifiers, messages, events and commands the threads of the       *)
(* server exchange (queues.hpp, server_state.hpp, cmp_protocol.hpp).       *)
(*                                                                         *)
(* Payloads are abstracted to what the handlers look at.  An instance      *)
(* chooses in TcpMsgs and UdpMsgs which messages its clients may send, in  *)
(* Commands which admin commands are typed, and in Tracked which server    *)
(* messages are followed through the outbound queue: a message that is not *)
(* tracked changes no state but the queue's length and is left out.        *)
(***************************************************************************)
EXTENDS Containers, FiniteSets

CONSTANTS
    Keys,          \* player keys (sanitized)
    Addrs, NoAddr, \* UDP source addresses, and "not bound"
    Passwords,     \* passwords a server or a Hello may carry
    NoPassword,    \* the empty password
    ModHashes,     \* nonzero mod-list fingerprints; 0 stands for none
    Locs,          \* locations, form ids
    NoLoc,         \* location form id 0
    Commonwealth,  \* kCommonwealthWorldspace
    Data, NoData,  \* contents of a record or of the game clock, and the default
    NoRec,         \* no player record under a key
    MaxPeer,       \* bound: peer ids handed out
    MaxConn,       \* bound: TCP connections accepted
    TokenPeriod,   \* period of the UDP token generator (2^32 in the code)
    InCap, OutCap, JobCap, \* AsyncQueue capacities: 8192, 8192, 256
    HasPersist,    \* ServerRuntime::persist is set
    TcpMsgs, UdpMsgs, Commands, Configs, Tracked

PeerIds == 1..MaxPeer
ConnIds == 1..MaxConn
Tokens  == 1..TokenPeriod

(* A Hello: ok says that protocol, plugin version and inWorld pass. *)
HelloMsg == [type : {"Hello"}, ok : BOOLEAN, key : Keys,
             password : Passwords \cup {NoPassword},
             modHash : ModHashes \cup {0}, requireHost : BOOLEAN,
             location : Locs \cup {NoLoc}, clock : Data]

(* harm says that clamp_hit_damage leaves a positive damage. *)
HitMsg   == [type : {"Hit"}, attacker : PeerIds, target : PeerIds \cup {0},
             harm : BOOLEAN]
SnapMsg  == [type : {"WorldSnapshot"}, location : Locs \cup {NoLoc},
             clock : Data]
OrderMsg == [type : {"Kick", "Teleport"}, target : PeerIds]
BlobMsg  == [type : {"Blob"}, data : Data]
PlainMsg == [type : {"Bye", "SessionQuery", "Heartbeat", "Chat", "Unknown"}]

BindMsg  == [type : {"UdpBind"}, peer : PeerIds, token : Tokens]
PoseMsg  == [type : {"PlayerPose"}, location : Locs \cup {NoLoc}, data : Data]
ActorMsg == [type : {"ActorPose", "Unknown"}]

TcpMsg == HelloMsg \cup HitMsg \cup SnapMsg \cup OrderMsg \cup BlobMsg
             \cup PlainMsg
UdpMsg == BindMsg \cup PoseMsg \cup ActorMsg

(* InboundEvent: what the net thread tells the simulation thread.  peer is *)
(* the peer id the net thread had on the connection when it read.          *)
Accepted(c)    == [kind |-> "TcpAccept", conn |-> c]
Frame(c, p, m) == [kind |-> "TcpFrame", conn |-> c, peer |-> p, msg |-> m]
Closed(c, p)   == [kind |-> "TcpClosed", conn |-> c, peer |-> p]
Datagram(a, m) == [kind |-> "UdpDatagram", addr |-> a, msg |-> m]

InboundEvent ==
    [kind : {"TcpAccept"}, conn : ConnIds]
      \cup [kind : {"TcpFrame"}, conn : ConnIds, peer : PeerIds \cup {0},
            msg : TcpMsgs]
      \cup [kind : {"TcpClosed"}, conn : ConnIds, peer : PeerIds \cup {0}]
      \cup [kind : {"UdpDatagram"}, addr : Addrs, msg : UdpMsgs]

(* What the server says over TCP: peer is whom it is about (0: nobody),    *)
(* peers the other players a joining client is shown.                      *)
ServerMsgTypes == {"SessionInfo", "Reject", "Welcome", "WorldSnapshot",
                   "Roster", "Bye", "Blob", "Heartbeat", "Chat", "Kick",
                   "Teleport", "Hit", "SessionRules"}
ServerMsg == [type : ServerMsgTypes, peer : PeerIds \cup {0},
              peers : SUBSET PeerIds]
Say(t, p) == [type |-> t, peer |-> p, peers |-> {}]

(* OutboundCmd: what the simulation thread asks of the net thread.  The    *)
(* sends of one loop over the clients are one command with a set of        *)
(* receivers; the code pushes one command per receiver, in no fixed order. *)
TcpSend(S, m)  == [kind |-> "TcpSend", conns |-> S, msg |-> m]
UdpSend(S)     == [kind |-> "UdpSend", addrs |-> S]
BindPeer(c, p) == [kind |-> "BindPeer", conn |-> c, peer |-> p]
CloseConn(c)   == [kind |-> "CloseConn", conn |-> c]
KeepPending(p) == [kind |-> "KeepPending", peer |-> p]

OutboundCmd ==
    [kind : {"TcpSend"}, conns : SUBSET ConnIds, msg : ServerMsg]
      \cup [kind : {"UdpSend"}, addrs : SUBSET Addrs]
      \cup [kind : {"BindPeer"}, conn : ConnIds, peer : PeerIds]
      \cup [kind : {"CloseConn"}, conn : ConnIds]
      \cup [kind : {"KeepPending"}, peer : PeerIds]

(* PlayerRec, its pose, appearance and inventory folded into data. *)
PlayerRec == [havePose : BOOLEAN, data : Data \cup {NoData}]
Clocks    == Data \cup {NoData}

(* PersistJob: snapshots taken when the job is made. *)
PersistJob == [world : BOOLEAN, worldSnap : Clocks,
               players : UNION {[K -> PlayerRec] : K \in SUBSET Keys},
               writeBans : BOOLEAN, banKeys : SUBSET Keys]

(* The part of ServerConfig the handlers read. *)
Config == [maxPlayers : Nat \ {0}, password : Passwords \cup {NoPassword},
           pvp : BOOLEAN, modHash : ModHashes \cup {0}]

ASSUME BoundsAssumption ==
    /\ MaxPeer \in Nat /\ MaxConn \in Nat
    /\ InCap \in Nat /\ OutCap \in Nat /\ JobCap \in Nat
    /\ TokenPeriod \in Nat \ {0, 1}

ASSUME MessageAssumption ==
    /\ TcpMsgs \subseteq TcpMsg /\ UdpMsgs \subseteq UdpMsg
    /\ Configs \subseteq Config /\ Configs # {}

ASSUME ValueAssumption ==
    /\ NoAddr \notin Addrs /\ NoRec \notin PlayerRec
    /\ NoPassword \notin Passwords /\ NoLoc \notin Locs
    /\ Commonwealth \in Locs /\ NoData \notin Data
    /\ 0 \notin ModHashes /\ HasPersist \in BOOLEAN
=============================================================================
