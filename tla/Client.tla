------------------------------- MODULE Client -------------------------------
(***************************************************************************)
(* One player's plugin: its network session (plugin/src/net/session.cpp,   *)
(* poll.cpp, udp_win.cpp) and its heartbeat thread.                        *)
(*                                                                         *)
(* The game thread runs one tick after another.  A tick reads the frames   *)
(* and datagrams that have come; how many is up to the network, so each    *)
(* read is a step of its own.  CMP_Leave waits for the heartbeat thread,   *)
(* which goes on meanwhile, so leaving is two steps.  What the messages of *)
(* a session do in the game is left out: they are Other.  Of the clock,    *)
(* what counts is whether fifteen seconds have passed since the last       *)
(* message.                                                                *)
(***************************************************************************)
EXTENDS Naturals, Sequences

CONSTANTS
    MaxPeer,   \* bound: peer ids this player is given
    MaxToken,  \* bound: UDP tokens this player is given
    MaxJoins,  \* bound: how often the player joins
    MaxUp      \* bound: frames under way to the server on a connection

ASSUME ClientAssumption == {MaxPeer, MaxToken, MaxJoins, MaxUp} \subseteq Nat

MyIds == 1..MaxPeer
Joins == 1..MaxJoins \* a join makes one TCP and one UDP socket

VARIABLES
    joined, myPeerId, udpToken, udpBound, \* NetRuntime
    leaving,      \* CMP_Leave is waiting for the heartbeat thread
    hbRun, hb,    \* g_heartbeatRun; whether the thread runs
    lastRecv,     \* g_lastRecvSec: "never", "recent" or over 15 s "ago"
    sock, joins,  \* the join whose TCP socket is open, or 0; joins made
    up, down,     \* TCP: join -> frames to the server; frames to sock
    binds         \* UdpBinds under way, which may be lost or repeated

netState   == <<joined, myPeerId, udpToken, udpBound>>
hbState    == <<hbRun, hb>>
wire       == <<up, down, binds>>
clientOnly == <<netState, leaving, hbState, lastRecv, sock, joins>>
clientVars == <<clientOnly, wire>>

Hello     == [type |-> "Hello"]
ByeFrame  == [type |-> "Bye"]
Heartbeat == [type |-> "Heartbeat"]
Eof       == [type |-> "Eof"]
UpMsg     == {Hello, ByeFrame, Heartbeat, Eof}

Welcome(p, t) == [type |-> "Welcome", peer |-> p, token |-> t]
Reject        == [type |-> "Reject"]
Bye(p)        == [type |-> "Bye", peer |-> p]
Other         == [type |-> "Other"] \* Heartbeat, Chat, others' Bye, chunks...
DownMsg == {Reject, Eof, Other} \cup {Bye(p) : p \in MyIds}
             \cup {Welcome(p, t) : p \in MyIds, t \in 1..MaxToken}

(* A UdpBind with the UDP socket it comes from. *)
UdpBind == [addr : Joins, peer : MyIds, token : 1..MaxToken]
Bind(n, p, t) == [addr |-> n, peer |-> p, token |-> t]

ClientTypeOK ==
    /\ joined \in BOOLEAN /\ udpBound \in BOOLEAN
    /\ myPeerId \in MyIds \cup {0} /\ udpToken \in 0..MaxToken
    /\ leaving \in BOOLEAN /\ hbRun \in BOOLEAN /\ hb \in BOOLEAN
    /\ lastRecv \in {"never", "recent", "ago"}
    /\ sock \in Joins \cup {0} /\ joins \in 0..MaxJoins
    /\ up \in [Joins -> Seq(UpMsg)] /\ down \in Seq(DownMsg)
    /\ binds \subseteq UdpBind

ClientInit ==
    /\ joined = FALSE /\ myPeerId = 0
    /\ udpToken = 0 /\ udpBound = FALSE
    /\ leaving = FALSE /\ hbRun = FALSE /\ hb = FALSE
    /\ lastRecv = "never"
    /\ sock = 0 /\ joins = 0
    /\ up = [n \in Joins |-> <<>>] /\ down = <<>> /\ binds = {}

-----------------------------------------------------------------------------
(* Joining and leaving *)

SendTcp(m) == [up EXCEPT ![sock] = Append(@, m)]
RoomUp     == Len(up[sock]) < MaxUp                         \* bound: MaxUp

(* CMP_Join.  It begins with CMP_Leave, so a join out of a session is a    *)
(* leave followed by this step; a failed connect leaves no trace.  The     *)
(* time of the last message stays that of the session before.              *)
Join ==
    /\ ~joined
    /\ joins < MaxJoins                                   \* bound: MaxJoins
    /\ joins' = joins + 1 /\ sock' = joins + 1
    /\ up' = [up EXCEPT ![joins + 1] = <<Hello>>]
    /\ joined' = TRUE
    /\ hbRun' = TRUE /\ hb' = TRUE
    /\ UNCHANGED <<myPeerId, udpToken, udpBound, leaving, lastRecv, down, binds>>

(* CMP_Leave up to StopHeartbeat's join.  open says whether the TCP socket *)
(* is still open.                                                          *)
BeginLeave(open) ==
    /\ up' = IF open THEN SendTcp(ByeFrame) ELSE up
    /\ sock' = IF open THEN sock ELSE 0
    /\ hbRun' = FALSE
    /\ leaving' = TRUE
    /\ UNCHANGED <<netState, hb, joins>>

(* The rest of CMP_Leave, once the thread has ended. *)
EndLeave ==
    /\ leaving /\ ~hb
    /\ leaving' = FALSE
    /\ up' = IF sock = 0 THEN up ELSE SendTcp(Eof)
    /\ sock' = 0 /\ down' = <<>>
    /\ joined' = FALSE /\ myPeerId' = 0
    /\ udpToken' = 0 /\ udpBound' = FALSE
    /\ UNCHANGED <<hbState, lastRecv, joins, binds>>

InTick == joined /\ ~leaving

(* The player leaves, or a save is being loaded. *)
Leave ==
    /\ InTick
    /\ BeginLeave(TRUE)
    /\ UNCHANGED <<lastRecv, down, binds>>

-----------------------------------------------------------------------------
(* The heartbeat thread *)

(* Mutant: the loop does not look at g_heartbeatRun. *)
HbAgainAlways == TRUE

HbAgain == hbRun

(* One round of HeartbeatLoop, which may be sent after the Bye. *)
HbThread ==
    /\ hb
    /\ up' = IF joined /\ myPeerId # 0 /\ sock # 0 /\ RoomUp
             THEN SendTcp(Heartbeat) ELSE up
    /\ hb' = HbAgain
    /\ UNCHANGED <<netState, leaving, hbRun, lastRecv, sock, joins, down, binds>>

-----------------------------------------------------------------------------
(* CMP_NetPoll *)

(* The Hello is repeated while no Welcome has come. *)
RetryHello ==
    /\ InTick /\ myPeerId = 0
    /\ RoomUp
    /\ up' = SendTcp(Hello)
    /\ UNCHANGED <<clientOnly, down, binds>>

(* A UdpBind whose send failed is repeated; one that was lost is not. *)
RetryBind ==
    /\ InTick /\ myPeerId # 0 /\ udpToken # 0 /\ ~udpBound
    /\ binds' = binds \cup {Bind(sock, myPeerId, udpToken)}
    /\ udpBound' = TRUE
    /\ UNCHANGED <<joined, myPeerId, udpToken, leaving, hbState, lastRecv, sock,
                   joins, up, down>>

Handled == lastRecv' = "recent"

Read(t) ==
    /\ InTick
    /\ down # <<>>
    /\ Head(down).type = t
    /\ down' = Tail(down)
    /\ Handled

(* Mutant: the first token is kept. *)
TokenFirst(m) == IF udpToken = 0 THEN m.token ELSE udpToken

TokenOf(m) == m.token

(* Welcome also sends the local world, the looks and, a little later, the  *)
(* inventory.                                                              *)
OnWelcome ==
    LET m == Head(down)
    IN  /\ Read("Welcome")
        /\ myPeerId' = m.peer /\ udpToken' = TokenOf(m)
        /\ \/ /\ binds' = binds \cup {Bind(sock, m.peer, TokenOf(m))}
              /\ udpBound' = TRUE
           \/ UNCHANGED <<binds, udpBound>>
        /\ UNCHANGED <<joined, leaving, hbState, sock, joins, up>>

(* Mutant: the refusal is shown and the session kept. *)
OnRejectIgnored ==
    /\ Read("Reject")
    /\ UNCHANGED <<netState, leaving, hbState, sock, joins, up, binds>>

OnReject == Read("Reject") /\ BeginLeave(TRUE) /\ UNCHANGED binds

(* A Bye to this player, or a Kick. *)
OnBye ==
    /\ Read("Bye")
    /\ IF Head(down).peer = myPeerId
       THEN BeginLeave(TRUE)
       ELSE UNCHANGED <<netState, leaving, hbState, sock, joins, up>>
    /\ UNCHANGED binds

OnOther ==
    /\ Read("Other")
    /\ UNCHANGED <<netState, leaving, hbState, sock, joins, up, binds>>

(* cmp_net_tcp_recv_frame reads all there is before it returns one frame:  *)
(* once the end of the stream is there, the frames before it are lost.     *)
OnClosed ==
    /\ InTick
    /\ down # <<>> /\ down[Len(down)] = Eof
    /\ down' = <<>>
    /\ BeginLeave(FALSE)
    /\ UNCHANGED <<lastRecv, binds>>

(* A pose, of a player or of one of the host's actors. *)
OnDatagram ==
    /\ InTick /\ udpBound
    /\ Handled
    /\ UNCHANGED <<netState, leaving, hbState, sock, joins, wire>>

FifteenSeconds ==
    /\ lastRecv' = IF lastRecv = "never" THEN "never" ELSE "ago"
    /\ UNCHANGED <<netState, leaving, hbState, sock, joins, wire>>

(* The last thing in a poll. *)
TimeOut ==
    /\ InTick /\ lastRecv = "ago"
    /\ BeginLeave(TRUE)
    /\ UNCHANGED <<lastRecv, down, binds>>

Lost(d) ==
    /\ d \in binds
    /\ binds' = binds \ {d}
    /\ UNCHANGED <<clientOnly, up, down>>

ReadFrame == OnWelcome \/ OnReject \/ OnBye \/ OnOther \/ OnClosed
NetPoll   == RetryHello \/ RetryBind \/ ReadFrame \/ OnDatagram \/ TimeOut
=============================================================================
