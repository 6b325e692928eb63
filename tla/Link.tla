-------------------------------- MODULE Link --------------------------------
(***************************************************************************)
(* A player's plugin and the server, as far as this player is concerned:   *)
(* the session of Sim seen from one client, without the others.  TCP       *)
(* delivers in order; datagrams are lost, repeated and reordered.  The     *)
(* server's two threads are one here, except for what is lost between      *)
(* them, and that what a connection said before a reconnect closed it may  *)
(* be handled after it, under the peer id the connection had.              *)
(***************************************************************************)
EXTENDS Client

CONSTANT MaxDown \* bound: frames under way to the player

VARIABLES
    srv,    \* the player's Client: conn, peer (0 for none), token, bound
    gone,   \* joins whose connection the session has closed
    tag,    \* join -> the peer id the net thread has for its connection
    nextPeer, nextToken,
    lost,   \* history: the token of the last Welcome that was lost, or 0
    orphans \* history: joins the session has closed and the net thread has not

history    == <<lost, orphans>>
serverVars == <<srv, gone, tag, nextPeer, nextToken, history>>
linkVars   == <<clientVars, serverVars>>

(* Type invariant of the plugin, the wire and the server's view of them. *)
LinkTypeOK ==
    /\ ClientTypeOK
    /\ srv \in [conn : Joins \cup {0}, peer : MyIds \cup {0},
                token : 0..MaxToken, bound : Joins \cup {0}]
    /\ gone \subseteq Joins /\ tag \in [Joins -> MyIds \cup {0}]
    /\ nextPeer \in 1..(MaxPeer + 1) /\ nextToken \in 1..(MaxToken + 1)
    /\ lost \in 0..MaxToken /\ orphans \subseteq Joins

Nobody == [conn |-> 0, peer |-> 0, token |-> 0, bound |-> 0]

LinkInit ==
    /\ ClientInit
    /\ srv = Nobody /\ gone = {} /\ tag = [n \in Joins |-> 0]
    /\ nextPeer = 1 /\ nextToken = 1 /\ lost = 0 /\ orphans = {}

-----------------------------------------------------------------------------
In == srv.peer # 0

(* pendingTcp: what is open and not the client's. *)
Pending(c) == c \notin gone /\ c # srv.conn

(* A frame is for the client its peer id names, else for the pending       *)
(* connection it came on, else for the client on that connection.          *)
ToClient(c) == In /\ (tag[c] = srv.peer \/ srv.conn = c)

(* The next frame of connection c. *)
Take(c)     == up[c] # <<>> /\ up' = [up EXCEPT ![c] = Tail(@)]
Takes(c, m) == Take(c) /\ Head(up[c]) = m

(* What is sent on a connection arrives while the player has it open...    *)
Hears(c)    == c # 0 /\ c = sock
Say(c, ms)  == down' = IF Hears(c) THEN down \o ms ELSE down
RoomDown    == Len(down) < MaxDown                        \* bound: MaxDown

(* ... unless the outbound queue refuses it, or the send buffer of the     *)
(* connection, which is left open all the same.                            *)
Tell(c, ms) == Say(c, ms) \/ down' = down

TellWelcome(c, p, t) ==
    \/ Say(c, <<Welcome(p, t)>>) /\ UNCHANGED lost
    \/ Hears(c) /\ down' = down /\ lost' = t

(* CloseConn after ms; a full outbound queue refuses it as well. *)
CloseConn(c, ms) ==
    /\ \/ Say(c, Append(ms, Eof)) /\ UNCHANGED orphans
       \/ Hears(c) /\ Say(c, ms) /\ orphans' = orphans \cup {c}
    /\ UNCHANGED lost

-----------------------------------------------------------------------------
(* Frames *)

SrvRefuse(c) ==
    /\ Takes(c, Hello) /\ ~ToClient(c) /\ Pending(c)
    /\ RoomDown
    /\ Tell(c, <<Reject>>)
    /\ UNCHANGED <<clientOnly, binds, serverVars>>

(* Mutant: a client that reconnects keeps its token. *)
JoinTokenKept == IF In THEN srv.token ELSE nextToken

JoinToken == nextToken

(* A pending Hello is a new client or a soft reconnect, which closes the   *)
(* client's old connection.                                                *)
SrvHello(c) ==
    LET p == IF In THEN srv.peer ELSE nextPeer
    IN  /\ Takes(c, Hello) /\ ~ToClient(c) /\ Pending(c)
        /\ nextToken =< MaxToken /\ p =< MaxPeer \* bounds: MaxToken, MaxPeer
        /\ srv' = [conn |-> c, peer |-> p, token |-> JoinToken, bound |-> 0]
        /\ gone' = IF In THEN gone \cup {srv.conn} ELSE gone
        /\ tag' = [tag EXCEPT ![c] = p]
        /\ IF c = sock THEN TellWelcome(c, p, JoinToken) /\ UNCHANGED orphans
                       ELSE CloseConn(srv.conn, <<>>)
        /\ nextPeer' = IF In THEN nextPeer ELSE nextPeer + 1
        /\ nextToken' = nextToken + 1
        /\ UNCHANGED <<clientOnly, binds>>

(* A client's Hello renews its token and unbinds it. *)
SrvHelloAgain(c) ==
    /\ Takes(c, Hello) /\ ToClient(c)
    /\ nextToken =< MaxToken                             \* bound: MaxToken
    /\ srv' = [srv EXCEPT !.token = nextToken, !.bound = 0]
    /\ nextToken' = nextToken + 1
    /\ TellWelcome(srv.conn, srv.peer, nextToken)
    /\ UNCHANGED <<clientOnly, binds, gone, tag, nextPeer, orphans>>

(* After a Bye the connection is pending again. *)
SrvBye(c) ==
    /\ Takes(c, ByeFrame) /\ ToClient(c)
    /\ srv' = Nobody
    /\ UNCHANGED <<clientOnly, down, binds, gone, tag, nextPeer, nextToken,
                   history>>

SrvClosed(c) ==
    /\ Takes(c, Eof)
    /\ IF ToClient(c)
       THEN /\ srv' = Nobody
            /\ CloseConn(srv.conn, <<>>)
            /\ gone' = gone \cup {c, srv.conn}
       ELSE gone' = gone \cup {c} /\ UNCHANGED <<srv, down, history>>
    /\ UNCHANGED <<clientOnly, binds, tag, nextPeer, nextToken>>

(* A client's heartbeat is answered. *)
SrvHeartbeat(c) ==
    /\ Take(c) /\ Head(up[c]).type = "Heartbeat" /\ ToClient(c)
    /\ Tell(srv.conn, IF RoomDown THEN <<Other>> ELSE <<>>)
    /\ UNCHANGED <<clientOnly, binds, serverVars>>

(* A frame is ignored where it is not expected; any frame is lost when the *)
(* inbound queue is full or the connection has been closed.                *)
SrvLoses(c) ==
    /\ Take(c)
    /\ UNCHANGED <<clientOnly, down, binds, serverVars>>

-----------------------------------------------------------------------------
(* The server's own doing *)

KickBye == Bye(srv.peer)

(* A timeout, or the admin's kick, which says Bye first. *)
SrvDrops ==
    /\ In /\ RoomDown
    /\ srv' = Nobody
    /\ \E bye \in {<<>>, <<KickBye>>} : CloseConn(srv.conn, bye)
    /\ gone' = gone \cup {srv.conn}
    /\ UNCHANGED <<clientOnly, up, binds, tag, nextPeer, nextToken>>

(* The host's kick is only passed on; the plugin then leaves. *)
SrvKicks ==
    /\ In /\ RoomDown
    /\ Tell(srv.conn, <<Bye(srv.peer)>>)
    /\ UNCHANGED <<clientOnly, up, binds, serverVars>>

(* Mutant: the entry goes and the connection stays open. *)
SrvExpirePendingOpen(c) ==
    /\ c =< joins /\ Pending(c) /\ RoomDown
    /\ gone' = gone \cup {c}
    /\ UNCHANGED <<clientOnly, up, down, binds, srv, tag, nextPeer, nextToken,
                   history>>

SrvExpirePending(c) ==
    /\ c =< joins /\ Pending(c) /\ RoomDown
    /\ CloseConn(c, <<>>)
    /\ gone' = gone \cup {c}
    /\ UNCHANGED <<clientOnly, up, binds, srv, tag, nextPeer, nextToken>>

(* A UdpBind with the client's token; any other is ignored. *)
SrvBind(d) ==
    /\ d \in binds
    /\ In /\ d.peer = srv.peer /\ d.token = srv.token
    /\ srv' = [srv EXCEPT !.bound = d.addr]
    /\ binds' \in {binds, binds \ {d}}
    /\ UNCHANGED <<clientOnly, up, down, gone, tag, nextPeer, nextToken, history>>

(* A Heartbeat, a Chat, the looks or the Bye of another player... *)
SendFrame ==
    /\ In /\ RoomDown
    /\ Tell(srv.conn, <<Other>>)
    /\ UNCHANGED <<clientOnly, up, binds, serverVars>>

-----------------------------------------------------------------------------
ClientStep ==
    /\ \/ Join \/ Leave \/ EndLeave \/ HbThread \/ NetPoll \/ FifteenSeconds
       \/ \E d \in binds : Lost(d)
    /\ UNCHANGED serverVars

SrvAnswers(c) == \/ SrvRefuse(c) \/ SrvHello(c) \/ SrvHelloAgain(c)
                 \/ SrvBye(c) \/ SrvClosed(c) \/ SrvHeartbeat(c)

LinkNext ==
    \/ ClientStep
    \/ \E c \in Joins : SrvAnswers(c) \/ SrvLoses(c) \/ SrvExpirePending(c)
    \/ SrvDrops \/ SrvKicks \/ SendFrame
    \/ \E d \in binds : SrvBind(d)

LinkSpec == LinkInit /\ [][LinkNext]_linkVars

(* The game thread goes on with its ticks, a frame that is under way is    *)
(* read in one of them, a Hello that stays unanswered is repeated, the     *)
(* heartbeat thread is scheduled, and the server, which answers every      *)
(* frame its queue has room for, does not lose all of them.                *)
ClientDoes(A) == A /\ UNCHANGED serverVars
FairLinkSpec ==
    /\ LinkSpec
    /\ WF_linkVars(ClientDoes(EndLeave)) /\ WF_linkVars(ClientDoes(HbThread))
    /\ WF_linkVars(ClientDoes(ReadFrame)) /\ SF_linkVars(ClientDoes(RetryHello))
    /\ \A c \in Joins : SF_linkVars(SrvAnswers(c))
                          /\ WF_linkVars(SrvExpirePending(c))

-----------------------------------------------------------------------------
(* Once every Welcome has been read, the plugin and the server hold the    *)
(* same peer id and the same UDP token, however often the Hello was        *)
(* repeated and the connection replaced (handlers.cpp:433-459, 571-581,    *)
(* poll.cpp:116-142).  If the last Welcome was lost, the plugin asks again *)
(* only while it has had none.                                             *)
TokensAgree ==
    In /\ srv.conn = sock /\ down = <<>> /\ ~leaving /\ lost # srv.token
      => myPeerId = srv.peer /\ udpToken = srv.token

(* The two ends of the link: their types, and their agreement on who the   *)
(* player is.                                                              *)
LinkInv == LinkTypeOK /\ TokensAgree

(* A client is bound to the UDP socket of the join whose connection it has,*)
(* never to that of a join before, whatever datagrams come late            *)
(* (handlers.cpp:434-446, 726-739).                                        *)
BoundToThisJoin == srv.bound # 0 => srv.bound = srv.conn

(* A leave ends: the heartbeat thread lets itself be joined                *)
(* (session.cpp:29-58).                                                    *)
LeaveEnds == leaving ~> ~leaving

(* A join is answered or given up (poll.cpp:104-163, 309-332), although    *)
(* Hellos, Welcomes and Rejects are lost; but for a connection that the    *)
(* server has forgotten and not closed.                                    *)
JoinSettles ==
    joined /\ myPeerId = 0 ~> \/ myPeerId # 0 \/ ~joined \/ sock \in orphans
                              \/ lost = MaxToken         \* bound: MaxToken

Served == In /\ srv.conn = sock

(* A plugin whose client the server no longer has, or has on another       *)
(* connection, finds out when that connection is closed                    *)
(* (handlers.cpp:204-245, 808-819, poll.cpp:351-358).                      *)
DropNoticed ==
    joined /\ myPeerId # 0 /\ ~Served ~> ~joined \/ Served \/ sock \in orphans
=============================================================================
