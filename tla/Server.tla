------------------------------- MODULE Server -------------------------------
(***************************************************************************)
(* The server: the simulation thread (Sim) and the net thread (NetIo)      *)
(* joined by their two queues, and what the players have been told.  What  *)
(* is saved has no effect on either thread and is left to Store.           *)
(***************************************************************************)
EXTENDS Sim

VARIABLES conns, peerToConn, running, inLost,
    told,    \* connection -> the other players its client knows of
    unheard, \* history: connection -> the players of whom a refused message
             \* would have made its client forget
    unsaid   \* history: connection -> the players kicked behind its back

Net == INSTANCE NetIo

ioVars     == <<conns, peerToConn, running, inLost>>
toldVars   == <<told, unheard, unsaid>>
serverVars == <<vars, ioVars, toldVars>>

Nobody == [c \in ConnIds |-> {}]

ServerInit ==
    /\ Init /\ Net!Init
    /\ told = Nobody /\ unheard = Nobody /\ unsaid = Nobody

-----------------------------------------------------------------------------
(* What a client makes of a message: it joins with nobody known, learns of *)
(* the players it is shown and forgets one on his Bye (HandleMessage).     *)
Heard(T, m) ==
    CASE m.type = "Roster" -> m.peers
      [] m.type = "Blob" -> T \cup {m.peer}
      [] m.type = "Bye" -> T \ {m.peer}
      [] OTHER -> T

(* A send queue over kTcpSendQueueMax refuses the message: it is dropped,  *)
(* and the connection stays open (R: the connections where that happens).  *)
Deliver ==
    LET m  == Head(outbound).msg
        to == Head(outbound).conns \cap DOMAIN conns
    IN  /\ Net!DoSend("TcpSend")
        /\ \E R \in SUBSET to :
             /\ told' = [c \in ConnIds |-> IF c \in to \ R
                                          THEN Heard(told[c], m) ELSE told[c]]
             /\ unheard' = [c \in ConnIds |-> unheard[c] \cup
                               IF c \in R THEN told[c] \ Heard(told[c], m)
                               ELSE {}]
        /\ UNCHANGED <<jobs, simVars, unsaid>>

NetStep ==
    /\ \/ Net!Sockets
       \/ Net!DoSend("UdpSend") \/ Net!DoBindPeer \/ Net!DoCloseConn
       \/ Net!DoKeepPending
       \/ Net!Stop
    /\ UNCHANGED <<jobs, simVars, toldVars>>

(* The Bye of a kick goes to the kicked player alone. *)
Kick(p, ban) ==
    /\ AdminKick(p, ban)
    /\ unsaid' = [c \in ConnIds |-> IF c \in ConnOf(Others(p))
                                    THEN unsaid[c] \cup {p} ELSE unsaid[c]]

(* Once the net thread has stopped the main thread only drains inbound. *)
SimStep ==
    /\ \/ HandleEvent /\ UNCHANGED unsaid
       \/ running /\ (LoopTail \/ AdminOther) /\ UNCHANGED unsaid
       \/ running /\ \E p \in DOMAIN clients, ban \in BOOLEAN : Kick(p, ban)
    /\ UNCHANGED <<ioVars, told, unheard>>

(* The server has stopped. *)
Stopped == ~running /\ inbound = <<>> /\ UNCHANGED serverVars

ServerNext == SimStep \/ NetStep \/ Deliver \/ Stopped

ServerSpec == ServerInit /\ [][ServerNext]_serverVars

(* Nothing can be heard of a client: its connection is closed, it has no   *)
(* UDP address, and no open connection carries its peer id (frames on one  *)
(* that does count as its own and refresh lastSeen).                       *)
Silent(p) ==
    /\ p \in DOMAIN clients /\ clients[p].conn \notin DOMAIN conns
    /\ clients[p].udp = NoAddr /\ p \notin DOMAIN peerToConn

(* Both threads keep running.  A pending connection is dropped ten seconds *)
(* after it was made, whatever it sends, and a client that stays silent is *)
(* past its limit at some pass of the main loop, which comes by whenever   *)
(* inbound has been drained.  A client heard now and then need not expire. *)
(* That inbound is drained again and again is an assumption of its own:    *)
(* main's loop pops until it is empty before it comes to the timeouts, so  *)
(* frames that come faster than they are handled, for ever, put them off.  *)
Fairness ==
    /\ WF_serverVars(HandleEvent /\ UNCHANGED <<ioVars, toldVars>>)
    /\ []<>(inbound = <<>>)
    /\ WF_serverVars(Deliver)
    /\ WF_serverVars((Net!DoBindPeer \/ Net!DoCloseConn \/ Net!DoKeepPending)
                       /\ UNCHANGED <<jobs, simVars, toldVars>>)
    /\ \A c \in ConnIds :
         SF_serverVars(running /\ ExpirePending(c)
                         /\ UNCHANGED <<ioVars, toldVars>>)
    /\ \A p \in PeerIds :
         <>[]Silent(p) => SF_serverVars(running /\ ExpireClient(p)
                                          /\ UNCHANGED <<ioVars, toldVars>>)

FairServerSpec == ServerSpec /\ Fairness

-----------------------------------------------------------------------------
(* The maps of the net thread stay each other's inverse under the commands *)
(* the session really sends, those that a full outbound loses left out:    *)
(* BindPeer of a peer that is bound elsewhere, KeepPending after a Bye,    *)
(* CloseConn of a connection that has closed by itself.                    *)
MapsInverse == Net!PeerMapInverse

(* The session hears of a connection in the order accept, frames, close,   *)
(* and of a closed one nothing more, also when a full inbound loses some   *)
(* of it and while CloseConn and BindPeer close connections themselves.    *)
ReportsOrdered == Net!ReportsInOrder

(* Whenever both queues have been drained and nothing was refused by a     *)
(* full one, the two threads agree on every open connection: it is pending *)
(* and carries no peer, or it carries exactly the peer whose client holds  *)
(* it, and none is forgotten.  (The session may still hold a closed one: a *)
(* TcpClosed that names the peer its connection had before a Bye and a     *)
(* second Hello removes nobody; PendingEnds and DeadClientsLeave say that  *)
(* the timeouts clear those.)                                              *)
Agreement ==
    (running /\ inbound = <<>> /\ outbound = <<>> /\ ~inLost /\ ~outLost) =>
      /\ DOMAIN conns \subseteq pendingTcp \cup ConnOf(DOMAIN clients)
      /\ \A c \in pendingTcp \cap DOMAIN conns : conns[c] = 0
      /\ \A p \in DOMAIN clients :
           clients[p].conn \in DOMAIN conns => conns[clients[p].conn] = p

(* Whenever outbound has been drained without a loss, every player a       *)
(* connected client still shows is there, but for two: one who was kicked  *)
(* while that client was in (run_admin_command tells nobody else), and one *)
(* whose leave a full send queue of that very connection refused.          *)
NoGhostPeers ==
    (outbound = <<>> /\ ~outLost) =>
      \A p \in DOMAIN clients :
         LET c == clients[p].conn
         IN  c \in DOMAIN conns =>
               told[c] \subseteq Others(p) \cup unsaid[c] \cup unheard[c]

(* "markers clear on leave, timeout, or disconnect" (CHANGELOG.md).  While *)
(* anybody's poses come, a client marks every player it knows of, so none  *)
(* who has gone may be among them, a kicked one included.                  *)
MarkersClear ==
    (outbound = <<>> /\ ~outLost) =>
      \A p \in DOMAIN clients :
         LET c == clients[p].conn
         IN  c \in DOMAIN conns /\ told[c] \cap Others(p) # {}
               => told[c] \subseteq Others(p) \cup unheard[c]

(* The two threads together take only steps that Sim allows its            *)
(* simulation thread and the environment it assumes: the real net thread   *)
(* reports only on connections it accepted and with peer ids it was given, *)
(* one command or report at a time, within the queues' limits.  So what is *)
(* proved of Sim holds of the server.                                      *)
ImplementsSim == Spec

(* A connection that is gone does not hold its client in the session, even *)
(* when the report of its close is lost in a full queue or names another   *)
(* peer; unless the player is heard again, by UDP or on a connection that  *)
(* still carries his peer id (apply_inbound, handle_tcp_message).          *)
Holding(c) == {p \in DOMAIN clients : clients[p].conn = c}

DeadClientsLeave ==
    \A c \in ConnIds :
       (running /\ \E p \in Holding(c) : Silent(p))
         ~> (\/ ~running \/ Holding(c) = {}
             \/ \E p \in Holding(c) : ~Silent(p))

(* Nobody stays pending: a connection joins, or it is closed.              *)
PendingEnds ==
    \A c \in ConnIds : (running /\ c \in pendingTcp)
                         ~> (~running \/ c \notin pendingTcp)
=============================================================================
