------------------------------- MODULE NetIo -------------------------------
(***************************************************************************)
(* The net thread (server/src/net_io.cpp).  It owns the sockets: conns     *)
(* maps an open connection to the peer id the simulation thread bound to   *)
(* it (0 before), peerToConn is the way back.  It executes the commands in *)
(* outbound and reports what the sockets do in inbound.                    *)
(*                                                                         *)
(* The loop drains outbound and then polls, but the simulation thread      *)
(* pushes at any moment, so commands and socket events alternate freely.   *)
(* A send that finds its socket closed is PollClosed after the command.    *)
(***************************************************************************)
EXTENDS ServerTypes

VARIABLES
    inbound, outbound,
    nextConn,   \* nextConnId_
    conns,      \* conns_: open connection -> peer id or 0
    peerToConn, \* peerToConn_
    running,    \* running_
    inLost      \* history: a TcpAccept or TcpClosed was refused by inbound

netVars == <<conns, peerToConn, running, nextConn>>
vars    == <<inbound, outbound, inLost, netVars>>

TypeOK ==
    /\ inbound \in Seq(InboundEvent) /\ Len(inbound) =< InCap
    /\ outbound \in Seq(OutboundCmd) /\ Len(outbound) =< OutCap
    /\ nextConn \in 1..(MaxConn + 1)
    /\ \E C \in SUBSET ConnIds : conns \in [C -> PeerIds \cup {0}]
    /\ \E P \in SUBSET PeerIds : peerToConn \in [P -> ConnIds]
    /\ running \in BOOLEAN /\ inLost \in BOOLEAN

Init ==
    /\ inbound = <<>> /\ outbound = <<>>
    /\ nextConn = 1
    /\ conns = <<>> /\ peerToConn = <<>>
    /\ running = TRUE /\ inLost = FALSE

-----------------------------------------------------------------------------
(* Mutant: a queue without a limit. *)
ReportUnbounded(ev) == inbound' = Append(inbound, ev) /\ UNCHANGED inLost

Report(ev) ==
    /\ inbound' = Push(inbound, InCap, ev)
    /\ inLost' = (inLost \/ Full(inbound, InCap))

(* Mutant: the way back from the peer stays. *)
DropConnOnly(c) == conns' = Without(conns, c) /\ UNCHANGED peerToConn

(* close_conn, with and without the report to the simulation thread. *)
Drop(c) ==
    /\ conns' = Without(conns, c)
    /\ peerToConn' = IF conns[c] = 0 THEN peerToConn
                     ELSE Without(peerToConn, conns[c])

(* Mutant: the report without the close. *)
NotifyOnly(c) == /\ Report(Closed(c, conns[c]))
                 /\ UNCHANGED <<conns, peerToConn>>

CloseNotify(c) == Drop(c) /\ Report(Closed(c, conns[c]))

-----------------------------------------------------------------------------
(* The sockets *)

AcceptReady ==
    /\ running
    /\ nextConn \in ConnIds                                \* bound: MaxConn
    /\ nextConn' = nextConn + 1
    /\ conns' = Put(conns, nextConn, 0)
    /\ Report(Accepted(nextConn))
    /\ UNCHANGED <<outbound, peerToConn, running>>

(* A frame is reported with the peer id the connection has now.  When      *)
(* inbound is full the frame is dropped and the connection closed; that    *)
(* report is lost too, unless the simulation thread has popped meanwhile,  *)
(* which is PollClosed after that pop.                                     *)
PollFrame(c, m) ==
    /\ running
    /\ IF Full(inbound, InCap)
       THEN CloseNotify(c)
       ELSE /\ inbound' = Append(inbound, Frame(c, conns[c], m))
            /\ UNCHANGED <<inLost, conns, peerToConn>>
    /\ UNCHANGED <<outbound, nextConn, running>>

(* Hang-up, error, end of stream or a failed send. *)
PollClosed(c) ==
    /\ running
    /\ CloseNotify(c)
    /\ UNCHANGED <<outbound, nextConn, running>>

PollUdp(a, m) ==
    /\ running
    /\ inbound' = Push(inbound, InCap, Datagram(a, m))
    /\ UNCHANGED <<outbound, inLost, netVars>>

-----------------------------------------------------------------------------
(* process_outbound *)

Cmd    == Head(outbound)
Pop(k) == /\ running
          /\ outbound # <<>>
          /\ Cmd.kind = k
          /\ outbound' = Tail(outbound)
          /\ UNCHANGED <<inbound, inLost, nextConn, running>>

(* Bytes are appended to the send queue of a connection that is still open;*)
(* one over kTcpSendQueueMax refuses them, and they are dropped with the   *)
(* connection left open (Server keeps what that costs its player).  A      *)
(* drain that fails is PollClosed.                                         *)
DoSend(k) == Pop(k) /\ UNCHANGED <<conns, peerToConn>>

(* BindPeer gives the connection its peer; the connection that carried the *)
(* peer before is closed without a report.                                 *)
DoBindPeer ==
    LET c    == Cmd.conn
        p    == Cmd.peer
        old  == IF p \in DOMAIN peerToConn THEN peerToConn[p] ELSE c
        rest == IF old = c THEN conns ELSE Without(conns, old)
    IN  /\ Pop("BindPeer")
        /\ IF c \notin DOMAIN conns THEN UNCHANGED <<conns, peerToConn>>
           ELSE /\ conns' = [rest EXCEPT ![c] = p]
                /\ peerToConn' = Put(Without(peerToConn, conns[c]), p, c)

DoCloseConn ==
    /\ Pop("CloseConn")
    /\ IF Cmd.conn \in DOMAIN conns THEN Drop(Cmd.conn)
       ELSE UNCHANGED <<conns, peerToConn>>

(* Mutant: the connection keeps its peer id. *)
DoKeepPendingMapOnly ==
    /\ Pop("KeepPending")
    /\ peerToConn' = Without(peerToConn, Cmd.peer)
    /\ UNCHANGED conns

DoKeepPending ==
    LET p == Cmd.peer
    IN  /\ Pop("KeepPending")
        /\ IF p \in DOMAIN peerToConn
           THEN /\ peerToConn' = Without(peerToConn, p)
                /\ conns' = [c \in DOMAIN conns |->
                               IF c = peerToConn[p] THEN 0 ELSE conns[c]]
           ELSE UNCHANGED <<conns, peerToConn>>

(* stop: the loop ends, outbound has been drained, every socket is closed. *)
Stop ==
    /\ running /\ outbound = <<>>
    /\ running' = FALSE
    /\ conns' = <<>> /\ peerToConn' = <<>>
    /\ UNCHANGED <<inbound, outbound, inLost, nextConn>>

-----------------------------------------------------------------------------
(* The simulation thread, as the net thread sees it: the commands that can *)
(* matter to the connections, in any order.                                *)
SimCmds == {BindPeer(c, p) : c \in ConnIds, p \in PeerIds}
             \cup {CloseConn(c) : c \in ConnIds}
             \cup {KeepPending(p) : p \in PeerIds}
             \cup {TcpSend({}, Say("Chat", 0)), UdpSend({})}

SimThread ==
    /\ \/ UNCHANGED inbound
       \/ inbound # <<>> /\ inbound' = Tail(inbound)
    /\ \/ UNCHANGED outbound
       \/ /\ ~Full(outbound, OutCap)
          /\ \E cmd \in SimCmds : outbound' = Append(outbound, cmd)
    /\ UNCHANGED <<inLost, netVars>>

Sockets ==
    \/ AcceptReady
    \/ \E c \in DOMAIN conns :
         PollClosed(c) \/ \E m \in TcpMsgs : PollFrame(c, m)
    \/ \E a \in Addrs, m \in UdpMsgs : PollUdp(a, m)

ProcessOutbound ==
    \/ DoSend("TcpSend") \/ DoSend("UdpSend")
    \/ DoBindPeer \/ DoCloseConn \/ DoKeepPending

Next == Sockets \/ ProcessOutbound \/ Stop \/ SimThread

Spec == Init /\ [][Next]_vars

-----------------------------------------------------------------------------
(* conns_ and peerToConn_ stay each other's inverse whatever order the     *)
(* commands and the sockets' events come in, so that KeepPending and       *)
(* BindPeer always reach the connection that carries the peer.             *)
PeerMapInverse ==
    /\ \A p \in DOMAIN peerToConn :
         peerToConn[p] \in DOMAIN conns /\ conns[peerToConn[p]] = p
    /\ \A c \in DOMAIN conns :
         conns[c] # 0 => /\ conns[c] \in DOMAIN peerToConn
                         /\ peerToConn[conns[c]] = c

(* The reports about one connection come in the order accept, frames,      *)
(* close, and a connection whose close is queued is no longer open, so     *)
(* nothing more can be said of it.                                         *)
Ordered(e, f) ==
    (e.kind # "UdpDatagram" /\ f.kind # "UdpDatagram" /\ e.conn = f.conn)
      => e.kind # "TcpClosed" /\ f.kind # "TcpAccept"

ReportsInOrder ==
    /\ \A i, j \in 1..Len(inbound) : i < j => Ordered(inbound[i], inbound[j])
    /\ \A i \in 1..Len(inbound) :
         inbound[i].kind = "TcpClosed" => inbound[i].conn \notin DOMAIN conns
=============================================================================
