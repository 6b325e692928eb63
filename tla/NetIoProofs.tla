---------------------------- MODULE NetIoProofs ----------------------------
(***************************************************************************)
(* Proofs about the net thread, for every number of connections and peers, *)
(* every queue capacity and every message set.                             *)
(***************************************************************************)
EXTENDS NetIo, SequenceTheorems, TLAPS

-----------------------------------------------------------------------------
(* The queues and maps of Containers *)

(* A push keeps a queue's element type and its limit. *)
LEMMA PushType ==
    ASSUME NEW S, NEW q \in Seq(S), NEW cap \in Nat, NEW x \in S,
           Len(q) =< cap
    PROVE  Push(q, cap, x) \in Seq(S) /\ Len(Push(q, cap, x)) =< cap
    BY DEF Push, Full

(* A pop does, too. *)
LEMMA TailType ==
    ASSUME NEW S, NEW q \in Seq(S), NEW cap \in Nat, Len(q) =< cap, q # <<>>
    PROVE  Tail(q) \in Seq(S) /\ Len(Tail(q)) =< cap /\ Head(q) \in S
    OBVIOUS

(* Inserting into and erasing from a map with keys in K and values in V. *)
LEMMA PutType ==
    ASSUME NEW K, NEW V, NEW f, \E D \in SUBSET K : f \in [D -> V],
           NEW k \in K, NEW v \in V
    PROVE  \E D \in SUBSET K : Put(f, k, v) \in [D -> V]
<1>1. PICK D \in SUBSET K : f \in [D -> V]
    OBVIOUS
<1>2. Put(f, k, v) \in [D \cup {k} -> V]
    BY <1>1 DEF Put
<1>3. QED
    BY <1>2

LEMMA WithoutType ==
    ASSUME NEW K, NEW V, NEW f, \E D \in SUBSET K : f \in [D -> V], NEW k
    PROVE  \E D \in SUBSET K : Without(f, k) \in [D -> V]
<1>1. PICK D \in SUBSET K : f \in [D -> V]
    OBVIOUS
<1>2. Without(f, k) \in [D \ {k} -> V]
    BY <1>1 DEF Without
<1>3. QED
    BY <1>2

-----------------------------------------------------------------------------
(* The net thread *)

(* The events the net thread makes are events. *)
LEMMA EventType ==
    /\ \A c \in ConnIds : Accepted(c) \in InboundEvent
    /\ \A c \in ConnIds, p \in PeerIds \cup {0} : Closed(c, p) \in InboundEvent
    /\ \A c \in ConnIds, p \in PeerIds \cup {0}, m \in TcpMsgs :
          Frame(c, p, m) \in InboundEvent
    /\ \A a \in Addrs, m \in UdpMsgs : Datagram(a, m) \in InboundEvent
<1>1. ASSUME NEW c \in ConnIds PROVE Accepted(c) \in InboundEvent
    BY DEF Accepted, InboundEvent
<1>2. ASSUME NEW c \in ConnIds, NEW p \in PeerIds \cup {0}
      PROVE  Closed(c, p) \in InboundEvent
    BY DEF Closed, InboundEvent
<1>3. ASSUME NEW c \in ConnIds, NEW p \in PeerIds \cup {0}, NEW m \in TcpMsgs
      PROVE  Frame(c, p, m) \in InboundEvent
    BY DEF Frame, InboundEvent
<1>4. ASSUME NEW a \in Addrs, NEW m \in UdpMsgs
      PROVE  Datagram(a, m) \in InboundEvent
    BY DEF Datagram, InboundEvent
<1>5. QED
    BY <1>1, <1>2, <1>3, <1>4

(* So are the commands of the simulation thread commands. *)
LEMMA CommandType == SimCmds \subseteq OutboundCmd
<1>1. ASSUME NEW c \in ConnIds, NEW p \in PeerIds
      PROVE  BindPeer(c, p) \in OutboundCmd
    BY DEF BindPeer, OutboundCmd
<1>2. ASSUME NEW c \in ConnIds PROVE CloseConn(c) \in OutboundCmd
    BY DEF CloseConn, OutboundCmd
<1>3. ASSUME NEW p \in PeerIds PROVE KeepPending(p) \in OutboundCmd
    BY DEF KeepPending, OutboundCmd
<1>4. TcpSend({}, Say("Chat", 0)) \in OutboundCmd
  <2>1. Say("Chat", 0) \in ServerMsg
      BY DEF Say, ServerMsg, ServerMsgTypes
  <2>2. QED
      BY <2>1 DEF TcpSend, OutboundCmd
<1>5. UdpSend({}) \in OutboundCmd
    BY DEF UdpSend, OutboundCmd
<1>6. QED
    BY <1>1, <1>2, <1>3, <1>4, <1>5 DEF SimCmds

(* What a command of each kind carries. *)
LEMMA CommandFields ==
    ASSUME NEW cmd \in OutboundCmd
    PROVE  /\ cmd.kind = "BindPeer" => cmd.conn \in ConnIds /\ cmd.peer \in PeerIds
           /\ cmd.kind = "CloseConn" => cmd.conn \in ConnIds
           /\ cmd.kind = "KeepPending" => cmd.peer \in PeerIds
    BY DEF OutboundCmd
-----------------------------------------------------------------------------
(* The type of the two maps. *)
ConnsOK == \E C \in SUBSET ConnIds : conns \in [C -> PeerIds \cup {0}]
PeersOK == \E P \in SUBSET PeerIds : peerToConn \in [P -> ConnIds]

(* An open connection is one the net thread may name in an event. *)
LEMMA OpenConn ==
    ASSUME ConnsOK, NEW c \in DOMAIN conns
    PROVE  c \in ConnIds /\ conns[c] \in PeerIds \cup {0}
    BY DEF ConnsOK

LEMMA ReportType ==
    ASSUME TypeOK, NEW ev \in InboundEvent, Report(ev)
    PROVE  /\ inbound' \in Seq(InboundEvent) /\ Len(inbound') =< InCap
           /\ inLost' \in BOOLEAN
<1>1. inbound \in Seq(InboundEvent) /\ Len(inbound) =< InCap /\ InCap \in Nat
    BY BoundsAssumption DEF TypeOK
<1>2. inbound' = Push(inbound, InCap, ev) /\ inLost' \in BOOLEAN
    BY DEF Report, TypeOK
<1>3. QED
    BY <1>1, <1>2, PushType

LEMMA DropType ==
    ASSUME TypeOK, NEW c, Drop(c)
    PROVE  ConnsOK' /\ PeersOK'
<1>1. ConnsOK /\ PeersOK
    BY DEF TypeOK, ConnsOK, PeersOK
<1>2. ConnsOK'
    BY <1>1, WithoutType DEF ConnsOK, Drop
<1>3. PeersOK'
    BY <1>1, WithoutType DEF PeersOK, Drop
<1>4. QED
    BY <1>2, <1>3

LEMMA PopType ==
    ASSUME TypeOK, NEW k, Pop(k)
    PROVE  /\ outbound' \in Seq(OutboundCmd) /\ Len(outbound') =< OutCap
           /\ Cmd \in OutboundCmd /\ Cmd.kind = k
           /\ UNCHANGED <<inbound, inLost, nextConn, running>>
<1>1. outbound \in Seq(OutboundCmd) /\ Len(outbound) =< OutCap
        /\ OutCap \in Nat /\ outbound # <<>>
    BY BoundsAssumption DEF TypeOK, Pop
<1>2. QED
    BY <1>1, TailType DEF Pop, Cmd
-----------------------------------------------------------------------------
LEMMA TypeInit == Init => TypeOK
<1> SUFFICES ASSUME Init PROVE TypeOK
    OBVIOUS
<1>1. inbound \in Seq(InboundEvent) /\ Len(inbound) =< InCap
    BY BoundsAssumption DEF Init
<1>2. outbound \in Seq(OutboundCmd) /\ Len(outbound) =< OutCap
    BY BoundsAssumption DEF Init
<1>3. conns \in [{} -> PeerIds \cup {0}] /\ peerToConn \in [{} -> ConnIds]
    BY DEF Init
<1>4. nextConn \in 1..(MaxConn + 1)
    BY BoundsAssumption DEF Init
<1>5. QED
    BY <1>1, <1>2, <1>3, <1>4 DEF Init, TypeOK

LEMMA TypeStep == TypeOK /\ [Next]_vars => TypeOK'
<1> SUFFICES ASSUME TypeOK, [Next]_vars PROVE TypeOK'
    OBVIOUS
<1> USE BoundsAssumption
<1>0. ConnsOK /\ PeersOK
    BY DEF TypeOK, ConnsOK, PeersOK
<1>1. CASE AcceptReady
  <2>1. nextConn \in ConnIds /\ nextConn' \in 1..(MaxConn + 1)
      BY <1>1 DEF AcceptReady, ConnIds
  <2>2. ConnsOK'
      BY <1>0, <1>1, <2>1, PutType DEF AcceptReady, ConnsOK
  <2>3. Report(Accepted(nextConn)) /\ Accepted(nextConn) \in InboundEvent
      BY <1>1, <2>1, EventType DEF AcceptReady
  <2>4. QED
      BY <1>1, <2>1, <2>2, <2>3, ReportType DEF AcceptReady, TypeOK, ConnsOK
<1>2. ASSUME NEW c \in DOMAIN conns, CloseNotify(c),
             UNCHANGED <<outbound, nextConn, running>>
      PROVE  TypeOK'
  <2>1. c \in ConnIds /\ conns[c] \in PeerIds \cup {0}
      BY <1>0, OpenConn
  <2>2. Report(Closed(c, conns[c])) /\ Closed(c, conns[c]) \in InboundEvent
      BY <1>2, <2>1, EventType DEF CloseNotify
  <2>3. ConnsOK' /\ PeersOK'
      BY <1>2, DropType DEF CloseNotify
  <2>4. QED
      BY <1>2, <2>2, <2>3, ReportType DEF TypeOK, ConnsOK, PeersOK
<1>3. ASSUME NEW c \in DOMAIN conns, PollClosed(c)
      PROVE  TypeOK'
    BY <1>2, <1>3 DEF PollClosed
<1>4. ASSUME NEW c \in DOMAIN conns, NEW m \in TcpMsgs, PollFrame(c, m)
      PROVE  TypeOK'
  <2>1. CASE Full(inbound, InCap)
      BY <1>2, <1>4, <2>1 DEF PollFrame
  <2>2. CASE ~Full(inbound, InCap)
    <3>1. Frame(c, conns[c], m) \in InboundEvent
        BY <1>0, OpenConn, EventType
    <3>2. inbound' = Push(inbound, InCap, Frame(c, conns[c], m))
        BY <1>4, <2>2 DEF PollFrame, Push
    <3>3. inbound' \in Seq(InboundEvent) /\ Len(inbound') =< InCap
        BY <3>1, <3>2, PushType DEF TypeOK
    <3>4. QED
        BY <1>4, <2>2, <3>3 DEF PollFrame, TypeOK
  <2>3. QED
      BY <2>1, <2>2
<1>5. ASSUME NEW a \in Addrs, NEW m \in UdpMsgs, PollUdp(a, m)
      PROVE  TypeOK'
  <2>1. Datagram(a, m) \in InboundEvent
      BY EventType
  <2>2. inbound' \in Seq(InboundEvent) /\ Len(inbound') =< InCap
      BY <1>5, <2>1, PushType DEF PollUdp, TypeOK
  <2>3. QED
      BY <1>5, <2>2 DEF PollUdp, TypeOK, netVars
<1>6. ASSUME NEW k, DoSend(k) PROVE TypeOK'
  <2>1. Pop(k) /\ UNCHANGED <<conns, peerToConn>>
      BY <1>6 DEF DoSend
  <2>2. QED
      BY <2>1, PopType DEF TypeOK
<1>7. CASE DoBindPeer
  <2> DEFINE c    == Cmd.conn
             p    == Cmd.peer
             old  == IF p \in DOMAIN peerToConn THEN peerToConn[p] ELSE c
             rest == IF old = c THEN conns ELSE Without(conns, old)
  <2>1. Pop("BindPeer")
      BY <1>7 DEF DoBindPeer
  <2>2. c \in ConnIds /\ p \in PeerIds
      BY <2>1, PopType, CommandFields
  <2>3. ConnsOK' /\ PeersOK'
    <3>1. CASE c \notin DOMAIN conns
        BY <1>0, <1>7, <3>1 DEF DoBindPeer, ConnsOK, PeersOK
    <3>2. CASE c \in DOMAIN conns
      <4>1. \E C \in SUBSET ConnIds : rest \in [C -> PeerIds \cup {0}]
          BY <1>0, WithoutType DEF ConnsOK
      <4>2. conns' = [rest EXCEPT ![c] = p]
          BY <1>7, <3>2 DEF DoBindPeer
      <4>3. ConnsOK'
          BY <2>2, <4>1, <4>2 DEF ConnsOK
      <4>4. \E P \in SUBSET PeerIds :
               Without(peerToConn, conns[c]) \in [P -> ConnIds]
          BY <1>0, WithoutType DEF PeersOK
      <4>5. peerToConn' = Put(Without(peerToConn, conns[c]), p, c)
          BY <1>7, <3>2 DEF DoBindPeer
      <4>6. PeersOK'
          BY <2>2, <4>4, <4>5, PutType DEF PeersOK
      <4>7. QED
          BY <4>3, <4>6
    <3>3. QED
        BY <3>1, <3>2
  <2>4. QED
      BY <2>1, <2>3, PopType DEF TypeOK, ConnsOK, PeersOK
<1>8. CASE DoCloseConn
  <2>1. Pop("CloseConn")
      BY <1>8 DEF DoCloseConn
  <2>2. ConnsOK' /\ PeersOK'
      BY <1>0, <1>8, DropType DEF DoCloseConn, ConnsOK, PeersOK
  <2>3. QED
      BY <2>1, <2>2, PopType DEF TypeOK, ConnsOK, PeersOK
<1>9. CASE DoKeepPending
  <2>1. Pop("KeepPending")
      BY <1>9 DEF DoKeepPending
  <2>2. ConnsOK'
      BY <1>0, <1>9 DEF DoKeepPending, ConnsOK
  <2>3. \E P \in SUBSET PeerIds :
           Without(peerToConn, Cmd.peer) \in [P -> ConnIds]
      BY <1>0, WithoutType DEF PeersOK
  <2>4. peerToConn' \in {peerToConn, Without(peerToConn, Cmd.peer)}
      BY <1>9 DEF DoKeepPending
  <2>5. PeersOK'
      BY <1>0, <2>3, <2>4 DEF PeersOK
  <2>6. QED
      BY <2>1, <2>2, <2>5, PopType DEF TypeOK, ConnsOK, PeersOK
<1>10. CASE Stop
  <2>1. conns' \in [{} -> PeerIds \cup {0}] /\ peerToConn' \in [{} -> ConnIds]
      BY <1>10 DEF Stop
  <2>2. QED
      BY <1>10, <2>1 DEF Stop, TypeOK
<1>11. CASE SimThread
  <2>1. inbound' \in Seq(InboundEvent) /\ Len(inbound') =< InCap
      BY <1>11, TailType DEF SimThread, TypeOK
  <2>2. outbound' \in Seq(OutboundCmd) /\ Len(outbound') =< OutCap
    <3>1. CASE UNCHANGED outbound
        BY <3>1 DEF TypeOK
    <3>2. ASSUME ~Full(outbound, OutCap), NEW cmd \in SimCmds,
                 outbound' = Append(outbound, cmd)
          PROVE  outbound' \in Seq(OutboundCmd) /\ Len(outbound') =< OutCap
      <4>1. cmd \in OutboundCmd /\ outbound' = Push(outbound, OutCap, cmd)
          BY <3>2, CommandType DEF Push
      <4>2. QED
          BY <4>1, PushType DEF TypeOK
    <3>3. QED
        BY <1>11, <3>1, <3>2 DEF SimThread
  <2>3. QED
      BY <1>11, <2>1, <2>2 DEF SimThread, TypeOK, netVars
<1>12. CASE UNCHANGED vars
    BY <1>12 DEF vars, netVars, TypeOK
<1>13. QED
    BY <1>1, <1>3, <1>4, <1>5, <1>6, <1>7, <1>8, <1>9, <1>10, <1>11, <1>12
       DEF Next, Sockets, ProcessOutbound

(* Every event and every command is well formed, the queues stay within    *)
(* their limits and the maps lead from connections to peers and back       *)
(* (net_io.cpp, queues.hpp), however many there are.                       *)
THEOREM NetIoType == Spec => []TypeOK
    BY TypeInit, TypeStep, PTL DEF Spec
-----------------------------------------------------------------------------
(* Connection ids are never reused: accept takes the next one, and every   *)
(* open connection has an older one.                                       *)
ConnsFresh == \A c \in DOMAIN conns : c < nextConn

(* What a step can do to the set of open connections. *)
LEMMA OpenStep ==
    ASSUME TypeOK, [Next]_vars
    PROVE  \/ AcceptReady
           \/ nextConn' = nextConn /\ DOMAIN conns' \subseteq DOMAIN conns
<1>0. ConnsOK
    BY DEF TypeOK, ConnsOK
<1>1. ASSUME NEW c, Drop(c) PROVE DOMAIN conns' \subseteq DOMAIN conns
    BY <1>1 DEF Drop, Without
<1>2. ASSUME NEW c \in DOMAIN conns,
             PollClosed(c) \/ \E m \in TcpMsgs : PollFrame(c, m)
      PROVE  nextConn' = nextConn /\ DOMAIN conns' \subseteq DOMAIN conns
    BY <1>1, <1>2 DEF PollClosed, PollFrame, CloseNotify
<1>3. CASE DoBindPeer
  <2> DEFINE c    == Cmd.conn
             p    == Cmd.peer
             old  == IF p \in DOMAIN peerToConn THEN peerToConn[p] ELSE c
             rest == IF old = c THEN conns ELSE Without(conns, old)
  <2>1. nextConn' = nextConn /\ conns' \in {conns, [rest EXCEPT ![c] = p]}
      BY <1>3 DEF DoBindPeer, Pop
  <2>2. DOMAIN rest \subseteq DOMAIN conns
      BY DEF Without
  <2>3. DOMAIN [rest EXCEPT ![c] = p] = DOMAIN rest
      OBVIOUS
  <2>4. QED
      BY <2>1, <2>2, <2>3
<1>4. CASE DoCloseConn
    BY <1>1, <1>4 DEF DoCloseConn, Pop
<1>5. CASE DoKeepPending
    BY <1>5 DEF DoKeepPending, Pop
<1>6. CASE Stop
    BY <1>6 DEF Stop
<1>7. CASE SimThread \/ UNCHANGED vars
    BY <1>7 DEF SimThread, vars, netVars
<1>8. ASSUME NEW a, NEW m, PollUdp(a, m)
      PROVE  nextConn' = nextConn /\ conns' = conns
    BY <1>8 DEF PollUdp, netVars
<1>9. ASSUME NEW k, DoSend(k)
      PROVE  nextConn' = nextConn /\ conns' = conns
    BY <1>9 DEF DoSend, Pop
<1>10. QED
    BY <1>2, <1>3, <1>4, <1>5, <1>6, <1>7, <1>8, <1>9
       DEF Next, Sockets, ProcessOutbound

LEMMA FreshStep == TypeOK /\ ConnsFresh /\ [Next]_vars => ConnsFresh'
<1> SUFFICES ASSUME TypeOK, ConnsFresh, [Next]_vars PROVE ConnsFresh'
    OBVIOUS
<1>1. CASE AcceptReady
  <2>1. nextConn \in Nat /\ \A c \in DOMAIN conns : c \in Nat
      BY BoundsAssumption DEF TypeOK, ConnIds
  <2>2. DOMAIN conns' = DOMAIN conns \cup {nextConn} /\ nextConn' = nextConn + 1
      BY <1>1 DEF AcceptReady, Put
  <2>3. QED
      BY <2>1, <2>2 DEF ConnsFresh
<1>2. QED
    BY <1>1, OpenStep DEF ConnsFresh

(* What PeerMapInverse is about changes only with a connection. *)
LEMMA InverseDrop ==
    ASSUME TypeOK, PeerMapInverse, NEW c \in DOMAIN conns, Drop(c)
    PROVE  PeerMapInverse'
<1>1. ConnsOK /\ PeersOK
    BY DEF TypeOK, ConnsOK, PeersOK
<1>2. CASE conns[c] = 0
    BY <1>1, <1>2 DEF Drop, Without, PeerMapInverse, ConnsOK, PeersOK, PeerIds
<1>3. CASE conns[c] # 0
    BY <1>1, <1>3 DEF Drop, Without, PeerMapInverse, ConnsOK, PeersOK, PeerIds
<1>4. QED
    BY <1>2, <1>3

LEMMA InverseStep ==
    TypeOK /\ ConnsFresh /\ PeerMapInverse /\ [Next]_vars => PeerMapInverse'
<1> SUFFICES ASSUME TypeOK, ConnsFresh, PeerMapInverse, [Next]_vars
             PROVE  PeerMapInverse'
    OBVIOUS
<1>0. ConnsOK /\ PeersOK
    BY DEF TypeOK, ConnsOK, PeersOK
<1>1. CASE UNCHANGED <<conns, peerToConn>>
    BY <1>1 DEF PeerMapInverse
<1>2. CASE AcceptReady
  <2>1. nextConn \notin DOMAIN conns
      BY DEF ConnsFresh, TypeOK
  <2>2. QED
      BY <1>0, <1>2, <2>1
         DEF AcceptReady, Put, PeerMapInverse, ConnsOK, PeersOK
<1>3. ASSUME NEW c \in DOMAIN conns,
             PollClosed(c) \/ \E m \in TcpMsgs : PollFrame(c, m)
      PROVE  PeerMapInverse'
    BY <1>1, <1>3, InverseDrop DEF PollClosed, PollFrame, CloseNotify
<1>4. CASE DoBindPeer
  <2> DEFINE c    == Cmd.conn
             p    == Cmd.peer
             old  == IF p \in DOMAIN peerToConn THEN peerToConn[p] ELSE c
             rest == IF old = c THEN conns ELSE Without(conns, old)
  <2>1. c \in ConnIds /\ p \in PeerIds
      BY <1>4, PopType, CommandFields DEF DoBindPeer
  <2>2. CASE c \notin DOMAIN conns
      BY <1>1, <1>4, <2>2 DEF DoBindPeer
  <2>3. CASE c \in DOMAIN conns
    <3>1. /\ conns' = [rest EXCEPT ![c] = p]
          /\ peerToConn' = Put(Without(peerToConn, conns[c]), p, c)
        BY <1>4, <2>3 DEF DoBindPeer
    <3>2. /\ DOMAIN conns' = {x \in DOMAIN conns : x = c \/ x # old}
          /\ \A x \in DOMAIN conns' : conns'[x] = IF x = c THEN p ELSE conns[x]
        BY <1>0, <2>3, <3>1 DEF Without, ConnsOK
    <3>3. /\ DOMAIN peerToConn' = (DOMAIN peerToConn \ {conns[c]}) \cup {p}
          /\ \A x \in DOMAIN peerToConn' :
                peerToConn'[x] = IF x = p THEN c ELSE peerToConn[x]
        BY <1>0, <3>1 DEF Without, Put, PeersOK
    <3>4. p # 0
        BY <2>1 DEF PeerIds
    <3>5. QED
        BY <1>0, <2>3, <3>2, <3>3, <3>4 DEF PeerMapInverse, ConnsOK, PeersOK
  <2>4. QED
      BY <2>2, <2>3
<1>5. CASE DoCloseConn
    BY <1>1, <1>5, InverseDrop DEF DoCloseConn
<1>6. CASE DoKeepPending
  <2> DEFINE p == Cmd.peer
  <2>1. CASE p \notin DOMAIN peerToConn
      BY <1>1, <1>6, <2>1 DEF DoKeepPending
  <2>2. CASE p \in DOMAIN peerToConn
    <3>1. /\ peerToConn' = Without(peerToConn, p)
          /\ conns' = [c \in DOMAIN conns |->
                         IF c = peerToConn[p] THEN 0 ELSE conns[c]]
        BY <1>6, <2>2 DEF DoKeepPending
    <3>2. QED
        BY <1>0, <2>2, <3>1 DEF Without, PeerMapInverse, ConnsOK, PeersOK
  <2>3. QED
      BY <2>1, <2>2
<1>7. CASE Stop
    BY <1>7 DEF Stop, PeerMapInverse
<1>8. CASE SimThread
    BY <1>1, <1>8 DEF SimThread, netVars
<1>9. ASSUME NEW a, NEW m, PollUdp(a, m) PROVE PeerMapInverse'
    BY <1>1, <1>9 DEF PollUdp, netVars
<1>10. ASSUME NEW k, DoSend(k) PROVE PeerMapInverse'
    BY <1>1, <1>10 DEF DoSend
<1>11. CASE UNCHANGED vars
    BY <1>1, <1>11 DEF vars, netVars
<1>12. QED
    BY <1>2, <1>3, <1>4, <1>5, <1>6, <1>7, <1>8, <1>9, <1>10, <1>11
       DEF Next, Sockets, ProcessOutbound

(* conns_ and peerToConn_ are each other's inverse in every reachable      *)
(* state, for any number of connections and peers and any order of         *)
(* commands: the proof uses no more of the simulation thread than that its *)
(* commands are well formed.                                               *)
THEOREM NetIoInverse == Spec => []PeerMapInverse
<1>1. Init => ConnsFresh /\ PeerMapInverse
    BY DEF Init, ConnsFresh, PeerMapInverse
<1>2. QED
    BY <1>1, TypeInit, TypeStep, FreshStep, InverseStep, PTL DEF Spec
-----------------------------------------------------------------------------
(* A report is about a connection that has been accepted. *)
ReportsFresh ==
    \A i \in 1..Len(inbound) :
       inbound[i].kind # "UdpDatagram" => inbound[i].conn < nextConn

OrderInv == ConnsFresh /\ ReportsFresh /\ ReportsInOrder

(* Reports are taken from the front while connections only close. *)
LEMMA OrderKept ==
    ASSUME TypeOK, OrderInv, nextConn' = nextConn,
           DOMAIN conns' \subseteq DOMAIN conns,
           inbound' = inbound \/ (inbound # <<>> /\ inbound' = Tail(inbound))
    PROVE  ReportsFresh' /\ ReportsInOrder'
<1>1. CASE inbound' = inbound
    BY <1>1 DEF OrderInv, ReportsFresh, ReportsInOrder, Ordered
<1>2. CASE inbound # <<>> /\ inbound' = Tail(inbound)
  <2>1. /\ Len(inbound) \in Nat /\ Len(inbound') = Len(inbound) - 1
        /\ \A i \in 1..Len(inbound') : inbound'[i] = inbound[i + 1]
      BY <1>2 DEF TypeOK
  <2>2. \A i \in 1..Len(inbound') : i + 1 \in 1..Len(inbound)
      BY <2>1
  <2>3. ReportsFresh'
      BY <2>1, <2>2 DEF OrderInv, ReportsFresh
  <2>4. ASSUME NEW i \in 1..Len(inbound'), NEW j \in 1..Len(inbound'), i < j
        PROVE  Ordered(inbound'[i], inbound'[j])
    <3>1. Ordered(inbound[i + 1], inbound[j + 1])
        BY <2>1, <2>2, <2>4 DEF OrderInv, ReportsInOrder
    <3>2. QED
        BY <2>1, <3>1
  <2>5. \A i \in 1..Len(inbound') :
           inbound'[i].kind = "TcpClosed" => inbound'[i].conn \notin DOMAIN conns'
      BY <2>1, <2>2 DEF OrderInv, ReportsInOrder
  <2>6. QED
      BY <2>3, <2>4, <2>5 DEF ReportsInOrder, Ordered
<1>3. QED
    BY <1>1, <1>2

(* A new report is put at the end, in its place among those about the same *)
(* connection.                                                             *)
LEMMA OrderGrows ==
    ASSUME TypeOK, OrderInv, NEW ev, inbound' = Append(inbound, ev),
           nextConn =< nextConn', nextConn' \in Nat,
           ev.kind # "UdpDatagram" => ev.conn < nextConn',
           \A i \in 1..Len(inbound) : Ordered(inbound[i], ev),
           ev.kind = "TcpClosed" => ev.conn \notin DOMAIN conns',
           \A i \in 1..Len(inbound) :
              inbound[i].kind = "TcpClosed" => inbound[i].conn \notin DOMAIN conns'
    PROVE  ReportsFresh' /\ ReportsInOrder'
<1>1. /\ Len(inbound) \in Nat /\ Len(inbound') = Len(inbound) + 1
      /\ inbound'[Len(inbound')] = ev
      /\ \A i \in 1..Len(inbound) : inbound'[i] = inbound[i]
    BY DEF TypeOK
<1>2. \A i \in 1..Len(inbound') : i \in 1..Len(inbound) \/ i = Len(inbound')
    BY <1>1
<1>3. nextConn \in Nat /\ \A i \in 1..Len(inbound) :
         inbound[i].kind # "UdpDatagram" => inbound[i].conn \in Nat
  <2>1. \A e \in InboundEvent : e.kind # "UdpDatagram" => e.conn \in Nat
      BY BoundsAssumption DEF InboundEvent, ConnIds
  <2>2. QED
      BY <2>1, BoundsAssumption DEF TypeOK
<1>4. ReportsFresh'
    BY <1>1, <1>2, <1>3 DEF OrderInv, ReportsFresh
<1>5. ASSUME NEW i \in 1..Len(inbound'), NEW j \in 1..Len(inbound'), i < j
      PROVE  Ordered(inbound'[i], inbound'[j])
  <2>1. i \in 1..Len(inbound)
      BY <1>1, <1>5
  <2>2. CASE j \in 1..Len(inbound)
      BY <1>1, <1>5, <2>1, <2>2 DEF OrderInv, ReportsInOrder
  <2>3. CASE j = Len(inbound')
      BY <1>1, <2>1, <2>3
  <2>4. QED
      BY <1>2, <2>2, <2>3
<1>6. \A i \in 1..Len(inbound') :
         inbound'[i].kind = "TcpClosed" => inbound'[i].conn \notin DOMAIN conns'
    BY <1>1, <1>2
<1>7. QED
    BY <1>4, <1>5, <1>6 DEF ReportsInOrder, Ordered

LEMMA OrderStep == TypeOK /\ OrderInv /\ [Next]_vars => OrderInv'
<1> SUFFICES ASSUME TypeOK, OrderInv, [Next]_vars
             PROVE  ReportsFresh' /\ ReportsInOrder'
    BY FreshStep DEF OrderInv
<1>0. ConnsOK /\ nextConn \in Nat
    BY BoundsAssumption DEF TypeOK, ConnsOK
<1>1. CASE AcceptReady
  <2> DEFINE ev == Accepted(nextConn)
  <2>1. nextConn' = nextConn + 1 /\ DOMAIN conns' = DOMAIN conns \cup {nextConn}
      BY <1>1 DEF AcceptReady, Put
  <2>2. \A i \in 1..Len(inbound) :
           inbound[i].kind # "UdpDatagram" => inbound[i].conn # nextConn
      BY <1>0 DEF OrderInv, ReportsFresh
  <2>3. \A i \in 1..Len(inbound) :
           /\ Ordered(inbound[i], ev)
           /\ inbound[i].kind = "TcpClosed" => inbound[i].conn \notin DOMAIN conns'
      BY <2>1, <2>2 DEF OrderInv, ReportsInOrder, Ordered, Accepted
  <2>4. CASE inbound' = Append(inbound, ev)
      BY <1>0, <2>1, <2>3, <2>4, OrderGrows DEF Accepted
  <2>5. CASE inbound' = inbound
    <3>1. ReportsFresh'
      <4>1. \A e \in InboundEvent : e.kind # "UdpDatagram" => e.conn \in Nat
          BY BoundsAssumption DEF InboundEvent, ConnIds
      <4>2. QED
          BY <1>0, <2>1, <2>5, <4>1 DEF OrderInv, ReportsFresh, TypeOK
    <3>2. ReportsInOrder'
        BY <2>3, <2>5 DEF OrderInv, ReportsInOrder, Ordered
    <3>3. QED
        BY <3>1, <3>2
  <2>6. QED
      BY <1>1, <2>4, <2>5 DEF AcceptReady, Report, Push
<1>2. ASSUME NEW c \in DOMAIN conns, CloseNotify(c), nextConn' = nextConn
      PROVE  ReportsFresh' /\ ReportsInOrder'
  <2> DEFINE ev == Closed(c, conns[c])
  <2>1. DOMAIN conns' = DOMAIN conns \ {c}
      BY <1>2 DEF CloseNotify, Drop, Without
  <2>2. CASE inbound' = inbound
      BY <1>2, <2>1, <2>2, OrderKept
  <2>3. CASE inbound' = Append(inbound, ev)
    <3>1. \A i \in 1..Len(inbound) :
             /\ Ordered(inbound[i], ev)
             /\ inbound[i].kind = "TcpClosed" => inbound[i].conn \notin DOMAIN conns'
        BY <2>1 DEF OrderInv, ReportsInOrder, Ordered, Closed
    <3>2. c < nextConn
        BY DEF OrderInv, ConnsFresh
    <3>3. QED
        BY <1>0, <1>2, <2>1, <2>3, <3>1, <3>2, OrderGrows DEF Closed
  <2>4. QED
      BY <1>2, <2>2, <2>3 DEF CloseNotify, Report, Push
<1>3. ASSUME NEW c \in DOMAIN conns, NEW m \in TcpMsgs, PollFrame(c, m)
      PROVE  ReportsFresh' /\ ReportsInOrder'
  <2> DEFINE ev == Frame(c, conns[c], m)
  <2>1. CASE Full(inbound, InCap)
      BY <1>2, <1>3, <2>1 DEF PollFrame
  <2>2. CASE ~Full(inbound, InCap)
    <3>1. inbound' = Append(inbound, ev) /\ conns' = conns /\ nextConn' = nextConn
        BY <1>3, <2>2 DEF PollFrame
    <3>2. \A i \in 1..Len(inbound) : Ordered(inbound[i], ev)
        BY DEF OrderInv, ReportsInOrder, Ordered, Frame
    <3>3. c < nextConn
        BY DEF OrderInv, ConnsFresh
    <3>4. QED
        BY <1>0, <3>1, <3>2, <3>3, OrderGrows
           DEF Frame, OrderInv, ReportsInOrder
  <2>3. QED
      BY <2>1, <2>2
<1>4. ASSUME NEW a \in Addrs, NEW m \in UdpMsgs, PollUdp(a, m)
      PROVE  ReportsFresh' /\ ReportsInOrder'
  <2>1. conns' = conns /\ nextConn' = nextConn
      BY <1>4 DEF PollUdp, netVars
  <2>2. CASE inbound' = inbound
      BY <2>1, <2>2, OrderKept
  <2>3. CASE inbound' = Append(inbound, Datagram(a, m))
    <3>1. \A i \in 1..Len(inbound) : Ordered(inbound[i], Datagram(a, m))
        BY DEF Ordered, Datagram
    <3>2. QED
        BY <1>0, <2>1, <2>3, <3>1, OrderGrows
           DEF Datagram, OrderInv, ReportsInOrder
  <2>4. QED
      BY <1>4, <2>2, <2>3 DEF PollUdp, Push
<1>5. CASE ProcessOutbound \/ Stop \/ SimThread \/ UNCHANGED vars
  <2>1. inbound' = inbound \/ (inbound # <<>> /\ inbound' = Tail(inbound))
      BY <1>5 DEF ProcessOutbound, DoSend, DoBindPeer, DoCloseConn,
                  DoKeepPending, Pop, Stop, SimThread, vars
  <2>2. nextConn' = nextConn
      BY <1>5 DEF ProcessOutbound, DoSend, DoBindPeer, DoCloseConn,
                  DoKeepPending, Pop, Stop, SimThread, vars, netVars
  <2>3. DOMAIN conns' \subseteq DOMAIN conns
    <3>1. CASE AcceptReady
        BY <1>0, <2>2, <3>1 DEF AcceptReady
    <3>2. QED
        BY <3>1, OpenStep
  <2>4. QED
      BY <2>1, <2>2, <2>3, OrderKept
<1>6. QED
    BY <1>1, <1>2, <1>3, <1>4, <1>5 DEF Next, Sockets, PollClosed

(* The simulation thread hears of a connection in the order accept,        *)
(* frames, close, and nothing after the close, whatever the queues lose    *)
(* and however fast either thread runs (accept_ready, poll_conn,           *)
(* close_conn).                                                            *)
THEOREM NetIoOrder == Spec => []ReportsInOrder
<1>1. Init => OrderInv
    BY DEF Init, OrderInv, ConnsFresh, ReportsFresh, ReportsInOrder
<1>2. OrderInv => ReportsInOrder
    BY DEF OrderInv
<1>3. QED
    BY <1>1, <1>2, TypeInit, TypeStep, OrderStep, PTL DEF Spec
=============================================================================
