---------------------------- MODULE ServerProofs ----------------------------
(***************************************************************************)
(* Proofs about the server as a whole: the simulation thread and the net   *)
(* thread together, for every number of players and connections and every  *)
(* queue capacity.                                                         *)
(***************************************************************************)
EXTENDS Server, SimProofs

-----------------------------------------------------------------------------
(* What waits in a queue, and in which order *)

(* The elements of a sequence, whatever they are. *)
IsSeq(s) == s \in Seq(Range(s))

LEMMA SeqNone == IsSeq(<<>>) /\ Range(<<>>) = {}
    BY DEF IsSeq, Range

LEMMA SeqOne == ASSUME NEW x PROVE IsSeq(<<x>>) /\ Range(<<x>>) = {x}
    BY DEF IsSeq, Range

LEMMA SeqMore ==
    ASSUME NEW s, NEW t, IsSeq(s), IsSeq(t)
    PROVE  IsSeq(s \o t) /\ Range(s \o t) = Range(s) \cup Range(t)
<1>1. s \in Seq(Range(s) \cup Range(t)) /\ t \in Seq(Range(s) \cup Range(t))
    BY DEF IsSeq
<1>2. s \o t \in Seq(Range(s) \cup Range(t))
    BY <1>1, ConcatProperties
<1>3. Range(s \o t) = Range(s) \cup Range(t)
    BY <1>1, RangeConcatenation
<1>4. QED
    BY <1>2, <1>3 DEF IsSeq

LEMMA SeqTyped == ASSUME NEW S, NEW s \in Seq(S) PROVE IsSeq(s) /\ Range(s) \subseteq S
    BY SeqOfRange, RangeOfSeq DEF IsSeq

(* What is in a queue after the pushes of a handler. *)
LEMMA PushAllRange ==
    ASSUME NEW S, NEW q \in Seq(S), NEW cap \in Nat, NEW xs, IsSeq(xs),
           Len(q) =< cap, NEW r \in PushAll(q, cap, xs)
    PROVE  Range(r) \subseteq Range(q) \cup Range(xs)
<1> DEFINE T == Range(q) \cup Range(xs)
<1>1. q \in Seq(T) /\ xs \in Seq(T)
    BY SeqTyped DEF IsSeq
<1> HIDE DEF T
<1>2. r \in Seq(T)
    BY <1>1, PushAllType
<1>3. QED
    BY <1>2, RangeOfSeq DEF T

(* Each element in A has one in B behind it. *)
Follows(q, A, B) ==
    \A i \in 1..Len(q) : q[i] \in A => \E j \in 1..Len(q) : i < j /\ q[j] \in B

(* There is one in B with none in A behind it. *)
Clears(q, B, A) ==
    \E j \in 1..Len(q) : /\ q[j] \in B
                         /\ \A i \in 1..Len(q) : j < i => q[i] \notin A

LEMMA PopRange ==
    ASSUME NEW q, IsSeq(q), q # <<>>
    PROVE  IsSeq(Tail(q)) /\ Range(q) = {Head(q)} \cup Range(Tail(q))
<1>1. Tail(q) \in Seq(Range(q)) /\ Len(q) \in Nat \ {0}
    BY DEF IsSeq
<1>2. Range(Tail(q)) = {Tail(q)[i] : i \in 1..Len(Tail(q))}
    BY <1>1, RangeEquality
<1>3. Range(q) = {q[i] : i \in 1..Len(q)}
    BY RangeEquality DEF IsSeq
<1>4. Len(Tail(q)) = Len(q) - 1 /\ \A i \in 1..(Len(q) - 1) : Tail(q)[i] = q[i + 1]
    BY DEF IsSeq
<1>5. Head(q) = q[1]
    BY DEF IsSeq
<1>6. Range(Tail(q)) \subseteq Range(q) /\ Head(q) \in Range(q)
    BY <1>1, <1>2, <1>3, <1>4, <1>5
<1>7. \A i \in 1..Len(q) : q[i] = Head(q) \/ q[i] \in Range(Tail(q))
  <2>1. ASSUME NEW i \in 1..Len(q), i # 1 PROVE q[i] \in Range(Tail(q))
    <3>1. i - 1 \in 1..(Len(q) - 1) /\ q[i] = Tail(q)[i - 1]
        BY <1>1, <1>4, <2>1
    <3>2. QED
        BY <1>2, <1>4, <3>1
  <2>2. QED
      BY <1>5, <2>1
<1>8. IsSeq(Tail(q))
    BY <1>1, SeqTyped
<1>9. Range(q) \subseteq {Head(q)} \cup Range(Tail(q))
    BY <1>3, <1>7
<1>10. QED
    BY <1>6, <1>8, <1>9

LEMMA PopFollows ==
    ASSUME NEW q, IsSeq(q), q # <<>>, NEW A, NEW B, Follows(q, A, B)
    PROVE  /\ Follows(Tail(q), A, B)
           /\ Head(q) \in A => \E x \in Range(Tail(q)) : x \in B
<1>1. Tail(q) \in Seq(Range(q)) /\ Len(q) \in Nat \ {0}
    BY DEF IsSeq
<1>2. Range(Tail(q)) = {Tail(q)[i] : i \in 1..Len(Tail(q))}
    BY <1>1, RangeEquality
<1>3. Len(Tail(q)) = Len(q) - 1 /\ \A i \in 1..(Len(q) - 1) : Tail(q)[i] = q[i + 1]
    BY DEF IsSeq
<1>4. ASSUME NEW i \in 1..Len(Tail(q)), Tail(q)[i] \in A
      PROVE  \E j \in 1..Len(Tail(q)) : i < j /\ Tail(q)[j] \in B
  <2>1. i + 1 \in 1..Len(q) /\ q[i + 1] \in A
      BY <1>1, <1>3, <1>4
  <2>2. PICK j \in 1..Len(q) : i + 1 < j /\ q[j] \in B
      BY <2>1 DEF Follows
  <2>3. j - 1 \in 1..Len(Tail(q)) /\ i < j - 1 /\ Tail(q)[j - 1] = q[j]
      BY <1>1, <1>3, <2>2
  <2>4. QED
      BY <2>2, <2>3
<1>5. ASSUME Head(q) \in A PROVE \E x \in Range(Tail(q)) : x \in B
  <2>1. 1 \in 1..Len(q) /\ q[1] \in A
      BY <1>1, <1>5 DEF IsSeq
  <2>2. PICK j \in 1..Len(q) : 1 < j /\ q[j] \in B
      BY <2>1 DEF Follows
  <2>3. j - 1 \in 1..Len(Tail(q)) /\ Tail(q)[j - 1] = q[j]
      BY <1>1, <1>3, <2>2
  <2>4. QED
      BY <1>2, <2>2, <2>3
<1>6. QED
    BY <1>4, <1>5 DEF Follows

LEMMA PopClears ==
    ASSUME NEW q, IsSeq(q), q # <<>>, NEW A, NEW B, Clears(q, B, A)
    PROVE  \/ Clears(Tail(q), B, A)
           \/ Head(q) \in B /\ \A x \in Range(Tail(q)) : x \notin A
<1>1. Tail(q) \in Seq(Range(q)) /\ Len(q) \in Nat \ {0}
    BY DEF IsSeq
<1>2. Range(Tail(q)) = {Tail(q)[i] : i \in 1..Len(Tail(q))}
    BY <1>1, RangeEquality
<1>3. Len(Tail(q)) = Len(q) - 1 /\ \A i \in 1..(Len(q) - 1) : Tail(q)[i] = q[i + 1]
    BY DEF IsSeq
<1>4. PICK j \in 1..Len(q) : /\ q[j] \in B
                             /\ \A i \in 1..Len(q) : j < i => q[i] \notin A
    BY DEF Clears
<1>5. \A i \in 1..Len(Tail(q)) : j < i + 1 => Tail(q)[i] \notin A
    BY <1>1, <1>3, <1>4
<1>6. CASE j = 1
  <2>1. Head(q) \in B
      BY <1>4, <1>6 DEF IsSeq
  <2>2. \A i \in 1..Len(Tail(q)) : Tail(q)[i] \notin A
      BY <1>1, <1>5, <1>6
  <2>3. QED
      BY <1>2, <2>1, <2>2
<1>7. CASE j # 1
  <2>1. j - 1 \in 1..Len(Tail(q)) /\ Tail(q)[j - 1] \in B
      BY <1>1, <1>3, <1>4, <1>7
  <2>2. ASSUME NEW i \in 1..Len(Tail(q)), j - 1 < i PROVE Tail(q)[i] \notin A
    <3>1. j < i + 1
        BY <1>1, <2>2
    <3>2. QED
        BY <1>5, <3>1
  <2>3. QED
      BY <2>1, <2>2 DEF Clears
<1>8. QED
    BY <1>6, <1>7

(* The elements of a longer queue, by index. *)
LEMMA Joint ==
    ASSUME NEW q, NEW xs, IsSeq(q), IsSeq(xs)
    PROVE  /\ Len(q) \in Nat /\ Len(xs) \in Nat
           /\ Len(q \o xs) = Len(q) + Len(xs)
           /\ \A i \in 1..Len(q) : (q \o xs)[i] = q[i]
           /\ \A i \in 1..Len(q \o xs) : i > Len(q) => (q \o xs)[i] \in Range(xs)
           /\ \A x \in Range(xs) :
                 \E i \in 1..Len(q \o xs) : i > Len(q) /\ (q \o xs)[i] = x
<1> DEFINE T == Range(q) \cup Range(xs)
<1>1. q \in Seq(T) /\ xs \in Seq(T)
    BY DEF IsSeq
<1>2. Range(xs) = {xs[i] : i \in 1..Len(xs)}
    BY RangeEquality DEF IsSeq
<1> HIDE DEF T
<1>3. /\ Len(q) \in Nat /\ Len(xs) \in Nat
      /\ Len(q \o xs) = Len(q) + Len(xs)
      /\ \A i \in 1..(Len(q) + Len(xs)) :
            (q \o xs)[i] = IF i =< Len(q) THEN q[i] ELSE xs[i - Len(q)]
    BY <1>1, ConcatProperties, LenProperties
<1>4. \A i \in 1..Len(q) : (q \o xs)[i] = q[i]
    BY <1>3
<1>5. ASSUME NEW i \in 1..Len(q \o xs), i > Len(q)
      PROVE  (q \o xs)[i] \in Range(xs)
  <2>1. (q \o xs)[i] = xs[i - Len(q)] /\ i - Len(q) \in 1..Len(xs)
      BY <1>3, <1>5
  <2>2. QED
      BY <1>2, <2>1
<1>6. ASSUME NEW x \in Range(xs)
      PROVE  \E i \in 1..Len(q \o xs) : i > Len(q) /\ (q \o xs)[i] = x
  <2>1. PICK k \in 1..Len(xs) : xs[k] = x
      BY <1>2
  <2>2. /\ k + Len(q) \in 1..Len(q \o xs) /\ k + Len(q) > Len(q)
        /\ (q \o xs)[k + Len(q)] = xs[k]
      BY <1>3
  <2>3. QED
      BY <2>1, <2>2
<1>7. QED
    BY <1>3, <1>4, <1>5, <1>6

LEMMA AddFollows ==
    ASSUME NEW q, NEW xs, IsSeq(q), IsSeq(xs), NEW A, NEW B,
           \A x \in Range(xs) : x \notin A,
           Follows(q, A, B) \/ \E x \in Range(xs) : x \in B
    PROVE  Follows(q \o xs, A, B)
<1> DEFINE r == q \o xs
<1>1. ASSUME NEW i \in 1..Len(r), r[i] \in A
      PROVE  \E j \in 1..Len(r) : i < j /\ r[j] \in B
  <2>1. i \in 1..Len(q) /\ q[i] \in A
      BY <1>1, Joint
  <2>2. CASE Follows(q, A, B)
    <3>1. PICK j \in 1..Len(q) : i < j /\ q[j] \in B
        BY <2>1, <2>2 DEF Follows
    <3>2. j \in 1..Len(r) /\ r[j] = q[j]
        BY Joint
    <3>3. QED
        BY <3>1, <3>2
  <2>3. ASSUME NEW x \in Range(xs), x \in B
        PROVE  \E j \in 1..Len(r) : i < j /\ r[j] \in B
    <3>1. PICK j \in 1..Len(r) : j > Len(q) /\ r[j] = x
        BY Joint
    <3>2. i < j
        BY <2>1, <3>1, Joint
    <3>3. QED
        BY <2>3, <3>1, <3>2
  <2>4. QED
      BY <2>2, <2>3
<1>2. QED
    BY <1>1 DEF Follows

LEMMA AddClears ==
    ASSUME NEW q, NEW xs, IsSeq(q), IsSeq(xs), NEW A, NEW B,
           \A x \in Range(xs) : x \notin A,
           Clears(q, B, A) \/ \E x \in Range(xs) : x \in B
    PROVE  Clears(q \o xs, B, A)
<1> DEFINE r == q \o xs
<1>1. \A i \in 1..Len(r) : r[i] \in A => i \in 1..Len(q) /\ q[i] \in A
    BY Joint
<1>2. CASE Clears(q, B, A)
  <2>1. PICK j \in 1..Len(q) : /\ q[j] \in B
                               /\ \A i \in 1..Len(q) : j < i => q[i] \notin A
      BY <1>2 DEF Clears
  <2>2. j \in 1..Len(r) /\ r[j] = q[j]
      BY Joint
  <2>3. QED
      BY <1>1, <2>1, <2>2 DEF Clears
<1>3. ASSUME NEW x \in Range(xs), x \in B PROVE Clears(r, B, A)
  <2>1. PICK j \in 1..Len(r) : j > Len(q) /\ r[j] = x
      BY Joint
  <2>2. \A i \in 1..Len(r) : j < i => r[i] \notin A
      BY <1>1, <2>1, Joint
  <2>3. QED
      BY <1>3, <2>1, <2>2 DEF Clears
<1>4. QED
    BY <1>2, <1>3

(* What nothing in the queue is in. *)
LEMMA NoneFollows ==
    ASSUME NEW q, IsSeq(q), NEW A, NEW B, \A x \in Range(q) : x \notin A
    PROVE  Follows(q, A, B)
    BY RangeEquality DEF IsSeq, Follows

-----------------------------------------------------------------------------
(* The net thread's actions, in the server's terms *)

(* What the report of an event does to inbound. *)
Reported(ev) ==
    /\ inbound' = Push(inbound, InCap, ev)
    /\ inLost' = (inLost \/ Full(inbound, InCap))

Dropped(c) ==
    /\ conns' = Without(conns, c)
    /\ peerToConn' = IF conns[c] = 0 THEN peerToConn
                     ELSE Without(peerToConn, conns[c])

LEMMA NetReport == ASSUME NEW ev, Net!Report(ev) PROVE Reported(ev)
    BY DEF Net!Report, Net!Push, Net!Full, Push, Full, Reported

LEMMA NetDrop == ASSUME NEW c, Net!Drop(c) PROVE Dropped(c)
    BY DEF Net!Drop, Net!Without, Without, Dropped

LEMMA NetAccept ==
    ASSUME Net!AcceptReady
    PROVE  /\ running /\ nextConn \in ConnIds /\ nextConn' = nextConn + 1
           /\ conns' = Put(conns, nextConn, 0)
           /\ Reported(Accepted(nextConn))
           /\ UNCHANGED <<outbound, peerToConn, running>>
<1>1. Net!Report(Net!Accepted(nextConn))
    BY DEF Net!AcceptReady
<1>2. Reported(Accepted(nextConn))
    BY <1>1, NetReport DEF Net!Accepted, Accepted
<1>3. QED
    BY <1>2 DEF Net!AcceptReady, Net!ConnIds, ConnIds, Net!Put, Put

LEMMA NetClosed ==
    ASSUME NEW c, Net!CloseNotify(c)
    PROVE  Dropped(c) /\ Reported(Closed(c, conns[c]))
    BY NetDrop, NetReport DEF Net!CloseNotify, Net!Closed, Closed

LEMMA NetFrame ==
    ASSUME NEW c, NEW m, Net!PollFrame(c, m)
    PROVE  /\ running /\ UNCHANGED <<outbound, nextConn, running>>
           /\ \/ /\ Full(inbound, InCap)
                 /\ Dropped(c) /\ Reported(Closed(c, conns[c]))
              \/ /\ ~Full(inbound, InCap)
                 /\ inbound' = Append(inbound, Frame(c, conns[c], m))
                 /\ UNCHANGED <<inLost, conns, peerToConn>>
<1>1. /\ running /\ UNCHANGED <<outbound, nextConn, running>>
      /\ \/ Full(inbound, InCap) /\ Net!CloseNotify(c)
         \/ /\ ~Full(inbound, InCap)
            /\ inbound' = Append(inbound, Frame(c, conns[c], m))
            /\ UNCHANGED <<inLost, conns, peerToConn>>
    BY DEF Net!PollFrame, Net!Full, Full, Net!Frame, Frame
<1>2. QED
    BY <1>1, NetClosed

LEMMA NetHangup ==
    ASSUME NEW c, Net!PollClosed(c)
    PROVE  /\ running /\ UNCHANGED <<outbound, nextConn, running>>
           /\ Dropped(c) /\ Reported(Closed(c, conns[c]))
    BY NetClosed DEF Net!PollClosed

LEMMA NetUdp ==
    ASSUME NEW a, NEW m, Net!PollUdp(a, m)
    PROVE  /\ running /\ inbound' = Push(inbound, InCap, Datagram(a, m))
           /\ UNCHANGED <<outbound, inLost, conns, peerToConn, running, nextConn>>
    BY DEF Net!PollUdp, Net!Push, Net!Full, Push, Full, Net!Datagram, Datagram,
           Net!netVars

(* A command is taken from outbound. *)
Popped(k) ==
    /\ running /\ outbound # <<>> /\ Head(outbound).kind = k
    /\ outbound' = Tail(outbound)
    /\ UNCHANGED <<inbound, inLost, nextConn, running>>

LEMMA NetPop == ASSUME NEW k, Net!Pop(k) PROVE Popped(k)
    BY DEF Net!Pop, Net!Cmd, Popped

LEMMA NetSend ==
    ASSUME NEW k, Net!DoSend(k)
    PROVE  Popped(k) /\ UNCHANGED <<conns, peerToConn>>
    BY NetPop DEF Net!DoSend

(* The peer changes its connection; the one that carried it is closed. *)
Rebound(c, p) ==
    LET old  == IF p \in DOMAIN peerToConn THEN peerToConn[p] ELSE c
        rest == IF old = c THEN conns ELSE Without(conns, old)
    IN  /\ conns' = [rest EXCEPT ![c] = p]
        /\ peerToConn' = Put(Without(peerToConn, conns[c]), p, c)

LEMMA NetBind ==
    ASSUME Net!DoBindPeer
    PROVE  /\ Popped("BindPeer")
           /\ \/ /\ Head(outbound).conn \notin DOMAIN conns
                 /\ UNCHANGED <<conns, peerToConn>>
              \/ /\ Head(outbound).conn \in DOMAIN conns
                 /\ Rebound(Head(outbound).conn, Head(outbound).peer)
<1>1. Popped("BindPeer")
    BY NetPop DEF Net!DoBindPeer
<1>2. CASE Head(outbound).conn \notin DOMAIN conns
    BY <1>1, <1>2 DEF Net!DoBindPeer, Net!Cmd
<1>3. CASE Head(outbound).conn \in DOMAIN conns
  <2>1. Rebound(Head(outbound).conn, Head(outbound).peer)
      BY <1>3 DEF Net!DoBindPeer, Net!Cmd, Net!Without, Without, Net!Put, Put,
                  Rebound
  <2>2. QED
      BY <1>1, <1>3, <2>1
<1>4. QED
    BY <1>2, <1>3

LEMMA NetClose ==
    ASSUME Net!DoCloseConn
    PROVE  /\ Popped("CloseConn")
           /\ \/ Head(outbound).conn \in DOMAIN conns /\ Dropped(Head(outbound).conn)
              \/ /\ Head(outbound).conn \notin DOMAIN conns
                 /\ UNCHANGED <<conns, peerToConn>>
    BY NetPop, NetDrop DEF Net!DoCloseConn, Net!Cmd

(* The connection of the peer loses it. *)
Freed(p) ==
    /\ p \in DOMAIN peerToConn
    /\ peerToConn' = Without(peerToConn, p)
    /\ conns' = [c \in DOMAIN conns |-> IF c = peerToConn[p] THEN 0 ELSE conns[c]]

LEMMA NetKeep ==
    ASSUME Net!DoKeepPending
    PROVE  /\ Popped("KeepPending")
           /\ \/ Freed(Head(outbound).peer)
              \/ /\ Head(outbound).peer \notin DOMAIN peerToConn
                 /\ UNCHANGED <<conns, peerToConn>>
<1>1. Popped("KeepPending")
    BY NetPop DEF Net!DoKeepPending
<1>2. CASE Head(outbound).peer \in DOMAIN peerToConn
  <2>1. Freed(Head(outbound).peer)
      BY <1>2 DEF Net!DoKeepPending, Net!Cmd, Net!Without, Without, Freed
  <2>2. QED
      BY <1>1, <2>1
<1>3. CASE Head(outbound).peer \notin DOMAIN peerToConn
    BY <1>1, <1>3 DEF Net!DoKeepPending, Net!Cmd
<1>4. QED
    BY <1>2, <1>3

(* The steps of the net thread, one by one. *)
NetCases ==
    \/ Net!AcceptReady
    \/ \E c \in DOMAIN conns : Net!PollClosed(c)
    \/ \E c \in DOMAIN conns, m \in TcpMsgs : Net!PollFrame(c, m)
    \/ \E a \in Addrs, m \in UdpMsgs : Net!PollUdp(a, m)
    \/ Net!DoSend("UdpSend") \/ Net!DoBindPeer \/ Net!DoCloseConn
    \/ Net!DoKeepPending \/ Net!Stop

LEMMA NetStepCases ==
    ASSUME NetStep
    PROVE  NetCases /\ UNCHANGED <<jobs, simVars, toldVars>>
    BY DEF NetStep, Net!Sockets, NetCases

LEMMA NetStop ==
    ASSUME Net!Stop
    PROVE  /\ running /\ outbound = <<>> /\ conns' = <<>> /\ peerToConn' = <<>>
           /\ running' = FALSE
           /\ UNCHANGED <<inbound, outbound, inLost, nextConn>>
    BY DEF Net!Stop

-----------------------------------------------------------------------------
(* What the simulation thread's steps do to the clients, the pending       *)
(* connections and outbound                                                *)

(* The commands of a handler, in some order. *)
Adds(E) == \E xs : IsSeq(xs) /\ Range(xs) = E /\ Emit(xs)

SendSet(S, m) == IF m.type \in Tracked /\ S # {} THEN {TcpSend(S, m)} ELSE {}

LEMMA SendTcpSet ==
    ASSUME NEW S, NEW m
    PROVE  IsSeq(SendTcp(S, m)) /\ Range(SendTcp(S, m)) = SendSet(S, m)
    BY SeqNone, SeqOne DEF SendTcp, SendSet

LEMMA AddsSend == ASSUME NEW S, NEW m, Emit(SendTcp(S, m)) PROVE Adds(SendSet(S, m))
    BY SendTcpSet DEF Adds

LEMMA AddsMore ==
    ASSUME NEW xs, NEW ys, IsSeq(xs), IsSeq(ys), Emit(xs \o ys)
    PROVE  Adds(Range(xs) \cup Range(ys))
    BY SeqMore DEF Adds

LEMMA AddsNothing == ASSUME OutOK, UNCHANGED outVars PROVE Adds({})
<1>1. Len(<<>>) = 0 /\ Room(outbound, OutCap) \in Nat
    BY BoundsAssumption DEF Room, Full, OutOK
<1>2. Len(<<>>) =< Room(outbound, OutCap) /\ ~(Len(<<>>) > Room(outbound, OutCap))
    BY <1>1
<1>3. outbound' \in PushAll(outbound, OutCap, <<>>)
  <2>1. outbound' = outbound \o <<>>
      BY ConcatEmptySeq DEF outVars, OutOK
  <2>2. QED
      BY <1>2, <2>1 DEF PushAll
<1>4. outLost' = (outLost \/ Len(<<>>) > Room(outbound, OutCap))
    BY <1>2 DEF outVars, OutOK
<1>5. QED
    BY <1>3, <1>4, SeqNone DEF Adds, Emit

(* Whatever is lost, nothing else gets in. *)
LEMMA AddsRange ==
    ASSUME OutOK, NEW E, Adds(E)
    PROVE  Range(outbound') \subseteq Range(outbound) \cup E
    BY BoundsAssumption, PushAllRange DEF OutOK, Adds, Emit

(* When nothing is lost, all of it gets in, behind what waits. *)
LEMMA AddsAll ==
    ASSUME OutOK, NEW E, Adds(E), ~outLost'
    PROVE  /\ ~outLost
           /\ \E xs : IsSeq(xs) /\ Range(xs) = E /\ outbound' = outbound \o xs
<1>1. PICK xs : IsSeq(xs) /\ Range(xs) = E /\ Emit(xs)
    BY DEF Adds
<1>2. ~outLost /\ ~(Len(xs) > Room(outbound, OutCap))
    BY <1>1 DEF Emit
<1>3. Len(xs) \in Nat /\ Room(outbound, OutCap) \in Nat
    BY <1>1, BoundsAssumption DEF IsSeq, Room, Full, OutOK
<1>4. outbound' = outbound \o xs
    BY <1>1, <1>2, <1>3 DEF Emit, PushAll
<1>5. QED
    BY <1>1, <1>2, <1>4

-----------------------------------------------------------------------------
(* A message that tells nobody of a player who comes or leaves, except the *)
(* looks of a live one.                                                    *)
Talk(x) ==
    /\ x.kind \in {"TcpSend", "UdpSend"}
    /\ x.kind = "TcpSend" =>
         /\ x.msg.type \notin {"Roster", "Bye"}
         /\ x.msg.type = "Blob" =>
              x.msg.peer \in DOMAIN clients /\ x.conns = ConnOf(Others(x.msg.peer))

(* Everybody keeps his connection. *)
SameHolders ==
    /\ DOMAIN clients' = DOMAIN clients
    /\ \A p \in DOMAIN clients : clients'[p].conn = clients[p].conn
    /\ nextPeer' = nextPeer

Talks ==
    /\ SameHolders /\ pendingTcp' = pendingTcp
    /\ \E E : Adds(E) /\ \A x \in E : Talk(x)

TookClosed == inbound # <<>> /\ Event.kind = "TcpClosed"

(* The close of a connection nobody holds. *)
ClosedAlone ==
    /\ TookClosed /\ pendingTcp' = pendingTcp \ {Event.conn}
    /\ UNCHANGED <<clients, outVars, nextPeer>>

ByeSet(p) == SendSet(ConnOf(Others(p)), Say("Bye", p))

(* A client leaves: by its Bye, by the close of a connection that names it *)
(* or that it holds, or by its silence.                                    *)
Left(p) ==
    /\ clients' = Without(clients, p) /\ nextPeer' = nextPeer
    /\ \/ /\ pendingTcp' = pendingTcp \cup {clients[p].conn}
          /\ Adds(ByeSet(p) \cup {KeepPending(p)})
       \/ /\ pendingTcp' = pendingTcp \/ (TookClosed /\ pendingTcp' = pendingTcp \ {Event.conn})
          /\ Adds(ByeSet(p) \cup {CloseConn(clients[p].conn)})
       \/ /\ TookClosed /\ pendingTcp' = pendingTcp \ {Event.conn}
          /\ clients[p].conn = Event.conn
          /\ Adds(ByeSet(p))

Kicked(p) ==
    /\ clients' = Without(clients, p) /\ nextPeer' = nextPeer
    /\ pendingTcp' = pendingTcp
    /\ Adds(SendSet({clients[p].conn}, Say("Bye", p))
               \cup {CloseConn(clients[p].conn)})

Removed(p) == Left(p) \/ Kicked(p)

(* A player joins on a pending connection, or moves to it. *)
JoinSet(p, c) ==
    (IF p \in DOMAIN clients /\ clients[p].conn # c
     THEN {CloseConn(clients[p].conn)} ELSE {})
      \cup {BindPeer(c, p)}
      \cup SendSet({c}, Say("Welcome", p))
      \cup SendSet({c}, Say("WorldSnapshot", hostPeerId'))
      \cup SendSet({c}, [type |-> "Roster", peer |-> p, peers |-> Others(p)])

Joins(p) ==
    LET c == Event.conn
    IN  /\ inbound # <<>> /\ Event.kind = "TcpFrame"
        /\ c \in pendingTcp /\ pendingTcp' = pendingTcp \ {c}
        /\ \/ p \in DOMAIN clients /\ nextPeer' = nextPeer
           \/ p = nextPeer /\ nextPeer \in PeerIds /\ nextPeer' = nextPeer + 1
        /\ DOMAIN clients' = DOMAIN clients \cup {p}
        /\ clients'[p].conn = c
        /\ \A q \in DOMAIN clients \ {p} : clients'[q].conn = clients[q].conn
        /\ Adds(JoinSet(p, c))

(* All that a step may do, but for a kick. *)
SimCases ==
    \/ Talks \/ TcpAccept \/ ClosedAlone
    \/ \E c \in pendingTcp : ExpirePending(c)
    \/ \E p \in DOMAIN clients : Left(p)
    \/ \E p : Joins(p)

LEMMA TalkSend ==
    ASSUME NEW S, NEW t, NEW p, t \notin {"Roster", "Bye", "Blob"},
           NEW x \in SendSet(S, Say(t, p))
    PROVE  Talk(x)
    BY DEF SendSet, TcpSend, Say, Talk

LEMMA SayTalks ==
    ASSUME NEW S, NEW t, NEW p, t \notin {"Roster", "Bye", "Blob"},
           Emit(SendTcp(S, Say(t, p))), SameHolders, pendingTcp' = pendingTcp
    PROVE  Talks
    BY AddsSend, TalkSend DEF Talks

LEMMA SilentTalks ==
    ASSUME OutOK, UNCHANGED outVars, SameHolders, pendingTcp' = pendingTcp
    PROVE  Talks
    BY AddsNothing DEF Talks

LEMMA UdpTalks ==
    ASSUME NEW xs, xs = <<>> \/ \E A : xs = <<UdpSend(A)>>, Emit(xs),
           SameHolders, pendingTcp' = pendingTcp
    PROVE  Talks
<1>1. IsSeq(xs) /\ \A x \in Range(xs) : Talk(x)
    BY SeqNone, SeqOne DEF UdpSend, Talk
<1>2. QED
    BY <1>1 DEF Talks, Adds

LEMMA RemoveCases ==
    ASSUME NEW p \in DOMAIN clients, NEW keep \in BOOLEAN, NEW pend, NEW conn,
           RemoveClient(p, keep, pend, conn)
    PROVE  /\ clients' = Without(clients, p) /\ nextPeer' = nextPeer
           /\ pendingTcp' = IF keep THEN pend \cup {conn} ELSE pend
           /\ keep => Adds(ByeSet(p) \cup {KeepPending(p)})
           /\ ~keep /\ conn = 0 => Adds(ByeSet(p))
           /\ ~keep /\ conn # 0 => Adds(ByeSet(p) \cup {CloseConn(conn)})
<1>1. /\ clients' = Without(clients, p) /\ nextPeer' = nextPeer
      /\ pendingTcp' = IF keep THEN pend \cup {conn} ELSE pend
    BY DEF RemoveClient, idVars
<1>2. IsSeq(TellBye(p)) /\ Range(TellBye(p)) = ByeSet(p)
    BY SendTcpSet DEF TellBye, ByeSet
<1>3. ASSUME keep PROVE Adds(ByeSet(p) \cup {KeepPending(p)})
  <2>1. Emit(TellBye(p) \o <<KeepPending(p)>>)
      BY <1>3 DEF RemoveClient
  <2>2. QED
      BY <1>2, <2>1, AddsMore, SeqOne
<1>4. ASSUME ~keep, conn = 0 PROVE Adds(ByeSet(p))
  <2>1. Emit(TellBye(p) \o <<>>)
      BY <1>4 DEF RemoveClient
  <2>2. Adds(ByeSet(p) \cup {})
      BY <1>2, <2>1, AddsMore, SeqNone
  <2>3. ByeSet(p) \cup {} = ByeSet(p)
      OBVIOUS
  <2>4. QED
      BY <2>2, <2>3
<1>5. ASSUME ~keep, conn # 0 PROVE Adds(ByeSet(p) \cup {CloseConn(conn)})
  <2>1. Emit(TellBye(p) \o <<CloseConn(conn)>>)
      BY <1>5 DEF RemoveClient
  <2>2. QED
      BY <1>2, <2>1, AddsMore, SeqOne
<1>6. QED
    BY <1>1, <1>3, <1>4, <1>5

LEMMA HeldConn ==
    ASSUME TypeOK, NEW p \in DOMAIN clients
    PROVE  clients[p].conn \in ConnIds /\ clients[p].conn # 0
    BY TypeParts, ClientFields, BoundsAssumption DEF ConnIds

LEMMA ClosedCases == ASSUME TypeOK, TcpClosed PROVE SimCases
<1>1. TookClosed
    BY DEF TcpClosed, Take, TookClosed
<1> DEFINE pend == pendingTcp \ {Event.conn}
<1>2. CASE /\ Event.peer \in DOMAIN clients
           /\ RemoveClient(Event.peer, FALSE, pend, clients[Event.peer].conn)
  <2>1. clients[Event.peer].conn # 0
      BY <1>2, HeldConn
  <2>2. Left(Event.peer)
      BY <1>1, <1>2, <2>1, RemoveCases DEF Left
  <2>3. QED
      BY <1>2, <2>2 DEF SimCases
<1>3. ASSUME NEW p \in DOMAIN clients, clients[p].conn = Event.conn,
             RemoveClient(p, FALSE, pend, 0)
      PROVE  SimCases
  <2>1. Left(p)
      BY <1>1, <1>3, RemoveCases DEF Left
  <2>2. QED
      BY <2>1 DEF SimCases
<1>4. CASE /\ pendingTcp' = pend
           /\ UNCHANGED <<outVars, clients, udpPeerByAddr, hostPeerId,
                          hostLocation, idVars, adminVars, recordVars,
                          saveVars, sessionModHash>>
    BY <1>1, <1>4 DEF ClosedAlone, SimCases, idVars
<1>5. QED
    BY <1>2, <1>3, <1>4 DEF TcpClosed

LEMMA LeaveCases ==
    ASSUME TypeOK, NEW p \in DOMAIN clients, ClientBye(p) \/ ExpireClient(p)
    PROVE  SimCases
<1>1. clients[p].conn # 0
    BY HeldConn
<1>2. Left(p)
    BY <1>1, RemoveCases DEF ClientBye, ExpireClient, Left
<1>3. QED
    BY <1>2 DEF SimCases

LEMMA KickCases ==
    ASSUME NEW p \in DOMAIN clients, NEW ban, AdminKick(p, ban)
    PROVE  Kicked(p)
<1>1. Emit(SendTcp({clients[p].conn}, Say("Bye", p)) \o <<CloseConn(clients[p].conn)>>)
    BY DEF AdminKick
<1>2. Adds(SendSet({clients[p].conn}, Say("Bye", p)) \cup {CloseConn(clients[p].conn)})
    BY <1>1, AddsMore, SendTcpSet, SeqOne
<1>3. /\ clients' = Without(clients, p) /\ nextPeer' = nextPeer
      /\ pendingTcp' = pendingTcp
    BY DEF AdminKick, idVars
<1>4. QED
    BY <1>2, <1>3 DEF Kicked

LEMMA JoinedCases ==
    ASSUME NEW p, NEW xs, IsSeq(xs), Joined(p, xs)
    PROVE  /\ pendingTcp' = pendingTcp \ {Event.conn}
           /\ Adds(Range(xs) \cup SendSet({Event.conn}, Say("Welcome", p))
                     \cup SendSet({Event.conn}, Say("WorldSnapshot", hostPeerId'))
                     \cup SendSet({Event.conn}, [type |-> "Roster", peer |-> p,
                                                 peers |-> Others(p)]))
<1> DEFINE c  == Event.conn
           s1 == SendTcp({c}, Say("Welcome", p))
           s2 == SendTcp({c}, Say("WorldSnapshot", hostPeerId'))
           s3 == SendTcp({c}, [type |-> "Roster", peer |-> p, peers |-> Others(p)])
<1>1. Emit(xs \o s1 \o s2 \o s3) /\ pendingTcp' = pendingTcp \ {Event.conn}
    BY DEF Joined, Claimed
<1>2. /\ IsSeq(s1) /\ Range(s1) = SendSet({c}, Say("Welcome", p))
      /\ IsSeq(s2) /\ Range(s2) = SendSet({c}, Say("WorldSnapshot", hostPeerId'))
      /\ IsSeq(s3)
      /\ Range(s3) = SendSet({c}, [type |-> "Roster", peer |-> p, peers |-> Others(p)])
    BY SendTcpSet
<1> HIDE DEF s1, s2, s3
<1>3. IsSeq(xs \o s1) /\ Range(xs \o s1) = Range(xs) \cup Range(s1)
    BY <1>2, SeqMore
<1>4. IsSeq(xs \o s1 \o s2) /\ Range(xs \o s1 \o s2) = Range(xs \o s1) \cup Range(s2)
    BY <1>2, <1>3, SeqMore
<1>5. Adds(Range(xs \o s1 \o s2) \cup Range(s3))
    BY <1>1, <1>2, <1>4, AddsMore
<1>6. QED
    BY <1>1, <1>2, <1>3, <1>4, <1>5

LEMMA PendingFrame ==
    ASSUME NEW t, FromPending(t)
    PROVE  inbound # <<>> /\ Event.kind = "TcpFrame" /\ Event.conn \in pendingTcp
    BY DEF FromPending, Take, ForPending

LEMMA NewCases == ASSUME TypeOK, PeersFresh, HelloNew PROVE SimCases
<1> DEFINE p == nextPeer
           c == Event.conn
<1>1. p \notin DOMAIN clients /\ p \in PeerIds
  <2>1. \A q \in DOMAIN clients : q # nextPeer
      BY TypeParts, BoundsAssumption DEF PeersFresh, PeerOK
  <2>2. QED
      BY <2>1 DEF HelloNew
<1>2. /\ DOMAIN clients' = DOMAIN clients \cup {p}
      /\ clients'[p].conn = c
      /\ \A q \in DOMAIN clients : clients'[q] = clients[q]
    BY <1>1, NewClient DEF HelloNew, Put
<1>3. Joined(p, <<BindPeer(c, p)>>)
    BY DEF HelloNew
<1>4. Adds(JoinSet(p, c)) /\ pendingTcp' = pendingTcp \ {c}
  <2>1. IsSeq(<<BindPeer(c, p)>>) /\ Range(<<BindPeer(c, p)>>) = {BindPeer(c, p)}
      BY SeqOne
  <2>2. JoinSet(p, c) = {BindPeer(c, p)}
          \cup SendSet({c}, Say("Welcome", p))
          \cup SendSet({c}, Say("WorldSnapshot", hostPeerId'))
          \cup SendSet({c}, [type |-> "Roster", peer |-> p, peers |-> Others(p)])
      BY <1>1 DEF JoinSet
  <2>3. QED
      BY <1>3, <2>1, <2>2, JoinedCases
<1>5. inbound # <<>> /\ Event.kind = "TcpFrame" /\ c \in pendingTcp
    BY PendingFrame DEF HelloNew
<1>6. Joins(p)
    BY <1>1, <1>2, <1>4, <1>5 DEF Joins, HelloNew
<1>7. QED
    BY <1>6 DEF SimCases

LEMMA ReconnectCases ==
    ASSUME TypeOK, NEW p \in DOMAIN clients, SoftReconnect(p)
    PROVE  SimCases
<1> DEFINE c  == Event.conn
           x0 == IF clients[p].conn = c THEN <<>> ELSE <<CloseConn(clients[p].conn)>>
           xs == x0 \o <<BindPeer(c, p)>>
<1>1. /\ DOMAIN clients' = DOMAIN clients \cup {p}
      /\ clients'[p].conn = c
      /\ \A q \in DOMAIN clients \ {p} : clients'[q].conn = clients[q].conn
    BY MovedClient, TypeParts DEF SoftReconnect
<1>2. Joined(p, xs) /\ nextPeer' = nextPeer
    BY DEF SoftReconnect
<1>3. Adds(JoinSet(p, c)) /\ pendingTcp' = pendingTcp \ {c}
  <2> DEFINE E0 == IF clients[p].conn # c THEN {CloseConn(clients[p].conn)} ELSE {}
  <2>1. IsSeq(x0) /\ Range(x0) = E0
      BY SeqOne, SeqNone
  <2>2. IsSeq(xs) /\ Range(xs) = E0 \cup {BindPeer(c, p)}
    <3> HIDE DEF x0, E0
    <3>1. QED
        BY <2>1, SeqOne, SeqMore
  <2>3. JoinSet(p, c) = E0 \cup {BindPeer(c, p)}
          \cup SendSet({c}, Say("Welcome", p))
          \cup SendSet({c}, Say("WorldSnapshot", hostPeerId'))
          \cup SendSet({c}, [type |-> "Roster", peer |-> p, peers |-> Others(p)])
      BY DEF JoinSet
  <2> HIDE DEF xs, E0
  <2>4. QED
      BY <1>2, <2>2, <2>3, JoinedCases
<1>4. inbound # <<>> /\ Event.kind = "TcpFrame" /\ c \in pendingTcp
    BY PendingFrame DEF SoftReconnect
<1>5. Joins(p)
    BY <1>1, <1>2, <1>3, <1>4 DEF Joins
<1>6. QED
    BY <1>5 DEF SimCases

(* The handlers after which everybody is where he was. *)
LEMMA SameConns ==
    ASSUME UNCHANGED <<clients, nextPeer>>
    PROVE  SameHolders
    BY DEF SameHolders

LEMMA StayCases ==
    ASSUME TypeOK, NEW p \in DOMAIN clients,
           \/ HelloAgain(p) \/ WorldSnapshot(p) \/ BlobComplete(p)
           \/ ClientRelay(p) \/ PlayerPose(p) \/ ActorPose(p)
    PROVE  Talks
<1>0. OutOK
    BY TypeParts
<1>1. CASE HelloAgain(p)
  <2>1. SameHolders
      BY <1>1, RenewedClient, TypeParts DEF SameHolders, HelloAgain
  <2>2. QED
      BY <1>1, <2>1, SayTalks DEF HelloAgain
<1>2. CASE WorldSnapshot(p)
    BY <1>0, <1>2, SameConns, SilentTalks DEF WorldSnapshot, memberVars, idVars
<1>3. CASE BlobComplete(p)
  <2>1. SameHolders /\ pendingTcp' = pendingTcp
      BY <1>3, SameConns DEF BlobComplete, memberVars, idVars
  <2> DEFINE m == [type |-> "Blob", peer |-> p, peers |-> {p}]
             E == SendSet(ConnOf(Others(p)), m)
  <2>2. Adds(E)
      BY <1>3, AddsSend DEF BlobComplete
  <2>3. \A x \in E : Talk(x)
      BY DEF SendSet, TcpSend, Talk
  <2>4. QED
      BY <2>1, <2>2, <2>3 DEF Talks
<1>4. CASE ClientRelay(p)
  <2>1. PICK t \in RelayTypes :
           Emit(SendTcp(ConnOf(RelayTo(p, Event.msg)), Say(t, p)))
      BY <1>4 DEF ClientRelay
  <2>2. SameHolders /\ pendingTcp' = pendingTcp
      BY <1>4, SameConns DEF ClientRelay, memberVars, idVars
  <2>3. QED
      BY <2>1, <2>2, SayTalks DEF RelayTypes
<1>5. CASE PlayerPose(p) \/ ActorPose(p)
  <2>1. PICK near \in SUBSET Others(p) : Emit(SendUdp(near))
      BY <1>5 DEF PlayerPose, ActorPose
  <2>2. SameHolders /\ pendingTcp' = pendingTcp
      BY <1>5, SameConns DEF PlayerPose, ActorPose, memberVars, idVars
  <2>3. SendUdp(near) = <<>> \/ \E A : SendUdp(near) = <<UdpSend(A)>>
      BY DEF SendUdp
  <2>4. QED
      BY <2>1, <2>2, <2>3, UdpTalks
<1>6. QED
    BY <1>1, <1>2, <1>3, <1>4, <1>5

LEMMA LoopCases ==
    ASSUME TypeOK,
           \/ SessionQuery \/ HelloRefused \/ FrameIgnored \/ UdpBind
           \/ DatagramIgnored \/ PersistTick \/ SendHeartbeat
           \/ AdminSave \/ AdminSay \/ AdminMaxPlayers \/ AdminRules
    PROVE  Talks
<1>0. OutOK
    BY TypeParts
<1>1. CASE SessionQuery
  <2>1. SameHolders /\ pendingTcp' = pendingTcp
      BY <1>1, SameConns DEF SessionQuery, idVars
  <2>2. QED
      BY <1>1, <2>1, SayTalks DEF SessionQuery
<1>2. CASE HelloRefused
  <2>1. SameHolders /\ pendingTcp' = pendingTcp
      BY <1>2, SameConns DEF HelloRefused, idVars
  <2>2. QED
      BY <1>2, <2>1, SayTalks DEF HelloRefused
<1>3. CASE UdpBind
  <2>1. SameHolders /\ pendingTcp' = pendingTcp
      BY <1>3, BoundClient, TypeParts DEF SameHolders, UdpBind, idVars
  <2>2. QED
      BY <1>3, <2>1, UdpTalks DEF UdpBind
<1>4. CASE FrameIgnored \/ DatagramIgnored \/ PersistTick \/ AdminSave \/ AdminMaxPlayers
  <2>1. SameHolders /\ pendingTcp' = pendingTcp
      BY <1>4, SameConns DEF FrameIgnored, DatagramIgnored, PersistTick, AdminSave,
                             AdminMaxPlayers, idVars, memberVars
  <2>2. UNCHANGED outVars
      BY <1>4 DEF FrameIgnored, DatagramIgnored, PersistTick, AdminSave, AdminMaxPlayers
  <2>3. QED
      BY <1>0, <2>1, <2>2, SilentTalks
<1>5. CASE SendHeartbeat \/ AdminSay \/ AdminRules
  <2>1. SameHolders /\ pendingTcp' = pendingTcp
      BY <1>5, SameConns DEF SendHeartbeat, AdminSay, AdminRules, idVars, memberVars
  <2>2. PICK t \in {"Heartbeat", "Chat", "SessionRules"} :
           Emit(SendTcp(ConnOf(DOMAIN clients), Say(t, 0)))
      BY <1>5 DEF SendHeartbeat, AdminSay, AdminRules
  <2>3. QED
      BY <2>1, <2>2, SayTalks
<1>6. QED
    BY <1>1, <1>2, <1>3, <1>4, <1>5

LEMMA BanCases ==
    ASSUME TypeOK, NEW k, AdminBan(k) \/ AdminUnban(k)
    PROVE  Talks
<1>1. SameHolders /\ pendingTcp' = pendingTcp /\ UNCHANGED outVars
    BY SameConns DEF AdminBan, AdminUnban, idVars, memberVars
<1>2. QED
    BY <1>1, SilentTalks, TypeParts

LEMMA UnkickedCases ==
    ASSUME TypeOK, PeersFresh, HandleEvent \/ LoopTail \/ AdminOther
    PROVE  SimCases
<1>1. CASE HandleEvent
    BY <1>1, ClosedCases, LeaveCases, NewCases, ReconnectCases, StayCases, LoopCases
       DEF HandleEvent, SimCases
<1>2. CASE LoopTail
    BY <1>2, LeaveCases, LoopCases DEF LoopTail, SimCases
<1>3. CASE AdminOther
    BY <1>3, BanCases, LoopCases DEF AdminOther, SimCases
<1>4. QED
    BY <1>1, <1>2, <1>3

LEMMA SimThreadCases ==
    ASSUME TypeOK, PeersFresh, SimThread
    PROVE  SimCases \/ \E p \in DOMAIN clients : Kicked(p)
    BY UnkickedCases, KickCases DEF SimThread, Admin

(* Only TcpAccept takes the report of an accept. *)
LEMMA TakeCases ==
    ASSUME SimThread
    PROVE  /\ nextConn' = nextConn
           /\ \/ inbound' = inbound
              \/ TcpAccept
              \/ /\ inbound # <<>> /\ Event.kind # "TcpAccept"
                 /\ inbound' = Tail(inbound)
<1> DEFINE Took == /\ nextConn' = nextConn
                   /\ \/ inbound' = inbound
                      \/ /\ inbound # <<>> /\ Event.kind # "TcpAccept"
                         /\ inbound' = Tail(inbound)
<1>1. ASSUME NEW k \in {"TcpFrame", "TcpClosed", "UdpDatagram"}, Take(k) PROVE Took
    BY <1>1 DEF Take
<1>2. ASSUME NEW p, \/ SoftReconnect(p) \/ ClientBye(p) \/ HelloAgain(p)
                    \/ WorldSnapshot(p) \/ BlobComplete(p) \/ ClientRelay(p)
                    \/ PlayerPose(p) \/ ActorPose(p)
      PROVE  Took
    BY <1>1, <1>2 DEF SoftReconnect, ClientBye, HelloAgain, WorldSnapshot,
       BlobComplete, ClientRelay, PlayerPose, ActorPose, FromPending, FromClient
<1>3. CASE TcpAccept
    BY <1>3 DEF TcpAccept, Take
<1>4. CASE HandleEvent
    BY <1>1, <1>2, <1>3, <1>4 DEF HandleEvent, TcpClosed, SessionQuery,
       HelloRefused, HelloNew, FrameIgnored, UdpBind, DatagramIgnored, FromPending
<1>5. CASE LoopTail
    BY <1>5 DEF LoopTail, ExpirePending, ExpireClient, PersistTick,
                SendHeartbeat, Loop
<1>6. CASE Admin
    BY <1>6 DEF Admin, AdminOther, AdminKick, AdminBan, AdminUnban, AdminSave, AdminSay,
                AdminMaxPlayers, AdminRules, Typed
<1>7. QED
    BY <1>4, <1>5, <1>6 DEF SimThread

-----------------------------------------------------------------------------
(* The server implements Sim *)

(* The connections the net thread holds and the peers it was given. *)
ConnsOK == \E C \in SUBSET ConnIds : conns \in [C -> PeerIds \cup {0}]
PathsOK == \E P \in SUBSET PeerIds : peerToConn \in [P -> ConnIds]

ConnsGiven == \A c \in DOMAIN conns : c < nextConn /\ conns[c] < nextPeer

(* A command names a peer that has been made and a connection that has     *)
(* been accepted.                                                          *)
Handed ==
    \A x \in Range(outbound) :
       /\ x.kind \in {"BindPeer", "KeepPending"} => x.peer < nextPeer
       /\ x.kind = "BindPeer" => x.conn < nextConn

LEMMA OpenConn ==
    ASSUME ConnsOK, NEW c \in DOMAIN conns
    PROVE  c \in ConnIds /\ conns[c] \in PeerIds \cup {0}
    BY DEF ConnsOK

LEMMA ReportStep ==
    ASSUME TypeOK, ConnsOK, ConnsGiven, NEW c \in DOMAIN conns, outbound' = outbound,
           Reported(Closed(c, conns[c])), nextConn' = nextConn,
           UNCHANGED <<jobs, simVars>>
    PROVE  NetThread
<1>1. /\ c \in ConnIds /\ conns[c] \in PeerIds \cup {0}
      /\ c < nextConn /\ conns[c] < nextPeer /\ nextConn \in Nat /\ nextPeer \in Nat
    BY OpenConn, TypeParts, BoundsAssumption DEF ConnsGiven, ConnOK, PeerOK
<1>2. c \in 1..(nextConn - 1) /\ conns[c] \in 0..(nextPeer - 1)
    BY <1>1, BoundsAssumption DEF ConnIds, PeerIds
<1>3. CASE Full(inbound, InCap)
    BY <1>3 DEF Reported, Push, NetThread
<1>4. CASE ~Full(inbound, InCap)
  <2>1. inbound' = Append(inbound, Closed(c, conns[c]))
      BY <1>4 DEF Reported, Push
  <2>2. QED
      BY <1>2, <1>4, <2>1 DEF NetThread
<1>5. QED
    BY <1>3, <1>4

LEMMA ServerStep ==
    TypeOK /\ ConnsOK /\ ConnsGiven /\ [ServerNext]_serverVars => [Next]_vars
<1> SUFFICES ASSUME TypeOK, ConnsOK, ConnsGiven, [ServerNext]_serverVars
             PROVE  [Next]_vars
    OBVIOUS
<1>1. CASE SimStep
    BY <1>1 DEF SimStep, Next, SimThread, Admin, Kick
<1>2. CASE Deliver
  <2>1. Popped("TcpSend")
      BY <1>2, NetSend DEF Deliver
  <2>2. NetThread
      BY <1>2, <2>1 DEF Deliver, Popped, NetThread
  <2>3. QED
      BY <2>2 DEF Next
<1>3. CASE NetStep
  <2>0. NetCases /\ UNCHANGED <<jobs, simVars>>
      BY <1>3, NetStepCases
  <2>1. CASE Net!AcceptReady
      BY <2>0, <2>1, NetAccept DEF Reported, NetThread, Next
  <2>2. ASSUME NEW c \in DOMAIN conns, Net!PollClosed(c) PROVE NetThread
      BY <2>0, <2>2, NetHangup, ReportStep
  <2>3. ASSUME NEW c \in DOMAIN conns, NEW m \in TcpMsgs, Net!PollFrame(c, m)
        PROVE  NetThread
    <3>0. UNCHANGED <<outbound, nextConn>>
        BY <2>3, NetFrame
    <3>1. CASE Full(inbound, InCap) /\ Dropped(c) /\ Reported(Closed(c, conns[c]))
        BY <2>0, <3>0, <3>1, ReportStep
    <3>2. CASE ~Full(inbound, InCap) /\ inbound' = Append(inbound, Frame(c, conns[c], m))
      <4>1. /\ c \in ConnIds /\ conns[c] \in PeerIds \cup {0}
            /\ c < nextConn /\ conns[c] < nextPeer
            /\ nextConn \in Nat /\ nextPeer \in Nat
          BY OpenConn, TypeParts, BoundsAssumption DEF ConnsGiven, ConnOK, PeerOK
      <4>2. c \in 1..(nextConn - 1) /\ conns[c] \in 0..(nextPeer - 1)
          BY <4>1, BoundsAssumption DEF ConnIds, PeerIds
      <4>3. QED
          BY <2>0, <3>0, <3>2, <4>2 DEF NetThread
    <3>3. QED
        BY <2>3, <3>1, <3>2, NetFrame
  <2>4. ASSUME NEW a \in Addrs, NEW m \in UdpMsgs, Net!PollUdp(a, m)
        PROVE  NetThread
      BY <2>0, <2>4, NetUdp DEF Push, NetThread
  <2>5. CASE Net!DoSend("UdpSend") \/ Net!DoBindPeer \/ Net!DoCloseConn \/ Net!DoKeepPending
    <3>1. \E k : Popped(k)
        BY <2>5, NetSend, NetBind, NetClose, NetKeep
    <3>2. NetThread
        BY <2>0, <3>1 DEF Popped, NetThread
    <3>3. QED
        BY <3>2 DEF Next
  <2>6. CASE Net!Stop
      BY <2>0, <2>6, NetStop DEF NetThread, Next
  <2>7. QED
      BY <2>0, <2>1, <2>2, <2>3, <2>4, <2>5, <2>6 DEF NetCases, Next
<1>4. CASE Stopped \/ UNCHANGED serverVars
    BY <1>4 DEF Stopped, serverVars
<1>5. QED
    BY <1>1, <1>2, <1>3, <1>4 DEF ServerNext

-----------------------------------------------------------------------------
(* What a step of the net thread does to the connections *)

MapsAgree == Net!PeerMapInverse

(* A connection keeps its peer, unless it is new, a command binds it, or   *)
(* its peer is taken from it; a command does what it says.                 *)
NetMove ==
    LET x == Head(outbound)
    IN  /\ \A c \in DOMAIN conns' :
             \/ nextConn' = nextConn + 1 /\ c = nextConn /\ conns'[c] = 0
             \/ c \in DOMAIN conns /\ conns'[c] = conns[c]
             \/ /\ c \in DOMAIN conns /\ Popped("BindPeer")
                /\ x.conn = c /\ x.peer = conns'[c]
             \/ /\ c \in DOMAIN conns /\ Popped("KeepPending")
                /\ x.peer = conns[c] /\ conns'[c] = 0
        /\ Popped("BindPeer") /\ x.conn \in DOMAIN conns' => conns'[x.conn] = x.peer
        /\ Popped("CloseConn") => x.conn \notin DOMAIN conns'
        /\ Popped("KeepPending") => \A c \in DOMAIN conns' : conns'[c] # x.peer
        /\ ConnsOK' /\ PathsOK' /\ MapsAgree'
        /\ nextConn' \in {nextConn, nextConn + 1}
        /\ outbound' = outbound \/ \E k : Popped(k)

LEMMA InverseOpen ==
    MapsAgree <=>
      /\ \A p \in DOMAIN peerToConn :
           peerToConn[p] \in DOMAIN conns /\ conns[peerToConn[p]] = p
      /\ \A c \in DOMAIN conns :
           conns[c] # 0 => /\ conns[c] \in DOMAIN peerToConn
                           /\ peerToConn[conns[c]] = c
    BY DEF MapsAgree, Net!PeerMapInverse

LEMMA InverseOpenNext ==
    MapsAgree' <=>
      /\ \A p \in DOMAIN peerToConn' :
           peerToConn'[p] \in DOMAIN conns' /\ conns'[peerToConn'[p]] = p
      /\ \A c \in DOMAIN conns' :
           conns'[c] # 0 => /\ conns'[c] \in DOMAIN peerToConn'
                            /\ peerToConn'[conns'[c]] = c
    BY DEF MapsAgree, Net!PeerMapInverse

LEMMA SameConnsMove ==
    ASSUME ConnsOK, PathsOK, MapsAgree, UNCHANGED <<conns, peerToConn>>
    PROVE  ConnsOK' /\ PathsOK' /\ MapsAgree'
    BY InverseOpen, InverseOpenNext DEF ConnsOK, PathsOK

LEMMA DropMove ==
    ASSUME ConnsOK, PathsOK, MapsAgree, NEW c \in DOMAIN conns, Dropped(c)
    PROVE  /\ DOMAIN conns' = DOMAIN conns \ {c}
           /\ \A d \in DOMAIN conns' : conns'[d] = conns[d]
           /\ ConnsOK' /\ PathsOK' /\ MapsAgree'
<1>1. /\ DOMAIN conns' = DOMAIN conns \ {c}
      /\ \A d \in DOMAIN conns' : conns'[d] = conns[d]
    BY DEF Dropped, Without
<1>2. ConnsOK'
    BY WithoutType DEF Dropped, ConnsOK
<1>3. CASE conns[c] = 0
  <2>1. peerToConn' = peerToConn
      BY <1>3 DEF Dropped
  <2>2. \A p \in DOMAIN peerToConn : peerToConn[p] # c
      BY <1>3, InverseOpen, BoundsAssumption DEF PathsOK, PeerIds
  <2>3. QED
      BY <1>1, <1>2, <2>1, <2>2, InverseOpen, InverseOpenNext DEF PathsOK
<1>4. CASE conns[c] # 0
  <2>1. /\ DOMAIN peerToConn' = DOMAIN peerToConn \ {conns[c]}
        /\ \A p \in DOMAIN peerToConn' : peerToConn'[p] = peerToConn[p]
      BY <1>4 DEF Dropped, Without
  <2>2. PathsOK'
      BY <1>4, WithoutType DEF Dropped, PathsOK
  <2>3. MapsAgree'
      BY <1>1, <2>1, <1>4, InverseOpen, InverseOpenNext
  <2>4. QED
      BY <1>1, <1>2, <2>2, <2>3
<1>5. QED
    BY <1>3, <1>4

LEMMA BindMove ==
    ASSUME ConnsOK, PathsOK, MapsAgree, NEW c \in DOMAIN conns, NEW p \in PeerIds,
           Rebound(c, p)
    PROVE  /\ c \in DOMAIN conns' /\ DOMAIN conns' \subseteq DOMAIN conns
           /\ \A d \in DOMAIN conns' : conns'[d] = IF d = c THEN p ELSE conns[d]
           /\ ConnsOK' /\ PathsOK' /\ MapsAgree'
<1> DEFINE old  == IF p \in DOMAIN peerToConn THEN peerToConn[p] ELSE c
           rest == IF old = c THEN conns ELSE Without(conns, old)
<1>1. /\ conns' = [rest EXCEPT ![c] = p]
      /\ peerToConn' = Put(Without(peerToConn, conns[c]), p, c)
    BY DEF Rebound
<1>2. \E C \in SUBSET ConnIds : rest \in [C -> PeerIds \cup {0}]
    BY WithoutType DEF ConnsOK
<1>3. DOMAIN rest = {x \in DOMAIN conns : x = c \/ x # old}
        /\ \A x \in DOMAIN rest : rest[x] = conns[x]
    BY DEF Without
<1> HIDE DEF rest
<1>4. /\ DOMAIN conns' = {x \in DOMAIN conns : x = c \/ x # old}
      /\ \A x \in DOMAIN conns' : conns'[x] = IF x = c THEN p ELSE conns[x]
    BY <1>1, <1>2, <1>3
<1>5. ConnsOK'
    BY <1>1, <1>2 DEF ConnsOK
<1>6. c \in ConnIds /\ p # 0
    BY OpenConn, BoundsAssumption DEF PeerIds
<1>7. PathsOK'
  <2>1. \E P \in SUBSET PeerIds : Without(peerToConn, conns[c]) \in [P -> ConnIds]
      BY WithoutType DEF PathsOK
  <2>2. \E P \in SUBSET PeerIds :
           Put(Without(peerToConn, conns[c]), p, c) \in [P -> ConnIds]
      BY <1>6, <2>1, PutType
  <2>3. QED
      BY <1>1, <2>2 DEF PathsOK
<1>8. /\ DOMAIN peerToConn' = (DOMAIN peerToConn \ {conns[c]}) \cup {p}
      /\ \A x \in DOMAIN peerToConn' :
            peerToConn'[x] = IF x = p THEN c ELSE peerToConn[x]
    BY <1>1 DEF Without, Put
<1>9. MapsAgree'
    BY <1>4, <1>6, <1>8, InverseOpen, InverseOpenNext
<1>10. QED
    BY <1>4, <1>5, <1>7, <1>9

LEMMA FreeMove ==
    ASSUME ConnsOK, PathsOK, MapsAgree, NEW p, Freed(p)
    PROVE  /\ DOMAIN conns' = DOMAIN conns
           /\ \A d \in DOMAIN conns :
                conns'[d] = IF conns[d] = p THEN 0 ELSE conns[d]
           /\ ConnsOK' /\ PathsOK' /\ MapsAgree'
<1>1. p \in DOMAIN peerToConn /\ p # 0
    BY BoundsAssumption DEF Freed, PathsOK, PeerIds
<1>2. /\ DOMAIN conns' = DOMAIN conns
      /\ \A d \in DOMAIN conns :
           conns'[d] = IF d = peerToConn[p] THEN 0 ELSE conns[d]
    BY DEF Freed
<1>3. \A d \in DOMAIN conns : d = peerToConn[p] <=> conns[d] = p
    BY <1>1, InverseOpen
<1>4. /\ DOMAIN peerToConn' = DOMAIN peerToConn \ {p}
      /\ \A x \in DOMAIN peerToConn' : peerToConn'[x] = peerToConn[x]
    BY DEF Freed, Without
<1>5. ConnsOK'
    BY DEF Freed, ConnsOK
<1>6. PathsOK'
    BY WithoutType DEF Freed, PathsOK
<1>7. MapsAgree'
    BY <1>1, <1>2, <1>3, <1>4, InverseOpen, InverseOpenNext
<1>8. QED
    BY <1>2, <1>3, <1>5, <1>6, <1>7

LEMMA HeadType ==
    ASSUME TypeOK, NEW k, Popped(k)
    PROVE  /\ Head(outbound) \in OutboundCmd /\ Head(outbound).kind = k
           /\ k = "BindPeer" => Head(outbound).peer \in PeerIds
           /\ k = "KeepPending" => Head(outbound).peer \in PeerIds
<1>1. Head(outbound) \in OutboundCmd /\ Head(outbound).kind = k
    BY TypeParts, TailType, BoundsAssumption DEF Popped, OutOK
<1>2. QED
    BY <1>1 DEF OutboundCmd

LEMMA PoppedOnce ==
    ASSUME NEW k, NEW l, Popped(k), Popped(l) PROVE k = l
    BY DEF Popped

(* A step that takes no command. *)
LEMMA NoPop ==
    ASSUME TypeOK, outbound' = outbound, NEW k PROVE ~Popped(k)
<1>1. SUFFICES ASSUME Popped(k) PROVE FALSE
    OBVIOUS
<1>2. Len(Tail(outbound)) = Len(outbound) - 1 /\ Len(outbound) \in Nat
    BY <1>1, TypeParts DEF Popped, OutOK
<1>3. QED
    BY <1>1, <1>2 DEF Popped

LEMMA NetMoves ==
    ASSUME TypeOK, ConnsOK, PathsOK, MapsAgree, ConnsGiven, NetStep \/ Deliver
    PROVE  NetMove
<1>0. nextConn \in Nat /\ nextConn \notin DOMAIN conns
    BY TypeParts, BoundsAssumption DEF ConnOK, ConnsGiven
<1> USE DEF NetMove
<1>1. CASE Net!AcceptReady
  <2>1. /\ nextConn \in ConnIds /\ nextConn' = nextConn + 1
        /\ conns' = Put(conns, nextConn, 0) /\ UNCHANGED <<outbound, peerToConn>>
      BY <1>1, NetAccept
  <2>2. /\ DOMAIN conns' = DOMAIN conns \cup {nextConn}
        /\ \A c \in DOMAIN conns' : conns'[c] = IF c = nextConn THEN 0 ELSE conns[c]
      BY <2>1 DEF Put
  <2>3. ConnsOK'
    <3> DEFINE V == PeerIds \cup {0}
    <3>1. 0 \in V
        OBVIOUS
    <3>2. PICK D \in SUBSET ConnIds : conns \in [D -> V]
        BY DEF ConnsOK
    <3>3. ConnsOK' <=> \E C \in SUBSET ConnIds : conns' \in [C -> V]
        BY DEF ConnsOK
    <3> HIDE DEF V
    <3>4. conns' \in [D \cup {nextConn} -> V]
        BY <2>1, <3>1, <3>2 DEF Put
    <3>5. QED
        BY <2>1, <3>3, <3>4
  <2>4. PathsOK'
      BY <2>1 DEF PathsOK
  <2>5. MapsAgree'
      BY <1>0, <2>1, <2>2, InverseOpen, InverseOpenNext
  <2>6. \A k : ~Popped(k)
      BY <2>1, NoPop
  <2>7. QED
      BY <2>1, <2>2, <2>3, <2>4, <2>5, <2>6
<1>2. ASSUME NEW c \in DOMAIN conns, Dropped(c), UNCHANGED <<outbound, nextConn>>
      PROVE  NetMove
  <2>1. \A k : ~Popped(k)
      BY <1>2, NoPop
  <2>2. QED
      BY <1>2, <2>1, DropMove
<1>3. ASSUME UNCHANGED <<outbound, nextConn, conns, peerToConn>> PROVE NetMove
  <2>1. \A k : ~Popped(k)
      BY <1>3, NoPop
  <2>2. QED
      BY <1>3, <2>1, SameConnsMove
<1>4. ASSUME NEW k \in {"UdpSend", "TcpSend"}, Net!DoSend(k) PROVE NetMove
  <2>1. Popped(k) /\ UNCHANGED <<conns, peerToConn>> /\ nextConn' = nextConn
      BY <1>4, NetSend DEF Popped
  <2>2. ~Popped("BindPeer") /\ ~Popped("CloseConn") /\ ~Popped("KeepPending")
      BY <2>1, PoppedOnce
  <2>3. QED
      BY <2>1, <2>2, SameConnsMove
<1>5. CASE Net!DoBindPeer
  <2>1. Popped("BindPeer") /\ nextConn' = nextConn
      BY <1>5, NetBind DEF Popped
  <2>2. ~Popped("CloseConn") /\ ~Popped("KeepPending")
      BY <2>1, PoppedOnce
  <2>3. CASE Head(outbound).conn \notin DOMAIN conns /\ UNCHANGED <<conns, peerToConn>>
      BY <2>1, <2>2, <2>3, SameConnsMove
  <2>4. CASE /\ Head(outbound).conn \in DOMAIN conns
             /\ Rebound(Head(outbound).conn, Head(outbound).peer)
    <3>1. Head(outbound).peer \in PeerIds
        BY <2>1, HeadType
    <3> DEFINE c == Head(outbound).conn
               p == Head(outbound).peer
    <3>2. /\ c \in DOMAIN conns' /\ DOMAIN conns' \subseteq DOMAIN conns
          /\ \A d \in DOMAIN conns' : conns'[d] = IF d = c THEN p ELSE conns[d]
          /\ ConnsOK' /\ PathsOK' /\ MapsAgree'
        BY <2>4, <3>1, BindMove
    <3>3. QED
        BY <2>1, <2>2, <3>2
  <2>5. QED
      BY <1>5, <2>3, <2>4, NetBind
<1>6. CASE Net!DoCloseConn
  <2>1. Popped("CloseConn") /\ nextConn' = nextConn
      BY <1>6, NetClose DEF Popped
  <2>2. ~Popped("BindPeer") /\ ~Popped("KeepPending")
      BY <2>1, PoppedOnce
  <2>3. CASE Head(outbound).conn \notin DOMAIN conns /\ UNCHANGED <<conns, peerToConn>>
      BY <2>1, <2>2, <2>3, SameConnsMove
  <2>4. CASE Head(outbound).conn \in DOMAIN conns /\ Dropped(Head(outbound).conn)
      BY <2>1, <2>2, <2>4, DropMove
  <2>5. QED
      BY <1>6, <2>3, <2>4, NetClose
<1>7. CASE Net!DoKeepPending
  <2>1. Popped("KeepPending") /\ nextConn' = nextConn
      BY <1>7, NetKeep DEF Popped
  <2>2. ~Popped("BindPeer") /\ ~Popped("CloseConn")
      BY <2>1, PoppedOnce
  <2>3. Head(outbound).peer \in PeerIds /\ Head(outbound).peer # 0
      BY <2>1, HeadType, BoundsAssumption DEF PeerIds
  <2>4. CASE /\ Head(outbound).peer \notin DOMAIN peerToConn
             /\ UNCHANGED <<conns, peerToConn>>
    <3>1. \A c \in DOMAIN conns : conns[c] # Head(outbound).peer
        BY <2>3, <2>4, InverseOpen
    <3>2. QED
        BY <2>1, <2>2, <2>4, <3>1, SameConnsMove
  <2>5. CASE Freed(Head(outbound).peer)
    <3> DEFINE p == Head(outbound).peer
    <3>1. /\ DOMAIN conns' = DOMAIN conns
          /\ \A d \in DOMAIN conns : conns'[d] = IF conns[d] = p THEN 0 ELSE conns[d]
          /\ ConnsOK' /\ PathsOK' /\ MapsAgree'
        BY <2>5, FreeMove
    <3>2. QED
        BY <2>1, <2>2, <2>3, <3>1
  <2>6. QED
      BY <1>7, <2>4, <2>5, NetKeep
<1>8. CASE Net!Stop
  <2>1. /\ conns' = <<>> /\ peerToConn' = <<>> /\ UNCHANGED <<outbound, nextConn>>
      BY <1>8, NetStop
  <2>2. \A k : ~Popped(k)
      BY <2>1, NoPop
  <2>3. DOMAIN conns' = {} /\ DOMAIN peerToConn' = {}
      BY <2>1
  <2>4. ConnsOK' /\ PathsOK'
    <3>1. <<>> \in [{} -> PeerIds \cup {0}] /\ <<>> \in [{} -> ConnIds]
        OBVIOUS
    <3>2. QED
        BY <2>1, <3>1 DEF ConnsOK, PathsOK
  <2>5. MapsAgree'
      BY <2>3, InverseOpenNext
  <2>6. QED
      BY <2>1, <2>2, <2>3, <2>4, <2>5
<1> USE DEF NetMove
<1>9. CASE NetStep
  <2>0. NetCases
      BY <1>9, NetStepCases
  <2>1. ASSUME NEW c \in DOMAIN conns, Net!PollClosed(c) PROVE NetMove
      BY <1>2, <2>1, NetHangup
  <2>2. ASSUME NEW c \in DOMAIN conns, NEW m, Net!PollFrame(c, m) PROVE NetMove
      BY <1>2, <1>3, <2>2, NetFrame
  <2>3. ASSUME NEW a, NEW m, Net!PollUdp(a, m) PROVE NetMove
      BY <1>3, <2>3, NetUdp
  <2> HIDE DEF NetMove
  <2>4. QED
      BY <1>1, <1>4, <1>5, <1>6, <1>7, <1>8, <2>0, <2>1, <2>2, <2>3 DEF NetCases
<1>10. CASE Deliver
    BY <1>4, <1>10 DEF Deliver
<1>11. QED
    BY <1>9, <1>10

-----------------------------------------------------------------------------
(* What both threads rely on, whatever the queues lose *)

(* Nothing more is said of a closed connection. *)
ClosedGone ==
    \A e \in Range(inbound) :
       e.kind = "TcpClosed" => e.conn \notin DOMAIN conns /\ e.conn < nextConn

(* A connection the session has not heard of carries nobody. *)
AcceptsQuiet ==
    \A e \in Range(inbound) :
       e.kind = "TcpAccept" =>
          /\ \A x \in Range(outbound) : x.kind = "BindPeer" => x.conn # e.conn
          /\ e.conn \in DOMAIN conns => conns[e.conn] = 0

NetBase == ConnsOK /\ PathsOK /\ MapsAgree /\ ConnsGiven /\ Handed
             /\ ClosedGone /\ AcceptsQuiet
SimBase == TypeOK /\ LiveRecords /\ PeersFresh /\ AcceptsFresh /\ ConnOwnership

LEMMA QueuesAreSeqs ==
    ASSUME TypeOK
    PROVE  /\ IsSeq(inbound) /\ Range(inbound) \subseteq InboundEvent
           /\ IsSeq(outbound) /\ Range(outbound) \subseteq OutboundCmd
    BY TypeParts, SeqTyped DEF InOK, OutOK

LEMMA PoppedRange ==
    ASSUME TypeOK, NEW k, Popped(k)
    PROVE  /\ Head(outbound) \in Range(outbound)
           /\ Range(outbound') \subseteq Range(outbound)
           /\ Range(outbound) = {Head(outbound)} \cup Range(outbound')
           /\ IsSeq(outbound')
    BY QueuesAreSeqs, PopRange DEF Popped

LEMMA PushRange ==
    ASSUME NEW q, IsSeq(q), NEW cap, NEW x
    PROVE  /\ Range(q) \subseteq Range(Push(q, cap, x))
           /\ Range(Push(q, cap, x)) \subseteq Range(q) \cup {x}
           /\ ~Full(q, cap) => x \in Range(Push(q, cap, x))
<1>1. Append(q, x) = q \o <<x>>
    BY DEF IsSeq
<1>2. Range(Append(q, x)) = Range(q) \cup {x}
    BY <1>1, SeqMore, SeqOne
<1>3. QED
    BY <1>2 DEF Push

(* What the net thread reports. *)
NetSays ==
    /\ Range(inbound) \subseteq Range(inbound')
    /\ \A e \in Range(inbound') :
         \/ e \in Range(inbound)
         \/ e = Accepted(nextConn) /\ nextConn' = nextConn + 1
         \/ /\ e.kind = "TcpClosed"
            /\ e.conn \in DOMAIN conns /\ e.conn \notin DOMAIN conns'
         \/ e.kind \in {"TcpFrame", "UdpDatagram"}
    /\ ~inLost' => /\ ~inLost
                   /\ \A c \in DOMAIN conns' :
                        c \in DOMAIN conns \/ Accepted(c) \in Range(inbound')

LEMMA ClosedSays ==
    ASSUME TypeOK, NEW c \in DOMAIN conns, Dropped(c), Reported(Closed(c, conns[c]))
    PROVE  NetSays
<1> DEFINE e == Closed(c, conns[c])
<1>1. e.kind = "TcpClosed" /\ e.conn = c
    BY DEF Closed
<1>2. DOMAIN conns' = DOMAIN conns \ {c}
    BY DEF Dropped, Without
<1>3. /\ Range(inbound) \subseteq Range(inbound')
      /\ Range(inbound') \subseteq Range(inbound) \cup {e}
    BY QueuesAreSeqs, PushRange DEF Reported
<1>4. ~inLost' => ~inLost
    BY DEF Reported
<1> HIDE DEF e
<1>5. QED
    BY <1>1, <1>2, <1>3, <1>4 DEF NetSays

LEMMA OtherSays ==
    ASSUME TypeOK, UNCHANGED <<conns, inLost>>, NEW e,
           e.kind \in {"TcpFrame", "UdpDatagram"},
           inbound' = Append(inbound, e) \/ inbound' = Push(inbound, InCap, e)
    PROVE  NetSays
<1>1. Append(inbound, e) = inbound \o <<e>>
    BY QueuesAreSeqs DEF IsSeq
<1>2. Range(Append(inbound, e)) = Range(inbound) \cup {e}
    BY <1>1, QueuesAreSeqs, SeqMore, SeqOne
<1>3. /\ Range(inbound) \subseteq Range(inbound')
      /\ Range(inbound') \subseteq Range(inbound) \cup {e}
    BY <1>2, QueuesAreSeqs, PushRange
<1>4. QED
    BY <1>3 DEF NetSays

LEMMA SilentSays ==
    ASSUME UNCHANGED <<inbound, inLost>>, DOMAIN conns' \subseteq DOMAIN conns
    PROVE  NetSays
    BY DEF NetSays

LEMMA NetReports ==
    ASSUME TypeOK, ConnsOK, PathsOK, MapsAgree, ConnsGiven, NetStep \/ Deliver
    PROVE  NetSays
<1>1. CASE Net!AcceptReady
  <2>1. /\ Reported(Accepted(nextConn)) /\ nextConn' = nextConn + 1
        /\ conns' = Put(conns, nextConn, 0)
      BY <1>1, NetAccept
  <2>2. /\ Range(inbound) \subseteq Range(inbound')
        /\ Range(inbound') \subseteq Range(inbound) \cup {Accepted(nextConn)}
        /\ ~Full(inbound, InCap) => Accepted(nextConn) \in Range(inbound')
      BY <2>1, QueuesAreSeqs, PushRange DEF Reported
  <2>3. ~inLost' => ~inLost /\ ~Full(inbound, InCap)
      BY <2>1 DEF Reported
  <2>4. DOMAIN conns' = DOMAIN conns \cup {nextConn}
      BY <2>1 DEF Put
  <2>5. QED
      BY <2>1, <2>2, <2>3, <2>4 DEF NetSays
<1>2. ASSUME NEW c \in DOMAIN conns, Net!PollClosed(c) PROVE NetSays
    BY <1>2, NetHangup, ClosedSays
<1>3. ASSUME NEW c \in DOMAIN conns, NEW m, Net!PollFrame(c, m) PROVE NetSays
  <2>1. Frame(c, conns[c], m).kind \in {"TcpFrame", "UdpDatagram"}
      BY DEF Frame
  <2>2. QED
      BY <1>3, <2>1, NetFrame, ClosedSays, OtherSays
<1>4. ASSUME NEW a, NEW m, Net!PollUdp(a, m) PROVE NetSays
  <2>1. Datagram(a, m).kind \in {"TcpFrame", "UdpDatagram"}
      BY DEF Datagram
  <2>2. QED
      BY <1>4, <2>1, NetUdp, OtherSays
<1>5. ASSUME NEW k, Popped(k), NetMove PROVE NetSays
  <2>1. DOMAIN conns' \subseteq DOMAIN conns
    <3>1. nextConn' = nextConn /\ nextConn \in Nat
        BY <1>5, TypeParts, BoundsAssumption DEF Popped, ConnOK
    <3>2. nextConn' # nextConn + 1
        BY <3>1
    <3>3. QED
        BY <1>5, <3>2 DEF NetMove
  <2>2. QED
      BY <1>5, <2>1, SilentSays DEF Popped
<1>6. CASE Net!DoBindPeer \/ Net!DoCloseConn \/ Net!DoKeepPending
    BY <1>5, <1>6, NetBind, NetClose, NetKeep, NetMoves
<1>7. ASSUME NEW k, Net!DoSend(k) PROVE NetSays
    BY <1>7, NetSend, SilentSays DEF Popped
<1>8. CASE Net!Stop
    BY <1>8, NetStop, SilentSays
<1>9. CASE NetStep
    BY <1>1, <1>2, <1>3, <1>4, <1>6, <1>7, <1>8, <1>9, NetStepCases DEF NetCases
<1>10. CASE Deliver
    BY <1>7, <1>10 DEF Deliver
<1>11. QED
    BY <1>9, <1>10

LEMMA FreshRange ==
    ASSUME TypeOK, AcceptsFresh
    PROVE  \A e \in Range(inbound) :
              e.kind = "TcpAccept" => e.conn < nextConn /\ e.conn \notin Known
<1>1. Range(inbound) = {inbound[i] : i \in 1..Len(inbound)}
    BY QueuesAreSeqs, RangeEquality DEF IsSeq
<1>2. QED
    BY <1>1 DEF AcceptsFresh

(* The net thread's steps. *)
LEMMA NetBaseStep ==
    ASSUME SimBase, NetBase, NetStep \/ Deliver
    PROVE  NetBase'
<1>0. TypeOK /\ nextConn \in Nat /\ nextPeer \in Nat /\ nextPeer > 0
        /\ nextPeer' = nextPeer
  <2>1. nextPeer' = nextPeer
      BY NetStepCases DEF Deliver, simVars, idVars
  <2>2. QED
      BY <2>1, TypeParts, BoundsAssumption DEF SimBase, ConnOK, PeerOK
<1>1. NetMove /\ NetSays
    BY <1>0, NetMoves, NetReports DEF NetBase
<1>2. Range(outbound') \subseteq Range(outbound)
    BY <1>0, <1>1, PoppedRange DEF NetMove
<1>3. \A k : Popped(k) => Head(outbound) \in Range(outbound) /\ Head(outbound).kind = k
    BY <1>0, PoppedRange DEF Popped
<1>4. nextConn' >= nextConn /\ nextConn' \in Nat
    BY <1>0, <1>1 DEF NetMove
<1>5. ConnsOK' /\ PathsOK' /\ MapsAgree'
    BY <1>1 DEF NetMove
<1>6. \A c \in DOMAIN conns : c \in Nat /\ conns[c] \in Nat
    BY OpenConn, BoundsAssumption DEF NetBase, ConnIds, PeerIds
<1>7. ConnsGiven'
  <2>1. SUFFICES ASSUME NEW c \in DOMAIN conns'
                 PROVE  c < nextConn' /\ conns'[c] < nextPeer
      BY <1>0 DEF ConnsGiven
  <2>2. CASE nextConn' = nextConn + 1 /\ c = nextConn /\ conns'[c] = 0
      BY <1>0, <2>2
  <2>3. ASSUME c \in DOMAIN conns PROVE c < nextConn'
      BY <1>0, <1>4, <1>6, <2>3 DEF NetBase, ConnsGiven
  <2>4. ASSUME Popped("BindPeer"), Head(outbound).peer = conns'[c]
        PROVE  conns'[c] < nextPeer
      BY <1>3, <2>4 DEF NetBase, Handed
  <2>5. ASSUME c \in DOMAIN conns, conns'[c] = conns[c] PROVE conns'[c] < nextPeer
      BY <2>5 DEF NetBase, ConnsGiven
  <2>6. QED
      BY <1>0, <1>1, <2>2, <2>3, <2>4, <2>5 DEF NetMove
<1>8. Handed'
  <2>1. \A x \in Range(outbound) : x.kind = "BindPeer" => x.conn \in Nat
      BY <1>0, QueuesAreSeqs, BoundsAssumption DEF OutboundCmd, ConnIds
  <2>2. QED
      BY <1>0, <1>2, <1>4, <2>1 DEF NetBase, Handed
<1>9. \A e \in Range(inbound) : e.kind # "UdpDatagram" => e.conn \in Nat
  <2>1. \A e \in Range(inbound) : e \in InboundEvent
      BY <1>0, QueuesAreSeqs
  <2>2. QED
      BY <2>1, EventFields, BoundsAssumption DEF ConnIds
<1>10. ClosedGone'
  <2>1. SUFFICES ASSUME NEW e \in Range(inbound'), e.kind = "TcpClosed"
                 PROVE  e.conn \notin DOMAIN conns' /\ e.conn < nextConn'
      BY DEF ClosedGone
  <2>2. CASE e \in Range(inbound)
    <3>1. e.conn \notin DOMAIN conns /\ e.conn < nextConn /\ e.conn \in Nat
        BY <1>9, <2>1, <2>2 DEF NetBase, ClosedGone
    <3>2. e.conn # nextConn
        BY <1>0, <3>1
    <3>3. QED
        BY <1>0, <1>1, <1>4, <3>1, <3>2 DEF NetMove
  <2>3. CASE e.conn \in DOMAIN conns /\ e.conn \notin DOMAIN conns'
      BY <1>0, <1>4, <1>6, <2>3 DEF NetBase, ConnsGiven
  <2>4. Accepted(nextConn).kind = "TcpAccept"
      BY DEF Accepted
  <2>5. QED
      BY <1>1, <2>1, <2>2, <2>3, <2>4 DEF NetSays
<1>11. AcceptsQuiet'
  <2>1. SUFFICES ASSUME NEW e \in Range(inbound'), e.kind = "TcpAccept"
                 PROVE  /\ \A x \in Range(outbound') : x.kind = "BindPeer" => x.conn # e.conn
                        /\ e.conn \in DOMAIN conns' => conns'[e.conn] = 0
      BY DEF AcceptsQuiet
  <2>2. CASE e \in Range(inbound)
    <3>1. /\ \A x \in Range(outbound) : x.kind = "BindPeer" => x.conn # e.conn
          /\ e.conn \in DOMAIN conns => conns[e.conn] = 0
        BY <2>1, <2>2 DEF NetBase, AcceptsQuiet
    <3>2. QED
        BY <1>1, <1>2, <1>3, <3>1 DEF NetMove
  <2>3. CASE e = Accepted(nextConn) /\ nextConn' = nextConn + 1
    <3>1. e.conn = nextConn
        BY <2>3 DEF Accepted
    <3>2. \A x \in Range(outbound) : x.kind = "BindPeer" => x.conn # nextConn
      <4>1. \A x \in Range(outbound) : x.kind = "BindPeer" => x.conn \in Nat /\ x.conn < nextConn
          BY <1>0, QueuesAreSeqs, BoundsAssumption DEF OutboundCmd, ConnIds, NetBase, Handed
      <4>2. QED
          BY <1>0, <4>1
    <3>3. nextConn \notin DOMAIN conns
        BY <1>0, <1>6 DEF NetBase, ConnsGiven
    <3>4. QED
        BY <1>1, <1>2, <3>1, <3>2, <3>3 DEF NetMove
  <2>4. QED
      BY <1>1, <2>1, <2>2, <2>3 DEF NetSays
<1>12. QED
    BY <1>5, <1>7, <1>8, <1>10, <1>11 DEF NetBase

(* The commands of the simulation thread name peers it has made and        *)
(* connections it knows.                                                   *)
NewCmd(x) ==
    \/ x.kind \in {"TcpSend", "UdpSend", "CloseConn"}
    \/ x.kind = "KeepPending" /\ x.peer < nextPeer
    \/ /\ x.kind = "BindPeer"
       /\ x.conn \in pendingTcp /\ x.peer < nextPeer'

LEMMA SendKind == ASSUME NEW S, NEW m, NEW x \in SendSet(S, m)
                  PROVE  x.kind = "TcpSend"
    BY DEF SendSet, TcpSend

LEMMA SimSays ==
    ASSUME SimBase, SimThread
    PROVE  /\ nextPeer' \in {nextPeer, nextPeer + 1}
           /\ \A x \in Range(outbound') : x \in Range(outbound) \/ NewCmd(x)
<1>0. TypeOK /\ PeersFresh /\ OutOK /\ nextPeer \in Nat
    BY TypeParts, BoundsAssumption DEF SimBase, PeerOK
<1>1. ASSUME NEW E, Adds(E), \A x \in E : NewCmd(x)
      PROVE  \A x \in Range(outbound') : x \in Range(outbound) \/ NewCmd(x)
    BY <1>0, <1>1, AddsRange
<1>2. CASE Talks
  <2>1. PICK E : Adds(E) /\ \A x \in E : Talk(x)
      BY <1>2 DEF Talks
  <2>2. \A x \in E : NewCmd(x)
      BY <2>1 DEF Talk, NewCmd
  <2>3. QED
      BY <1>1, <1>2, <2>1, <2>2 DEF Talks, SameHolders
<1>3. CASE TcpAccept
    BY <1>3 DEF TcpAccept, outVars, idVars
<1>4. CASE ClosedAlone
    BY <1>4 DEF ClosedAlone, outVars
<1>5. ASSUME NEW c, ExpirePending(c)
      PROVE  /\ nextPeer' = nextPeer
             /\ \A x \in Range(outbound') : x \in Range(outbound) \/ NewCmd(x)
  <2>1. Adds({CloseConn(c)})
      BY <1>5, SeqOne DEF ExpirePending, Adds
  <2>2. NewCmd(CloseConn(c))
      BY DEF NewCmd, CloseConn
  <2>3. QED
      BY <1>1, <1>5, <2>1, <2>2 DEF ExpirePending, idVars
<1>6. ASSUME NEW p \in DOMAIN clients, Removed(p)
      PROVE  /\ nextPeer' = nextPeer
             /\ \A x \in Range(outbound') : x \in Range(outbound) \/ NewCmd(x)
  <2> DEFINE c == clients[p].conn
  <2>1. NewCmd(CloseConn(c)) /\ NewCmd(KeepPending(p))
      BY <1>0 DEF NewCmd, CloseConn, KeepPending, PeersFresh
  <2>2. /\ \A x \in ByeSet(p) : NewCmd(x)
        /\ \A x \in SendSet({c}, Say("Bye", p)) : NewCmd(x)
      BY SendKind DEF ByeSet, NewCmd
  <2> DEFINE All == ByeSet(p) \cup SendSet({c}, Say("Bye", p))
                      \cup {CloseConn(c), KeepPending(p)}
  <2>3. \A x \in All : NewCmd(x)
      BY <2>1, <2>2
  <2>4. \E E \in SUBSET All : Adds(E)
      BY <1>6 DEF Removed, Left, Kicked
  <2> HIDE DEF All
  <2>5. QED
      BY <1>1, <1>6, <2>3, <2>4 DEF Removed, Left, Kicked
<1>7. ASSUME NEW p, Joins(p)
      PROVE  /\ nextPeer' \in {nextPeer, nextPeer + 1}
             /\ \A x \in Range(outbound') : x \in Range(outbound) \/ NewCmd(x)
  <2> DEFINE c == Event.conn
  <2>1. p < nextPeer' /\ c \in pendingTcp
      BY <1>0, <1>7 DEF Joins, PeersFresh
  <2>2. NewCmd(BindPeer(c, p)) /\ NewCmd(CloseConn(clients[p].conn))
      BY <2>1 DEF NewCmd, BindPeer, CloseConn
  <2>3. \A x \in JoinSet(p, c) : NewCmd(x)
    <3>1. \A x \in JoinSet(p, c) :
             \/ x \in {BindPeer(c, p), CloseConn(clients[p].conn)}
             \/ x.kind = "TcpSend"
        BY SendKind DEF JoinSet
    <3>2. QED
        BY <2>2, <3>1 DEF NewCmd
  <2>4. QED
      BY <1>1, <1>7, <2>3 DEF Joins
<1>8. QED
    BY <1>0, <1>2, <1>3, <1>4, <1>5, <1>6, <1>7, SimThreadCases DEF SimCases, Removed

LEMMA SimTakes ==
    ASSUME TypeOK, SimThread
    PROVE  Range(inbound') \subseteq Range(inbound)
<1>1. inbound' = inbound \/ (inbound # <<>> /\ inbound' = Tail(inbound))
    BY TakeCases DEF TcpAccept, Take
<1>2. QED
    BY <1>1, QueuesAreSeqs, PopRange

LEMMA SimBaseNet ==
    ASSUME SimBase, NetBase, SimThread, UNCHANGED ioVars
    PROVE  NetBase'
<1>0. /\ TypeOK /\ nextPeer \in Nat /\ nextConn \in Nat
      /\ nextConn' = nextConn /\ UNCHANGED <<conns, peerToConn>>
    BY TypeParts, TakeCases, BoundsAssumption DEF SimBase, PeerOK, ConnOK, ioVars
<1>1. ConnsOK' /\ PathsOK' /\ MapsAgree'
    BY <1>0, SameConnsMove DEF NetBase
<1>2. nextPeer' \in Nat /\ nextPeer' >= nextPeer
    BY <1>0, SimSays
<1>3. ConnsGiven'
  <2>1. \A c \in DOMAIN conns : conns[c] \in Nat
      BY OpenConn, BoundsAssumption DEF NetBase, PeerIds
  <2>2. QED
      BY <1>0, <1>2, <2>1 DEF NetBase, ConnsGiven
<1>4. \A c \in pendingTcp : c < nextConn
    BY DEF SimBase, AcceptsFresh, Known
<1>5. Handed'
  <2>1. SUFFICES ASSUME NEW x \in Range(outbound')
                 PROVE  /\ x.kind \in {"BindPeer", "KeepPending"} => x.peer < nextPeer'
                        /\ x.kind = "BindPeer" => x.conn < nextConn
      BY <1>0 DEF Handed
  <2>2. CASE x \in Range(outbound)
    <3>1. x \in OutboundCmd
        BY <1>0, <2>2, QueuesAreSeqs
    <3>2. x.kind \in {"BindPeer", "KeepPending"} => x.peer \in Nat
        BY <3>1, BoundsAssumption DEF OutboundCmd, PeerIds
    <3>3. QED
        BY <1>0, <1>2, <2>2, <3>2 DEF NetBase, Handed
  <2>3. CASE NewCmd(x) /\ x \notin Range(outbound)
    <3>1. x \in OutboundCmd
      <4>1. TypeOK'
          BY TypeStep DEF SimBase, Next
      <4>2. outbound' \in Seq(OutboundCmd)
          BY <4>1 DEF TypeOK
      <4>3. QED
          BY <2>1, <4>2, SeqTyped
    <3>2. x.kind \in {"BindPeer", "KeepPending"} => x.peer \in Nat
        BY <3>1, BoundsAssumption DEF OutboundCmd, PeerIds
    <3>3. QED
        BY <1>0, <1>2, <1>4, <2>3, <3>2 DEF NewCmd
  <2>4. QED
      BY <2>2, <2>3, SimSays
<1>6. ClosedGone'
    BY <1>0, SimTakes DEF NetBase, ClosedGone
<1>7. AcceptsQuiet'
  <2>1. \A e \in Range(inbound) : e.kind = "TcpAccept" => e.conn \notin pendingTcp
      BY FreshRange DEF SimBase, Known
  <2>2. SUFFICES ASSUME NEW e \in Range(inbound), e.kind = "TcpAccept",
                        NEW x \in Range(outbound'), x.kind = "BindPeer"
                 PROVE  x.conn # e.conn
      BY <1>0, SimTakes DEF NetBase, AcceptsQuiet
  <2>3. CASE x \in Range(outbound)
      BY <2>2, <2>3 DEF NetBase, AcceptsQuiet
  <2>4. CASE NewCmd(x)
      BY <2>1, <2>2, <2>4 DEF NewCmd
  <2>5. QED
      BY <2>3, <2>4, SimSays
<1>8. QED
    BY <1>1, <1>3, <1>5, <1>6, <1>7 DEF NetBase

LEMMA BaseStep ==
    SimBase /\ NetBase /\ [ServerNext]_serverVars => SimBase' /\ NetBase'
<1> SUFFICES ASSUME SimBase, NetBase, [ServerNext]_serverVars
             PROVE  SimBase' /\ NetBase'
    OBVIOUS
<1>1. [Next]_vars
    BY ServerStep DEF SimBase, NetBase
<1>2. SimBase'
    BY <1>1, TypeStep, RecordStep, PeersStep, AcceptsStep, OwnStep DEF SimBase
<1>3. CASE SimStep
  <2>1. SimThread /\ UNCHANGED ioVars
      BY <1>3 DEF SimStep, SimThread, Admin, Kick
  <2>2. QED
      BY <1>2, <2>1, SimBaseNet
<1>4. CASE NetStep \/ Deliver
    BY <1>2, <1>4, NetBaseStep
<1>5. CASE Stopped \/ UNCHANGED serverVars
  <2>1. UNCHANGED <<inbound, outbound, nextConn, nextPeer, conns, peerToConn>>
      BY <1>5 DEF Stopped, serverVars, vars, ioVars, simVars, idVars
  <2>2. ConnsOK' /\ PathsOK' /\ MapsAgree'
      BY <2>1, SameConnsMove DEF NetBase
  <2>3. ConnsGiven' /\ Handed' /\ ClosedGone' /\ AcceptsQuiet'
      BY <2>1 DEF NetBase, ConnsGiven, Handed, ClosedGone, AcceptsQuiet
  <2>4. QED
      BY <1>2, <2>2, <2>3 DEF NetBase
<1>6. QED
    BY <1>3, <1>4, <1>5 DEF ServerNext

LEMMA BaseInit == ServerInit => SimBase /\ NetBase
<1> SUFFICES ASSUME ServerInit PROVE SimBase /\ NetBase
    OBVIOUS
<1>1. Init /\ conns = <<>> /\ peerToConn = <<>> /\ inbound = <<>> /\ outbound = <<>>
    BY DEF ServerInit, Init, Net!Init
<1>2. PeersFresh /\ AcceptsFresh /\ ConnOwnership
    BY <1>1 DEF Init, PeersFresh, AcceptsFresh, ConnOwnership, Known, ConnOf
<1>3. SimBase
    BY <1>1, <1>2, TypeInit DEF SimBase
<1>4. DOMAIN conns = {} /\ DOMAIN peerToConn = {}
    BY <1>1
<1>5. Range(inbound) = {} /\ Range(outbound) = {}
    BY <1>1, SeqNone
<1>6. ConnsOK /\ PathsOK
  <2>1. <<>> \in [{} -> PeerIds \cup {0}] /\ <<>> \in [{} -> ConnIds]
      OBVIOUS
  <2>2. QED
      BY <1>1, <2>1 DEF ConnsOK, PathsOK
<1>7. MapsAgree
    BY <1>4, InverseOpen
<1>8. ConnsGiven /\ Handed /\ ClosedGone /\ AcceptsQuiet
    BY <1>4, <1>5 DEF ConnsGiven, Handed, ClosedGone, AcceptsQuiet
<1>9. QED
    BY <1>3, <1>6, <1>7, <1>8 DEF NetBase

(* The two threads together take only steps that Sim allows: the net       *)
(* thread reports on connections it has accepted and with peer ids it was  *)
(* given (poll_clients, process_outbound), so every theorem about Sim is   *)
(* one about the server.                                                   *)
THEOREM ServerIsSim == ServerSpec => ImplementsSim
<1>1. ServerInit => Init
    BY DEF ServerInit
<1>2. SimBase /\ NetBase /\ [ServerNext]_serverVars => [Next]_vars
    BY ServerStep DEF SimBase, NetBase
<1>3. QED
    BY <1>1, <1>2, BaseInit, BaseStep, PTL DEF ServerSpec, ImplementsSim, Spec

(* What the session promises, the server keeps with its real net thread:   *)
(* one live client a key, one owner a connection, a live host, sound UDP   *)
(* bindings, and the players' view of it all (Party).                      *)
THEOREM ServerSession ==
    ServerSpec => /\ [](UniqueKeys /\ ConnOwnership /\ HostLive /\ UdpMapSound)
                  /\ BanHolds /\ TokenRenewalUnbinds /\ ImplementsParty
    BY ServerIsSim, SimUniqueKeys, SimOwnership, SimHostLive, SimUdpMap, SimBanHolds,
       SimTokenRenewal, SimIsParty, PTL DEF ImplementsSim

(* The net thread's two maps stay each other's inverse under the commands  *)
(* the simulation thread really sends.                                     *)
THEOREM ServerMaps == ServerSpec => []MapsInverse
<1>1. NetBase => MapsInverse
    BY DEF NetBase, MapsAgree, MapsInverse
<1>2. QED
    BY <1>1, BaseInit, BaseStep, PTL DEF ServerSpec

-----------------------------------------------------------------------------
(* The reports of a connection come in order *)

(* A report is about a connection that has been accepted. *)
ReportsGiven ==
    \A i \in 1..Len(inbound) :
       inbound[i].kind # "UdpDatagram" => inbound[i].conn < nextConn

InOrder ==
    \A i, j \in 1..Len(inbound) : i < j => Net!Ordered(inbound[i], inbound[j])

LEMMA ReportsTyped ==
    ASSUME TypeOK
    PROVE  /\ nextConn \in Nat /\ Len(inbound) \in Nat /\ inbound \in Seq(InboundEvent)
           /\ \A i \in 1..Len(inbound) :
                 inbound[i].kind # "UdpDatagram" => inbound[i].conn \in Nat
<1>1. \A e \in InboundEvent : e.kind # "UdpDatagram" => e.conn \in Nat
    BY BoundsAssumption DEF InboundEvent, ConnIds
<1>2. QED
    BY <1>1, TypeParts, BoundsAssumption DEF InOK, ConnOK

(* Reports are taken from the front. *)
LEMMA OrderTaken ==
    ASSUME TypeOK, ReportsGiven, InOrder, nextConn' \in {nextConn, nextConn + 1},
           inbound' = inbound \/ (inbound # <<>> /\ inbound' = Tail(inbound))
    PROVE  ReportsGiven' /\ InOrder'
<1>0. nextConn \in Nat /\ nextConn =< nextConn' /\ nextConn' \in Nat
    BY ReportsTyped
<1>1. CASE inbound' = inbound
  <2>1. ReportsGiven'
      BY <1>0, <1>1, ReportsTyped DEF ReportsGiven
  <2>2. QED
      BY <1>1, <2>1 DEF InOrder, Net!Ordered
<1>2. CASE inbound # <<>> /\ inbound' = Tail(inbound)
  <2>1. /\ Len(inbound) \in Nat /\ Len(inbound') = Len(inbound) - 1
        /\ \A i \in 1..Len(inbound') : inbound'[i] = inbound[i + 1]
      BY <1>2, ReportsTyped
  <2>2. \A i \in 1..Len(inbound') : i + 1 \in 1..Len(inbound)
      BY <2>1
  <2>3. ReportsGiven'
      BY <1>0, <2>1, <2>2, ReportsTyped DEF ReportsGiven
  <2>4. ASSUME NEW i \in 1..Len(inbound'), NEW j \in 1..Len(inbound'), i < j
        PROVE  Net!Ordered(inbound'[i], inbound'[j])
    <3>1. i + 1 < j + 1
        BY <2>1, <2>4
    <3>2. Net!Ordered(inbound[i + 1], inbound[j + 1])
        BY <2>2, <2>4, <3>1 DEF InOrder
    <3>3. QED
        BY <2>1, <3>2
  <2>5. QED
      BY <2>3, <2>4 DEF InOrder, Net!Ordered
<1>3. QED
    BY <1>1, <1>2

(* A new report is put at the end, in its place among those about the same *)
(* connection.                                                             *)
LEMMA OrderPut ==
    ASSUME TypeOK, ReportsGiven, InOrder, nextConn' \in {nextConn, nextConn + 1},
           NEW e, inbound' = Append(inbound, e),
           e.kind # "UdpDatagram" => e.conn < nextConn',
           \A i \in 1..Len(inbound) : Net!Ordered(inbound[i], e)
    PROVE  ReportsGiven' /\ InOrder'
<1>0. nextConn \in Nat /\ nextConn =< nextConn' /\ nextConn' \in Nat
    BY ReportsTyped
<1>1. /\ Len(inbound) \in Nat /\ Len(inbound') = Len(inbound) + 1
      /\ inbound'[Len(inbound')] = e
      /\ \A i \in 1..Len(inbound) : inbound'[i] = inbound[i]
    BY ReportsTyped
<1>2. \A i \in 1..Len(inbound') : i \in 1..Len(inbound) \/ i = Len(inbound')
    BY <1>1
<1>3. ReportsGiven'
    BY <1>0, <1>1, <1>2, ReportsTyped DEF ReportsGiven
<1>4. ASSUME NEW i \in 1..Len(inbound'), NEW j \in 1..Len(inbound'), i < j
      PROVE  Net!Ordered(inbound'[i], inbound'[j])
  <2>1. i \in 1..Len(inbound)
      BY <1>1, <1>4
  <2>2. CASE j \in 1..Len(inbound)
    <3>1. Net!Ordered(inbound[i], inbound[j])
        BY <1>4, <2>1, <2>2 DEF InOrder
    <3>2. QED
        BY <1>1, <2>1, <2>2, <3>1
  <2>3. CASE j = Len(inbound')
      BY <1>1, <2>1, <2>3
  <2>4. QED
      BY <1>2, <2>2, <2>3
<1>5. QED
    BY <1>3, <1>4 DEF InOrder, Net!Ordered

(* The same, where the queue may be full. *)
LEMMA OrderPushed ==
    ASSUME TypeOK, ReportsGiven, InOrder, nextConn' \in {nextConn, nextConn + 1},
           NEW e, inbound' = Push(inbound, InCap, e),
           e.kind # "UdpDatagram" => e.conn < nextConn',
           \A i \in 1..Len(inbound) : Net!Ordered(inbound[i], e)
    PROVE  ReportsGiven' /\ InOrder'
    BY OrderTaken, OrderPut DEF Push

(* Of an open connection no close has been reported. *)
LEMMA OpenUnclosed ==
    ASSUME TypeOK, ClosedGone, NEW c \in DOMAIN conns
    PROVE  \A i \in 1..Len(inbound) :
              inbound[i].kind = "TcpClosed" => inbound[i].conn # c
<1>1. Range(inbound) = {inbound[i] : i \in 1..Len(inbound)}
    BY QueuesAreSeqs, RangeEquality DEF IsSeq
<1>2. QED
    BY <1>1 DEF ClosedGone

LEMMA OrderNet ==
    ASSUME SimBase, NetBase, ReportsGiven, InOrder, NetStep \/ Deliver
    PROVE  ReportsGiven' /\ InOrder'
<1>0. TypeOK /\ ClosedGone /\ ConnsGiven /\ nextConn \in Nat
    BY ReportsTyped DEF SimBase, NetBase
<1>1. CASE Net!AcceptReady
  <2>1. nextConn' = nextConn + 1 /\ inbound' = Push(inbound, InCap, Accepted(nextConn))
      BY <1>1, NetAccept DEF Reported
  <2>2. \A i \in 1..Len(inbound) :
           inbound[i].kind # "UdpDatagram" => inbound[i].conn # nextConn
      BY <1>0, ReportsTyped DEF ReportsGiven
  <2>3. Accepted(nextConn).conn = nextConn
      BY DEF Accepted
  <2>4. \A i \in 1..Len(inbound) : Net!Ordered(inbound[i], Accepted(nextConn))
      BY <2>2, <2>3 DEF Net!Ordered
  <2>5. QED
      BY <1>0, <2>1, <2>3, <2>4, OrderPushed
<1>2. ASSUME NEW c \in DOMAIN conns, Reported(Closed(c, conns[c])), nextConn' = nextConn
      PROVE  ReportsGiven' /\ InOrder'
  <2>1. Closed(c, conns[c]).kind = "TcpClosed" /\ Closed(c, conns[c]).conn = c
      BY DEF Closed
  <2>2. \A i \in 1..Len(inbound) : Net!Ordered(inbound[i], Closed(c, conns[c]))
      BY <1>0, <2>1, OpenUnclosed DEF Net!Ordered
  <2>3. c < nextConn'
      BY <1>0, <1>2 DEF ConnsGiven
  <2>4. QED
      BY <1>0, <1>2, <2>1, <2>2, <2>3, OrderPushed DEF Reported
<1>3. ASSUME NEW c \in DOMAIN conns, NEW m, Net!PollFrame(c, m)
      PROVE  ReportsGiven' /\ InOrder'
  <2>1. Frame(c, conns[c], m).kind = "TcpFrame" /\ Frame(c, conns[c], m).conn = c
      BY DEF Frame
  <2>2. \A i \in 1..Len(inbound) : Net!Ordered(inbound[i], Frame(c, conns[c], m))
      BY <1>0, <2>1, OpenUnclosed DEF Net!Ordered
  <2>3. nextConn' = nextConn /\ c < nextConn'
      BY <1>0, <1>3, NetFrame DEF ConnsGiven
  <2>4. CASE inbound' = Append(inbound, Frame(c, conns[c], m))
      BY <1>0, <2>1, <2>2, <2>3, <2>4, OrderPut
  <2>5. QED
      BY <1>2, <1>3, <2>3, <2>4, NetFrame
<1>4. ASSUME NEW a, NEW m, Net!PollUdp(a, m)
      PROVE  ReportsGiven' /\ InOrder'
  <2>1. Datagram(a, m).kind = "UdpDatagram"
      BY DEF Datagram
  <2>2. \A i \in 1..Len(inbound) : Net!Ordered(inbound[i], Datagram(a, m))
      BY <2>1 DEF Net!Ordered
  <2>3. QED
      BY <1>0, <1>4, <2>1, <2>2, NetUdp, OrderPushed
<1>5. ASSUME UNCHANGED <<inbound, nextConn>> PROVE ReportsGiven' /\ InOrder'
    BY <1>0, <1>5, OrderTaken
<1>6. CASE \/ Net!DoBindPeer \/ Net!DoCloseConn \/ Net!DoKeepPending \/ Net!Stop
    BY <1>5, <1>6, NetBind, NetClose, NetKeep, NetStop DEF Popped
<1>7. ASSUME NEW k, Net!DoSend(k) PROVE ReportsGiven' /\ InOrder'
    BY <1>5, <1>7, NetSend DEF Popped
<1>8. ASSUME NEW c \in DOMAIN conns, Net!PollClosed(c) PROVE ReportsGiven' /\ InOrder'
    BY <1>2, <1>8, NetHangup
<1>9. CASE NetStep
    BY <1>1, <1>3, <1>4, <1>6, <1>7, <1>8, <1>9, NetStepCases DEF NetCases
<1>10. CASE Deliver
    BY <1>7, <1>10 DEF Deliver
<1>11. QED
    BY <1>9, <1>10

LEMMA OrderStep ==
    SimBase /\ NetBase /\ ReportsGiven /\ InOrder /\ [ServerNext]_serverVars
      => ReportsGiven' /\ InOrder'
<1> SUFFICES ASSUME SimBase, NetBase, ReportsGiven, InOrder, [ServerNext]_serverVars
             PROVE  ReportsGiven' /\ InOrder'
    OBVIOUS
<1>1. CASE SimStep
  <2>1. SimThread /\ UNCHANGED ioVars
      BY <1>1 DEF SimStep, SimThread, Admin, Kick
  <2>2. inbound' = inbound \/ (inbound # <<>> /\ inbound' = Tail(inbound))
      BY <2>1, TakeCases DEF SimBase, TcpAccept, Take
  <2>3. nextConn' = nextConn
      BY <2>1, TakeCases
  <2>4. QED
      BY <2>2, <2>3, OrderTaken DEF SimBase
<1>2. CASE NetStep \/ Deliver
    BY <1>2, OrderNet
<1>3. CASE Stopped \/ UNCHANGED serverVars
  <2>1. UNCHANGED <<inbound, nextConn>>
      BY <1>3 DEF Stopped, serverVars, vars, ioVars, simVars, idVars
  <2>2. QED
      BY <2>1, OrderTaken DEF SimBase
<1>4. QED
    BY <1>1, <1>2, <1>3 DEF ServerNext

(* The session hears of a connection in the order accept, frames, close,   *)
(* and nothing after the close, with the commands it really sends, those   *)
(* that close connections among them (accept_ready, poll_conn, close_conn, *)
(* process_outbound), and however much a full inbound loses.               *)
THEOREM ServerOrder == ServerSpec => []ReportsOrdered
<1>1. ServerInit => ReportsGiven /\ InOrder
  <2>1. ServerInit => inbound = <<>>
      BY DEF ServerInit, Init
  <2>2. QED
      BY <2>1 DEF ReportsGiven, InOrder
<1>2. SimBase /\ NetBase /\ InOrder => ReportsOrdered
  <2> SUFFICES ASSUME SimBase, NetBase, InOrder PROVE ReportsOrdered
      OBVIOUS
  <2>1. \A i \in 1..Len(inbound) :
           inbound[i].kind = "TcpClosed" => inbound[i].conn \notin DOMAIN conns
      BY OpenUnclosed DEF SimBase, NetBase
  <2>2. QED
      BY <2>1 DEF ReportsOrdered, Net!ReportsInOrder, InOrder
<1>3. QED
    BY <1>1, <1>2, BaseInit, BaseStep, OrderStep, PTL DEF ServerSpec

-----------------------------------------------------------------------------
(* The threads agree *)

Lossless == ~inLost /\ ~outLost

(* The connection will not carry the peer once outbound has been drained:  *)
(* a command that binds them, or the binding, is undone by a later one.    *)
Settled(c, q) ==
    /\ Follows(outbound, {BindPeer(c, q)}, {KeepPending(q)})
    /\ c \in DOMAIN conns /\ conns[c] = q => KeepPending(q) \in Range(outbound)

OtherBinds(c, p) == {BindPeer(c, q) : q \in PeerIds \ {p}}

(* The connection, while it is open, will carry the peer. *)
Bound(c, p) ==
    c \in DOMAIN conns =>
       \/ conns[c] = p /\ \A x \in Range(outbound) : x \notin OtherBinds(c, p)
       \/ Clears(outbound, {BindPeer(c, p)}, OtherBinds(c, p))

OpenKnown ==
    \A c \in DOMAIN conns :
       \/ c \in Known
       \/ Accepted(c) \in Range(inbound)
       \/ CloseConn(c) \in Range(outbound)

PendingFree == \A c \in pendingTcp, q \in PeerIds : Settled(c, q)

ClientBound(p, c) ==
    /\ \A q \in PeerIds \ {p} : Settled(c, q)
    /\ KeepPending(p) \notin Range(outbound)
    /\ Bound(c, p)

ClientsBound == \A p \in DOMAIN clients : ClientBound(p, clients[p].conn)

AgreeInv == Lossless => OpenKnown /\ PendingFree /\ ClientsBound

LEMMA Commands3 ==
    ASSUME NEW c, NEW p
    PROVE  /\ BindPeer(c, p).kind = "BindPeer" /\ BindPeer(c, p).conn = c
           /\ BindPeer(c, p).peer = p
           /\ KeepPending(p).kind = "KeepPending" /\ KeepPending(p).peer = p
           /\ CloseConn(c).kind = "CloseConn" /\ CloseConn(c).conn = c
    BY DEF BindPeer, KeepPending, CloseConn

LEMMA CommandForms ==
    ASSUME NEW x \in OutboundCmd
    PROVE  /\ x.kind = "BindPeer" => x = BindPeer(x.conn, x.peer) /\ x.peer \in PeerIds
           /\ x.kind = "KeepPending" => x = KeepPending(x.peer)
           /\ x.kind = "CloseConn" => x = CloseConn(x.conn)
    BY DEF OutboundCmd, BindPeer, KeepPending, CloseConn

LEMMA OtherBindForm ==
    ASSUME NEW c, NEW p, NEW x \in OtherBinds(c, p)
    PROVE  x.kind = "BindPeer" /\ x.conn = c /\ x.peer # p
    BY Commands3 DEF OtherBinds

(* The simulation thread adds to outbound. *)
LEMMA SettledGrows ==
    ASSUME TypeOK, conns' = conns, NEW xs, IsSeq(xs), outbound' = outbound \o xs,
           NEW c, NEW q, BindPeer(c, q) \notin Range(xs),
           Settled(c, q) \/ KeepPending(q) \in Range(xs)
    PROVE  Settled(c, q)'
<1>1. IsSeq(outbound) /\ Range(outbound') = Range(outbound) \cup Range(xs)
    BY QueuesAreSeqs, SeqMore
<1>2. Follows(outbound', {BindPeer(c, q)}, {KeepPending(q)})
  <2>1. \A x \in Range(xs) : x \notin {BindPeer(c, q)}
      OBVIOUS
  <2>2. \/ Follows(outbound, {BindPeer(c, q)}, {KeepPending(q)})
        \/ \E x \in Range(xs) : x \in {KeepPending(q)}
      BY DEF Settled
  <2>3. QED
      BY <1>1, <2>1, <2>2, AddFollows
<1>3. QED
    BY <1>1, <1>2 DEF Settled

LEMMA BoundGrows ==
    ASSUME TypeOK, conns' = conns, NEW xs, IsSeq(xs), outbound' = outbound \o xs,
           NEW c, NEW p, \A x \in Range(xs) : x \notin OtherBinds(c, p),
           Bound(c, p) \/ BindPeer(c, p) \in Range(xs)
    PROVE  Bound(c, p)'
<1>1. IsSeq(outbound) /\ Range(outbound') = Range(outbound) \cup Range(xs)
    BY QueuesAreSeqs, SeqMore
<1>2. CASE Clears(outbound, {BindPeer(c, p)}, OtherBinds(c, p))
             \/ \E x \in Range(xs) : x \in {BindPeer(c, p)}
  <2>1. Clears(outbound', {BindPeer(c, p)}, OtherBinds(c, p))
      BY <1>1, <1>2, AddClears
  <2>2. QED
      BY <2>1 DEF Bound, OtherBinds
<1>3. CASE Bound(c, p) /\ ~Clears(outbound, {BindPeer(c, p)}, OtherBinds(c, p))
    BY <1>1, <1>3 DEF Bound, OtherBinds
<1>4. QED
    BY <1>2, <1>3

(* The net thread takes from it. *)
LEMMA SettledPops ==
    ASSUME TypeOK, NetMove, NEW c, NEW q \in PeerIds, Settled(c, q)
    PROVE  Settled(c, q)'
<1>0. q # 0 /\ IsSeq(outbound)
    BY QueuesAreSeqs, BoundsAssumption DEF PeerIds
<1>1. CASE outbound' = outbound
  <2>1. ~Popped("BindPeer") /\ ~Popped("KeepPending")
      BY <1>1, NoPop
  <2>2. c \in DOMAIN conns' /\ conns'[c] = q => c \in DOMAIN conns /\ conns[c] = q
      BY <1>0, <2>1 DEF NetMove
  <2>3. QED
      BY <1>1, <2>2 DEF Settled
<1>2. ASSUME NEW k, Popped(k) PROVE Settled(c, q)'
  <2> DEFINE x == Head(outbound)
  <2>1. /\ Range(outbound) = {x} \cup Range(outbound')
        /\ outbound # <<>> /\ outbound' = Tail(outbound) /\ x \in OutboundCmd
      BY <1>2, PoppedRange, HeadType DEF Popped
  <2>2. /\ Follows(outbound', {BindPeer(c, q)}, {KeepPending(q)})
        /\ x = BindPeer(c, q) => KeepPending(q) \in Range(outbound')
      BY <1>0, <2>1, PopFollows DEF Settled
  <2>3. ASSUME c \in DOMAIN conns', conns'[c] = q
        PROVE  KeepPending(q) \in Range(outbound')
    <3>1. CASE c \in DOMAIN conns /\ conns'[c] = conns[c]
      <4>1. KeepPending(q) \in Range(outbound)
          BY <2>3, <3>1 DEF Settled
      <4>2. x # KeepPending(q)
        <5>1. SUFFICES ASSUME x = KeepPending(q) PROVE FALSE
            OBVIOUS
        <5>2. x.kind = "KeepPending" /\ x.peer = q
            BY <5>1, Commands3
        <5>3. Popped("KeepPending")
            BY <1>2, <5>2 DEF Popped
        <5>4. QED
            BY <2>3, <5>2, <5>3 DEF NetMove
      <4>3. QED
          BY <2>1, <4>1, <4>2
    <3>2. CASE Popped("BindPeer") /\ x.conn = c /\ x.peer = conns'[c]
      <4>1. x = BindPeer(c, q)
          BY <2>1, <2>3, <3>2, CommandForms DEF Popped
      <4>2. QED
          BY <2>2, <4>1
    <3>3. QED
        BY <1>0, <2>3, <3>1, <3>2 DEF NetMove
  <2>4. QED
      BY <2>2, <2>3 DEF Settled
<1>3. QED
    BY <1>1, <1>2 DEF NetMove

LEMMA BoundPops ==
    ASSUME TypeOK, NetMove, NEW c, NEW p, c < nextConn, c \in ConnIds, p \in PeerIds,
           Bound(c, p), KeepPending(p) \notin Range(outbound)
    PROVE  Bound(c, p)'
<1>0. p # 0 /\ IsSeq(outbound) /\ c # nextConn
    BY QueuesAreSeqs, TypeParts, BoundsAssumption DEF PeerIds, ConnIds, ConnOK
<1>1. SUFFICES ASSUME c \in DOMAIN conns'
               PROVE  \/ /\ conns'[c] = p
                         /\ \A x \in Range(outbound') : x \notin OtherBinds(c, p)
                      \/ Clears(outbound', {BindPeer(c, p)}, OtherBinds(c, p))
    BY DEF Bound, OtherBinds
<1>2. c \in DOMAIN conns
    BY <1>0, <1>1 DEF NetMove
<1>3. CASE outbound' = outbound
  <2>1. ~Popped("BindPeer") /\ ~Popped("KeepPending")
      BY <1>3, NoPop
  <2>2. conns'[c] = conns[c]
      BY <1>0, <1>1, <2>1 DEF NetMove
  <2>3. QED
      BY <1>2, <1>3, <2>2 DEF Bound
<1>4. ASSUME NEW k, Popped(k)
      PROVE  \/ /\ conns'[c] = p
                /\ \A x \in Range(outbound') : x \notin OtherBinds(c, p)
             \/ Clears(outbound', {BindPeer(c, p)}, OtherBinds(c, p))
  <2> DEFINE x == Head(outbound)
  <2>1. /\ Range(outbound) = {x} \cup Range(outbound')
        /\ outbound # <<>> /\ outbound' = Tail(outbound) /\ x \in OutboundCmd
      BY <1>4, PoppedRange, HeadType DEF Popped
  <2>2. CASE conns[c] = p /\ \A y \in Range(outbound) : y \notin OtherBinds(c, p)
    <3>1. \A y \in Range(outbound') : y \notin OtherBinds(c, p)
        BY <2>1, <2>2
    <3>2. conns'[c] = p
      <4>1. ASSUME Popped("BindPeer"), x.conn = c, x.peer = conns'[c]
            PROVE  conns'[c] = p
        <5>1. x = BindPeer(c, conns'[c]) /\ conns'[c] \in PeerIds
            BY <2>1, <4>1, CommandForms DEF Popped
        <5>2. QED
            BY <2>1, <2>2, <5>1 DEF OtherBinds
      <4>2. ~(Popped("KeepPending") /\ x.peer = conns[c])
        <5>1. SUFFICES ASSUME Popped("KeepPending"), x.peer = p PROVE FALSE
            BY <2>2
        <5>2. x = KeepPending(p)
            BY <2>1, <5>1, CommandForms DEF Popped
        <5>3. QED
            BY <2>1, <5>2
      <4>3. QED
          BY <1>0, <1>1, <2>2, <4>1, <4>2 DEF NetMove
    <3>3. QED
        BY <3>1, <3>2
  <2>3. CASE Clears(outbound, {BindPeer(c, p)}, OtherBinds(c, p))
    <3>1. \/ Clears(outbound', {BindPeer(c, p)}, OtherBinds(c, p))
          \/ /\ x = BindPeer(c, p)
             /\ \A y \in Range(outbound') : y \notin OtherBinds(c, p)
        BY <1>0, <2>1, <2>3, PopClears
    <3>2. ASSUME x = BindPeer(c, p) PROVE conns'[c] = p
      <4>1. Popped("BindPeer") /\ x.conn = c /\ x.peer = p
          BY <1>4, <3>2, Commands3 DEF Popped
      <4>2. QED
          BY <1>1, <4>1 DEF NetMove
    <3>3. QED
        BY <3>1, <3>2
  <2>4. QED
      BY <1>2, <2>2, <2>3 DEF Bound
<1>5. QED
    BY <1>3, <1>4 DEF NetMove

LEMMA AgreeNet ==
    ASSUME SimBase, NetBase, AgreeInv, NetStep \/ Deliver
    PROVE  AgreeInv'
<1>0. TypeOK /\ UNCHANGED simVars
    BY NetStepCases DEF SimBase, Deliver
<1>1. NetMove /\ NetSays
    BY <1>0, NetMoves, NetReports DEF NetBase
<1>2. SUFFICES ASSUME Lossless' PROVE OpenKnown' /\ PendingFree' /\ ClientsBound'
    BY DEF AgreeInv
<1>3. UNCHANGED <<clients, pendingTcp, outLost>>
    BY <1>0 DEF simVars, memberVars
<1>4. Lossless /\ OpenKnown /\ PendingFree /\ ClientsBound
    BY <1>1, <1>2, <1>3 DEF Lossless, NetSays, AgreeInv
<1>5. Known' = Known
    BY <1>3 DEF Known, ConnOf
<1>6. Range(outbound') \subseteq Range(outbound)
    BY <1>0, <1>1, PoppedRange DEF NetMove
<1>7. OpenKnown'
  <2>1. SUFFICES ASSUME NEW c \in DOMAIN conns'
                 PROVE  \/ c \in Known
                        \/ Accepted(c) \in Range(inbound')
                        \/ CloseConn(c) \in Range(outbound')
      BY <1>5 DEF OpenKnown, Accepted, CloseConn
  <2>2. CASE Accepted(c) \in Range(inbound') \/ c \in Known
      BY <2>2
  <2>3. CASE c \in DOMAIN conns /\ CloseConn(c) \in Range(outbound)
    <3>1. CASE outbound' = outbound
        BY <2>3, <3>1
    <3>2. ASSUME NEW k, Popped(k) PROVE CloseConn(c) \in Range(outbound')
      <4>1. Range(outbound) = {Head(outbound)} \cup Range(outbound')
          BY <1>0, <3>2, PoppedRange
      <4>2. Head(outbound) # CloseConn(c)
        <5>1. SUFFICES ASSUME Head(outbound) = CloseConn(c) PROVE FALSE
            OBVIOUS
        <5>2. Popped("CloseConn") /\ Head(outbound).conn = c
            BY <3>2, <5>1, Commands3 DEF Popped
        <5>3. QED
            BY <1>1, <2>1, <5>2 DEF NetMove
      <4>3. QED
          BY <2>3, <4>1, <4>2
    <3>3. QED
        BY <1>1, <3>1, <3>2 DEF NetMove
  <2>4. QED
      BY <1>1, <1>2, <1>4, <2>1, <2>2, <2>3 DEF NetSays, Lossless, OpenKnown
<1>8. PendingFree'
    BY <1>0, <1>1, <1>3, <1>4, SettledPops DEF PendingFree, PeerIds
<1>9. ClientsBound'
  <2>1. SUFFICES ASSUME NEW p \in DOMAIN clients
                 PROVE  ClientBound(p, clients[p].conn)'
      BY <1>3 DEF ClientsBound
  <2> DEFINE c == clients[p].conn
  <2>2. ClientBound(p, c) /\ c \in ConnIds /\ p \in PeerIds /\ c < nextConn
      BY <1>0, <1>4, TypeParts, ClientFields
         DEF ClientsBound, SimBase, AcceptsFresh, Known, ConnOf
  <2>3. \A q \in PeerIds \ {p} : Settled(c, q)'
      BY <1>0, <1>1, <1>3, <2>2, SettledPops DEF ClientBound
  <2>4. KeepPending(p) \notin Range(outbound')
      BY <1>6, <2>2 DEF ClientBound
  <2>5. Bound(c, p)'
      BY <1>0, <1>1, <1>3, <2>2, BoundPops DEF ClientBound
  <2>6. QED
      BY <1>3, <2>3, <2>4, <2>5 DEF ClientBound, PeerIds, KeepPending
<1>10. QED
    BY <1>7, <1>8, <1>9

(* What a step of the simulation thread that adds the commands E owes each *)
(* connection: an open one is not forgotten, ...                           *)
Unbinds(c, E) == \A x \in E : x.kind = "BindPeer" => x.conn # c

KnownStays(E) ==
    \A c \in DOMAIN conns :
       c \in Known \/ Accepted(c) \in Range(inbound) =>
          \/ c \in Known'
          \/ Accepted(c) \in Range(inbound')
          \/ CloseConn(c) \in E

(* ... a pending one was pending, is new, or loses its client, ...         *)
PendingStays(E) ==
    \A c \in pendingTcp' :
       /\ Unbinds(c, E)
       /\ \/ c \in pendingTcp
          \/ /\ c \in DOMAIN conns => conns[c] = 0
             /\ Unbinds(c, Range(outbound))
          \/ \E p \in DOMAIN clients :
                clients[p].conn = c /\ KeepPending(p) \in E

(* ... and a client keeps the one it has or is given a pending one.        *)
ClientStays(p, c, E) ==
    /\ KeepPending(p) \notin E
    /\ \/ p \in DOMAIN clients /\ clients[p].conn = c /\ Unbinds(c, E)
       \/ /\ c \in pendingTcp /\ BindPeer(c, p) \in E
          /\ \A x \in E : x.kind = "BindPeer" => x.peer = p
          /\ KeepPending(p) \notin Range(outbound)

LEMMA ClientsBoundNext ==
    ASSUME \A p \in DOMAIN clients' :
              \A c : c = clients'[p].conn => ClientBound(p, c)'
    PROVE  ClientsBound'
<1>1. \A p \in DOMAIN clients' :
         /\ \A q \in PeerIds \ {p} : Settled(clients[p].conn, q)'
         /\ KeepPending(p) \notin Range(outbound')
         /\ Bound(clients[p].conn, p)'
    BY DEF ClientBound, Settled, Bound, OtherBinds
<1>2. QED
    BY <1>1 DEF ClientsBound, ClientBound

LEMMA AgreeGrows ==
    ASSUME SimBase, AgreeInv, Lossless', UNCHANGED ioVars, NEW E, Adds(E),
           KnownStays(E), PendingStays(E),
           \A p \in DOMAIN clients' : p \in PeerIds /\ ClientStays(p, clients'[p].conn, E)
    PROVE  OpenKnown' /\ PendingFree' /\ ClientsBound'
<1>1. /\ OutOK /\ TypeOK /\ inLost' = inLost /\ conns' = conns
      /\ ~outLost' /\ ~inLost'
    BY TypeParts DEF SimBase, ioVars, Lossless
<1>2. ~outLost
    BY <1>1, AddsAll
<1>3. PICK xs : IsSeq(xs) /\ Range(xs) = E /\ outbound' = outbound \o xs
    BY <1>1, AddsAll
<1>4. OpenKnown /\ PendingFree /\ ClientsBound
    BY <1>1, <1>2 DEF AgreeInv, Lossless
<1>5. Range(outbound') = Range(outbound) \cup E /\ IsSeq(outbound)
    BY <1>1, <1>3, QueuesAreSeqs, SeqMore
<1>6. ASSUME NEW c, NEW q, Unbinds(c, E) PROVE BindPeer(c, q) \notin Range(xs)
    BY <1>3, <1>6, Commands3 DEF Unbinds
<1>7. ASSUME NEW p \in DOMAIN clients PROVE ClientBound(p, clients[p].conn)
    BY <1>4 DEF ClientsBound
<1>8. OpenKnown'
  <2>1. SUFFICES ASSUME NEW c \in DOMAIN conns
                 PROVE  \/ c \in Known'
                        \/ Accepted(c) \in Range(inbound')
                        \/ CloseConn(c) \in Range(outbound')
      BY <1>1 DEF OpenKnown, Accepted, CloseConn
  <2>2. QED
      BY <1>4, <1>5 DEF OpenKnown, KnownStays
<1>9. ASSUME NEW c \in pendingTcp', NEW q \in PeerIds PROVE Settled(c, q)'
  <2>1. BindPeer(c, q) \notin Range(xs) /\ Unbinds(c, E)
      BY <1>6, <1>9 DEF PendingStays
  <2>2. Settled(c, q) \/ KeepPending(q) \in Range(xs)
    <3>1. CASE c \in pendingTcp
        BY <1>4, <1>9, <3>1 DEF PendingFree
    <3>2. CASE (c \in DOMAIN conns => conns[c] = 0) /\ Unbinds(c, Range(outbound))
      <4>1. \A x \in Range(outbound) : x \notin {BindPeer(c, q)}
          BY <3>2, Commands3 DEF Unbinds
      <4>2. Follows(outbound, {BindPeer(c, q)}, {KeepPending(q)})
          BY <1>5, <4>1, NoneFollows
      <4>3. ~(c \in DOMAIN conns /\ conns[c] = q)
          BY <1>9, <3>2, BoundsAssumption DEF PeerIds
      <4>4. QED
          BY <4>2, <4>3 DEF Settled
    <3>3. ASSUME NEW p \in DOMAIN clients, clients[p].conn = c, KeepPending(p) \in E
          PROVE  Settled(c, q) \/ KeepPending(q) \in Range(xs)
      <4>1. CASE q = p
          BY <1>3, <3>3, <4>1
      <4>2. CASE q # p
          BY <1>7, <1>9, <3>3, <4>2 DEF ClientBound
      <4>3. QED
          BY <4>1, <4>2
    <3>4. QED
        BY <1>9, <3>1, <3>2, <3>3 DEF PendingStays
  <2>3. QED
      BY <1>1, <1>3, <2>1, <2>2, SettledGrows
<1>10. PendingFree'
    BY <1>9 DEF PendingFree, PeerIds
<1>11. ASSUME NEW p \in DOMAIN clients', NEW c, c = clients'[p].conn
       PROVE  ClientBound(p, c)'
  <2>0. ClientStays(p, c, E) /\ p \in PeerIds
      BY <1>11
  <2>1. CASE p \in DOMAIN clients /\ clients[p].conn = c /\ Unbinds(c, E)
    <3>1. ClientBound(p, c)
        BY <1>7, <2>1
    <3>2. \A q \in PeerIds \ {p} : Settled(c, q)'
        BY <1>1, <1>3, <1>6, <2>1, <3>1, SettledGrows DEF ClientBound
    <3>3. KeepPending(p) \notin Range(outbound')
        BY <1>5, <2>0, <3>1 DEF ClientBound, ClientStays
    <3>4. \A x \in Range(xs) : x \notin OtherBinds(c, p)
        BY <1>3, <2>1, OtherBindForm DEF Unbinds
    <3>5. Bound(c, p)'
        BY <1>1, <1>3, <3>1, <3>4, BoundGrows DEF ClientBound
    <3>6. QED
        BY <3>2, <3>3, <3>5 DEF ClientBound
  <2>2. CASE /\ c \in pendingTcp /\ BindPeer(c, p) \in E
             /\ \A x \in E : x.kind = "BindPeer" => x.peer = p
             /\ KeepPending(p) \notin Range(outbound)
    <3>1. \A q \in PeerIds \ {p} : BindPeer(c, q) \notin Range(xs) /\ Settled(c, q)
        BY <1>3, <1>4, <2>2, Commands3 DEF PendingFree
    <3>2. \A q \in PeerIds \ {p} : Settled(c, q)'
        BY <1>1, <1>3, <3>1, SettledGrows
    <3>3. KeepPending(p) \notin Range(outbound')
        BY <1>5, <2>0, <2>2 DEF ClientStays
    <3>4. \A x \in Range(xs) : x \notin OtherBinds(c, p)
        BY <1>3, <2>2, OtherBindForm
    <3>5. Bound(c, p)'
        BY <1>1, <1>3, <2>2, <3>4, BoundGrows
    <3>6. QED
        BY <3>2, <3>3, <3>5 DEF ClientBound
  <2>3. QED
      BY <2>0, <2>1, <2>2 DEF ClientStays
<1>12. ClientsBound'
    BY <1>11, ClientsBoundNext
<1>13. QED
    BY <1>8, <1>10, <1>12

Fits(E) ==
    /\ Adds(E) /\ KnownStays(E) /\ PendingStays(E)
    /\ \A p \in DOMAIN clients' : ClientStays(p, clients'[p].conn, E)

(* Commands that neither bind a peer nor give its connection back. *)
Plain(E) == \A x \in E : x.kind \notin {"BindPeer", "KeepPending"}

LEMMA PlainFits ==
    ASSUME NEW E, Plain(E)
    PROVE  /\ \A c : Unbinds(c, E)
           /\ \A p : KeepPending(p) \notin E
    BY Commands3 DEF Plain, Unbinds

LEMMA WaitingAccepts ==
    ASSUME TypeOK, SimThread, ~TcpAccept, NEW c, Accepted(c) \in Range(inbound)
    PROVE  Accepted(c) \in Range(inbound')
<1>1. CASE inbound' = inbound
    BY <1>1
<1>2. CASE inbound # <<>> /\ Event.kind # "TcpAccept" /\ inbound' = Tail(inbound)
  <2>1. Accepted(c) # Head(inbound)
      BY <1>2 DEF Accepted, Event
  <2>2. QED
      BY <1>2, <2>1, QueuesAreSeqs, PopRange
<1>3. QED
    BY <1>1, <1>2, TakeCases

LEMMA AcceptFits ==
    ASSUME SimBase, NetBase, TcpAccept PROVE \E E : Fits(E)
<1>0. /\ TypeOK /\ OutOK /\ inbound # <<>> /\ Event.kind = "TcpAccept"
      /\ inbound' = Tail(inbound) /\ pendingTcp' = pendingTcp \cup {Event.conn}
      /\ UNCHANGED <<clients, outVars>>
    BY TypeParts DEF SimBase, TcpAccept, Take
<1>1. Adds({})
    BY <1>0, AddsNothing
<1>2. Event \in Range(inbound) /\ Range(inbound) = {Event} \cup Range(inbound')
    BY <1>0, QueuesAreSeqs, PopRange DEF Event
<1>3. KnownStays({})
  <2>1. ASSUME NEW c, Accepted(c) = Event PROVE c \in pendingTcp'
      BY <1>0, <2>1 DEF Accepted
  <2>2. QED
      BY <1>0, <1>2, <2>1 DEF KnownStays, Known, ConnOf
<1>4. PendingStays({})
    BY <1>0, <1>2 DEF PendingStays, Unbinds, NetBase, AcceptsQuiet
<1>5. \A p \in DOMAIN clients' : ClientStays(p, clients'[p].conn, {})
    BY <1>0 DEF ClientStays, Unbinds
<1>6. QED
    BY <1>1, <1>3, <1>4, <1>5 DEF Fits

(* Everybody stays, and the connections that cease to be pending are       *)
(* closed, or the step closes them.                                        *)
LEMMA StayFits ==
    ASSUME TypeOK, SimThread, ~TcpAccept, NEW E, Adds(E), Plain(E),
           DOMAIN clients' = DOMAIN clients,
           \A p \in DOMAIN clients : clients'[p].conn = clients[p].conn,
           pendingTcp' \subseteq pendingTcp,
           \A c \in pendingTcp \ pendingTcp' :
              c \in DOMAIN conns => CloseConn(c) \in E
    PROVE  Fits(E)
<1>1. KnownStays(E)
    BY WaitingAccepts DEF KnownStays, Known, ConnOf
<1>2. PendingStays(E)
    BY PlainFits DEF PendingStays
<1>3. \A p \in DOMAIN clients' : ClientStays(p, clients'[p].conn, E)
    BY PlainFits DEF ClientStays
<1>4. QED
    BY <1>1, <1>2, <1>3 DEF Fits

LEMMA TookGone ==
    ASSUME TypeOK, NetBase, TookClosed PROVE Event.conn \notin DOMAIN conns
<1>1. Event \in Range(inbound)
    BY QueuesAreSeqs, PopRange DEF Event, TookClosed
<1>2. QED
    BY <1>1 DEF TookClosed, NetBase, ClosedGone

LEMMA RemovedFits ==
    ASSUME SimBase, NetBase, SimThread, ~TcpAccept,
           NEW p \in DOMAIN clients, Removed(p)
    PROVE  \E E : Fits(E)
<1> DEFINE c == clients[p].conn
<1>0. /\ TypeOK /\ DOMAIN clients' = DOMAIN clients \ {p}
      /\ \A q \in DOMAIN clients' : clients'[q] = clients[q]
    BY DEF SimBase, Removed, Left, Kicked, Without
<1>1. ASSUME NEW E, Adds(E),
             \A x \in E : x.kind # "BindPeer",
             \A x \in E : x.kind = "KeepPending" => x = KeepPending(p),
             pendingTcp' \subseteq pendingTcp \cup {c},
             c \in pendingTcp' => KeepPending(p) \in E,
             \A d \in (pendingTcp \cup {c}) \ pendingTcp' :
                d \in DOMAIN conns => CloseConn(d) \in E
      PROVE  Fits(E)
  <2>1. KnownStays(E)
    <3>1. \A d \in Known \ {c} : d \in pendingTcp \/ d \in Known'
        BY <1>0 DEF Known, ConnOf
    <3>2. QED
        BY <1>0, <1>1, <3>1, WaitingAccepts DEF KnownStays, Known
  <2>2. \A d : Unbinds(d, E)
      BY <1>1 DEF Unbinds
  <2>3. PendingStays(E)
      BY <1>1, <2>2 DEF PendingStays
  <2>4. \A q \in DOMAIN clients' : ClientStays(q, clients'[q].conn, E)
    <3>1. \A q \in DOMAIN clients' : KeepPending(q) \notin E
        BY <1>0, <1>1, Commands3
    <3>2. QED
        BY <1>0, <2>2, <3>1 DEF ClientStays
  <2>5. QED
      BY <1>1, <2>1, <2>3, <2>4 DEF Fits
<1>2. c \notin pendingTcp
    BY DEF SimBase, ConnOwnership
<1>3. \A S : \A x \in SendSet(S, Say("Bye", p)) : x.kind = "TcpSend"
    BY SendKind
<1>4. \A x \in ByeSet(p) : x.kind = "TcpSend"
    BY <1>3 DEF ByeSet
<1>5. TookClosed => Event.conn \notin DOMAIN conns
    BY <1>0, TookGone
<1>6. CASE /\ pendingTcp' = pendingTcp \cup {c}
           /\ Adds(ByeSet(p) \cup {KeepPending(p)})
    BY <1>1, <1>4, <1>6, Commands3
<1>7. ASSUME NEW B, \A x \in B : x.kind = "TcpSend",
             pendingTcp' = pendingTcp \/ (TookClosed /\ pendingTcp' = pendingTcp \ {Event.conn}),
             Adds(B \cup {CloseConn(c)})
      PROVE  \E E : Fits(E)
  <2> DEFINE E == B \cup {CloseConn(c)}
  <2>1. /\ \A x \in E : x.kind # "BindPeer" /\ x.kind # "KeepPending"
        /\ CloseConn(c) \in E /\ Adds(E)
      BY <1>7, Commands3
  <2>2. /\ pendingTcp' \subseteq pendingTcp
        /\ \A d \in (pendingTcp \cup {c}) \ pendingTcp' : d = c \/ d \notin DOMAIN conns
      BY <1>5, <1>7
  <2> HIDE DEF E
  <2>3. Fits(E)
      BY <1>1, <1>2, <2>1, <2>2
  <2>4. QED
      BY <2>3
<1>8. CASE /\ TookClosed /\ pendingTcp' = pendingTcp \ {Event.conn}
           /\ c = Event.conn
           /\ Adds(ByeSet(p))
  <2>1. /\ pendingTcp' \subseteq pendingTcp
        /\ \A d \in (pendingTcp \cup {c}) \ pendingTcp' : d \notin DOMAIN conns
      BY <1>5, <1>8
  <2>2. Fits(ByeSet(p))
      BY <1>1, <1>2, <1>4, <1>8, <2>1
  <2>3. QED
      BY <2>2
<1>9. QED
    BY <1>3, <1>4, <1>6, <1>7, <1>8 DEF Removed, Left, Kicked

LEMMA JoinsFits ==
    ASSUME SimBase, NetBase, AgreeInv, Lossless', UNCHANGED ioVars,
           SimThread, ~TcpAccept, NEW p, Joins(p)
    PROVE  \E E : Fits(E)
<1> DEFINE c == Event.conn
           E == JoinSet(p, c)
<1>0. /\ TypeOK /\ OutOK /\ Adds(E) /\ c \in pendingTcp /\ pendingTcp' = pendingTcp \ {c}
      /\ DOMAIN clients' = DOMAIN clients \cup {p} /\ clients'[p].conn = c
      /\ \A q \in DOMAIN clients \ {p} : clients'[q].conn = clients[q].conn
      /\ p \in DOMAIN clients \/ p = nextPeer
    BY TypeParts DEF SimBase, Joins
<1>1. \A q \in DOMAIN clients : clients[q].conn # c
    BY <1>0 DEF SimBase, ConnOwnership
<1>2. /\ \A x \in E : \/ x.kind = "TcpSend" \/ x.kind = "CloseConn"
                      \/ x = BindPeer(c, p)
      /\ BindPeer(c, p) \in E
      /\ p \in DOMAIN clients => CloseConn(clients[p].conn) \in E
    BY <1>1, SendKind, Commands3 DEF JoinSet
<1> HIDE DEF E
<1>3. /\ \A x \in E : x.kind = "BindPeer" => x.conn = c /\ x.peer = p
      /\ \A q : KeepPending(q) \notin E
    BY <1>2, Commands3
<1>4. KnownStays(E)
  <2>1. \A d \in Known : d \in Known' \/ CloseConn(d) \in E
    <3>1. \A q \in DOMAIN clients' : clients'[q].conn \in Known'
        BY DEF Known, ConnOf
    <3>2. \A d \in pendingTcp : d \in Known'
        BY <1>0, <3>1 DEF Known
    <3>3. \A q \in DOMAIN clients :
             clients[q].conn \in Known' \/ CloseConn(clients[q].conn) \in E
        BY <1>0, <1>2, <3>1
    <3>4. QED
        BY <3>2, <3>3 DEF Known, ConnOf
  <2>2. QED
      BY <1>0, <2>1, WaitingAccepts DEF KnownStays
<1>5. PendingStays(E)
    BY <1>0, <1>3 DEF PendingStays, Unbinds
<1>6. KeepPending(p) \notin Range(outbound)
  <2>1. CASE p \in DOMAIN clients
    <3>1. ~outLost /\ ~inLost
        BY <1>0, AddsAll DEF ioVars, Lossless
    <3>2. ClientBound(p, clients[p].conn)
        BY <2>1, <3>1 DEF AgreeInv, Lossless, ClientsBound
    <3>3. QED
        BY <3>2 DEF ClientBound
  <2>2. CASE p = nextPeer
    <3>1. nextPeer \in Nat /\ ~(nextPeer < nextPeer)
        BY <1>0, TypeParts, BoundsAssumption DEF PeerOK
    <3>2. QED
        BY <2>2, <3>1, Commands3 DEF NetBase, Handed
  <2>3. QED
      BY <1>0, <2>1, <2>2
<1>7. \A q \in DOMAIN clients' : ClientStays(q, clients'[q].conn, E)
  <2>1. ASSUME NEW q \in DOMAIN clients', q # p
        PROVE  ClientStays(q, clients'[q].conn, E)
      BY <1>0, <1>1, <1>3, <2>1 DEF ClientStays, Unbinds
  <2>2. ClientStays(p, clients'[p].conn, E)
      BY <1>0, <1>2, <1>3, <1>6 DEF ClientStays
  <2>3. QED
      BY <2>1, <2>2
<1>8. QED
    BY <1>0, <1>4, <1>5, <1>7 DEF Fits

LEMMA AgreeSim ==
    ASSUME SimBase, NetBase, AgreeInv, SimBase', SimThread, UNCHANGED ioVars
    PROVE  AgreeInv'
<1>0. TypeOK /\ PeersFresh /\ OutOK
    BY TypeParts DEF SimBase
<1>1. SUFFICES ASSUME Lossless' PROVE OpenKnown' /\ PendingFree' /\ ClientsBound'
    BY DEF AgreeInv
<1>2. \E E : Fits(E)
  <2>1. CASE TcpAccept
      BY <2>1, AcceptFits
  <2>2. CASE ~TcpAccept /\ Talks
    <3>1. PICK E : Adds(E) /\ \A x \in E : Talk(x)
        BY <2>2 DEF Talks
    <3>2. Plain(E)
        BY <3>1 DEF Talk, Plain
    <3>3. Fits(E)
        BY <1>0, <2>2, <3>1, <3>2, StayFits DEF Talks, SameHolders
    <3>4. QED
        BY <3>3
  <2>3. CASE ~TcpAccept /\ ClosedAlone
    <3>1. /\ TookClosed /\ pendingTcp' = pendingTcp \ {Event.conn}
          /\ UNCHANGED <<clients, outVars>>
        BY <2>3 DEF ClosedAlone
    <3>2. Adds({}) /\ Plain({}) /\ Event.conn \notin DOMAIN conns
        BY <1>0, <3>1, AddsNothing, TookGone DEF Plain
    <3>3. Fits({})
        BY <1>0, <2>3, <3>1, <3>2, StayFits
    <3>4. QED
        BY <3>3
  <2>4. ASSUME ~TcpAccept, NEW c \in pendingTcp, ExpirePending(c)
        PROVE  Fits({CloseConn(c)})
    <3>1. /\ pendingTcp' = pendingTcp \ {c} /\ clients' = clients
          /\ Adds({CloseConn(c)})
        BY <2>4, SeqOne DEF ExpirePending, Adds
    <3>2. Plain({CloseConn(c)})
        BY Commands3 DEF Plain
    <3>3. QED
        BY <1>0, <2>4, <3>1, <3>2, StayFits
  <2>5. ASSUME ~TcpAccept, NEW p \in DOMAIN clients, Removed(p) PROVE \E E : Fits(E)
      BY <2>5, RemovedFits
  <2>6. ASSUME ~TcpAccept, NEW p, Joins(p) PROVE \E E : Fits(E)
      BY <1>1, <2>6, JoinsFits
  <2>7. QED
      BY <1>0, <2>1, <2>2, <2>3, <2>4, <2>5, <2>6, SimThreadCases
         DEF SimCases, Removed
<1>3. \A p \in DOMAIN clients' : p \in PeerIds
    BY DEF SimBase, TypeOK
<1>4. QED
    BY <1>1, <1>2, <1>3, AgreeGrows DEF Fits

LEMMA AgreeInit == ServerInit => AgreeInv
<1> SUFFICES ASSUME ServerInit PROVE OpenKnown /\ PendingFree /\ ClientsBound
    BY DEF AgreeInv
<1>1. DOMAIN conns = {} /\ pendingTcp = {} /\ DOMAIN clients = {}
    BY DEF ServerInit, Init, Net!Init
<1>2. QED
    BY <1>1 DEF OpenKnown, PendingFree, ClientsBound

LEMMA AgreeKept ==
    SimBase /\ NetBase /\ AgreeInv /\ [ServerNext]_serverVars => AgreeInv'
<1> SUFFICES ASSUME SimBase, NetBase, AgreeInv, [ServerNext]_serverVars
             PROVE  AgreeInv'
    OBVIOUS
<1>1. CASE SimStep
  <2>1. SimThread /\ UNCHANGED ioVars
      BY <1>1 DEF SimStep, SimThread, Admin, Kick
  <2>2. QED
      BY <2>1, BaseStep, AgreeSim
<1>2. CASE NetStep \/ Deliver
    BY <1>2, AgreeNet
<1>3. CASE Stopped \/ UNCHANGED serverVars
  <2>1. UNCHANGED <<inbound, outbound, clients, pendingTcp, conns, inLost, outLost>>
      BY <1>3 DEF Stopped, serverVars, vars, ioVars, simVars, memberVars
  <2>2. UNCHANGED <<Lossless, OpenKnown, PendingFree, ClientsBound>>
      BY <2>1 DEF Lossless, OpenKnown, PendingFree, ClientsBound, Known, ConnOf,
                  ClientBound, Settled, Bound, OtherBinds
  <2>3. QED
      BY <2>2 DEF AgreeInv
<1>4. QED
    BY <1>1, <1>2, <1>3 DEF ServerNext

(* With nothing waiting in either queue and nothing lost, the invariant is *)
(* the agreement.                                                          *)
LEMMA AgreeMeans == SimBase /\ NetBase /\ AgreeInv => Agreement
<1> SUFFICES ASSUME SimBase, NetBase, AgreeInv, inbound = <<>>, outbound = <<>>,
                    ~inLost, ~outLost
             PROVE  /\ DOMAIN conns \subseteq Known
                    /\ \A c \in pendingTcp \cap DOMAIN conns : conns[c] = 0
                    /\ \A p \in DOMAIN clients :
                         clients[p].conn \in DOMAIN conns => conns[clients[p].conn] = p
    BY DEF Agreement, Known
<1>1. OpenKnown /\ PendingFree /\ ClientsBound
    BY DEF AgreeInv, Lossless
<1>2. Range(inbound) = {} /\ Range(outbound) = {} /\ Len(outbound) = 0
    BY SeqNone
<1>3. DOMAIN conns \subseteq Known
    BY <1>1, <1>2 DEF OpenKnown
<1>4. ASSUME NEW c \in pendingTcp, c \in DOMAIN conns PROVE conns[c] = 0
  <2>1. conns[c] \in PeerIds \cup {0}
      BY <1>4, OpenConn DEF NetBase
  <2>2. \A q \in PeerIds : conns[c] # q
      BY <1>1, <1>2, <1>4 DEF PendingFree, Settled
  <2>3. QED
      BY <2>1, <2>2
<1>5. ASSUME NEW p \in DOMAIN clients, clients[p].conn \in DOMAIN conns
      PROVE  conns[clients[p].conn] = p
  <2>1. Bound(clients[p].conn, p)
      BY <1>1 DEF ClientsBound, ClientBound
  <2>2. \A B, A : ~Clears(outbound, B, A)
      BY <1>2 DEF Clears
  <2>3. QED
      BY <1>5, <2>1, <2>2 DEF Bound
<1>6. QED
    BY <1>3, <1>4, <1>5

(* The two threads never drift apart: whenever both queues have been       *)
(* drained and nothing was refused by a full one, every open connection is *)
(* known to the session, a pending one carries no peer and a client's      *)
(* carries exactly that client, however Hello, Bye, reconnects, expiry and *)
(* hang-ups crossed in the queues (apply_inbound, process_outbound).       *)
THEOREM ServerAgreement == ServerSpec => []Agreement
    BY BaseInit, BaseStep, AgreeInit, AgreeKept, AgreeMeans, PTL DEF ServerSpec

-----------------------------------------------------------------------------
(* No player who has left is still shown *)

(* The commands that show the client on a connection a player, and those   *)
(* that make it forget him.                                                *)
Shows(c, q) ==
    {x \in OutboundCmd :
       /\ x.kind = "TcpSend" /\ c \in x.conns
       /\ \/ x.msg.type = "Roster" /\ q \in x.msg.peers
          \/ x.msg.type = "Blob" /\ x.msg.peer = q}

Forgets(c, q) ==
    {x \in OutboundCmd :
       /\ x.kind = "TcpSend" /\ c \in x.conns
       /\ \/ x.msg.type = "Roster" /\ q \notin x.msg.peers
          \/ x.msg.type = "Bye" /\ x.msg.peer = q}

(* Once outbound has been drained the client does not show the player, or  *)
(* was never told that he left.                                            *)
Gone(c, q) ==
    \/ q \in unsaid[c] \cup unheard[c]
    \/ q \notin told[c] /\ \A x \in Range(outbound) : x \notin Shows(c, q)
    \/ Clears(outbound, Forgets(c, q), Shows(c, q))

Forgotten ==
    ~outLost =>
      \A p \in DOMAIN clients :
         clients[p].conn \in DOMAIN conns =>
            \A q : q \notin Others(p) => Gone(clients[p].conn, q)

LEMMA GoneGrows ==
    ASSUME TypeOK, NEW xs, IsSeq(xs), outbound' = outbound \o xs, NEW c, NEW q,
           UNCHANGED <<told, unheard>>, unsaid[c] \subseteq unsaid'[c],
           \A x \in Range(xs) : x \notin Shows(c, q),
           \/ Gone(c, q) \/ q \in unsaid'[c]
           \/ \E x \in Range(xs) : x \in Forgets(c, q)
    PROVE  Gone(c, q)'
<1>1. IsSeq(outbound) /\ Range(outbound') = Range(outbound) \cup Range(xs)
    BY QueuesAreSeqs, SeqMore
<1>2. CASE Clears(outbound, Forgets(c, q), Shows(c, q))
             \/ \E x \in Range(xs) : x \in Forgets(c, q)
  <2>1. Clears(outbound', Forgets(c, q), Shows(c, q))
      BY <1>1, <1>2, AddClears
  <2>2. QED
      BY <2>1 DEF Gone, Forgets, Shows
<1>3. CASE /\ Gone(c, q) /\ ~Clears(outbound, Forgets(c, q), Shows(c, q))
           /\ q \notin unsaid[c] \cup unheard[c]
  <2>1. q \notin told'[c] /\ \A x \in Range(outbound') : x \notin Shows(c, q)
      BY <1>1, <1>3 DEF Gone
  <2>2. QED
      BY <2>1 DEF Gone, Shows
<1>4. CASE q \in unsaid[c] \cup unheard[c] \/ q \in unsaid'[c]
    BY <1>4 DEF Gone
<1>5. QED
    BY <1>2, <1>3, <1>4

(* A message is heard as it says. *)
LEMMA HeardIs ==
    ASSUME NEW T, NEW m, NEW q
    PROVE  /\ m.type = "Roster" => Heard(T, m) = m.peers
           /\ m.type = "Bye" /\ m.peer = q => q \notin Heard(T, m)
           /\ q \in Heard(T, m) =>
                \/ q \in T
                \/ m.type = "Roster" /\ q \in m.peers
                \/ m.type = "Blob" /\ m.peer = q
    BY DEF Heard

LEMMA GoneDelivered ==
    ASSUME TypeOK, Deliver, NEW c \in ConnIds, c \in DOMAIN conns, NEW q, Gone(c, q)
    PROVE  Gone(c, q)'
<1> DEFINE x == Head(outbound)
<1>1. Popped("TcpSend")
    BY NetSend DEF Deliver
<1>2. /\ Range(outbound) = {x} \cup Range(outbound') /\ IsSeq(outbound)
      /\ outbound # <<>> /\ outbound' = Tail(outbound) /\ x \in OutboundCmd
      /\ x.kind = "TcpSend"
    BY <1>1, PoppedRange, HeadType, QueuesAreSeqs DEF Popped
<1>3. /\ \/ told'[c] = told[c] /\ told[c] \ Heard(told[c], x.msg) \subseteq unheard'[c]
         \/ told'[c] = told[c] /\ c \notin x.conns
         \/ told'[c] = Heard(told[c], x.msg)
      /\ unheard[c] \subseteq unheard'[c] /\ unsaid' = unsaid
  <2>1. PICK R \in SUBSET (x.conns \cap DOMAIN conns) :
          /\ told' = [d \in ConnIds |-> IF d \in (x.conns \cap DOMAIN conns) \ R
                                       THEN Heard(told[d], x.msg) ELSE told[d]]
          /\ unheard' = [d \in ConnIds |-> unheard[d] \cup
                            IF d \in R THEN told[d] \ Heard(told[d], x.msg) ELSE {}]
      BY DEF Deliver
  <2>2. QED
      BY <2>1 DEF Deliver
<1>4. x \in Forgets(c, q) => q \notin told'[c] \/ q \in unheard'[c]
  <2>1. x \in Forgets(c, q) => c \in x.conns /\ q \notin Heard(told[c], x.msg)
      BY <1>2, HeardIs DEF Forgets
  <2>2. QED
      BY <1>3, <2>1
<1>5. q \notin told[c] /\ x \notin Shows(c, q) => q \notin told'[c]
  <2>1. c \in x.conns /\ q \notin told[c] /\ x \notin Shows(c, q)
          => q \notin Heard(told[c], x.msg)
      BY <1>2, HeardIs DEF Shows
  <2>2. c \notin x.conns => told'[c] = told[c]
      BY DEF Deliver
  <2>3. QED
      BY <1>3, <2>1, <2>2
<1>6. \/ q \in unsaid'[c] \cup unheard'[c]
      \/ q \notin told'[c] /\ \A y \in Range(outbound') : y \notin Shows(c, q)
      \/ Clears(outbound', Forgets(c, q), Shows(c, q))
  <2>1. CASE q \notin told[c] /\ \A y \in Range(outbound) : y \notin Shows(c, q)
      BY <1>2, <1>5, <2>1
  <2>2. CASE Clears(outbound, Forgets(c, q), Shows(c, q))
      BY <1>2, <1>4, <2>2, PopClears
  <2>3. CASE q \in unsaid[c] \cup unheard[c]
      BY <1>3, <2>3
  <2>4. QED
      BY <2>1, <2>2, <2>3 DEF Gone
<1>7. QED
    BY <1>6 DEF Gone, Forgets, Shows

LEMMA GoneKept ==
    ASSUME TypeOK, NetMove, UNCHANGED toldVars,
           outbound' = outbound \/ ~Popped("TcpSend"),
           NEW c, NEW q, Gone(c, q)
    PROVE  Gone(c, q)'
<1>1. CASE outbound' = outbound
    BY <1>1 DEF Gone, Forgets, Shows, toldVars
<1>2. ASSUME NEW k, Popped(k), ~Popped("TcpSend") PROVE Gone(c, q)'
  <2> DEFINE x == Head(outbound)
  <2>1. /\ Range(outbound) = {x} \cup Range(outbound') /\ IsSeq(outbound)
        /\ outbound # <<>> /\ outbound' = Tail(outbound)
        /\ x.kind # "TcpSend"
      BY <1>2, PoppedRange, QueuesAreSeqs DEF Popped
  <2>2. x \notin Forgets(c, q)
      BY <2>1 DEF Forgets
  <2>3. \/ q \in unsaid'[c] \cup unheard'[c]
        \/ q \notin told'[c] /\ \A y \in Range(outbound') : y \notin Shows(c, q)
        \/ Clears(outbound', Forgets(c, q), Shows(c, q))
      BY <2>1, <2>2, PopClears DEF Gone, toldVars
  <2>4. QED
      BY <2>3 DEF Gone, Forgets, Shows
<1>3. QED
    BY <1>1, <1>2 DEF NetMove

LEMMA ForgottenNext ==
    ASSUME ~outLost' => \A p \in DOMAIN clients' :
              \A c : c = clients'[p].conn /\ c \in DOMAIN conns' =>
                 \A q : q \notin Others(p)' => Gone(c, q)'
    PROVE  Forgotten'
    BY DEF Forgotten, Gone, Shows, Forgets

LEMMA ForgottenNet ==
    ASSUME SimBase, NetBase, Forgotten, NetStep \/ Deliver
    PROVE  Forgotten'
<1>0. TypeOK /\ UNCHANGED simVars
    BY NetStepCases DEF SimBase, Deliver
<1>1. NetMove /\ UNCHANGED <<clients, outLost>>
    BY <1>0, NetMoves DEF NetBase, simVars, memberVars
<1>2. SUFFICES ASSUME ~outLost', NEW p \in DOMAIN clients', NEW c, c = clients'[p].conn,
                      c \in DOMAIN conns', NEW q, q \notin Others(p)'
               PROVE  Gone(c, q)'
    BY ForgottenNext
<1>3. c = clients[p].conn /\ p \in DOMAIN clients /\ q \notin Others(p)
    BY <1>1, <1>2 DEF Others
<1>4. c < nextConn /\ c \in ConnIds /\ nextConn \in Nat
    BY <1>0, <1>3, TypeParts, ClientFields, BoundsAssumption
       DEF SimBase, AcceptsFresh, Known, ConnOf, ConnOK
<1>5. c \in DOMAIN conns
  <2>1. c # nextConn
      BY <1>4, BoundsAssumption DEF ConnIds
  <2>2. QED
      BY <1>1, <1>2, <2>1 DEF NetMove
<1>6. Gone(c, q)
    BY <1>1, <1>2, <1>3, <1>5 DEF Forgotten
<1>7. CASE Deliver
    BY <1>0, <1>4, <1>5, <1>6, <1>7, GoneDelivered
<1>8. CASE NetStep
  <2>1. NetCases /\ UNCHANGED toldVars
      BY <1>8, NetStepCases
  <2>2. outbound' = outbound \/ ~Popped("TcpSend")
    <3>1. CASE Net!DoSend("UdpSend") \/ Net!DoBindPeer \/ Net!DoCloseConn \/ Net!DoKeepPending
      <4>1. PICK k \in {"UdpSend", "BindPeer", "CloseConn", "KeepPending"} : Popped(k)
          BY <3>1, NetSend, NetBind, NetClose, NetKeep
      <4>2. QED
          BY <4>1 DEF Popped
    <3>2. CASE \/ Net!AcceptReady \/ Net!Stop
               \/ \E d \in DOMAIN conns : Net!PollClosed(d)
               \/ \E d \in DOMAIN conns, m \in TcpMsgs : Net!PollFrame(d, m)
               \/ \E a \in Addrs, m \in UdpMsgs : Net!PollUdp(a, m)
        BY <3>2, NetAccept, NetStop, NetHangup, NetFrame, NetUdp
    <3>3. QED
        BY <2>1, <3>1, <3>2 DEF NetCases
  <2>3. QED
      BY <1>0, <1>1, <1>6, <2>1, <2>2, GoneKept
<1>9. QED
    BY <1>7, <1>8

(* What the commands E of a step of the simulation thread owe each client: *)
(* none shows it a player who is not there, and one makes it forget each   *)
(* who leaves, unless the step itself leaves that unsaid.                  *)
Mute(c, q, E) == \A x \in E : x \notin Shows(c, q)

Tells(r, c, q, E) ==
    /\ Mute(c, q, E)
    /\ \/ r \in DOMAIN clients /\ clients[r].conn = c /\ q \notin Others(r)
       \/ \E x \in E : x \in Forgets(c, q)
       \/ q \in unsaid'[c]

TellsAll(E) ==
    \A r \in DOMAIN clients' : \A q :
       q \notin Others(r)' => Tells(r, clients'[r].conn, q, E)

LEMMA ForgottenGrows ==
    ASSUME SimBase, Forgotten, UNCHANGED <<conns, told, unheard>>,
           \A c \in ConnIds : unsaid[c] \subseteq unsaid'[c],
           NEW E, Adds(E), E \subseteq OutboundCmd => TellsAll(E), SimBase'
    PROVE  Forgotten'
<1>0. TypeOK /\ OutOK /\ conns' = conns /\ UNCHANGED <<told, unheard>>
    BY TypeParts DEF SimBase
<1>1. SUFFICES ASSUME ~outLost', NEW p \in DOMAIN clients', NEW c, c = clients'[p].conn,
                      c \in DOMAIN conns', NEW q, q \notin Others(p)'
               PROVE  Gone(c, q)'
    BY ForgottenNext
<1>2. ~outLost
    BY <1>0, <1>1, AddsAll
<1>3. PICK xs : IsSeq(xs) /\ Range(xs) = E /\ outbound' = outbound \o xs
    BY <1>0, <1>1, AddsAll
<1>4. E \subseteq OutboundCmd
  <2>1. outbound' \in Seq(OutboundCmd)
      BY DEF SimBase, TypeOK
  <2>2. Range(outbound') \subseteq OutboundCmd
      BY <2>1, SeqTyped
  <2>3. QED
      BY <1>0, <1>3, <2>2, QueuesAreSeqs, SeqMore
<1>5. Tells(p, c, q, E)
    BY <1>1, <1>4 DEF TellsAll
<1>6. \/ Gone(c, q) \/ q \in unsaid'[c]
      \/ \E x \in Range(xs) : x \in Forgets(c, q)
    BY <1>0, <1>1, <1>2, <1>3, <1>5 DEF Tells, Forgotten
<1>7. c \in ConnIds
  <2>1. PICK P \in SUBSET PeerIds : clients' \in [P -> Client]
      BY DEF SimBase, TypeOK
  <2>2. clients'[p] \in Client
      BY <1>1, <2>1
  <2>3. QED
      BY <1>1, <2>2 DEF Client
<1>8. QED
    BY <1>0, <1>3, <1>5, <1>6, <1>7, GoneGrows DEF Tells, Mute

(* Only a Roster or a Blob shows anybody. *)
LEMMA PlainSilent ==
    ASSUME NEW E, \A x \in E : x.kind = "TcpSend" => x.msg.type \notin {"Roster", "Blob"},
           NEW c, NEW q
    PROVE  Mute(c, q, E)
    BY DEF Mute, Shows

LEMMA StayTells ==
    ASSUME NEW E, DOMAIN clients' = DOMAIN clients,
           \A p \in DOMAIN clients : clients'[p].conn = clients[p].conn,
           \A p \in DOMAIN clients : \A q : q \notin Others(p) =>
              Mute(clients[p].conn, q, E)
    PROVE  TellsAll(E)
    BY DEF TellsAll, Tells, Others

LEMMA TalksTells ==
    ASSUME SimBase, Talks PROVE \E E : Adds(E) /\ TellsAll(E)
<1>1. PICK E : Adds(E) /\ \A x \in E : Talk(x)
    BY DEF Talks
<1>2. ASSUME NEW p \in DOMAIN clients, NEW q, q \notin Others(p), NEW x \in E,
             x \in Shows(clients[p].conn, q)
      PROVE  FALSE
  <2>1. /\ x.kind = "TcpSend" /\ clients[p].conn \in x.conns
        /\ x.msg.type \in {"Roster", "Blob"}
        /\ x.msg.type = "Blob" => x.msg.peer = q
      BY <1>2 DEF Shows
  <2>2. q \in DOMAIN clients /\ x.conns = ConnOf(Others(q))
      BY <1>1, <1>2, <2>1 DEF Talk
  <2>3. PICK r \in Others(q) : clients[r].conn = clients[p].conn
      BY <2>1, <2>2 DEF ConnOf
  <2>4. r = p
      BY <2>3 DEF SimBase, ConnOwnership, Others
  <2>5. QED
      BY <1>2, <2>2, <2>3, <2>4 DEF Others
<1>3. TellsAll(E)
    BY <1>2, StayTells DEF Talks, SameHolders, Mute
<1>4. QED
    BY <1>1, <1>3

(* Byes and rosters are tracked. *)
ByesAreTold == {"Bye", "Roster"} \subseteq Tracked

LEMMA LeftTells ==
    ASSUME ByesAreTold, NEW p \in DOMAIN clients, Left(p)
    PROVE  \E E : Adds(E) /\ (E \subseteq OutboundCmd => TellsAll(E))
<1>0. /\ DOMAIN clients' = DOMAIN clients \ {p}
      /\ \A q \in DOMAIN clients' : clients'[q] = clients[q]
    BY DEF Left, Without
<1>1. PICK E : /\ Adds(E) /\ ByeSet(p) \subseteq E
               /\ \A x \in E : x \in ByeSet(p) \/ x.kind # "TcpSend"
  <2>1. /\ CloseConn(clients[p].conn).kind # "TcpSend"
        /\ KeepPending(p).kind # "TcpSend"
      BY DEF CloseConn, KeepPending
  <2>2. CASE Adds(ByeSet(p) \cup {KeepPending(p)})
      BY <2>1, <2>2
  <2>3. CASE Adds(ByeSet(p) \cup {CloseConn(clients[p].conn)})
      BY <2>1, <2>3
  <2>4. CASE Adds(ByeSet(p))
      BY <2>4
  <2>5. QED
      BY <2>2, <2>3, <2>4 DEF Left
<1>2. \A x \in E : x.kind = "TcpSend" => x.msg.type = "Bye"
  <2>1. \A x \in ByeSet(p) : x.msg.type = "Bye"
      BY DEF ByeSet, SendSet, TcpSend, Say
  <2>2. QED
      BY <1>1, <2>1
<1>3. ASSUME E \subseteq OutboundCmd, NEW r \in DOMAIN clients', NEW q,
             q \notin Others(r)'
      PROVE  Tells(r, clients'[r].conn, q, E)
  <2> DEFINE c == clients'[r].conn
  <2>0. r \in DOMAIN clients /\ r # p /\ clients[r].conn = c
      BY <1>0, <1>3
  <2>1. Mute(c, q, E)
      BY <1>2, PlainSilent
  <2>2. CASE q # p
      BY <1>0, <1>3, <2>0, <2>1, <2>2 DEF Tells, Others
  <2>3. CASE q = p
    <3> DEFINE x == TcpSend(ConnOf(Others(p)), Say("Bye", p))
    <3>1. c \in ConnOf(Others(p))
        BY <2>0 DEF ConnOf, Others
    <3>2. x \in ByeSet(p)
        BY <3>1 DEF ByeSet, SendSet, Say, ByesAreTold
    <3>3. /\ x.kind = "TcpSend" /\ x.conns = ConnOf(Others(p))
          /\ x.msg.type = "Bye" /\ x.msg.peer = p
        BY DEF TcpSend, Say
    <3> HIDE DEF x
    <3>4. x \in Forgets(c, q) /\ x \in E
        BY <1>1, <1>3, <2>3, <3>1, <3>2, <3>3 DEF Forgets
    <3>5. QED
        BY <2>1, <3>4 DEF Tells
  <2>4. QED
      BY <2>2, <2>3
<1>4. E \subseteq OutboundCmd => TellsAll(E)
    BY <1>3 DEF TellsAll
<1>5. QED
    BY <1>1, <1>4

(* The Bye of a kick goes to the kicked player alone. *)
LEMMA KickTells ==
    ASSUME SimBase, NEW p \in DOMAIN clients, NEW ban, Kick(p, ban)
    PROVE  \E E : Adds(E) /\ TellsAll(E)
<1> DEFINE E == SendSet({clients[p].conn}, Say("Bye", p)) \cup {CloseConn(clients[p].conn)}
<1>1. Kicked(p)
    BY KickCases DEF Kick
<1>2. /\ DOMAIN clients' = DOMAIN clients \ {p} /\ Adds(E)
      /\ \A q \in DOMAIN clients' : clients'[q] = clients[q]
    BY <1>1 DEF Kicked, Without
<1>3. \A x \in E : x.kind = "TcpSend" => x.msg.type = "Bye"
    BY DEF SendSet, TcpSend, Say, CloseConn
<1>4. \A r \in Others(p) : p \in unsaid'[clients[r].conn]
  <2> SUFFICES ASSUME NEW r \in Others(p) PROVE p \in unsaid'[clients[r].conn]
      OBVIOUS
  <2>1. clients[r].conn \in ConnIds /\ clients[r].conn \in ConnOf(Others(p))
      BY HeldConn DEF SimBase, Others, ConnOf
  <2>2. QED
      BY <2>1 DEF Kick
<1> HIDE DEF E
<1>5. ASSUME NEW r \in DOMAIN clients', NEW q, q \notin Others(r)'
      PROVE  Tells(r, clients'[r].conn, q, E)
  <2>1. r \in Others(p) /\ clients'[r].conn = clients[r].conn
      BY <1>2, <1>5 DEF Others
  <2>2. Mute(clients'[r].conn, q, E)
      BY <1>3, PlainSilent
  <2>3. q = p \/ q \notin Others(r)
      BY <1>2, <1>5 DEF Others
  <2>4. QED
      BY <1>4, <2>1, <2>2, <2>3 DEF Tells, Others
<1>6. QED
    BY <1>2, <1>5 DEF TellsAll

LEMMA JoinsTells ==
    ASSUME SimBase, ByesAreTold, NEW p, Joins(p)
    PROVE  \E E : Adds(E) /\ (E \subseteq OutboundCmd => TellsAll(E))
<1> DEFINE c == Event.conn
           x == TcpSend({c}, [type |-> "Roster", peer |-> p, peers |-> Others(p)])
           E == JoinSet(p, c)
<1>0. /\ Adds(E) /\ c \in pendingTcp
      /\ DOMAIN clients' = DOMAIN clients \cup {p} /\ clients'[p].conn = c
      /\ \A q \in DOMAIN clients \ {p} : clients'[q].conn = clients[q].conn
    BY DEF Joins
<1>1. \A q \in DOMAIN clients : clients[q].conn # c
    BY <1>0 DEF SimBase, ConnOwnership
<1>2. /\ x.kind = "TcpSend" /\ x.conns = {c}
      /\ x.msg.type = "Roster" /\ x.msg.peers = Others(p)
    BY DEF TcpSend
<1>3. x \in E
    BY DEF JoinSet, SendSet, ByesAreTold
<1>4. \A y \in E : \/ y = x
                   \/ y.kind = "TcpSend" => y.msg.type \notin {"Roster", "Blob"}
  <2>1. \A y \in SendSet({c}, [type |-> "Roster", peer |-> p, peers |-> Others(p)]) : y = x
      BY DEF SendSet
  <2>2. ASSUME NEW h, NEW t \in {"Welcome", "WorldSnapshot"},
               NEW y \in SendSet({c}, Say(t, h))
        PROVE  y.msg.type \notin {"Roster", "Blob"}
      BY <2>2 DEF SendSet, TcpSend, Say
  <2>3. BindPeer(c, p).kind # "TcpSend" /\ CloseConn(clients[p].conn).kind # "TcpSend"
      BY DEF BindPeer, CloseConn
  <2>4. QED
      BY <2>1, <2>2, <2>3 DEF JoinSet
<1>5. \A y \in E : y.kind = "TcpSend" => y.conns = {c}
  <2>1. \A m : \A y \in SendSet({c}, m) : y.conns = {c}
      BY DEF SendSet, TcpSend
  <2>2. BindPeer(c, p).kind # "TcpSend" /\ CloseConn(clients[p].conn).kind # "TcpSend"
      BY DEF BindPeer, CloseConn
  <2>3. QED
      BY <2>1, <2>2 DEF JoinSet
<1> HIDE DEF x, E
<1>6. ASSUME E \subseteq OutboundCmd, NEW r \in DOMAIN clients', NEW q,
             q \notin Others(r)'
      PROVE  Tells(r, clients'[r].conn, q, E)
  <2>1. CASE r = p
    <3>1. q \notin Others(p)
        BY <1>0, <1>6, <2>1 DEF Others
    <3>2. Mute(c, q, E)
        BY <1>2, <1>4, <3>1 DEF Mute, Shows
    <3>3. x \in Forgets(c, q)
        BY <1>2, <1>3, <1>6, <3>1 DEF Forgets
    <3>4. QED
        BY <1>0, <1>3, <2>1, <3>2, <3>3 DEF Tells
  <2>2. CASE r # p
    <3>1. /\ r \in DOMAIN clients /\ clients'[r].conn = clients[r].conn
          /\ clients[r].conn # c /\ q \notin Others(r)
        BY <1>0, <1>1, <1>6, <2>2 DEF Others
    <3>2. Mute(clients[r].conn, q, E)
        BY <1>5, <3>1 DEF Mute, Shows
    <3>3. QED
        BY <3>1, <3>2 DEF Tells
  <2>3. QED
      BY <2>1, <2>2
<1>7. E \subseteq OutboundCmd => TellsAll(E)
    BY <1>6 DEF TellsAll
<1>8. QED
    BY <1>0, <1>7

LEMMA SimTells ==
    ASSUME SimBase, ByesAreTold, SimStep
    PROVE  \E E : Adds(E) /\ (E \subseteq OutboundCmd => TellsAll(E))
<1>0. TypeOK /\ PeersFresh /\ OutOK
    BY TypeParts DEF SimBase
<1>1. CASE TcpAccept \/ ClosedAlone
  <2>1. UNCHANGED <<clients, outVars>>
      BY <1>1 DEF TcpAccept, ClosedAlone
  <2>2. Adds({}) /\ TellsAll({})
      BY <1>0, <2>1, AddsNothing, StayTells DEF Mute
  <2>3. QED
      BY <2>2
<1>2. ASSUME NEW c \in pendingTcp, ExpirePending(c)
      PROVE  \E E : Adds(E) /\ TellsAll(E)
  <2>1. clients' = clients /\ Adds({CloseConn(c)})
      BY <1>2, SeqOne DEF ExpirePending, Adds
  <2>2. \A d, q : Mute(d, q, {CloseConn(c)})
      BY Commands3 DEF Mute, Shows
  <2>3. TellsAll({CloseConn(c)})
      BY <2>1, <2>2, StayTells
  <2>4. QED
      BY <2>1, <2>3
<1>3. QED
    BY <1>0, <1>1, <1>2, TalksTells, LeftTells, JoinsTells, KickTells, UnkickedCases
       DEF SimCases, SimStep

LEMMA ForgottenKept ==
    ASSUME ByesAreTold
    PROVE  SimBase /\ NetBase /\ Forgotten /\ [ServerNext]_serverVars => Forgotten'
<1> SUFFICES ASSUME SimBase, NetBase, Forgotten, [ServerNext]_serverVars
             PROVE  Forgotten'
    OBVIOUS
<1>1. CASE SimStep
  <2>1. UNCHANGED <<conns, told, unheard>>
      BY <1>1 DEF SimStep, ioVars
  <2>2. \A c \in ConnIds : unsaid[c] \subseteq unsaid'[c]
      BY <1>1 DEF SimStep, Kick
  <2>3. SimBase'
      BY BaseStep
  <2>4. QED
      BY <1>1, <2>1, <2>2, <2>3, SimTells, ForgottenGrows
<1>2. CASE NetStep \/ Deliver
    BY <1>2, ForgottenNet
<1>3. CASE Stopped \/ UNCHANGED serverVars
  <2>1. UNCHANGED <<outbound, clients, conns, told, unheard, unsaid, outLost>>
      BY <1>3 DEF Stopped, serverVars, vars, ioVars, toldVars, simVars, memberVars
  <2>2. QED
      BY <2>1 DEF Forgotten, Others, Gone, Shows, Forgets
<1>4. QED
    BY <1>1, <1>2, <1>3 DEF ServerNext

(* Whenever outbound has been drained without a loss, every player a       *)
(* connected client still shows is there, but for one who was kicked while *)
(* it was in and one whose leave a full send queue of its own connection   *)
(* refused: the Bye of every other leaver, or the roster of a client that  *)
(* joined later, comes behind everything that showed him (remove_client,   *)
(* handle_pending_message, process_outbound).  Commands, kick among them,  *)
(* come at any time.                                                       *)
THEOREM ServerNoGhosts ==
    ASSUME {"Bye", "Roster"} \subseteq Tracked
    PROVE  ServerSpec => []NoGhostPeers
<1>1. ByesAreTold
    BY DEF ByesAreTold
<1>2. ServerInit => Forgotten
    BY DEF ServerInit, Init, Forgotten
<1>3. SimBase /\ NetBase /\ Forgotten /\ [ServerNext]_serverVars => Forgotten'
    BY <1>1, ForgottenKept
<1>4. Forgotten => NoGhostPeers
  <2> SUFFICES ASSUME Forgotten, outbound = <<>>, ~outLost, NEW p \in DOMAIN clients,
                      NEW c, c = clients[p].conn, c \in DOMAIN conns, NEW q \in told[c]
               PROVE  q \in Others(p) \cup unsaid[c] \cup unheard[c]
      BY DEF NoGhostPeers
  <2>1. q \notin Others(p) => Gone(c, q)
      BY DEF Forgotten
  <2>2. \A A, B : ~Clears(outbound, B, A)
      BY DEF Clears
  <2>3. QED
      BY <2>1, <2>2 DEF Gone
<1>5. QED
    BY <1>2, <1>3, <1>4, BaseInit, BaseStep, PTL DEF ServerSpec
=============================================================================
