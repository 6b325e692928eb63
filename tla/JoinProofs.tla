----------------------------- MODULE JoinProofs -----------------------------
(***************************************************************************)
(* Proofs about how a player comes into a session, and leaves it.          *)
(*                                                                         *)
(* Link: one player's plugin and the server, for any number of joins,      *)
(* tokens and frames under way.  The two ends agree on who the player is   *)
(* once every Welcome has been read, and the server sends the player's     *)
(* datagrams to the UDP socket of the join it has, whichever binds come    *)
(* late.                                                                   *)
(*                                                                         *)
(* Menu: the menus, for both settings of AutoJoin and any number of games  *)
(* begun and loaded: what keeps a menu join from reaching beyond the new   *)
(* game it was begun for, and a query from taking a session's socket.      *)
(***************************************************************************)
EXTENDS Link, Menu, TLAPS

-----------------------------------------------------------------------------
(* The connection: the inductive invariant *)

(* The plugin has a socket from a join to the end of the leave, a lost     *)
(* connection aside, and forgets its token with the session.               *)
PluginOK ==
    /\ joined \in BOOLEAN /\ leaving \in BOOLEAN
    /\ sock \in Joins \cup {0} /\ joins \in 0..MaxJoins /\ sock =< joins
    /\ myPeerId \in MyIds \cup {0} /\ udpToken \in 0..MaxToken
    /\ leaving => joined
    /\ sock # 0 => joined
    /\ joined /\ ~leaving => sock # 0
    /\ ~joined => udpToken = 0

FlagsOK ==
    /\ udpBound \in BOOLEAN /\ hbRun \in BOOLEAN /\ hb \in BOOLEAN
    /\ lastRecv \in {"never", "recent", "ago"}

(* Nothing has been said on a connection that is not there yet. *)
UpOK ==
    /\ up \in [Joins -> Seq(UpMsg)]
    /\ \A c \in Joins : c > joins => up[c] = <<>>

(* The client is on a connection that has been, with a token that was      *)
(* given out, and bound to no other join than that connection's.           *)
ServerOK ==
    /\ srv \in [conn : Joins \cup {0}, peer : MyIds \cup {0},
                token : 0..MaxToken, bound : Joins \cup {0}]
    /\ gone \subseteq Joins /\ tag \in [Joins -> MyIds \cup {0}]
    /\ nextPeer \in 1..(MaxPeer + 1) /\ nextToken \in 1..(MaxToken + 1)
    /\ lost \in 0..MaxToken /\ orphans \subseteq Joins
    /\ srv.conn =< joins /\ srv.token < nextToken
    /\ In => srv.conn # 0 /\ srv.token # 0
    /\ BoundToThisJoin

(* A Welcome with the client's token is under way on the client's          *)
(* connection only.                                                        *)
DownOK ==
    /\ down \in Seq(DownMsg)
    /\ sock = 0 => down = <<>>
    /\ \A i \in 1..Len(down) : down[i].type = "Welcome" =>
           /\ down[i].token < nextToken
           /\ In /\ down[i].token = srv.token => srv.conn = sock

(* So is a UdpBind with it. *)
BindsOK ==
    /\ binds \subseteq UdpBind
    /\ \A d \in binds :
           /\ d.token < nextToken
           /\ In /\ d.token = srv.token => d.addr = srv.conn

(* The plugin has the client's token from the client's connection.         *)
TokenOK ==
    /\ udpToken < nextToken
    /\ In /\ udpToken = srv.token /\ ~leaving => srv.conn = sock

NoWelcome(s) == \A i \in 1..Len(s) : s[i].type # "Welcome"

LastWelcome(s, m) ==
    \E i \in 1..Len(s) :
        s[i] = m /\ \A j \in (i + 1)..Len(s) : s[j].type # "Welcome"

(* What the plugin has not read yet tells it, last, what the server has;   *)
(* or it has read it.  Unless it was lost.                                 *)
WelcomeOK ==
    In /\ srv.conn = sock /\ ~leaving /\ lost # srv.token =>
        \/ LastWelcome(down, Welcome(srv.peer, srv.token))
        \/ NoWelcome(down) /\ myPeerId = srv.peer /\ udpToken = srv.token

LinkIInv == /\ PluginOK /\ FlagsOK /\ UpOK /\ ServerOK
            /\ DownOK /\ BindsOK /\ TokenOK /\ WelcomeOK

LEMMA LinkParts ==
    ASSUME LinkIInv
    PROVE  /\ PluginOK /\ FlagsOK /\ UpOK /\ ServerOK
           /\ DownOK /\ BindsOK /\ TokenOK /\ WelcomeOK
    BY DEF LinkIInv

LEMMA LinkImplied == LinkIInv => LinkInv /\ BoundToThisJoin
<1> SUFFICES ASSUME LinkIInv PROVE LinkInv /\ BoundToThisJoin
    OBVIOUS
<1>1. ClientTypeOK
    BY LinkParts DEF ClientTypeOK, PluginOK, FlagsOK, UpOK, DownOK, BindsOK
<1>2. LinkTypeOK /\ BoundToThisJoin
    BY <1>1, LinkParts DEF LinkTypeOK, ServerOK
<1>3. TokensAgree
  <2> SUFFICES ASSUME In, srv.conn = sock, down = <<>>, ~leaving, lost # srv.token
               PROVE  myPeerId = srv.peer /\ udpToken = srv.token
      BY DEF TokensAgree
  <2>1. ~LastWelcome(down, Welcome(srv.peer, srv.token))
      BY DEF LastWelcome
  <2>2. QED
      BY <2>1, LinkParts DEF WelcomeOK
<1>4. QED
    BY <1>2, <1>3 DEF LinkInv

-----------------------------------------------------------------------------
(* Messages and sequences of them *)

LEMMA Nats == MaxPeer \in Nat /\ MaxToken \in Nat /\ MaxJoins \in Nat
    BY ClientAssumption

LEMMA PlainMsgs ==
    /\ Reject \in DownMsg /\ Reject.type # "Welcome"
    /\ Eof \in DownMsg /\ Eof.type # "Welcome"
    /\ Other \in DownMsg /\ Other.type # "Welcome"
    /\ \A p \in MyIds : Bye(p) \in DownMsg /\ Bye(p).type # "Welcome"
<1>1. \A p : Bye(p).type = "Bye"
    BY DEF Bye
<1>2. QED
    BY <1>1 DEF DownMsg, Reject, Eof, Other

LEMMA WelcomeMsgs ==
    /\ \A p, t : /\ Welcome(p, t).type = "Welcome"
                 /\ Welcome(p, t).peer = p /\ Welcome(p, t).token = t
    /\ \A p \in MyIds, t \in 1..MaxToken : Welcome(p, t) \in DownMsg
    /\ \A m \in DownMsg : m.type = "Welcome" =>
           /\ m.peer \in MyIds /\ m.token \in 1..MaxToken
           /\ m = Welcome(m.peer, m.token)
<1>1. \A p, t : /\ Welcome(p, t).type = "Welcome"
                /\ Welcome(p, t).peer = p /\ Welcome(p, t).token = t
    BY DEF Welcome
<1>2. \A p \in MyIds, t \in 1..MaxToken : Welcome(p, t) \in DownMsg
    BY DEF DownMsg
<1>3. ASSUME NEW m \in DownMsg, m.type = "Welcome"
      PROVE  \E p \in MyIds, t \in 1..MaxToken : m = Welcome(p, t)
    BY <1>3, PlainMsgs DEF DownMsg
<1>4. QED
    BY <1>1, <1>2, <1>3

LEMMA UpMsgs == {Hello, ByeFrame, Heartbeat, Eof} \subseteq UpMsg
    BY DEF UpMsg

(* t has no other Welcomes than s, and the same one last. *)
Follows(s, t) ==
    /\ \A i \in 1..Len(t) : t[i].type = "Welcome" =>
           \E j \in 1..Len(s) : s[j] = t[i]
    /\ NoWelcome(s) => NoWelcome(t)
    /\ \A m : m.type = "Welcome" /\ LastWelcome(s, m) => LastWelcome(t, m)

LEMMA SameFollows == \A s : Follows(s, s)
    BY DEF Follows

LEMMA PlainFollows ==
    ASSUME NEW s \in Seq(DownMsg), NEW ms \in Seq(DownMsg), NoWelcome(ms)
    PROVE  s \o ms \in Seq(DownMsg) /\ Follows(s, s \o ms)
<1>1. s \o ms \in Seq(DownMsg) /\ Len(s \o ms) = Len(s) + Len(ms)
    OBVIOUS
<1>2. \A i \in 1..Len(s) : (s \o ms)[i] = s[i]
    OBVIOUS
<1>3. \A i \in 1..Len(s \o ms) : i > Len(s) => (s \o ms)[i].type # "Welcome"
  <2> SUFFICES ASSUME NEW i \in 1..Len(s \o ms), i > Len(s)
               PROVE  (s \o ms)[i].type # "Welcome"
      OBVIOUS
  <2>1. i - Len(s) \in 1..Len(ms) /\ (s \o ms)[i] = ms[i - Len(s)]
      BY <1>1
  <2>2. QED
      BY <2>1 DEF NoWelcome
<1>4. \A i \in 1..Len(s \o ms) : (s \o ms)[i].type = "Welcome" =>
          i \in 1..Len(s) /\ s[i] = (s \o ms)[i]
    BY <1>1, <1>2, <1>3
<1>5. NoWelcome(s) => NoWelcome(s \o ms)
    BY <1>4 DEF NoWelcome
<1>6. ASSUME NEW m, LastWelcome(s, m) PROVE LastWelcome(s \o ms, m)
  <2>1. PICK i \in 1..Len(s) :
             s[i] = m /\ \A j \in (i + 1)..Len(s) : s[j].type # "Welcome"
      BY <1>6 DEF LastWelcome
  <2>2. i \in 1..Len(s \o ms) /\ (s \o ms)[i] = m
      BY <1>1, <1>2, <2>1
  <2>3. \A j \in (i + 1)..Len(s \o ms) : (s \o ms)[j].type # "Welcome"
      BY <1>1, <1>2, <1>3, <2>1
  <2>4. QED
      BY <2>2, <2>3 DEF LastWelcome
<1>7. QED
    BY <1>1, <1>4, <1>5, <1>6 DEF Follows

LEMMA WelcomeLast ==
    ASSUME NEW s \in Seq(DownMsg), NEW m \in DownMsg
    PROVE  /\ s \o <<m>> \in Seq(DownMsg) /\ LastWelcome(s \o <<m>>, m)
           /\ \A i \in 1..Len(s \o <<m>>) :
                  \/ (s \o <<m>>)[i] = m
                  \/ \E j \in 1..Len(s) : s[j] = (s \o <<m>>)[i]
<1>1. /\ s \o <<m>> \in Seq(DownMsg) /\ Len(s \o <<m>>) = Len(s) + 1
      /\ (s \o <<m>>)[Len(s) + 1] = m
      /\ \A i \in 1..Len(s) : (s \o <<m>>)[i] = s[i]
    OBVIOUS
<1>2. Len(s) + 1 \in 1..Len(s \o <<m>>) /\ \A j \in (Len(s) + 2)..Len(s \o <<m>>) : FALSE
    BY <1>1
<1>3. LastWelcome(s \o <<m>>, m)
    BY <1>1, <1>2 DEF LastWelcome
<1>4. QED
    BY <1>1, <1>3

LEMMA TailRest ==
    ASSUME NEW s \in Seq(DownMsg), s # <<>>
    PROVE  /\ Tail(s) \in Seq(DownMsg) /\ Head(s) \in DownMsg
           /\ Head(s) = s[1] /\ 1 \in 1..Len(s)
           /\ \A i \in 1..Len(Tail(s)) : \E j \in 1..Len(s) : s[j] = Tail(s)[i]
           /\ Head(s).type # "Welcome" => Follows(s, Tail(s))
           /\ \A m : LastWelcome(s, m) =>
                  \/ LastWelcome(Tail(s), m)
                  \/ m = Head(s) /\ NoWelcome(Tail(s))
           /\ ~(NoWelcome(s) /\ Head(s).type = "Welcome")
<1>1. /\ Tail(s) \in Seq(DownMsg) /\ Len(Tail(s)) = Len(s) - 1
      /\ Head(s) = s[1] /\ 1 \in 1..Len(s) /\ Head(s) \in DownMsg
      /\ \A i \in 1..Len(Tail(s)) : Tail(s)[i] = s[i + 1] /\ i + 1 \in 1..Len(s)
    OBVIOUS
<1>2. \A i \in 1..Len(Tail(s)) : \E j \in 1..Len(s) : s[j] = Tail(s)[i]
    BY <1>1
<1>3. ASSUME NEW m, LastWelcome(s, m)
      PROVE  LastWelcome(Tail(s), m) \/ (m = Head(s) /\ NoWelcome(Tail(s)))
  <2>1. PICK i \in 1..Len(s) :
             s[i] = m /\ \A j \in (i + 1)..Len(s) : s[j].type # "Welcome"
      BY <1>3 DEF LastWelcome
  <2>2. CASE i = 1
    <3>1. \A j \in 1..Len(Tail(s)) : j + 1 \in (i + 1)..Len(s)
        BY <1>1, <2>2
    <3>2. QED
        BY <1>1, <2>1, <2>2, <3>1 DEF NoWelcome
  <2>3. CASE i # 1
    <3>1. /\ i - 1 \in 1..Len(Tail(s)) /\ Tail(s)[i - 1] = m
          /\ \A j \in ((i - 1) + 1)..Len(Tail(s)) : Tail(s)[j].type # "Welcome"
      <4>1. i - 1 \in 1..Len(Tail(s))
          BY <1>1, <2>3
      <4>2. \A j \in ((i - 1) + 1)..Len(Tail(s)) :
                j \in 1..Len(Tail(s)) /\ j + 1 \in (i + 1)..Len(s)
          BY <1>1, <4>1
      <4>3. QED
          BY <1>1, <2>1, <4>1, <4>2
    <3>2. QED
        BY <3>1 DEF LastWelcome
  <2>4. QED
      BY <2>2, <2>3
<1>4. NoWelcome(s) => NoWelcome(Tail(s))
    BY <1>1 DEF NoWelcome
<1>5. NoWelcome(s) => Head(s).type # "Welcome"
    BY <1>1 DEF NoWelcome
<1>6. ASSUME Head(s).type # "Welcome" PROVE Follows(s, Tail(s))
  <2>1. ASSUME NEW m, m.type = "Welcome", LastWelcome(s, m)
        PROVE  LastWelcome(Tail(s), m)
      BY <1>3, <1>6, <2>1
  <2>2. QED
      BY <1>2, <1>4, <2>1 DEF Follows
<1>7. QED
    BY <1>1, <1>2, <1>3, <1>5, <1>6

-----------------------------------------------------------------------------
(* What a step leaves as it is *)

LEMMA UpSent ==
    ASSUME PluginOK, UpOK, NEW m \in UpMsg, sock # 0, up' = SendTcp(m),
           joins' = joins
    PROVE  UpOK'
<1>1. sock \in Joins /\ sock =< joins /\ joins \in Nat /\ sock \in Nat
    BY Nats DEF PluginOK, Joins
<1>2. Append(up[sock], m) \in Seq(UpMsg)
    BY <1>1 DEF UpOK
<1>3. up' \in [Joins -> Seq(UpMsg)] /\ \A c \in Joins : c # sock => up'[c] = up[c]
    BY <1>1, <1>2 DEF UpOK, SendTcp
<1>4. \A c \in Joins : c > joins => c # sock
    BY <1>1
<1>5. QED
    BY <1>3, <1>4 DEF UpOK

LEMMA UpTaken ==
    ASSUME UpOK, NEW c \in Joins, Take(c), joins' = joins
    PROVE  UpOK'
<1>1. up[c] # <<>> /\ up[c] \in Seq(UpMsg) /\ up' = [up EXCEPT ![c] = Tail(@)]
    BY DEF Take, UpOK
<1>2. Tail(up[c]) \in Seq(UpMsg)
    BY <1>1
<1>3. up' \in [Joins -> Seq(UpMsg)] /\ \A b \in Joins : b # c => up'[b] = up[b]
    BY <1>1, <1>2 DEF UpOK
<1>4. ~(c > joins)
    BY <1>1 DEF UpOK
<1>5. QED
    BY <1>3, <1>4 DEF UpOK

(* The player's client is gone, or is who it was. *)
SameClient ==
    /\ lost' = lost
    /\ \/ srv' = Nobody
       \/ srv'.conn = srv.conn /\ srv'.peer = srv.peer /\ srv'.token = srv.token

LEMMA SameIn ==
    ASSUME SameClient, In'
    PROVE  /\ In /\ srv'.conn = srv.conn /\ srv'.peer = srv.peer
           /\ srv'.token = srv.token /\ lost' = lost
<1>1. Nobody.peer = 0
    BY DEF Nobody
<1>2. srv' # Nobody
    BY <1>1 DEF In
<1>3. QED
    BY <1>2 DEF SameClient, In

LEMMA ServerStays ==
    ASSUME LinkIInv, UNCHANGED serverVars, joins' \in 0..MaxJoins, joins =< joins'
    PROVE  ServerOK' /\ SameClient /\ nextToken' = nextToken
<1>1. /\ srv' = srv /\ gone' = gone /\ tag' = tag /\ nextPeer' = nextPeer
      /\ nextToken' = nextToken /\ lost' = lost /\ orphans' = orphans
    BY DEF serverVars, history
<1>2. srv.conn \in Nat /\ joins \in Nat /\ joins' \in Nat /\ srv.conn =< joins
    BY LinkParts, Nats DEF ServerOK, PluginOK, Joins
<1>3. srv'.conn =< joins'
    BY <1>1, <1>2
<1>4. QED
    BY <1>1, <1>3, LinkParts DEF ServerOK, SameClient, In, BoundToThisJoin

LEMMA ServerLeft ==
    ASSUME LinkIInv, srv' \in {srv, Nobody}, gone' \subseteq Joins,
           UNCHANGED <<tag, nextPeer, nextToken, joins, lost>>, orphans' \subseteq Joins
    PROVE  ServerOK' /\ SameClient
<1>1. CASE srv' = srv
    BY <1>1, LinkParts DEF ServerOK, SameClient, In, BoundToThisJoin
<1>2. CASE srv' = Nobody
  <2>1. /\ srv' \in [conn : Joins \cup {0}, peer : MyIds \cup {0},
                      token : 0..MaxToken, bound : Joins \cup {0}]
        /\ srv'.conn = 0 /\ srv'.peer = 0 /\ srv'.token = 0 /\ srv'.bound = 0
      BY <1>2, Nats DEF Nobody
  <2>2. 0 =< joins' /\ 0 < nextToken'
      BY LinkParts, Nats DEF PluginOK, ServerOK
  <2>3. ~In' /\ BoundToThisJoin'
      BY <2>1 DEF In, BoundToThisJoin
  <2>4. QED
      BY <1>2, <2>1, <2>2, <2>3, LinkParts DEF ServerOK, SameClient
<1>3. QED
    BY <1>1, <1>2

LEMMA BindsStay ==
    ASSUME LinkIInv, SameClient, nextToken' = nextToken, binds' \subseteq binds
    PROVE  BindsOK'
    BY LinkParts, SameIn DEF BindsOK

LEMMA TokenStays ==
    ASSUME LinkIInv, SameClient, nextToken' = nextToken, udpToken' = udpToken,
           leaving' \/ (leaving' = leaving /\ sock' = sock)
    PROVE  TokenOK'
    BY LinkParts, SameIn DEF TokenOK

LEMMA DownStays ==
    ASSUME LinkIInv, SameClient, nextToken' = nextToken, sock' = sock,
           down' \in Seq(DownMsg), Follows(down, down'), sock = 0 => down' = <<>>
    PROVE  DownOK'
<1>1. ASSUME NEW i \in 1..Len(down'), down'[i].type = "Welcome"
      PROVE  /\ down'[i].token < nextToken'
             /\ In' /\ down'[i].token = srv'.token => srv'.conn = sock'
  <2>1. PICK j \in 1..Len(down) : down[j] = down'[i]
      BY <1>1 DEF Follows
  <2>2. QED
      BY <1>1, <2>1, LinkParts, SameIn DEF DownOK
<1>2. QED
    BY <1>1 DEF DownOK

LEMMA WelcomeStays ==
    ASSUME LinkIInv, SameClient, Follows(down, down'),
           leaving' \/ UNCHANGED <<leaving, sock, myPeerId, udpToken>>
    PROVE  WelcomeOK'
<1> SUFFICES ASSUME In', srv'.conn = sock', ~leaving', lost' # srv'.token
             PROVE  \/ LastWelcome(down, Welcome(srv.peer, srv.token))'
                    \/ /\ NoWelcome(down)'
                       /\ myPeerId' = srv'.peer /\ udpToken' = srv'.token
    BY DEF WelcomeOK
<1>1. /\ In /\ srv'.conn = srv.conn /\ srv'.peer = srv.peer
      /\ srv'.token = srv.token /\ lost' = lost
    BY SameIn
<1>2. UNCHANGED <<leaving, sock, myPeerId, udpToken>>
    OBVIOUS
<1>3. \/ LastWelcome(down, Welcome(srv.peer, srv.token))
      \/ NoWelcome(down) /\ myPeerId = srv.peer /\ udpToken = srv.token
    BY <1>1, <1>2, LinkParts DEF WelcomeOK
<1>4. Welcome(srv.peer, srv.token).type = "Welcome"
    BY WelcomeMsgs
<1>5. LastWelcome(down, Welcome(srv.peer, srv.token))
        => LastWelcome(down', Welcome(srv.peer, srv.token))
    BY <1>4 DEF Follows
<1>6. NoWelcome(down) => NoWelcome(down')
    BY DEF Follows
<1>7. Welcome(srv.peer, srv.token)' = Welcome(srv.peer, srv.token)
    BY <1>1 DEF Welcome
<1>8. LastWelcome(down, Welcome(srv.peer, srv.token))'
        <=> LastWelcome(down', Welcome(srv.peer, srv.token))
    BY <1>7 DEF LastWelcome
<1>9. NoWelcome(down)' <=> NoWelcome(down')
    BY DEF NoWelcome
<1>10. QED
    BY <1>1, <1>2, <1>3, <1>5, <1>6, <1>8, <1>9

LEMMA LinkTogether ==
    ASSUME PluginOK', FlagsOK', UpOK', ServerOK', DownOK', BindsOK', TokenOK',
           WelcomeOK'
    PROVE  LinkIInv'
    BY DEF LinkIInv

LEMMA PluginStays ==
    ASSUME LinkIInv, UNCHANGED clientOnly
    PROVE  /\ PluginOK' /\ FlagsOK'
           /\ UNCHANGED <<leaving, sock, joins, myPeerId, udpToken>>
    BY LinkParts DEF clientOnly, netState, hbState, PluginOK, FlagsOK

-----------------------------------------------------------------------------
(* The server's steps *)

(* Frames other than a Welcome. *)
LEMMA TellPlain ==
    ASSUME LinkIInv, NEW c, NEW ms \in Seq(DownMsg), NoWelcome(ms), Tell(c, ms)
    PROVE  /\ down' \in Seq(DownMsg) /\ Follows(down, down')
           /\ sock = 0 => down' = <<>>
<1>1. down' = down \/ (sock # 0 /\ down' = down \o ms)
    BY DEF Tell, Say, Hears
<1>2. down \in Seq(DownMsg) /\ (sock = 0 => down = <<>>)
    BY LinkParts DEF DownOK
<1>3. CASE down' = down
    BY <1>2, <1>3, SameFollows
<1>4. CASE sock # 0 /\ down' = down \o ms
    BY <1>2, <1>4, PlainFollows
<1>5. QED
    BY <1>1, <1>3, <1>4

LEMMA ClosePlain ==
    ASSUME LinkIInv, NEW c \in Joins \cup {0}, NEW ms \in Seq(DownMsg), NoWelcome(ms),
           CloseConn(c, ms)
    PROVE  /\ down' \in Seq(DownMsg) /\ Follows(down, down')
           /\ sock = 0 => down' = <<>>
           /\ lost' = lost /\ orphans' \subseteq Joins
<1>1. \/ Tell(c, Append(ms, Eof)) /\ orphans' = orphans
      \/ Tell(c, ms) /\ c # 0 /\ orphans' = orphans \cup {c}
    BY DEF CloseConn, Tell, Hears
<1>2. Append(ms, Eof) \in Seq(DownMsg) /\ NoWelcome(Append(ms, Eof))
  <2>1. Append(ms, Eof) \in Seq(DownMsg) /\ Len(Append(ms, Eof)) = Len(ms) + 1
      BY PlainMsgs
  <2>2. ASSUME NEW i \in 1..Len(Append(ms, Eof)) PROVE Append(ms, Eof)[i].type # "Welcome"
    <3>1. Append(ms, Eof)[i] = IF i = Len(ms) + 1 THEN Eof ELSE ms[i]
        BY <2>1
    <3>2. i # Len(ms) + 1 => i \in 1..Len(ms)
        BY <2>1
    <3>3. QED
        BY <3>1, <3>2, PlainMsgs DEF NoWelcome
  <2>3. QED
      BY <2>1, <2>2 DEF NoWelcome
<1>3. orphans' \subseteq Joins /\ lost' = lost
    BY <1>1, LinkParts DEF ServerOK, CloseConn
<1>4. QED
    BY <1>1, <1>2, <1>3, TellPlain

LEMMA OnePlain ==
    ASSUME NEW m \in DownMsg, m.type # "Welcome"
    PROVE  <<m>> \in Seq(DownMsg) /\ NoWelcome(<<m>>)
    BY DEF NoWelcome

LEMMA NonePlain == <<>> \in Seq(DownMsg) /\ NoWelcome(<<>>)
    BY DEF NoWelcome

(* The client is who it was or gone, and nobody is welcomed. *)
LEMMA QuietStep ==
    ASSUME LinkIInv, UNCHANGED clientOnly, UNCHANGED <<nextToken>>,
           ServerOK', SameClient, UpOK', binds' \subseteq binds,
           down' \in Seq(DownMsg), Follows(down, down'), sock = 0 => down' = <<>>
    PROVE  LinkIInv'
<1>1. PluginOK' /\ FlagsOK' /\ UNCHANGED <<leaving, sock, joins, myPeerId, udpToken>>
    BY PluginStays
<1>2. DownOK' /\ BindsOK' /\ TokenOK' /\ WelcomeOK'
    BY <1>1, DownStays, BindsStay, TokenStays, WelcomeStays
<1>3. QED
    BY <1>1, <1>2, LinkTogether

LEMMA UpStays ==
    ASSUME LinkIInv, up' = up, joins' = joins
    PROVE  UpOK'
    BY LinkParts DEF UpOK

LEMMA DownSame ==
    ASSUME LinkIInv, down' = down
    PROVE  /\ down' \in Seq(DownMsg) /\ Follows(down, down')
           /\ sock = 0 => down' = <<>>
    BY LinkParts, SameFollows DEF DownOK

LEMMA SrvRefuseStep == \A c \in Joins : LinkIInv /\ SrvRefuse(c) => LinkIInv'
<1> SUFFICES ASSUME NEW c \in Joins, LinkIInv, SrvRefuse(c) PROVE LinkIInv'
    OBVIOUS
<1>1. /\ Take(c) /\ Tell(c, <<Reject>>) /\ UNCHANGED clientOnly
      /\ UNCHANGED <<binds, serverVars>>
    BY DEF SrvRefuse, Takes
<1>2. joins' = joins /\ joins \in 0..MaxJoins /\ joins =< joins
    BY <1>1, PluginStays, LinkParts, Nats DEF PluginOK
<1>3. UpOK' /\ ServerOK' /\ SameClient /\ nextToken' = nextToken
    BY <1>1, <1>2, LinkParts, UpTaken, ServerStays
<1>4. /\ down' \in Seq(DownMsg) /\ Follows(down, down')
      /\ sock = 0 => down' = <<>>
    BY <1>1, PlainMsgs, OnePlain, TellPlain
<1>5. QED
    BY <1>1, <1>3, <1>4, QuietStep

LEMMA SrvByeStep == \A c \in Joins : LinkIInv /\ SrvBye(c) => LinkIInv'
<1> SUFFICES ASSUME NEW c \in Joins, LinkIInv, SrvBye(c) PROVE LinkIInv'
    OBVIOUS
<1>1. /\ Take(c) /\ srv' = Nobody /\ UNCHANGED clientOnly
      /\ UNCHANGED <<down, binds, gone, tag, nextPeer, nextToken, lost, orphans>>
    BY DEF SrvBye, Takes, history
<1>2. joins' = joins /\ gone' \subseteq Joins /\ orphans' \subseteq Joins
    BY <1>1, PluginStays, LinkParts DEF ServerOK
<1>3. UpOK' /\ ServerOK' /\ SameClient
    BY <1>1, <1>2, LinkParts, UpTaken, ServerLeft
<1>4. QED
    BY <1>1, <1>3, DownSame, QuietStep

LEMMA SrvClosedStep == \A c \in Joins : LinkIInv /\ SrvClosed(c) => LinkIInv'
<1> SUFFICES ASSUME NEW c \in Joins, LinkIInv, SrvClosed(c) PROVE LinkIInv'
    OBVIOUS
<1>1. /\ Take(c) /\ UNCHANGED clientOnly
      /\ UNCHANGED <<binds, tag, nextPeer, nextToken>>
    BY DEF SrvClosed, Takes
<1>2. joins' = joins /\ gone \subseteq Joins /\ UpOK'
    BY <1>1, PluginStays, LinkParts, UpTaken DEF ServerOK
<1>3. CASE ToClient(c)
  <2>1. srv' = Nobody /\ CloseConn(srv.conn, <<>>) /\ gone' = gone \cup {c, srv.conn}
      BY <1>3 DEF SrvClosed
  <2>2. srv.conn \in Joins
      BY <1>3, LinkParts DEF ServerOK, ToClient
  <2>3. /\ down' \in Seq(DownMsg) /\ Follows(down, down')
        /\ sock = 0 => down' = <<>>
        /\ lost' = lost /\ orphans' \subseteq Joins
      BY <2>1, <2>2, NonePlain, ClosePlain
  <2>4. ServerOK' /\ SameClient
      BY <1>1, <1>2, <2>1, <2>2, <2>3, ServerLeft
  <2>5. QED
      BY <1>1, <1>2, <2>1, <2>3, <2>4, QuietStep
<1>4. CASE ~ToClient(c)
  <2>1. /\ gone' = gone \cup {c} /\ srv' = srv /\ down' = down
        /\ lost' = lost /\ orphans' = orphans
      BY <1>4 DEF SrvClosed, history
  <2>2. ServerOK' /\ SameClient
      BY <1>1, <1>2, <2>1, LinkParts, ServerLeft DEF ServerOK
  <2>3. QED
      BY <1>1, <1>2, <2>1, <2>2, DownSame, QuietStep
<1>5. QED
    BY <1>3, <1>4

LEMMA SrvHeartbeatStep == \A c \in Joins : LinkIInv /\ SrvHeartbeat(c) => LinkIInv'
<1> SUFFICES ASSUME NEW c \in Joins, LinkIInv, SrvHeartbeat(c) PROVE LinkIInv'
    OBVIOUS
<1>1. /\ Take(c) /\ UNCHANGED clientOnly /\ UNCHANGED <<binds, serverVars>>
      /\ Tell(srv.conn, IF RoomDown THEN <<Other>> ELSE <<>>)
    BY DEF SrvHeartbeat
<1>2. joins' = joins /\ joins \in 0..MaxJoins /\ joins =< joins
    BY <1>1, PluginStays, LinkParts, Nats DEF PluginOK
<1>3. UpOK' /\ ServerOK' /\ SameClient /\ nextToken' = nextToken
    BY <1>1, <1>2, LinkParts, UpTaken, ServerStays
<1>4. Tell(srv.conn, <<Other>>) \/ Tell(srv.conn, <<>>)
    BY <1>1
<1>5. /\ down' \in Seq(DownMsg) /\ Follows(down, down')
      /\ sock = 0 => down' = <<>>
    BY <1>4, NonePlain, PlainMsgs, OnePlain, TellPlain
<1>6. QED
    BY <1>1, <1>3, <1>5, QuietStep

LEMMA SrvLosesStep == \A c \in Joins : LinkIInv /\ SrvLoses(c) => LinkIInv'
<1> SUFFICES ASSUME NEW c \in Joins, LinkIInv, SrvLoses(c) PROVE LinkIInv'
    OBVIOUS
<1>1. Take(c) /\ UNCHANGED clientOnly /\ UNCHANGED <<down, binds, serverVars>>
    BY DEF SrvLoses
<1>2. joins' = joins /\ joins \in 0..MaxJoins /\ joins =< joins
    BY <1>1, PluginStays, LinkParts, Nats DEF PluginOK
<1>3. UpOK' /\ ServerOK' /\ SameClient /\ nextToken' = nextToken
    BY <1>1, <1>2, LinkParts, UpTaken, ServerStays
<1>4. QED
    BY <1>1, <1>3, DownSame, QuietStep

LEMMA SrvDropsStep == LinkIInv /\ SrvDrops => LinkIInv'
<1> SUFFICES ASSUME LinkIInv, SrvDrops PROVE LinkIInv'
    OBVIOUS
<1>1. /\ In /\ srv' = Nobody /\ UNCHANGED clientOnly
      /\ UNCHANGED <<up, binds, tag, nextPeer, nextToken>>
    BY DEF SrvDrops
<1>2. PICK bye \in {<<>>, <<KickBye>>} : CloseConn(srv.conn, bye)
    BY DEF SrvDrops
<1>3. gone' = gone \cup {srv.conn}
    BY DEF SrvDrops
<1>4. srv.peer \in MyIds /\ srv.conn \in Joins /\ gone \subseteq Joins
    BY <1>1, LinkParts DEF In, ServerOK
<1>5. KickBye \in DownMsg /\ KickBye.type # "Welcome"
    BY <1>4, PlainMsgs DEF KickBye
<1>6. bye \in Seq(DownMsg) /\ NoWelcome(bye)
    BY <1>5, NonePlain, OnePlain
<1>7. /\ down' \in Seq(DownMsg) /\ Follows(down, down')
      /\ sock = 0 => down' = <<>>
      /\ lost' = lost /\ orphans' \subseteq Joins
    BY <1>2, <1>4, <1>6, ClosePlain
<1>8. joins' = joins /\ gone' \subseteq Joins
    BY <1>1, <1>3, <1>4, PluginStays
<1>9. UpOK' /\ ServerOK' /\ SameClient
    BY <1>1, <1>7, <1>8, UpStays, ServerLeft
<1>10. QED
    BY <1>1, <1>7, <1>9, QuietStep

LEMMA SrvSendsStep == LinkIInv /\ (SrvKicks \/ SendFrame) => LinkIInv'
<1> SUFFICES ASSUME LinkIInv, SrvKicks \/ SendFrame PROVE LinkIInv'
    OBVIOUS
<1>1. /\ In /\ UNCHANGED clientOnly /\ UNCHANGED <<up, binds, serverVars>>
      /\ \/ Tell(srv.conn, <<Bye(srv.peer)>>)
         \/ Tell(srv.conn, <<Other>>)
    BY DEF SrvKicks, SendFrame
<1>2. srv.peer \in MyIds
    BY <1>1, LinkParts DEF In, ServerOK
<1>3. /\ down' \in Seq(DownMsg) /\ Follows(down, down')
      /\ sock = 0 => down' = <<>>
    BY <1>1, <1>2, PlainMsgs, OnePlain, TellPlain
<1>4. joins' = joins /\ joins \in 0..MaxJoins /\ joins =< joins
    BY <1>1, PluginStays, LinkParts, Nats DEF PluginOK
<1>5. UpOK' /\ ServerOK' /\ SameClient /\ nextToken' = nextToken
    BY <1>1, <1>4, UpStays, ServerStays
<1>6. QED
    BY <1>1, <1>3, <1>5, QuietStep

LEMMA SrvExpireStep == \A c \in Joins : LinkIInv /\ SrvExpirePending(c) => LinkIInv'
<1> SUFFICES ASSUME NEW c \in Joins, LinkIInv, SrvExpirePending(c) PROVE LinkIInv'
    OBVIOUS
<1>1. /\ CloseConn(c, <<>>) /\ gone' = gone \cup {c} /\ UNCHANGED clientOnly
      /\ UNCHANGED <<up, binds, srv, tag, nextPeer, nextToken>>
    BY DEF SrvExpirePending
<1>2. joins' = joins /\ gone' \subseteq Joins
    BY <1>1, PluginStays, LinkParts DEF ServerOK
<1>3. /\ down' \in Seq(DownMsg) /\ Follows(down, down')
      /\ sock = 0 => down' = <<>>
      /\ lost' = lost /\ orphans' \subseteq Joins
    BY <1>1, NonePlain, ClosePlain
<1>4. UpOK' /\ ServerOK' /\ SameClient
    BY <1>1, <1>2, <1>3, UpStays, ServerLeft
<1>5. QED
    BY <1>1, <1>3, <1>4, QuietStep

(* A bind with the client's token came from the client's join. *)
LEMMA SrvBindStep == \A d \in binds : LinkIInv /\ SrvBind(d) => LinkIInv'
<1> SUFFICES ASSUME NEW d \in binds, LinkIInv, SrvBind(d) PROVE LinkIInv'
    OBVIOUS
<1>1. /\ In /\ d.peer = srv.peer /\ d.token = srv.token
      /\ srv' = [srv EXCEPT !.bound = d.addr] /\ binds' \subseteq binds
      /\ UNCHANGED clientOnly
      /\ UNCHANGED <<up, down, gone, tag, nextPeer, nextToken, lost, orphans>>
    BY DEF SrvBind, history
<1>2. d.addr \in Joins /\ d.addr = srv.conn
    BY <1>1, LinkParts DEF BindsOK, UdpBind
<1>3. /\ srv' \in [conn : Joins \cup {0}, peer : MyIds \cup {0},
                    token : 0..MaxToken, bound : Joins \cup {0}]
      /\ srv'.conn = srv.conn /\ srv'.peer = srv.peer /\ srv'.token = srv.token
      /\ srv'.bound = srv.conn
    BY <1>1, <1>2, LinkParts DEF ServerOK
<1>4. joins' = joins
    BY <1>1, PluginStays
<1>5. ServerOK' /\ SameClient /\ UpOK'
    BY <1>1, <1>3, <1>4, LinkParts, UpStays
       DEF ServerOK, In, BoundToThisJoin, SameClient
<1>6. QED
    BY <1>1, <1>5, DownSame, QuietStep

(* A new token goes with a Welcome to the connection the client is on now, *)
(* or the Welcome is lost.                                                 *)
LEMMA RenewStep ==
    ASSUME LinkIInv, UNCHANGED <<clientOnly, binds>>, UpOK', ServerOK',
           nextToken =< MaxToken, nextToken' = nextToken + 1,
           srv'.token = nextToken, srv'.peer \in MyIds, srv'.conn # 0,
           \/ srv'.conn = sock /\ down' = down \o <<Welcome(srv'.peer, nextToken)>>
           \/ /\ srv'.conn # sock \/ lost' = nextToken
              /\ down' \in Seq(DownMsg) /\ Follows(down, down')
              /\ sock = 0 => down' = <<>>
    PROVE  LinkIInv'
<1> DEFINE w == Welcome(srv'.peer, nextToken)
<1>1. PluginOK' /\ FlagsOK' /\ UNCHANGED <<leaving, sock, joins, myPeerId, udpToken>>
    BY PluginStays
<1>2. nextToken \in 1..MaxToken /\ nextToken \in Nat
    BY LinkParts, Nats DEF ServerOK
<1>3. /\ w \in DownMsg /\ w.type = "Welcome" /\ w.token = nextToken
    BY <1>2, WelcomeMsgs
<1> HIDE DEF w
<1>4. down \in Seq(DownMsg) /\ (sock = 0 => down = <<>>)
    BY LinkParts DEF DownOK
<1>5. \A i \in 1..Len(down) : down[i].type = "Welcome" =>
          down[i].token < nextToken /\ down[i].token \in Nat
  <2> SUFFICES ASSUME NEW i \in 1..Len(down), down[i].type = "Welcome"
               PROVE  down[i].token < nextToken /\ down[i].token \in Nat
      OBVIOUS
  <2>1. down[i] \in DownMsg
      BY <1>4
  <2>2. QED
      BY <2>1, WelcomeMsgs, LinkParts, Nats DEF DownOK
<1>6. ASSUME srv'.conn = sock, down' = down \o <<w>> PROVE DownOK' /\ WelcomeOK'
  <2>1. down' = down \o <<w>>
      BY <1>6
  <2>2. /\ down' \in Seq(DownMsg) /\ LastWelcome(down', w)
        /\ \A i \in 1..Len(down') :
               down'[i] = w \/ \E j \in 1..Len(down) : down[j] = down'[i]
      BY <1>3, <1>4, <2>1, WelcomeLast
  <2>3. ASSUME NEW i \in 1..Len(down'), down'[i].type = "Welcome"
        PROVE  down'[i].token < nextToken'
    <3>1. CASE down'[i] = w
        BY <1>2, <1>3, <3>1
    <3>2. CASE \E j \in 1..Len(down) : down[j] = down'[i]
        BY <1>2, <1>5, <2>3, <3>2
    <3>3. QED
        BY <2>2, <3>1, <3>2
  <2>4. DownOK'
      BY <1>1, <1>6, <2>2, <2>3 DEF DownOK
  <2>5. w = Welcome(srv.peer, srv.token)'
      BY DEF w, Welcome
  <2>6. LastWelcome(down, Welcome(srv.peer, srv.token))'
      BY <2>2, <2>5 DEF LastWelcome
  <2>7. QED
      BY <2>4, <2>6 DEF WelcomeOK
<1>7. ASSUME srv'.conn # sock \/ lost' = nextToken,
             down' \in Seq(DownMsg), Follows(down, down'), sock = 0 => down' = <<>>
      PROVE  DownOK' /\ WelcomeOK'
  <2>1. ASSUME NEW i \in 1..Len(down'), down'[i].type = "Welcome"
        PROVE  down'[i].token < nextToken' /\ down'[i].token # srv'.token
    <3>1. PICK j \in 1..Len(down) : down[j] = down'[i]
        BY <1>7, <2>1 DEF Follows
    <3>2. QED
        BY <1>2, <1>5, <2>1, <3>1
  <2>2. DownOK'
      BY <1>1, <1>7, <2>1 DEF DownOK
  <2>3. WelcomeOK'
      BY <1>1, <1>7 DEF WelcomeOK
  <2>4. QED
      BY <2>2, <2>3
<1>8. DownOK' /\ WelcomeOK'
    BY <1>6, <1>7 DEF w
<1>9. BindsOK'
  <2>1. \A d \in binds : d.token \in Nat /\ d.token < nextToken
      BY LinkParts, Nats DEF BindsOK, UdpBind
  <2>2. binds' = binds /\ binds \subseteq UdpBind
      BY LinkParts DEF BindsOK
  <2>3. QED
      BY <1>2, <2>1, <2>2 DEF BindsOK
<1>10. TokenOK'
  <2>1. udpToken \in Nat /\ udpToken < nextToken
      BY LinkParts, Nats DEF PluginOK, TokenOK
  <2>2. QED
      BY <1>1, <1>2, <2>1 DEF TokenOK
<1>11. QED
    BY <1>1, <1>8, <1>9, <1>10, LinkTogether

LEMMA SrvHelloStep == \A c \in Joins : LinkIInv /\ SrvHello(c) => LinkIInv'
<1> SUFFICES ASSUME NEW c \in Joins, LinkIInv, SrvHello(c) PROVE LinkIInv'
    OBVIOUS
<1> DEFINE p == IF In THEN srv.peer ELSE nextPeer
<1>1. /\ Take(c) /\ nextToken =< MaxToken /\ p =< MaxPeer
      /\ srv' = [conn |-> c, peer |-> p, token |-> nextToken, bound |-> 0]
      /\ gone' = IF In THEN gone \cup {srv.conn} ELSE gone
      /\ tag' = [tag EXCEPT ![c] = p]
      /\ IF c = sock THEN TellWelcome(c, p, nextToken) /\ UNCHANGED orphans
                     ELSE CloseConn(srv.conn, <<>>)
      /\ nextPeer' = IF In THEN nextPeer ELSE nextPeer + 1
      /\ nextToken' = nextToken + 1
      /\ UNCHANGED <<clientOnly, binds>>
    BY DEF SrvHello, JoinToken, Takes
<1>2. p \in MyIds /\ nextPeer' \in 1..(MaxPeer + 1)
    BY <1>1, LinkParts, Nats DEF ServerOK, In, MyIds
<1> HIDE DEF p
<1>3. joins' = joins /\ UNCHANGED sock /\ UpOK'
    BY <1>1, PluginStays, LinkParts, UpTaken
<1>4. c =< joins /\ c # 0
  <2>1. up[c] # <<>> /\ c \in Nat /\ joins \in Nat /\ c # 0
      BY <1>1, LinkParts, Nats DEF Take, PluginOK, Joins
  <2>2. QED
      BY <2>1, LinkParts DEF UpOK
<1>5. /\ nextToken' \in 1..(MaxToken + 1) /\ nextToken \in 0..MaxToken
      /\ nextToken # 0 /\ nextToken < nextToken'
    BY <1>1, LinkParts, Nats DEF ServerOK
<1>6. /\ srv' \in [conn : Joins \cup {0}, peer : MyIds \cup {0},
                    token : 0..MaxToken, bound : Joins \cup {0}]
      /\ srv'.conn = c /\ srv'.peer = p /\ srv'.token = nextToken /\ srv'.bound = 0
    BY <1>1, <1>2, <1>5
<1>7. gone' \subseteq Joins /\ tag' \in [Joins -> MyIds \cup {0}]
    BY <1>1, <1>2, LinkParts DEF ServerOK
<1>8. ASSUME c # sock
      PROVE  /\ down' \in Seq(DownMsg) /\ Follows(down, down')
             /\ sock = 0 => down' = <<>>
             /\ lost' = lost /\ orphans' \subseteq Joins
  <2>1. srv.conn \in Joins \cup {0}
      BY LinkParts DEF ServerOK
  <2>2. QED
      BY <1>1, <1>8, <2>1, NonePlain, ClosePlain
<1>9. ASSUME c = sock
      PROVE  /\ orphans' = orphans
             /\ \/ down' = down \o <<Welcome(p, nextToken)>> /\ lost' = lost
                \/ down' = down /\ lost' = nextToken
    BY <1>1, <1>4, <1>9 DEF TellWelcome, Say, Hears
<1>10. lost' \in 0..MaxToken /\ orphans' \subseteq Joins
    BY <1>5, <1>8, <1>9, LinkParts DEF ServerOK
<1>11. ServerOK'
    BY <1>2, <1>3, <1>4, <1>5, <1>6, <1>7, <1>10 DEF ServerOK, BoundToThisJoin
<1>12. \/ srv'.conn = sock /\ down' = down \o <<Welcome(srv'.peer, nextToken)>>
       \/ /\ srv'.conn # sock \/ lost' = nextToken
          /\ down' \in Seq(DownMsg) /\ Follows(down, down')
          /\ sock = 0 => down' = <<>>
    BY <1>6, <1>8, <1>9, DownSame
<1>13. /\ UNCHANGED <<clientOnly, binds>> /\ nextToken =< MaxToken
       /\ nextToken' = nextToken + 1 /\ srv'.token = nextToken
       /\ srv'.peer \in MyIds /\ srv'.conn # 0
    BY <1>1, <1>2, <1>4, <1>6
<1>14. QED
    BY <1>3, <1>11, <1>12, <1>13, RenewStep

LEMMA SrvHelloAgainStep == \A c \in Joins : LinkIInv /\ SrvHelloAgain(c) => LinkIInv'
<1> SUFFICES ASSUME NEW c \in Joins, LinkIInv, SrvHelloAgain(c) PROVE LinkIInv'
    OBVIOUS
<1>1. /\ Take(c) /\ In /\ nextToken =< MaxToken
      /\ srv' = [srv EXCEPT !.token = nextToken, !.bound = 0]
      /\ nextToken' = nextToken + 1
      /\ TellWelcome(srv.conn, srv.peer, nextToken)
      /\ UNCHANGED <<clientOnly, binds>> /\ UNCHANGED <<gone, tag, nextPeer, orphans>>
    BY DEF SrvHelloAgain, Takes, ToClient
<1>2. joins' = joins /\ UNCHANGED sock /\ UpOK'
    BY <1>1, PluginStays, LinkParts, UpTaken
<1>3. /\ nextToken' \in 1..(MaxToken + 1) /\ nextToken \in 0..MaxToken
      /\ nextToken # 0 /\ nextToken < nextToken'
    BY <1>1, LinkParts, Nats DEF ServerOK
<1>4. /\ srv' \in [conn : Joins \cup {0}, peer : MyIds \cup {0},
                    token : 0..MaxToken, bound : Joins \cup {0}]
      /\ srv'.conn = srv.conn /\ srv'.peer = srv.peer
      /\ srv'.token = nextToken /\ srv'.bound = 0
    BY <1>1, <1>3, LinkParts DEF ServerOK
<1>5. srv.peer \in MyIds /\ srv.conn # 0
    BY <1>1, LinkParts DEF ServerOK, In
<1>6. \/ down' = (IF srv.conn = sock THEN down \o <<Welcome(srv.peer, nextToken)>>
                   ELSE down) /\ lost' = lost
      \/ down' = down /\ lost' = nextToken
    BY <1>1, <1>5 DEF TellWelcome, Say, Hears
<1>7. lost' \in 0..MaxToken
    BY <1>3, <1>6, LinkParts DEF ServerOK
<1>8. ServerOK'
    BY <1>1, <1>2, <1>3, <1>4, <1>5, <1>7, LinkParts DEF ServerOK, BoundToThisJoin
<1>9. \/ srv'.conn = sock /\ down' = down \o <<Welcome(srv'.peer, nextToken)>>
      \/ /\ srv'.conn # sock \/ lost' = nextToken
         /\ down' \in Seq(DownMsg) /\ Follows(down, down')
         /\ sock = 0 => down' = <<>>
    BY <1>4, <1>6, DownSame
<1>10. QED
    BY <1>1, <1>2, <1>4, <1>5, <1>8, <1>9, RenewStep

-----------------------------------------------------------------------------
(* The plugin's steps *)

LEMMA SameServer ==
    ASSUME LinkIInv, UNCHANGED serverVars, UNCHANGED joins
    PROVE  ServerOK' /\ SameClient /\ nextToken' = nextToken
<1>1. joins' \in 0..MaxJoins /\ joins =< joins'
    BY LinkParts, Nats DEF PluginOK
<1>2. QED
    BY <1>1, ServerStays

LEMMA JoinStep == LinkIInv /\ Join /\ UNCHANGED serverVars => LinkIInv'
<1> SUFFICES ASSUME LinkIInv, Join, UNCHANGED serverVars PROVE LinkIInv'
    OBVIOUS
<1>1. /\ ~joined /\ joins < MaxJoins /\ joins' = joins + 1 /\ sock' = joins + 1
      /\ up' = [up EXCEPT ![joins + 1] = <<Hello>>]
      /\ UNCHANGED <<myPeerId, udpToken, udpBound, leaving, lastRecv, down, binds>>
    BY DEF Join
<1>2. joined' /\ joined' \in BOOLEAN /\ hbRun' \in BOOLEAN /\ hb' \in BOOLEAN
    BY Zenon DEF Join
<1>3. /\ joins \in Nat /\ joins' \in 0..MaxJoins /\ joins =< joins'
      /\ joins + 1 \in Joins /\ sock' # 0 /\ sock' =< joins'
      /\ joins < joins'
    BY <1>1, LinkParts, Nats DEF PluginOK, Joins
<1>4. ~leaving /\ sock = 0 /\ down = <<>> /\ udpToken = 0
    BY <1>1, LinkParts DEF PluginOK, DownOK
<1>5. ServerOK' /\ SameClient /\ nextToken' = nextToken
    BY <1>3, ServerStays
<1>6. PluginOK'
    BY <1>1, <1>2, <1>3, <1>4, LinkParts DEF PluginOK
<1>7. FlagsOK'
    BY <1>1, <1>2, LinkParts DEF FlagsOK
<1>8. UpOK'
  <2>1. <<Hello>> \in Seq(UpMsg)
      BY UpMsgs
  <2>2. /\ up' \in [Joins -> Seq(UpMsg)]
        /\ \A c \in Joins : c # joins + 1 => up'[c] = up[c]
      BY <1>1, <1>3, <2>1, LinkParts DEF UpOK
  <2>3. \A c \in Joins : c > joins' => c > joins /\ c # joins + 1
      BY <1>1, <1>3, Nats DEF Joins
  <2>4. QED
      BY <2>2, <2>3, LinkParts DEF UpOK
<1>9. DownOK'
    BY <1>1, <1>3, <1>4, LinkParts DEF DownOK
<1>10. BindsOK'
    BY <1>1, <1>5, BindsStay
<1>11. In' => In /\ srv'.token = srv.token /\ srv'.token # 0 /\ srv'.conn # sock'
  <2>1. srv.conn =< joins /\ srv.conn \in Nat
      BY LinkParts, Nats DEF ServerOK, Joins
  <2>2. srv.conn # sock'
      BY <1>1, <1>3, <2>1
  <2>3. QED
      BY <2>2, <1>5, SameIn, LinkParts DEF ServerOK
<1>12. TokenOK' /\ WelcomeOK'
    BY <1>1, <1>4, <1>5, <1>11, LinkParts DEF TokenOK, WelcomeOK
<1>13. QED
    BY <1>5, <1>6, <1>7, <1>8, <1>9, <1>10, <1>12, LinkTogether

LEMMA Ticking ==
    ASSUME LinkIInv, InTick
    PROVE  joined /\ ~leaving /\ sock # 0 /\ sock \in Joins
    BY LinkParts DEF InTick, PluginOK

LEMMA LeaveBegins ==
    ASSUME LinkIInv, InTick, UNCHANGED serverVars, NEW open \in BOOLEAN,
           BeginLeave(open), lastRecv' \in {"never", "recent", "ago"},
           UNCHANGED binds, down' \in Seq(DownMsg), Follows(down, down'),
           ~open => down' = <<>>
    PROVE  LinkIInv'
<1>1. joined /\ ~leaving /\ sock # 0 /\ sock \in Joins
    BY Ticking
<1>2. /\ up' = IF open THEN SendTcp(ByeFrame) ELSE up
      /\ sock' = IF open THEN sock ELSE 0
      /\ UNCHANGED <<joined, myPeerId, udpToken, udpBound, hb, joins>>
    BY DEF BeginLeave, netState
<1>3. leaving' /\ leaving' \in BOOLEAN /\ hbRun' \in BOOLEAN
    BY Zenon DEF BeginLeave
<1>4. ServerOK' /\ SameClient /\ nextToken' = nextToken
    BY <1>2, SameServer
<1>5. sock' \in {sock, 0}
    BY <1>2
<1>6. PluginOK'
  <2>1. sock' \in Joins \cup {0} /\ sock' =< joins
      BY <1>5, LinkParts, Nats DEF PluginOK
  <2>2. QED
      BY <1>1, <1>2, <1>3, <2>1, LinkParts DEF PluginOK
<1>7. FlagsOK'
    BY <1>2, <1>3, LinkParts DEF FlagsOK
<1>8. UpOK'
  <2>1. CASE open = TRUE
      BY <1>1, <1>2, <2>1, LinkParts, UpMsgs, UpSent
  <2>2. CASE open = FALSE
      BY <1>2, <2>2, UpStays
  <2>3. QED
      BY <2>1, <2>2
<1>9. DownOK'
  <2>1. CASE open = TRUE
      BY <1>1, <1>2, <1>4, <2>1, DownStays
  <2>2. CASE open = FALSE
    <3>1. down' = <<>>
        BY <2>2
    <3>2. QED
        BY <3>1 DEF DownOK
  <2>3. QED
      BY <2>1, <2>2
<1>10. BindsOK'
    BY <1>4, BindsStay
<1>11. TokenOK' /\ WelcomeOK'
    BY <1>2, <1>3, <1>4, TokenStays, WelcomeStays
<1>12. QED
    BY <1>4, <1>6, <1>7, <1>8, <1>9, <1>10, <1>11, LinkTogether

LEMMA LeaveStep == LinkIInv /\ (Leave \/ TimeOut) /\ UNCHANGED serverVars => LinkIInv'
<1> SUFFICES ASSUME LinkIInv, Leave \/ TimeOut, UNCHANGED serverVars
             PROVE  LinkIInv'
    OBVIOUS
<1>1. InTick /\ BeginLeave(TRUE) /\ UNCHANGED <<lastRecv, down, binds>>
    BY DEF Leave, TimeOut
<1>2. lastRecv' \in {"never", "recent", "ago"}
    BY <1>1, LinkParts DEF FlagsOK
<1>3. QED
    BY <1>1, <1>2, DownSame, LeaveBegins

LEMMA EndLeaveStep == LinkIInv /\ EndLeave /\ UNCHANGED serverVars => LinkIInv'
<1> SUFFICES ASSUME LinkIInv, EndLeave, UNCHANGED serverVars PROVE LinkIInv'
    OBVIOUS
<1>1. /\ up' = IF sock = 0 THEN up ELSE SendTcp(Eof)
      /\ sock' = 0 /\ down' = <<>> /\ myPeerId' = 0 /\ udpToken' = 0
      /\ UNCHANGED <<hbRun, hb, lastRecv, joins, binds>>
    BY DEF EndLeave, hbState
<1>2. ~leaving' /\ ~joined' /\ leaving' \in BOOLEAN /\ joined' \in BOOLEAN
      /\ udpBound' \in BOOLEAN
    BY Zenon DEF EndLeave
<1>3. ServerOK' /\ SameClient /\ nextToken' = nextToken
    BY <1>1, SameServer
<1>4. PluginOK'
  <2>1. 0 =< joins /\ 0 \in 0..MaxToken
      BY LinkParts, Nats DEF PluginOK
  <2>2. QED
      BY <1>1, <1>2, <2>1, LinkParts DEF PluginOK
<1>5. FlagsOK'
    BY <1>1, <1>2, LinkParts DEF FlagsOK
<1>6. UpOK'
  <2>1. CASE sock = 0
      BY <1>1, <2>1, UpStays
  <2>2. CASE sock # 0
      BY <1>1, <2>2, LinkParts, UpMsgs, UpSent
  <2>3. QED
      BY <2>1, <2>2
<1>7. DownOK'
    BY <1>1 DEF DownOK
<1>8. BindsOK'
    BY <1>1, <1>3, BindsStay
<1>9. 0 < nextToken' /\ (In' => srv'.conn # sock' /\ srv'.token # 0)
    BY <1>1, <1>3, LinkParts, Nats DEF ServerOK
<1>10. TokenOK' /\ WelcomeOK'
    BY <1>1, <1>9 DEF TokenOK, WelcomeOK
<1>11. QED
    BY <1>3, <1>4, <1>5, <1>6, <1>7, <1>8, <1>10, LinkTogether

(* A step that says nothing to the other end but a frame. *)
LEMMA PluginTalks ==
    ASSUME LinkIInv, UNCHANGED serverVars, UpOK', FlagsOK',
           UNCHANGED <<joined, leaving, sock, joins, myPeerId, udpToken>>,
           binds' \subseteq binds,
           down' \in Seq(DownMsg), Follows(down, down'), sock = 0 => down' = <<>>
    PROVE  LinkIInv'
<1>1. ServerOK' /\ SameClient /\ nextToken' = nextToken
    BY SameServer
<1>2. PluginOK'
    BY LinkParts DEF PluginOK
<1>3. DownOK' /\ BindsOK' /\ TokenOK' /\ WelcomeOK'
    BY <1>1, DownStays, BindsStay, TokenStays, WelcomeStays
<1>4. QED
    BY <1>1, <1>2, <1>3, LinkTogether

LEMMA TalkStep ==
    LinkIInv /\ (HbThread \/ RetryHello) /\ UNCHANGED serverVars => LinkIInv'
<1> SUFFICES ASSUME LinkIInv, HbThread \/ RetryHello, UNCHANGED serverVars
             PROVE  LinkIInv'
    OBVIOUS
<1>1. /\ UNCHANGED <<joined, leaving, sock, joins, myPeerId, udpToken, udpBound,
                     hbRun, lastRecv, down, binds>>
      /\ hb' \in {hb, hbRun}
    BY DEF HbThread, HbAgain, RetryHello, clientOnly, netState, hbState
<1>2. \/ up' = up
      \/ sock # 0 /\ up' = SendTcp(Heartbeat)
      \/ InTick /\ up' = SendTcp(Hello)
    BY DEF HbThread, RetryHello
<1>3. UpOK'
    BY <1>1, <1>2, LinkParts, Ticking, UpMsgs, UpSent, UpStays
<1>4. FlagsOK'
    BY <1>1, LinkParts DEF FlagsOK
<1>5. QED
    BY <1>1, <1>3, <1>4, DownSame, PluginTalks

LEMMA QuietTickStep ==
    ASSUME LinkIInv, UNCHANGED serverVars,
           OnDatagram \/ FifteenSeconds \/ \E d \in binds : Lost(d)
    PROVE  LinkIInv'
<1>1. /\ UNCHANGED <<joined, leaving, sock, joins, myPeerId, udpToken, udpBound,
                     hbRun, hb, up, down>>
      /\ binds' \subseteq binds
      /\ lastRecv' \in {lastRecv, "never", "recent", "ago"}
    BY DEF OnDatagram, FifteenSeconds, Lost, Handled, clientOnly, netState,
           hbState, wire
<1>2. FlagsOK' /\ UpOK'
    BY <1>1, LinkParts, UpStays DEF FlagsOK
<1>3. QED
    BY <1>1, <1>2, DownSame, PluginTalks

(* A bind goes out from the socket of this join, with the token the plugin *)
(* has from it.                                                            *)
LEMMA BindSent ==
    ASSUME LinkIInv, SameClient, nextToken' = nextToken,
           NEW p \in MyIds, NEW k \in 1..MaxToken, sock \in Joins, k < nextToken,
           In /\ k = srv.token => srv.conn = sock,
           binds' \in {binds, binds \cup {Bind(sock, p, k)}}
    PROVE  BindsOK'
<1>1. /\ Bind(sock, p, k) \in UdpBind
      /\ Bind(sock, p, k).token = k /\ Bind(sock, p, k).addr = sock
    BY DEF Bind, UdpBind
<1>2. binds' \subseteq UdpBind
    BY <1>1, LinkParts DEF BindsOK
<1>3. ASSUME NEW d \in binds'
      PROVE  /\ d.token < nextToken'
             /\ In' /\ d.token = srv'.token => d.addr = srv'.conn
  <2>1. CASE d \in binds
      BY <2>1, SameIn, LinkParts DEF BindsOK
  <2>2. CASE d = Bind(sock, p, k)
      BY <1>1, <2>2, SameIn
  <2>3. QED
      BY <2>1, <2>2
<1>4. QED
    BY <1>2, <1>3 DEF BindsOK

LEMMA RetryBindStep == LinkIInv /\ RetryBind /\ UNCHANGED serverVars => LinkIInv'
<1> SUFFICES ASSUME LinkIInv, RetryBind, UNCHANGED serverVars PROVE LinkIInv'
    OBVIOUS
<1>1. /\ InTick /\ myPeerId # 0 /\ udpToken # 0
      /\ binds' = binds \cup {Bind(sock, myPeerId, udpToken)}
      /\ UNCHANGED <<joined, myPeerId, udpToken, leaving, hbRun, hb, lastRecv,
                     sock, joins, up, down>>
    BY DEF RetryBind, hbState
<1>2. udpBound' \in BOOLEAN
    BY Zenon DEF RetryBind
<1>3. ServerOK' /\ SameClient /\ nextToken' = nextToken
    BY <1>1, SameServer
<1>4. PluginOK' /\ FlagsOK' /\ UpOK'
    BY <1>1, <1>2, LinkParts, UpStays DEF PluginOK, FlagsOK
<1>5. ~leaving /\ sock \in Joins
    BY <1>1, Ticking
<1>6. myPeerId \in MyIds /\ udpToken \in 1..MaxToken
    BY <1>1, LinkParts, Nats DEF PluginOK
<1>7. BindsOK'
    BY <1>1, <1>3, <1>5, <1>6, LinkParts, BindSent DEF TokenOK
<1>8. DownOK' /\ TokenOK' /\ WelcomeOK'
    BY <1>1, <1>3, DownSame, DownStays, TokenStays, WelcomeStays
<1>9. QED
    BY <1>3, <1>4, <1>7, <1>8, LinkTogether

LEMMA OnWelcomeStep == LinkIInv /\ OnWelcome /\ UNCHANGED serverVars => LinkIInv'
<1> SUFFICES ASSUME LinkIInv, OnWelcome, UNCHANGED serverVars PROVE LinkIInv'
    OBVIOUS
<1> DEFINE m == Head(down)
<1>1. /\ InTick /\ down # <<>> /\ m.type = "Welcome" /\ down' = Tail(down)
      /\ lastRecv' = "recent" /\ myPeerId' = m.peer /\ udpToken' = m.token
      /\ binds' \in {binds, binds \cup {Bind(sock, m.peer, m.token)}}
      /\ UNCHANGED <<joined, leaving, hbRun, hb, sock, joins, up>>
    BY DEF OnWelcome, Read, Handled, TokenOf, hbState
<1>2. udpBound' \in BOOLEAN
  <2>1. udpBound' = TRUE \/ udpBound' = udpBound
      BY Zenon DEF OnWelcome
  <2>2. QED
      BY <2>1, LinkParts DEF FlagsOK
<1>3. ServerOK' /\ SameClient /\ nextToken' = nextToken
    BY <1>1, SameServer
<1>4. ~leaving /\ sock # 0 /\ sock \in Joins
    BY <1>1, Ticking
<1>5. /\ Tail(down) \in Seq(DownMsg) /\ m \in DownMsg
      /\ m = down[1] /\ 1 \in 1..Len(down)
      /\ \A i \in 1..Len(Tail(down)) : \E j \in 1..Len(down) : down[j] = Tail(down)[i]
      /\ \A x : LastWelcome(down, x) =>
             \/ LastWelcome(Tail(down), x)
             \/ x = m /\ NoWelcome(Tail(down))
      /\ ~NoWelcome(down)
    BY <1>1, LinkParts, TailRest DEF DownOK
<1> HIDE DEF m
<1>6. /\ m.peer \in MyIds /\ m.token \in 1..MaxToken
      /\ m.token < nextToken
      /\ In /\ m.token = srv.token => srv.conn = sock
    BY <1>1, <1>5, WelcomeMsgs, LinkParts DEF DownOK
<1>7. PluginOK'
  <2>1. m.token \in 0..MaxToken
      BY <1>6, Nats
  <2>2. joined
      BY <1>1, Ticking
  <2>3. QED
      BY <1>1, <1>6, <2>1, <2>2, LinkParts DEF PluginOK
<1>8. FlagsOK' /\ UpOK'
    BY <1>1, <1>2, LinkParts, UpStays DEF FlagsOK
<1>9. BindsOK'
    BY <1>1, <1>3, <1>4, <1>6, BindSent
<1>10. TokenOK'
    BY <1>1, <1>3, <1>6, SameIn DEF TokenOK
<1>11. DownOK'
    BY <1>1, <1>3, <1>4, <1>5, SameIn, LinkParts DEF DownOK
<1>12. WelcomeOK'
  <2> SUFFICES ASSUME In', srv'.conn = sock', ~leaving', lost' # srv'.token
               PROVE  \/ LastWelcome(down, Welcome(srv.peer, srv.token))'
                      \/ /\ NoWelcome(down)'
                         /\ myPeerId' = srv'.peer /\ udpToken' = srv'.token
      BY DEF WelcomeOK
  <2>1. In /\ srv' = srv /\ lost' = lost
      BY <1>3, SameIn DEF serverVars
  <2> DEFINE w == Welcome(srv.peer, srv.token)
  <2>2. LastWelcome(down, w)
      BY <1>1, <1>5, <2>1, LinkParts DEF WelcomeOK
  <2>3. w.peer = srv.peer /\ w.token = srv.token /\ w' = w
      BY <2>1, WelcomeMsgs DEF Welcome
  <2> HIDE DEF w
  <2>4. CASE LastWelcome(Tail(down), w)
      BY <1>1, <2>3, <2>4 DEF LastWelcome, w
  <2>5. CASE w = m /\ NoWelcome(Tail(down))
    <3>1. NoWelcome(down)'
        BY <1>1, <2>5 DEF NoWelcome
    <3>2. QED
        BY <1>1, <2>1, <2>3, <2>5, <3>1
  <2>6. QED
      BY <1>5, <2>2, <2>4, <2>5
<1>13. QED
    BY <1>3, <1>7, <1>8, <1>9, <1>10, <1>11, <1>12, LinkTogether

(* The head of the stream, when it is not a Welcome. *)
LEMMA ReadPlain ==
    ASSUME LinkIInv, NEW t, Read(t), t # "Welcome"
    PROVE  /\ InTick /\ lastRecv' = "recent"
           /\ down' \in Seq(DownMsg) /\ Follows(down, down')
<1>1. /\ InTick /\ lastRecv' = "recent" /\ down # <<>> /\ Head(down).type = t
      /\ down' = Tail(down)
    BY DEF Read, Handled
<1>2. QED
    BY <1>1, LinkParts, TailRest DEF DownOK

LEMMA OnPlainStep ==
    LinkIInv /\ (OnReject \/ OnBye \/ OnOther) /\ UNCHANGED serverVars => LinkIInv'
<1> SUFFICES ASSUME LinkIInv, OnReject \/ OnBye \/ OnOther, UNCHANGED serverVars
             PROVE  LinkIInv'
    OBVIOUS
<1>1. /\ InTick /\ lastRecv' = "recent" /\ UNCHANGED binds
      /\ down' \in Seq(DownMsg) /\ Follows(down, down')
    BY ReadPlain DEF OnReject, OnBye, OnOther
<1>2. sock # 0
    BY <1>1, Ticking
<1>3. CASE BeginLeave(TRUE)
    BY <1>1, <1>3, LeaveBegins
<1>4. CASE UNCHANGED <<netState, leaving, hbState, sock, joins, up>>
  <2>1. UNCHANGED <<joined, leaving, sock, joins, myPeerId, udpToken, udpBound,
                    hbRun, hb, up>>
      BY <1>4 DEF netState, hbState
  <2>2. FlagsOK' /\ UpOK'
      BY <1>1, <2>1, LinkParts, UpStays DEF FlagsOK
  <2>3. QED
      BY <1>1, <1>2, <2>1, <2>2, PluginTalks
<1>5. QED
    BY <1>3, <1>4 DEF OnReject, OnBye, OnOther

LEMMA OnClosedStep == LinkIInv /\ OnClosed /\ UNCHANGED serverVars => LinkIInv'
<1> SUFFICES ASSUME LinkIInv, OnClosed, UNCHANGED serverVars PROVE LinkIInv'
    OBVIOUS
<1>1. /\ InTick /\ down' = <<>> /\ UNCHANGED <<lastRecv, binds>>
      /\ UNCHANGED <<netState, hb, joins>> /\ up' = up /\ sock' = 0
    BY DEF OnClosed, BeginLeave
<1>2. /\ leaving' /\ leaving' \in BOOLEAN /\ hbRun' \in BOOLEAN
    BY Zenon DEF OnClosed, BeginLeave
<1>3. ServerOK' /\ SameClient /\ nextToken' = nextToken
    BY <1>1, SameServer
<1>4. 0 =< joins /\ joined
    BY <1>1, LinkParts, Nats DEF PluginOK, InTick
<1>5. PluginOK'
    BY <1>1, <1>2, <1>4, LinkParts DEF PluginOK, netState
<1>6. FlagsOK' /\ UpOK'
    BY <1>1, <1>2, LinkParts, UpStays DEF FlagsOK, netState
<1>7. DownOK' /\ WelcomeOK'
    BY <1>1, <1>2 DEF DownOK, WelcomeOK
<1>8. BindsOK' /\ TokenOK'
    BY <1>1, <1>2, <1>3, BindsStay, TokenStays DEF netState
<1>9. QED
    BY <1>3, <1>5, <1>6, <1>7, <1>8, LinkTogether

-----------------------------------------------------------------------------
(* The theorems *)

LEMMA LinkInitInv == LinkInit => LinkIInv
<1> SUFFICES ASSUME LinkInit PROVE LinkIInv
    OBVIOUS
<1>1. /\ myPeerId = 0 /\ udpToken = 0 /\ lastRecv = "never"
      /\ sock = 0 /\ joins = 0
      /\ up = [n \in Joins |-> <<>>] /\ down = <<>> /\ binds = {}
      /\ srv = Nobody /\ gone = {} /\ tag = [n \in Joins |-> 0]
      /\ nextPeer = 1 /\ nextToken = 1 /\ lost = 0 /\ orphans = {}
    BY Zenon DEF LinkInit, ClientInit
<1>2. /\ ~joined /\ ~leaving /\ joined \in BOOLEAN /\ leaving \in BOOLEAN
      /\ udpBound \in BOOLEAN /\ hbRun \in BOOLEAN /\ hb \in BOOLEAN
    BY Zenon DEF LinkInit, ClientInit
<1>3. PluginOK /\ FlagsOK
    BY <1>1, <1>2, Nats DEF PluginOK, FlagsOK
<1>4. UpOK
    BY <1>1 DEF UpOK
<1>5. ServerOK /\ ~In
  <2>1. srv.conn = 0 /\ srv.peer = 0 /\ srv.token = 0 /\ srv.bound = 0
      BY <1>1 DEF Nobody
  <2>2. srv \in [conn : Joins \cup {0}, peer : MyIds \cup {0},
                 token : 0..MaxToken, bound : Joins \cup {0}]
      BY <1>1, Nats DEF Nobody
  <2>3. QED
      BY <1>1, <2>1, <2>2, Nats DEF ServerOK, In, BoundToThisJoin
<1>6. DownOK /\ BindsOK /\ TokenOK /\ WelcomeOK
    BY <1>1, <1>5 DEF DownOK, BindsOK, TokenOK, WelcomeOK
<1>7. QED
    BY <1>3, <1>4, <1>5, <1>6 DEF LinkIInv

LEMMA ClientSteps == LinkIInv /\ ClientStep => LinkIInv'
    BY JoinStep, LeaveStep, EndLeaveStep, TalkStep, QuietTickStep, RetryBindStep,
       OnWelcomeStep, OnPlainStep, OnClosedStep
       DEF ClientStep, NetPoll, ReadFrame

LEMMA StillStep == LinkIInv /\ UNCHANGED linkVars => LinkIInv'
<1> SUFFICES ASSUME LinkIInv, UNCHANGED linkVars PROVE LinkIInv'
    OBVIOUS
<1>1. /\ UNCHANGED serverVars /\ UNCHANGED <<netState, hbState, lastRecv>>
      /\ UNCHANGED <<leaving, sock, joins, up, down, binds>>
    BY DEF linkVars, clientVars, clientOnly, wire
<1>2. FlagsOK' /\ UpOK'
    BY <1>1, LinkParts, UpStays DEF FlagsOK, netState, hbState
<1>3. QED
    BY <1>1, <1>2, DownSame, PluginTalks DEF netState

LEMMA LinkStep == LinkIInv /\ [LinkNext]_linkVars => LinkIInv'
    BY ClientSteps, SrvRefuseStep, SrvHelloStep, SrvHelloAgainStep, SrvByeStep,
       SrvClosedStep, SrvHeartbeatStep, SrvLosesStep, SrvExpireStep, SrvDropsStep,
       SrvSendsStep, SrvBindStep, StillStep
       DEF LinkNext, SrvAnswers

(* Whatever is repeated, lost, late or replaced, the plugin that has read  *)
(* every Welcome holds the peer id and the token of the server's client:   *)
(* the last Welcome of the stream, or what was read last, is the server's. *)
(* Only when the Welcome of the server's last token was itself lost on its *)
(* way out (send_tcp, process_outbound) do they disagree.                  *)
THEOREM LinkSafe == LinkSpec => []LinkInv
    BY LinkInitInv, LinkStep, LinkImplied, PTL DEF LinkSpec

(* The server's client is bound to the UDP socket of the join it is on: a  *)
(* UdpBind with the client's token came from that join, as each token was  *)
(* given to one join.                                                      *)
THEOREM LinkBound == LinkSpec => []BoundToThisJoin
    BY LinkInitInv, LinkStep, LinkImplied, PTL DEF LinkSpec

-----------------------------------------------------------------------------
(* The menus: the inductive invariant *)

(* A form is open only while no flow runs, so no button of a form starts a *)
(* second one.                                                             *)
FormsWait == form \in {"join", "hostTitle", "hostGame"} => flow = "Idle"

(* Past the start of the new game the character is the one made for the    *)
(* join, or was loaded over it.                                            *)
MadeForJoin ==
    flow \in Chargen \ {"StartingGame"} => char = "made" \/ over

(* A session found by the later steps of CMP_QueryStart began beside it.   *)
QueryAlone == pc \in {"connect", "sent"} /\ net.joined => net.overlap

(* No query runs, and none is to start, beside such a session.             *)
SessionAlone ==
    net.joined /\ net.by # "console" /\ ~net.overlap /\ pc = "idle"
      => net.sock # "query" /\ flow # "Querying"

MenuIInv ==
    /\ MenuTypeOK /\ MenuJoinLives /\ FormsWait
    /\ GearKept /\ MadeForJoin
    /\ QueryAlone /\ SessionAlone

-----------------------------------------------------------------------------
(* Types of the socket and of a query *)

Nets == [joined : BOOLEAN, welcomed : BOOLEAN,
         sock : {"none", "query", "session"},
         inbox : {"none", "info", "noHost", "welcome", "reject"},
         by : {"none", "menu", "host", "auto", "console"},
         overlap : BOOLEAN]
Queries == [pending : BOOLEAN, result : {"none", "ok", "err"}, late : BOOLEAN]

LEMMA NoNetType == NoNet \in Nets /\ ~NoNet.joined /\ NoQuery \in Queries
    BY DEF NoNet, Nets, NoQuery, Queries

LEMMA ShutdownType ==
    ASSUME NEW n \in Nets
    PROVE  /\ cmp_net_shutdown(n) \in Nets
           /\ cmp_net_shutdown(n).joined = n.joined
           /\ cmp_net_shutdown(n).by = n.by
           /\ cmp_net_shutdown(n).overlap = n.overlap
           /\ cmp_net_shutdown(n).sock = "none"
    BY DEF cmp_net_shutdown, Nets

(* A join ends without a session or with one of its own socket. *)
LEMMA JoinType ==
    ASSUME NEW by \in {"menu", "host", "auto", "console"}, NEW w,
           NEW n \in CMP_Join(by, w)
    PROVE  /\ n \in Nets
           /\ n.joined => n.sock = "session" /\ n.by = by
                            /\ (pc # "idle" => n.overlap)
<1>1. CASE n = NoNet
    BY <1>1, NoNetType
<1>2. CASE n # NoNet
  <2>1. n = [NoNet EXCEPT !.joined = TRUE, !.sock = "session", !.by = by,
                          !.overlap = (pc # "idle")]
      BY <1>2 DEF CMP_Join
  <2> DEFINE Begun(o) == [NoNet EXCEPT !.joined = TRUE, !.sock = "session",
                                       !.by = by, !.overlap = o]
  <2>2. \A o \in BOOLEAN : /\ Begun(o) \in Nets /\ Begun(o).overlap = o
                          /\ Begun(o).sock = "session" /\ Begun(o).by = by
      BY DEF NoNet, Nets
  <2>3. n = Begun(pc # "idle")
      BY <2>1
  <2> HIDE DEF Begun
  <2>4. QED
      BY <2>2, <2>3
<1>3. QED
    BY <1>1, <1>2

(* A poll keeps a session's socket, or ends it. *)
LEMMA PollType ==
    ASSUME NEW n \in Nets
    PROVE  /\ CMP_NetPoll(n) \in Nets
           /\ CMP_NetPoll(n).joined =>
                /\ n.joined
                /\ CMP_NetPoll(n).by = n.by /\ CMP_NetPoll(n).sock = n.sock
                /\ CMP_NetPoll(n).overlap = n.overlap
<1> DEFINE Polls(w) == [n EXCEPT !.welcomed = w, !.inbox = "none"]
<1>1. \A w \in BOOLEAN : /\ Polls(w) \in Nets /\ Polls(w).joined = n.joined
                        /\ Polls(w).by = n.by /\ Polls(w).sock = n.sock
                        /\ Polls(w).overlap = n.overlap
    BY DEF Nets
<1>2. \/ CMP_NetPoll(n) = n \/ CMP_NetPoll(n) = NoNet
      \/ n.joined /\ CMP_NetPoll(n) = Polls(n.welcomed \/ n.inbox = "welcome")
    BY Zenon DEF CMP_NetPoll
<1> HIDE DEF Polls
<1>3. QED
    BY <1>1, <1>2, NoNetType

(* The rest of the type invariant. *)
FormOK == /\ form \in {"none", "join", "hostTitle", "hostGame", "stuck"}
          /\ joinCtx \in {"title", "game"} /\ pendingHost \in BOOLEAN
GameOK == /\ place \in {"title", "starting", "loading", "vault", "commonwealth"}
          /\ looks \in BOOLEAN /\ special \in BOOLEAN
          /\ over \in BOOLEAN /\ bare \in BOOLEAN
          /\ char \in {"own", "made"} /\ acts \in 0..MaxActs
FlowOK == flow \in Flows /\ age \in 0..2
NetOK  == /\ net \in Nets /\ query \in Queries /\ menuJoin \in BOOLEAN
          /\ pc \in {"idle", "leave", "connect", "sent"}

LEMMA TypeParts == MenuTypeOK <=> FormOK /\ GameOK /\ FlowOK /\ NetOK
    BY DEF MenuTypeOK, FormOK, GameOK, FlowOK, NetOK, Nets, Queries

LEMMA TypePartsNext == FormOK' /\ GameOK' /\ FlowOK' /\ NetOK' => MenuTypeOK'
    BY DEF MenuTypeOK, FormOK, GameOK, FlowOK, NetOK, Nets, Queries

LEMMA PolledType ==
    ASSUME NEW n \in Nets, NEW mj \in BOOLEAN, Polled(n, mj)
    PROVE  /\ net' \in Nets /\ menuJoin' \in BOOLEAN /\ (menuJoin' => mj)
           /\ net'.joined => /\ n.joined /\ net'.by = n.by
                             /\ net'.sock = n.sock /\ net'.overlap = n.overlap
    BY PollType DEF Polled

-----------------------------------------------------------------------------
(* What most steps do with one part of the state *)

LEMMA Parts ==
    MenuIInv => /\ FormOK /\ GameOK /\ FlowOK /\ NetOK
                /\ MenuJoinLives /\ FormsWait /\ GearKept /\ MadeForJoin
                /\ QueryAlone /\ SessionAlone
    BY TypeParts DEF MenuIInv

LEMMA Together ==
    ASSUME FormOK', FormsWait', GameOK', GearKept', MadeForJoin', FlowOK', NetOK',
           MenuJoinLives', QueryAlone', SessionAlone'
    PROVE  MenuIInv'
    BY TypePartsNext DEF MenuIInv

(* The forms are left alone, and no flow begins. *)
LEMMA FormsStay ==
    ASSUME MenuIInv, UNCHANGED formVars, flow' = flow \/ flow # "Idle"
    PROVE  FormOK' /\ FormsWait'
    BY Parts DEF formVars, FormOK, FormsWait

(* The game is left alone, and no new game has begun for a join. *)
LEMMA GameStays ==
    ASSUME MenuIInv, UNCHANGED gameVars,
           \/ flow' = flow \/ flow' \notin Chargen \ {"StartingGame"}
           \/ flow \in Chargen \ {"StartingGame"}
    PROVE  GameOK' /\ GearKept' /\ MadeForJoin'
    BY Parts DEF gameVars, GameOK, GearKept, MadeForJoin

(* A session goes on with its socket, or ends. *)
Continues(n) ==
    net'.joined => /\ n.joined /\ net'.by = n.by
                   /\ net'.sock = n.sock /\ net'.overlap = n.overlap

LEMMA SessionStays ==
    ASSUME MenuIInv, Continues(net), pc' = pc,
           flow' = flow \/ flow' # "Querying"
    PROVE  QueryAlone' /\ SessionAlone'
    BY Parts DEF Continues, QueryAlone, SessionAlone

(* A session begins, from the console or where no query is wanted. *)
LEMMA SessionBegins ==
    ASSUME MenuIInv, pc' = pc, NEW by \in {"menu", "host", "auto", "console"},
           NEW w, NEW n \in CMP_Join(by, w), Continues(n),
           by = "console" \/ flow' # "Querying"
    PROVE  QueryAlone' /\ SessionAlone'
<1>1. /\ n \in Nets
      /\ n.joined => n.sock = "session" /\ n.by = by /\ (pc # "idle" => n.overlap)
    BY JoinType
<1>2. QED
    BY <1>1 DEF Continues, QueryAlone, SessionAlone

-----------------------------------------------------------------------------
(* Buttons and console *)

LEMMA ButtonsStep == MenuIInv /\ Buttons => MenuIInv'
<1> SUFFICES ASSUME MenuIInv, Buttons PROVE MenuIInv'
    OBVIOUS
<1>1. FlowOK /\ NetOK /\ MenuJoinLives /\ FormOK
    BY Parts
<1>2. CASE OpenJoinFlow \/ OpenHostFlow
  <2>1. UNCHANGED <<flow, age, menuJoin, query, net, pc, pendingHost, gameVars>>
      BY <1>2 DEF OpenJoinFlow, OpenHostFlow
  <2>2. FormOK' /\ FormsWait'
      BY <1>1, <1>2, <2>1, Parts
         DEF OpenJoinFlow, OpenHostFlow, Context, FormOK, FormsWait
  <2>3. GameOK' /\ GearKept' /\ MadeForJoin'
      BY <2>1, GameStays
  <2>4. QueryAlone' /\ SessionAlone'
      BY <2>1, SessionStays DEF Continues
  <2>5. FlowOK' /\ NetOK' /\ MenuJoinLives'
      BY <1>1, <2>1 DEF FlowOK, NetOK, MenuJoinLives
  <2>6. QED
      BY <2>2, <2>3, <2>4, <2>5, Together
<1>3. CASE DisconnectSession
  <2>1. /\ UNCHANGED <<flow, age, formVars, query, pc, gameVars>>
        /\ net' = NoNet /\ menuJoin' = FALSE
      BY <1>3 DEF DisconnectSession, CMP_Leave
  <2>2. FlowOK' /\ NetOK' /\ MenuJoinLives'
      BY <1>1, <2>1, NoNetType DEF FlowOK, NetOK, MenuJoinLives
  <2>3. Continues(net)
      BY <2>1, NoNetType DEF Continues
  <2>4. QED
      BY <2>1, <2>2, <2>3, FormsStay, GameStays, SessionStays, Together
<1>4. QED
    BY <1>2, <1>3 DEF Buttons

LEMMA ConsoleStep == MenuIInv /\ Console => MenuIInv'
<1> SUFFICES ASSUME MenuIInv, Console PROVE MenuIInv'
    OBVIOUS
<1>1. FlowOK /\ NetOK /\ MenuJoinLives /\ GameOK
    BY Parts
<1>2. CASE ExecJoin
  <2>1. /\ UNCHANGED <<flow, age, formVars, query, pc, gameVars>>
        /\ net' \in CMP_Join("console", InWorld) /\ menuJoin' = FALSE
      BY <1>2 DEF ExecJoin
  <2>2. FlowOK' /\ NetOK' /\ MenuJoinLives'
      BY <1>1, <2>1, JoinType DEF FlowOK, NetOK, MenuJoinLives
  <2>3. QueryAlone' /\ SessionAlone'
      BY <2>1, SessionBegins DEF Continues
  <2>4. QED
      BY <2>1, <2>2, <2>3, FormsStay, GameStays, Together
<1>3. CASE ExecQuery
  <2>1. /\ UNCHANGED <<flow, age, formVars, pc>>
        /\ UNCHANGED <<place, looks, special, char, over, bare>>
        /\ acts < MaxActs /\ acts' = acts + 1
      BY <1>3 DEF ExecQuery
  <2>a. /\ net' = NoNet \/ net' = [NoNet EXCEPT !.sock = "query"]
        /\ query' \in Queries
    <3>1. \/ /\ net' = NoNet
             /\ query' \in [pending : {FALSE}, result : {"ok", "err"},
                            late : {FALSE}]
          \/ /\ net' = [NoNet EXCEPT !.sock = "query"]
             /\ query' = [pending |-> TRUE, result |-> "none", late |-> FALSE]
        BY <1>3, Zenon DEF ExecQuery
    <3>2. /\ [pending |-> TRUE, result |-> "none", late |-> FALSE] \in Queries
          /\ [pending : {FALSE}, result : {"ok", "err"}, late : {FALSE}]
               \subseteq Queries
        BY DEF Queries
    <3>3. QED
        BY <3>1, <3>2, Zenon
  <2>b. net' \in Nets /\ ~net'.joined
    <3>1. [NoNet EXCEPT !.sock = "query"] \in Nets
        BY DEF NoNet, Nets
    <3>2. ~[NoNet EXCEPT !.sock = "query"].joined
        BY DEF NoNet
    <3>3. QED
        BY <2>a, <3>1, <3>2, NoNetType, Zenon
  <2>c. menuJoin' \in BOOLEAN /\ (menuJoin' => menuJoin)
    <3>1. menuJoin' = (menuJoin /\ ~net.joined)
        BY <1>3, Zenon DEF ExecQuery
    <3>2. QED
        BY <3>1
  <2>2. FlowOK' /\ NetOK' /\ MenuJoinLives'
      BY <1>1, <2>1, <2>a, <2>b, <2>c DEF FlowOK, NetOK, MenuJoinLives
  <2>3. GameOK' /\ GearKept' /\ MadeForJoin'
      BY <1>1, <2>1, Parts, MenuAssumption DEF GameOK, GearKept, MadeForJoin
  <2>4. Continues(net)
      BY <2>b DEF Continues
  <2>5. QED
      BY <2>1, <2>2, <2>3, <2>4, FormsStay, SessionStays, Together
<1>4. QED
    BY <1>2, <1>3 DEF Console

-----------------------------------------------------------------------------
(* The Present thread *)

LEMMA FormButtonsStep ==
    MenuIInv /\ (CloseMenuForm \/ RefuseAddress) => MenuIInv'
<1> SUFFICES ASSUME MenuIInv, CloseMenuForm \/ RefuseAddress PROVE MenuIInv'
    OBVIOUS
<1>1. /\ UNCHANGED <<flow, age, joinCtx, pendingHost, menuJoin, query, net, pc,
                     gameVars>>
      /\ form' \in {"none", "stuck"}
    BY DEF CloseMenuForm, RefuseAddress
<1>2. FormOK' /\ FormsWait' /\ FlowOK' /\ NetOK' /\ MenuJoinLives'
    BY <1>1, Parts DEF FormOK, FormsWait, FlowOK, NetOK, MenuJoinLives
<1>3. QED
    BY <1>1, <1>2, GameStays, SessionStays, Together DEF Continues

(* A flow begins where there was none, so menuJoin is not set. *)
LEMMA ConfirmJoinStep == MenuIInv /\ ConfirmJoin => MenuIInv'
<1> SUFFICES ASSUME MenuIInv, ConfirmJoin PROVE MenuIInv'
    OBVIOUS
<1>1. /\ form = "join" /\ form' = "none" /\ flow' = "Querying" /\ age' = 0
      /\ pc' = "leave"
      /\ UNCHANGED <<joinCtx, pendingHost, menuJoin, query, net, gameVars>>
    BY DEF ConfirmJoin, SetFlow
<1>2. flow = "Idle" /\ "Querying" \notin Chargen /\ "Idle" \notin Chargen
    BY <1>1, Parts DEF FormsWait, Chargen
<1>3. FormOK' /\ FormsWait' /\ FlowOK' /\ NetOK' /\ MenuJoinLives'
    BY <1>1, <1>2, Parts
       DEF FormOK, FormsWait, FlowOK, Flows, NetOK, MenuJoinLives
<1>4. QueryAlone' /\ SessionAlone'
    BY <1>1 DEF QueryAlone, SessionAlone
<1>5. QED
    BY <1>1, <1>2, <1>3, <1>4, GameStays, Together

(* A session that is there goes before the query has its socket. *)
LEMMA QueryStartStep == MenuIInv /\ CMP_QueryStart => MenuIInv'
<1> SUFFICES ASSUME MenuIInv, CMP_QueryStart PROVE MenuIInv'
    OBVIOUS
<1>1. UNCHANGED <<flow, age, formVars, gameVars>>
    BY DEF CMP_QueryStart
<1>2. FlowOK' /\ FlowOK /\ NetOK /\ MenuJoinLives /\ QueryAlone
    BY <1>1, Parts DEF FlowOK
<1>3. CASE pc = "leave" /\ pc' = "connect"
  <2>1. /\ net' \in Nets /\ ~net'.joined /\ query' = NoQuery
        /\ menuJoin' \in BOOLEAN /\ (menuJoin' => menuJoin)
    <3>1. query' = NoQuery
        BY <1>3 DEF CMP_QueryStart
    <3>2. CASE net.joined
      <4>1. net' = NoNet /\ menuJoin' = FALSE
          BY <1>3, <3>2 DEF CMP_QueryStart, CMP_Leave
      <4>2. QED
          BY <3>1, <4>1, NoNetType
    <3>3. CASE ~net.joined
      <4>1. net' = cmp_net_shutdown(net) /\ menuJoin' = menuJoin
          BY <1>3, <3>3 DEF CMP_QueryStart
      <4>2. net' \in Nets /\ net'.joined = net.joined
          BY <1>2, <4>1, ShutdownType DEF NetOK
      <4>3. QED
          BY <1>2, <3>1, <3>3, <4>1, <4>2 DEF NetOK
    <3>4. QED
        BY <3>2, <3>3
  <2>2. NetOK' /\ MenuJoinLives' /\ QueryAlone' /\ SessionAlone'
      BY <1>1, <1>2, <1>3, <2>1, NoNetType
         DEF NetOK, MenuJoinLives, QueryAlone, SessionAlone
  <2>3. QED
      BY <1>1, <1>2, <2>2, FormsStay, GameStays, Together
<1>4. CASE pc = "connect" /\ pc' = "sent"
  <2>1. /\ net' = [net EXCEPT !.sock = "query", !.inbox = "none"]
        /\ UNCHANGED <<menuJoin, query>>
      BY <1>4 DEF CMP_QueryStart
  <2>2. net' \in Nets /\ net'.joined = net.joined /\ net'.overlap = net.overlap
      BY <1>2, <2>1 DEF NetOK, Nets
  <2>3. NetOK' /\ MenuJoinLives' /\ QueryAlone' /\ SessionAlone'
      BY <1>1, <1>2, <1>4, <2>1, <2>2
         DEF NetOK, MenuJoinLives, QueryAlone, SessionAlone
  <2>4. QED
      BY <1>1, <1>2, <2>3, FormsStay, GameStays, Together
<1>5. CASE pc = "connect" /\ pc' = "idle"
  <2>1. /\ net' = cmp_net_shutdown(net) /\ UNCHANGED menuJoin
        /\ query' = [query EXCEPT !.result = "err"]
      BY <1>5 DEF CMP_QueryStart
  <2>2. query' \in Queries
      BY <1>2, <2>1 DEF NetOK, Queries
  <2>3. NetOK' /\ MenuJoinLives' /\ QueryAlone' /\ SessionAlone'
      BY <1>1, <1>2, <1>5, <2>1, <2>2, ShutdownType
         DEF NetOK, MenuJoinLives, QueryAlone, SessionAlone
  <2>4. QED
      BY <1>1, <1>2, <2>3, FormsStay, GameStays, Together
<1>6. CASE pc = "sent" /\ pc' = "idle"
  <2>1. /\ UNCHANGED <<net, menuJoin>>
        /\ query' = [query EXCEPT !.pending = TRUE, !.late = FALSE]
      BY <1>6 DEF CMP_QueryStart
  <2>2. query' \in Queries
      BY <1>2, <2>1 DEF NetOK, Queries
  <2>3. NetOK' /\ MenuJoinLives' /\ QueryAlone' /\ SessionAlone'
      BY <1>1, <1>2, <1>6, <2>1, <2>2
         DEF NetOK, MenuJoinLives, QueryAlone, SessionAlone
  <2>4. QED
      BY <1>1, <1>2, <2>3, FormsStay, GameStays, Together
<1>7. QED
    BY <1>3, <1>4, <1>5, <1>6 DEF CMP_QueryStart

LEMMA ConfirmHostStep == MenuIInv /\ ConfirmHost => MenuIInv'
<1> SUFFICES ASSUME MenuIInv, ConfirmHost PROVE MenuIInv'
    OBVIOUS
<1>1. /\ form' = "none" /\ pendingHost' \in BOOLEAN
      /\ UNCHANGED <<flow, age, joinCtx, query, pc, gameVars>>
    BY Parts DEF ConfirmHost, FormOK
<1>2. FormOK' /\ FormsWait' /\ FlowOK'
    BY <1>1, Parts DEF FormOK, FormsWait, FlowOK
<1>3. CASE form = "hostTitle"
  <2>1. UNCHANGED <<net, menuJoin>>
      BY <1>3 DEF ConfirmHost
  <2>2. NetOK' /\ MenuJoinLives'
      BY <1>1, <2>1, Parts DEF NetOK, MenuJoinLives
  <2>3. QED
      BY <1>1, <1>2, <2>1, <2>2, GameStays, SessionStays, Together DEF Continues
<1>4. CASE form = "hostGame"
  <2>1. net' \in CMP_Join("host", InWorld) /\ menuJoin' = FALSE
      BY <1>4 DEF ConfirmHost
  <2>2. flow' # "Querying"
      BY <1>1, <1>4, Parts DEF FormsWait
  <2>3. NetOK' /\ MenuJoinLives'
      BY <1>1, <2>1, Parts, JoinType DEF NetOK, MenuJoinLives
  <2>4. QueryAlone' /\ SessionAlone'
      BY <1>1, <2>1, <2>2, SessionBegins DEF Continues
  <2>5. QED
      BY <1>1, <1>2, <2>3, <2>4, GameStays, Together
<1>5. QED
    BY <1>3, <1>4 DEF ConfirmHost

LEMMA PresentStep == MenuIInv /\ Present => MenuIInv'
    BY FormButtonsStep, ConfirmJoinStep, QueryStartStep, ConfirmHostStep
       DEF Present

-----------------------------------------------------------------------------
(* The game thread's frames *)

(* A step of the flow that is under way, or its end: the forms, the query  *)
(* and CMP_QueryStart are left alone, the session is polled.               *)
FlowMoves ==
    \/ flow' = flow /\ age' = age
    \/ flow' \in Flows /\ age' = 0 /\ flow # "Idle" /\ flow' # "Querying"

LEMMA TickStep ==
    ASSUME MenuIInv, FlowMoves, UNCHANGED <<formVars, query, pc>>,
           NEW mj \in BOOLEAN, Polled(net, mj), mj => flow' \in Chargen,
           GameOK', GearKept', MadeForJoin'
    PROVE  MenuIInv'
<1>1. FlowOK /\ NetOK
    BY Parts
<1>2. net' \in Nets /\ menuJoin' \in BOOLEAN /\ (menuJoin' => mj) /\ Continues(net)
    BY <1>1, PolledType DEF Continues, NetOK
<1>3. FlowOK' /\ NetOK' /\ MenuJoinLives'
    BY <1>1, <1>2 DEF FlowMoves, FlowOK, NetOK, MenuJoinLives
<1>4. flow' = flow \/ (flow # "Idle" /\ flow' # "Querying")
    BY DEF FlowMoves
<1>5. QED
    BY <1>2, <1>3, <1>4, FormsStay, SessionStays, Together

(* What the three ways on from a wait come to. *)
LEMMA WaysOn ==
    ASSUME MenuIInv, flow # "Idle", NEW f \in Chargen, flow \in Chargen,
           GiveUp \/ GoOn(f) \/ Stay
    PROVE  /\ FlowMoves
           /\ \E mj \in BOOLEAN : Polled(net, mj) /\ (mj => flow' \in Chargen)
           /\ flow' \in {"Failed", f, flow}
<1>1. /\ menuJoin \in BOOLEAN /\ MenuJoinLives
      /\ f # "Querying" /\ f \in Flows /\ "Failed" \in Flows
    BY Parts DEF NetOK, Chargen, Flows
<1>2. CASE GiveUp
    BY <1>2 DEF GiveUp, SetFlow, FlowMoves, Flows
<1>3. CASE GoOn(f)
    BY <1>1, <1>3 DEF GoOn, SetFlow, FlowMoves
<1>4. CASE Stay
    BY <1>1, <1>4 DEF Stay, FlowMoves
<1>5. QED
    BY <1>2, <1>3, <1>4

LEMMA WaitingStep == MenuIInv /\ (TickWaiting \/ TickMenus) => MenuIInv'
<1> SUFFICES ASSUME MenuIInv, TickWaiting \/ TickMenus PROVE MenuIInv'
    OBVIOUS
<1>1. UNCHANGED <<formVars, query, pc, gameVars>>
    BY DEF TickWaiting, TickMenus
<1>2. flow \in Chargen /\ flow # "Idle"
    BY DEF TickWaiting, TickMenus, Chargen
<1>3. PICK f \in Chargen \ {"StartingGame"} :
         /\ GiveUp \/ GoOn(f) \/ Stay
         /\ flow = "StartingGame" => GiveUp \/ Stay
  <2>1. CASE TickWaiting
      BY <2>1 DEF TickWaiting, Chargen
  <2>2. CASE TickMenus
      BY <2>2 DEF TickMenus, Chargen
  <2>3. QED
      BY <2>1, <2>2
<1>4. /\ FlowMoves
      /\ \E mj \in BOOLEAN : Polled(net, mj) /\ (mj => flow' \in Chargen)
    BY <1>2, <1>3, WaysOn
<1>5. \/ flow' = flow \/ flow' \notin Chargen
      \/ flow \in Chargen \ {"StartingGame"}
    BY <1>2, <1>3 DEF GiveUp, Stay, SetFlow, Chargen
<1>6. QED
    BY <1>1, <1>4, <1>5, GameStays, TickStep

(* The player may be moved to the Commonwealth on the way. *)
LEMMA TravelStep == MenuIInv /\ (SkipIntro \/ WaitSkip) => MenuIInv'
<1> SUFFICES ASSUME MenuIInv, SkipIntro \/ WaitSkip PROVE MenuIInv'
    OBVIOUS
<1>1. /\ UNCHANGED <<formVars, query, pc, looks, special, char, over, bare, acts>>
      /\ place' \in {place, "commonwealth"}
    BY DEF SkipIntro, WaitSkip, CMP_EnsureCommonwealthExterior
<1>2. flow \in Chargen \ {"StartingGame"} /\ flow # "Idle"
    BY DEF SkipIntro, WaitSkip, Chargen
<1>3. PICK f \in Chargen : GiveUp \/ GoOn(f) \/ Stay
    BY DEF SkipIntro, WaitSkip, Chargen
<1>4. /\ FlowMoves
      /\ \E mj \in BOOLEAN : Polled(net, mj) /\ (mj => flow' \in Chargen)
    BY <1>2, <1>3, WaysOn
<1>5. GameOK' /\ GearKept' /\ MadeForJoin'
    BY <1>1, <1>2, Parts DEF GameOK, GearKept, MadeForJoin
<1>6. QED
    BY <1>1, <1>4, <1>5, TickStep

(* The character that is stripped is the one made for the join. *)
LEMMA StripStep == MenuIInv /\ CMP_StripLocalGear => MenuIInv'
<1> SUFFICES ASSUME MenuIInv, CMP_StripLocalGear PROVE MenuIInv'
    OBVIOUS
<1>1. /\ UNCHANGED <<formVars, query, pc, looks, special, char, over, acts>>
      /\ place' \in {place, "commonwealth"}
      /\ flow = "Strip" /\ GoOn("Joining")
    BY DEF CMP_StripLocalGear, CMP_EnsureCommonwealthExterior
<1>2. bare' \in BOOLEAN
    BY DEF CMP_StripLocalGear, InWorld
<1>3. flow \in Chargen \ {"StartingGame"} /\ flow # "Idle" /\ "Joining" \in Chargen
    BY <1>1 DEF Chargen
<1>4. /\ FlowMoves
      /\ \E mj \in BOOLEAN : Polled(net, mj) /\ (mj => flow' \in Chargen)
    BY <1>1, <1>3, WaysOn
<1>5. GameOK' /\ GearKept' /\ MadeForJoin'
    BY <1>1, <1>2, <1>3, Parts DEF GameOK, GearKept, MadeForJoin
<1>6. QED
    BY <1>1, <1>4, <1>5, TickStep

LEMMA RestStep == MenuIInv /\ TickAtRest => MenuIInv'
<1> SUFFICES ASSUME MenuIInv, TickAtRest PROVE MenuIInv'
    OBVIOUS
<1>1. /\ UNCHANGED <<formVars, query, pc, gameVars>>
      /\ flow' = flow /\ age' = age /\ Polled(net, menuJoin)
    BY DEF TickAtRest, Stay
<1>2. menuJoin \in BOOLEAN /\ (menuJoin => flow' \in Chargen) /\ FlowMoves
    BY <1>1, Parts DEF NetOK, MenuJoinLives, FlowMoves
<1>3. QED
    BY <1>1, <1>2, GameStays, TickStep

(* The flow ends with a session of the menus, or without one. *)
LEMMA MenuJoins ==
    ASSUME MenuIInv, UNCHANGED <<formVars, pc, gameVars>>, query' \in Queries,
           flow # "Idle", NEW w, NEW n \in CMP_Join("menu", w), Polled(n, FALSE),
           SetFlow(IF n.joined THEN "Done" ELSE "Failed")
    PROVE  MenuIInv'
<1>2. n \in Nets
    BY JoinType
<1>1. flow' \in {"Done", "Failed"} /\ age' = 0
  <2>1. /\ flow' = IF n.joined THEN "Done" ELSE "Failed"
        /\ age' = 0
      BY DEF SetFlow
  <2>2. CASE n.joined = TRUE
      BY <2>1, <2>2
  <2>3. CASE n.joined = FALSE
      BY <2>1, <2>3
  <2>4. QED
      BY <1>2, <2>2, <2>3 DEF Nets
<1>3. net' \in Nets /\ menuJoin' = FALSE /\ Continues(n)
    BY <1>2, PolledType DEF Continues
<1>4. FlowOK' /\ NetOK' /\ MenuJoinLives' /\ flow' \notin Chargen
  <2>1. flow' \in Flows /\ flow' \notin Chargen /\ age' \in 0..2
      BY <1>1 DEF Flows, Chargen
  <2>2. NetOK'
      BY <1>3, Parts DEF NetOK
  <2>3. QED
      BY <1>3, <2>1, <2>2 DEF FlowOK, MenuJoinLives
<1>5. QueryAlone' /\ SessionAlone'
    BY <1>1, <1>3, SessionBegins
<1>6. QED
    BY <1>4, <1>5, FormsStay, GameStays, Together

LEMMA JoiningStep == MenuIInv /\ TickJoining => MenuIInv'
<1> SUFFICES ASSUME MenuIInv, TickJoining PROVE MenuIInv'
    OBVIOUS
<1>1. UNCHANGED <<formVars, query, pc, gameVars>> /\ flow = "Joining"
    BY DEF TickJoining
<1>2. flow \in Chargen \ {"StartingGame"} /\ flow # "Idle" /\ query' \in Queries
    BY <1>1, Parts DEF Chargen, NetOK
<1>3. CASE CMP_PlayerInCommonwealth
  <2>1. PICK n \in CMP_Join("menu", TRUE) :
           /\ SetFlow(IF n.joined THEN "Done" ELSE "Failed")
           /\ Polled(n, FALSE)
      BY <1>3, Zenon DEF TickJoining
  <2>2. QED
      BY <1>1, <1>2, <2>1, MenuJoins, Zenon
<1>4. CASE ~CMP_PlayerInCommonwealth
  <2>1. GiveUp \/ Stay
      BY <1>4 DEF TickJoining
  <2>2. /\ FlowMoves
        /\ \E mj \in BOOLEAN : Polled(net, mj) /\ (mj => flow' \in Chargen)
      BY <1>2, <2>1, WaysOn
  <2>3. QED
      BY <1>1, <1>2, <2>2, GameStays, TickStep
<1>5. QED
    BY <1>3, <1>4

LEMMA AfterPollType ==
    ASSUME MenuIInv
    PROVE  /\ AfterPoll \in Nets
           /\ AfterPoll.joined = net.joined /\ AfterPoll.by = net.by
           /\ AfterPoll.overlap = net.overlap
           /\ AfterPoll.sock \in {net.sock, "none"}
<1>1. net \in Nets
    BY Parts DEF NetOK
<1>2. [net EXCEPT !.inbox = "none"] \in Nets
    BY <1>1 DEF Nets
<1>3. QED
    BY <1>1, <1>2, ShutdownType DEF AfterPoll, Nets

(* The query's answer sends the flow to a new game, to a session, or ends  *)
(* it.                                                                     *)
LEMMA QueryingStep == MenuIInv /\ TickQuerying => MenuIInv'
<1> SUFFICES ASSUME MenuIInv, TickQuerying PROVE MenuIInv'
    OBVIOUS
<1>1. flow = "Querying" /\ UNCHANGED <<formVars, pc, gameVars>>
    BY DEF TickQuerying
<1>2. /\ FlowOK /\ NetOK /\ ~menuJoin /\ "Querying" \notin Chargen
      /\ "Idle" \notin Chargen /\ "StartingGame" \in Chargen
    BY <1>1, Parts DEF MenuJoinLives, Chargen
<1>3. query' \in Queries
  <2> DEFINE Over == query.pending /\ QueryOver
             Q(r) == [pending |-> FALSE, late |-> FALSE, result |-> r]
             R == IF QueryOk THEN "ok" ELSE "err"
  <2>a. query' = IF Over THEN Q(R) ELSE query
      BY DEF TickQuerying
  <2>b. R \in {"ok", "err"}
      OBVIOUS
  <2> HIDE DEF Over, Q, R
  <2>c. query' = query \/ query' = Q(R)
      BY <2>a
  <2>1. \/ query' = query
        \/ \E r \in {"ok", "err"} :
              query' = [pending |-> FALSE, late |-> FALSE, result |-> r]
      BY <2>b, <2>c DEF Q
  <2>2. CASE query' = query
      BY <1>2, <2>2 DEF NetOK
  <2>3. ASSUME NEW r \in {"ok", "err"}
        PROVE  [pending |-> FALSE, late |-> FALSE, result |-> r] \in Queries
      BY DEF Queries
  <2>4. QED
      BY <2>1, <2>2, <2>3
<1>4. ASSUME NEW mj \in BOOLEAN, Polled(AfterPoll, mj),
             \/ flow' = flow /\ age' = age /\ ~mj
             \/ SetFlow("Idle") /\ ~mj
             \/ SetFlow("StartingGame")
      PROVE  MenuIInv'
  <2>1. /\ net' \in Nets /\ menuJoin' \in BOOLEAN /\ (menuJoin' => mj)
        /\ Continues(AfterPoll)
      BY <1>4, AfterPollType, PolledType DEF Continues
  <2>2. flow' \in {"Querying", "Idle", "StartingGame"} /\ age' \in 0..2
      BY <1>1, <1>2, <1>4 DEF SetFlow, FlowOK
  <2>3. mj => flow' = "StartingGame"
      BY <1>4 DEF SetFlow
  <2>4. FlowOK' /\ NetOK' /\ MenuJoinLives'
      BY <1>1, <1>2, <1>3, <2>1, <2>2, <2>3
         DEF FlowOK, Flows, NetOK, MenuJoinLives
  <2>5. QueryAlone' /\ SessionAlone'
      BY <1>1, <2>1, <2>2, AfterPollType, Parts
         DEF Continues, QueryAlone, SessionAlone
  <2>6. QED
      BY <1>1, <1>2, <2>2, <2>4, <2>5, FormsStay, GameStays, Together
<1>5. CASE ~QueryOver
  <2>1. Polled(AfterPoll, menuJoin) /\ flow' = flow /\ age' = age
      BY <1>5, Zenon DEF TickQuerying
  <2>2. QED
      BY <1>2, <1>4, <2>1 DEF NetOK
<1>6. CASE QueryOver /\ ~QueryOk
  <2>1. SetFlow("Idle") /\ Polled(AfterPoll, FALSE)
      BY <1>6, Zenon DEF TickQuerying
  <2>2. QED
      BY <1>4, <2>1
<1>7. CASE QueryOver /\ QueryOk /\ joinCtx = "game"
  <2>1. PICK n \in CMP_Join("menu", InWorld) :
           /\ SetFlow(IF n.joined THEN "Done" ELSE "Failed")
           /\ Polled(n, FALSE)
      BY <1>7, Zenon DEF TickQuerying
  <2>2. flow # "Idle"
      BY <1>1
  <2>3. QED
      BY <1>1, <1>3, <2>1, <2>2, MenuJoins, Zenon
<1>8. CASE QueryOver /\ QueryOk /\ joinCtx # "game"
  <2>1. SetFlow("StartingGame") /\ Polled(AfterPoll, TRUE)
      BY <1>8, Zenon DEF TickQuerying, BeginChargen
  <2>2. QED
      BY <1>4, <2>1
<1>9. QED
    BY <1>5, <1>6, <1>7, <1>8, Zenon

LEMMA FrameStep == MenuIInv /\ Tick => MenuIInv'
    BY QueryingStep, WaitingStep, TravelStep, StripStep, JoiningStep, RestStep
       DEF Tick

-----------------------------------------------------------------------------
(* The game's messages, the server and time *)

(* The game is ready: with a flow under way nothing is joined. *)
LEMMA ReadyJoins ==
    ASSUME MenuIInv, CMP_OnGameReady(TRUE), UNCHANGED <<menuJoin, query, pc>>,
           \/ flow' = flow
           \/ flow \in Chargen /\ flow' = "WaitWorld"
    PROVE  /\ NetOK' /\ pendingHost' \in BOOLEAN
           /\ QueryAlone' /\ SessionAlone'
<1>1. NetOK /\ pendingHost \in BOOLEAN
    BY Parts DEF FormOK
<1>2. CASE UNCHANGED <<net, pendingHost>>
  <2>1. flow' = flow \/ flow' # "Querying"
      OBVIOUS
  <2>2. QED
      BY <1>1, <1>2, <2>1, SessionStays DEF NetOK, Continues
<1>3. CASE ~CMP_MenuJoinPending /\ pendingHost' = FALSE
  <2>1. flow' # "Querying"
      BY <1>3 DEF CMP_MenuJoinPending, Chargen
  <2>2. CASE net' = net
      BY <1>1, <1>3, <2>1, <2>2, SessionStays DEF NetOK, Continues
  <2>3. ASSUME NEW by \in {"host", "auto"}, net' \in CMP_Join(by, TRUE)
        PROVE  NetOK' /\ QueryAlone' /\ SessionAlone'
      BY <1>1, <2>1, <2>3, JoinType, SessionBegins DEF NetOK, Continues
  <2>4. QED
      BY <1>3, <2>2, <2>3 DEF CMP_OnGameReady, CMP_MenuHostJoinAfterLoad
<1>4. QED
    BY <1>2, <1>3 DEF CMP_OnGameReady

LEMMA NewGameStep == MenuIInv /\ NewGame => MenuIInv'
<1> SUFFICES ASSUME MenuIInv, NewGame PROVE MenuIInv'
    OBVIOUS
<1>1. /\ acts < MaxActs /\ acts' = acts + 1 /\ CMP_OnGameReady(TRUE)
      /\ place' \in {"starting", "vault"}
      /\ char' = IF flow \in Chargen THEN "made" ELSE "own"
      /\ over' = FALSE /\ bare' = FALSE /\ form' = "none"
      /\ UNCHANGED <<joinCtx, menuJoin, query, pc, looks, special>>
    BY DEF NewGame
<1>2. \/ flow' = flow /\ age' = age
      \/ flow \in Chargen /\ flow' = "WaitWorld" /\ age' = 0
    BY Parts DEF NewGame, CMP_MenuOnNewGame, SetFlow, MenuJoinLives, Chargen
<1>3. NetOK' /\ pendingHost' \in BOOLEAN /\ QueryAlone' /\ SessionAlone'
    BY <1>1, <1>2, ReadyJoins
<1>4. FormOK' /\ FormsWait'
    BY <1>1, <1>3, Parts DEF FormOK, FormsWait
<1>5. GameOK' /\ GearKept' /\ MadeForJoin'
  <2>1. acts' \in 0..MaxActs
      BY <1>1, Parts, MenuAssumption DEF GameOK
  <2>2. GameOK'
      BY <1>1, <2>1, Parts DEF GameOK
  <2>3. GearKept' /\ MadeForJoin'
      BY <1>1, <1>2, Parts DEF GearKept, MadeForJoin, Chargen
  <2>4. QED
      BY <2>2, <2>3
<1>6. FlowOK' /\ MenuJoinLives'
    BY <1>1, <1>2, Parts DEF FlowOK, Flows, Chargen, MenuJoinLives
<1>7. QED
    BY <1>3, <1>4, <1>5, <1>6, Together

LEMMA PreLoadStep == MenuIInv /\ CMP_OnPreLoad => MenuIInv'
<1> SUFFICES ASSUME MenuIInv, CMP_OnPreLoad PROVE MenuIInv'
    OBVIOUS
<1>1. /\ acts < MaxActs /\ acts' = acts + 1 /\ net' = NoNet /\ menuJoin' = FALSE
      /\ place' = "loading" /\ char' = "own" /\ bare' = FALSE
      /\ looks' = FALSE /\ special' = FALSE
      /\ form' \in {"none", form}
      /\ UNCHANGED <<flow, age, joinCtx, pendingHost, query, pc>>
    BY DEF CMP_OnPreLoad, CMP_Leave
<1>2. over' \in BOOLEAN /\ (over' <=> CMP_MenuJoinPending)
    BY Zenon DEF CMP_OnPreLoad, CMP_MenuJoinPending
<1>3. flow \in Chargen => over'
    BY <1>2 DEF CMP_MenuJoinPending, Chargen
<1>4. FormOK' /\ FormsWait'
    BY <1>1, Parts DEF FormOK, FormsWait
<1>5. GameOK' /\ GearKept' /\ MadeForJoin'
  <2>1. acts' \in 0..MaxActs
      BY <1>1, Parts, MenuAssumption DEF GameOK
  <2>2. GameOK'
      BY <1>1, <1>2, <2>1 DEF GameOK
  <2>3. GearKept' /\ MadeForJoin'
      BY <1>1, <1>3 DEF GearKept, MadeForJoin
  <2>4. QED
      BY <2>2, <2>3
<1>6. FlowOK' /\ NetOK' /\ MenuJoinLives'
    BY <1>1, Parts, NoNetType DEF FlowOK, NetOK, MenuJoinLives
<1>7. Continues(net)
    BY <1>1, NoNetType DEF Continues
<1>8. QED
    BY <1>1, <1>4, <1>5, <1>6, <1>7, SessionStays, Together

LEMMA PostLoadStep == MenuIInv /\ PostLoadGame => MenuIInv'
<1> SUFFICES ASSUME MenuIInv, PostLoadGame PROVE MenuIInv'
    OBVIOUS
<1>1. /\ place' \in {"vault", "commonwealth"} /\ CMP_OnGameReady(TRUE)
      /\ UNCHANGED <<flow, age, form, joinCtx, menuJoin, query, pc, looks,
                     special, char, bare, acts>>
    BY DEF PostLoadGame
<1>2. over' \in BOOLEAN /\ (over => over')
  <2>1. over' = (over \/ CMP_MenuJoinPending)
      BY DEF PostLoadGame
  <2>2. QED
      BY <2>1, Zenon
<1>3. NetOK' /\ pendingHost' \in BOOLEAN /\ QueryAlone' /\ SessionAlone'
    BY <1>1, ReadyJoins
<1>4. FormOK' /\ FormsWait' /\ FlowOK' /\ MenuJoinLives'
    BY <1>1, <1>3, Parts DEF FormOK, FormsWait, FlowOK, MenuJoinLives
<1>5. GameOK' /\ GearKept' /\ MadeForJoin'
    BY <1>1, <1>2, Parts DEF GameOK, GearKept, MadeForJoin
<1>6. QED
    BY <1>3, <1>4, <1>5, Together

LEMMA WorldStep == MenuIInv /\ (EnterWorld \/ QuitToTitle \/ MenuSink) => MenuIInv'
<1> SUFFICES ASSUME MenuIInv, EnterWorld \/ QuitToTitle \/ MenuSink
             PROVE  MenuIInv'
    OBVIOUS
<1>1. /\ UNCHANGED <<flow, age, joinCtx, pendingHost, menuJoin, query, net, pc,
                     char, over, bare, acts>>
      /\ form' \in {form, "none"} /\ place' \in {place, "title", "vault"}
    BY DEF EnterWorld, QuitToTitle, MenuSink, formVars
<1>2. looks' \in BOOLEAN /\ special' \in BOOLEAN
    BY Parts DEF EnterWorld, QuitToTitle, MenuSink, GameOK
<1>3. FormOK' /\ FormsWait' /\ FlowOK' /\ NetOK' /\ MenuJoinLives'
    BY <1>1, Parts DEF FormOK, FormsWait, FlowOK, NetOK, MenuJoinLives
<1>4. GameOK' /\ GearKept' /\ MadeForJoin'
    BY <1>1, <1>2, Parts DEF GameOK, GearKept, MadeForJoin
<1>5. QED
    BY <1>1, <1>3, <1>4, SessionStays, Together DEF Continues

LEMMA AnswerStep == MenuIInv /\ ServerAnswers => MenuIInv'
<1> SUFFICES ASSUME MenuIInv, ServerAnswers PROVE MenuIInv'
    OBVIOUS
<1>1. UNCHANGED <<flow, age, formVars, menuJoin, query, pc, gameVars>>
    BY DEF ServerAnswers
<1>2. net \in Nets
    BY Parts DEF NetOK
<1>3. /\ net' \in Nets /\ net'.joined = net.joined /\ net'.by = net.by
      /\ net'.overlap = net.overlap /\ net'.sock \in {net.sock, "none"}
  <2>1. ASSUME NEW m \in {"info", "noHost", "welcome", "reject"}
        PROVE  LET n == [net EXCEPT !.inbox = m]
               IN  /\ n \in Nets /\ n.joined = net.joined /\ n.by = net.by
                   /\ n.overlap = net.overlap /\ n.sock = net.sock
      BY <1>2 DEF Nets
  <2>2. \/ net' = cmp_net_shutdown(net)
        \/ \E m \in {"info", "noHost", "welcome", "reject"} :
              net' = [net EXCEPT !.inbox = m]
      BY Zenon DEF ServerAnswers
  <2>3. CASE net' = cmp_net_shutdown(net)
      BY <1>2, <2>3, ShutdownType
  <2>4. CASE \E m \in {"info", "noHost", "welcome", "reject"} :
              net' = [net EXCEPT !.inbox = m]
    <3>1. PICK m \in {"info", "noHost", "welcome", "reject"} :
              net' = [net EXCEPT !.inbox = m]
        BY <2>4
    <3>2. QED
        BY <2>1, <3>1
  <2>5. QED
      BY <2>2, <2>3, <2>4
<1>4. FlowOK' /\ NetOK' /\ MenuJoinLives' /\ QueryAlone' /\ SessionAlone'
    BY <1>1, <1>3, Parts
       DEF FlowOK, NetOK, MenuJoinLives, QueryAlone, SessionAlone
<1>5. QED
    BY <1>1, <1>4, FormsStay, GameStays, Together

LEMMA TimeStep == MenuIInv /\ Wait => MenuIInv'
<1> SUFFICES ASSUME MenuIInv, Wait PROVE MenuIInv'
    OBVIOUS
<1>1. /\ UNCHANGED <<flow, formVars, menuJoin, net, pc, gameVars>>
      /\ age' = IF age < 2 THEN age + 1 ELSE age
      /\ query' = [query EXCEPT !.late = query.pending]
    BY DEF Wait
<1>2. query' \in Queries
    BY <1>1, Parts DEF NetOK, Queries
<1>3. FlowOK' /\ NetOK' /\ MenuJoinLives'
    BY <1>1, <1>2, Parts DEF FlowOK, NetOK, MenuJoinLives
<1>4. QED
    BY <1>1, <1>3, FormsStay, GameStays, SessionStays, Together DEF Continues

LEMMA StutterStep == MenuIInv /\ UNCHANGED menuVars => MenuIInv'
<1> SUFFICES ASSUME MenuIInv, UNCHANGED menuVars PROVE MenuIInv'
    OBVIOUS
<1>1. UNCHANGED <<flow, age, formVars, menuJoin, query, net, pc, gameVars>>
    BY DEF menuVars, formVars, gameVars
<1>2. FlowOK' /\ NetOK' /\ MenuJoinLives' /\ QueryAlone' /\ SessionAlone'
    BY <1>1, Parts
       DEF FlowOK, NetOK, MenuJoinLives, QueryAlone, SessionAlone
<1>3. QED
    BY <1>1, <1>2, FormsStay, GameStays, Together

-----------------------------------------------------------------------------
(* The theorems *)

LEMMA MenuInitInv == MenuInit => MenuIInv
<1> SUFFICES ASSUME MenuInit PROVE MenuIInv
    OBVIOUS
<1>0. FormOK /\ FlowOK
  <2>1. flow = "Idle" /\ age = 0 /\ form = "none" /\ joinCtx = "title"
      BY Zenon DEF MenuInit
  <2>2. pendingHost \in BOOLEAN
      BY Zenon DEF MenuInit
  <2>3. QED
      BY <2>1, <2>2 DEF FormOK, FlowOK, Flows
<1>a. GameOK
  <2>1. place = "title" /\ char = "own" /\ acts = 0
      BY Zenon DEF MenuInit
  <2>2. /\ looks \in BOOLEAN /\ special \in BOOLEAN
        /\ over \in BOOLEAN /\ bare \in BOOLEAN
      BY Zenon DEF MenuInit
  <2>3. acts \in 0..MaxActs
      BY <2>1, MenuAssumption
  <2>4. QED
      BY <2>1, <2>2, <2>3 DEF GameOK
<1>b. NetOK
  <2>1. net \in Nets /\ query \in Queries
      BY NoNetType, Zenon DEF MenuInit
  <2>2. menuJoin \in BOOLEAN /\ pc = "idle"
      BY Zenon DEF MenuInit
  <2>3. QED
      BY <2>1, <2>2 DEF NetOK
<1>1. FormOK /\ GameOK /\ FlowOK /\ NetOK
    BY <1>0, <1>a, <1>b
<1>2. QED
    BY <1>1, TypeParts, NoNetType
       DEF MenuInit, MenuIInv, MenuJoinLives, FormsWait, GearKept, MadeForJoin,
           QueryAlone, SessionAlone, Chargen

LEMMA MenuStep == MenuIInv /\ [MenuNext]_menuVars => MenuIInv'
    BY FrameStep, ButtonsStep, ConsoleStep, PresentStep, NewGameStep, PreLoadStep,
       PostLoadStep, WorldStep, AnswerStep, TimeStep, StutterStep
       DEF MenuNext, Game

(* A menu join reaches no further than the new game it was begun for:      *)
(* menuJoin never outlives TickFlow's way through it, and CMP_StripLocalGear*)
(* takes the items of no other character than the one made for the join or *)
(* loaded over it, for any sequence of games, loads, queries and sessions. *)
THEOREM MenuSafe == MenuSpec => []MenuInv
<1>1. MenuIInv => MenuInv
    BY DEF MenuIInv, MenuInv
<1>2. QED
    BY <1>1, MenuInitInv, MenuStep, PTL DEF MenuSpec

(* A pending query and a session that the menus, the host's form or a      *)
(* loaded game began never share the socket, unless the session began      *)
(* while the Present thread was inside CMP_QueryStart.  A session that the *)
(* console's cmp_join began is not meant: it does share the socket with a  *)
(* query that is pending.                                                  *)
THEOREM MenuQueryApart == MenuSpec => []QuerySparesSession
<1>1. MenuIInv => QuerySparesSession
    BY DEF MenuIInv, SessionAlone, QuerySparesSession
<1>2. QED
    BY <1>1, MenuInitInv, MenuStep, PTL DEF MenuSpec
=============================================================================
