------------------------------- MODULE MCSim -------------------------------
(* Instances of Sim: small sets of messages for its clients to send. *)
EXTENDS SimParty, TLC

AnyData == CHOOSE d \in Data : TRUE

HelloFrom(k, host) ==
    [type |-> "Hello", ok |-> TRUE, key |-> k, password |-> NoPassword,
     modHash |-> 0, requireHost |-> host, location |-> Commonwealth,
     clock |-> AnyData]

(* Joining, leaving and reconnecting. *)
JoinMsgs == {HelloFrom(k, FALSE) : k \in Keys} \cup {[type |-> "Bye"]}
JoinAndBlob == JoinMsgs \cup [type : {"Blob"}, data : Data]
NoMsgs   == {}

(* Hellos that the gates let pass or refuse, the host's reports, queries   *)
(* and a message that is only passed on.                                   *)
SessionMsgs ==
    UNION {
      {[HelloFrom(k, TRUE) EXCEPT !.modHash = h, !.password = w] :
         k \in Keys, h \in ModHashes, w \in Passwords},
      {[HelloFrom(k, FALSE) EXCEPT !.password = w] :
         k \in Keys, w \in Passwords},
      [type : {"WorldSnapshot"}, location : {NoLoc}, clock : Data],
      [type : {"Bye", "SessionQuery", "Chat"}] }
UdpMsgsAll ==
    [type : {"UdpBind"}, peer : PeerIds, token : Tokens]
      \cup [type : {"PlayerPose"}, location : {NoLoc}, data : Data]
      \cup [type : {"ActorPose"}]

KeySymmetry == Permutations(Keys)
Symmetry == Permutations(Keys) \cup Permutations(Addrs)

OneConfig == {[maxPlayers |-> 2, password |-> NoPassword, pvp |-> TRUE,
               modHash |-> 0]}
(* A server with a password, one or two places and no pinned mod list. *)
TwoConfigs == [maxPlayers : {1, 2}, password : Passwords, pvp : {TRUE},
               modHash : {0}]
=============================================================================
