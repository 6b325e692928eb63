------------------------------ MODULE MCServer ------------------------------
(* Instances of Server. *)
EXTENDS Server, TLC

HelloFrom(k) ==
    [type |-> "Hello", ok |-> TRUE, key |-> k, password |-> NoPassword,
     modHash |-> 0, requireHost |-> FALSE, location |-> Commonwealth,
     clock |-> CHOOSE d \in Data : TRUE]

Hellos   == {HelloFrom(k) : k \in Keys}
JoinMsgs == Hellos \cup {[type |-> "Bye"]}
NoMsgs   == {}

(* The properties speak of runs in which no queue has refused anything. *)
NoLoss == ~inLost /\ ~outLost

OneConfig == {[maxPlayers |-> MaxPeer, password |-> NoPassword, pvp |-> TRUE,
               modHash |-> 0]}

Symmetry == Permutations(Keys)
=============================================================================
