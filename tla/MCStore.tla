------------------------------ MODULE MCStore ------------------------------
(* Instances of Store. *)
EXTENDS Store, TLC

First == CHOOSE d \in Data : TRUE

HelloFrom(k) ==
    [type |-> "Hello", ok |-> TRUE, key |-> k, password |-> NoPassword,
     modHash |-> 0, requireHost |-> FALSE, location |-> Commonwealth,
     clock |-> First]

RecordMsgs == {HelloFrom(k) : k \in Keys}
                \cup [type : {"Blob"}, data : {First}]
NoMsgs     == {}

OneConfig == {[maxPlayers |-> 2, password |-> NoPassword, pvp |-> TRUE,
               modHash |-> 0]}
=============================================================================
