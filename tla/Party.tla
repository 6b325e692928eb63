------------------------------- MODULE Party -------------------------------
(***************************************************************************)
(* What the session promises its players, without connections, tokens,     *)
(* queues or threads: who is in, who is the host, who is banned and how    *)
(* many places there are.  A player comes in once, when he is not banned   *)
(* and a place is free; the first to come is the host and stays it until   *)
(* he leaves, when one of the others takes over; nobody else is moved.     *)
(***************************************************************************)
EXTENDS FiniteSets, Naturals

CONSTANT Keys

VARIABLES
    members, \* the players who are in
    host,    \* the set that holds the host, or the empty set
    banned, places

partyVars == <<members, host, banned, places>>

PartyInit ==
    /\ members = {} /\ host = {} /\ banned = {}
    /\ places \in Nat \ {0}

Arrive(k) ==
    /\ k \notin members \cup banned
    /\ Cardinality(members) < places
    /\ members' = members \cup {k}
    /\ host' = IF members = {} THEN {k} ELSE host
    /\ UNCHANGED <<banned, places>>

(* He may be banned as he is sent away. *)
Depart(k) ==
    /\ k \in members
    /\ members' = members \ {k}
    /\ IF host = {k} /\ members' # {} THEN \E m \in members' : host' = {m}
       ELSE host' = host \ {k}
    /\ banned' \in {banned, banned \cup {k}}
    /\ UNCHANGED places

Judge(k) ==
    /\ banned' \in {banned \cup {k}, banned \ {k}}
    /\ UNCHANGED <<members, host, places>>

Resize ==
    /\ places' \in Nat \ {0}
    /\ UNCHANGED <<members, host, banned>>

PartyNext == Resize \/ \E k \in Keys : Arrive(k) \/ Depart(k) \/ Judge(k)

PartySpec == PartyInit /\ [][PartyNext]_partyVars
=============================================================================
