----------------------------- MODULE Containers -----------------------------
(***************************************************************************)
(* The two containers the server is built from: the bounded AsyncQueue     *)
(* that joins its threads (server/src/queues.hpp) and std::unordered_map,  *)
(* seen as a function whose domain is the set of keys present.             *)
(***************************************************************************)
EXTENDS Naturals, Sequences

(* AsyncQueue::push refuses an item when maxSize_ items are waiting. *)
Full(q, cap) == Len(q) >= cap

(* One push; a refused item leaves the queue as it was. *)
Push(q, cap, x) == IF Full(q, cap) THEN q ELSE Append(q, x)

(* The queues that the pushes of one handler can leave behind.  When not   *)
(* all of xs fits, the pops of the other thread decide which pushes come   *)
(* while there is room; those that do fill the queue.                      *)
Room(q, cap) == IF Full(q, cap) THEN 0 ELSE cap - Len(q)

PushAll(q, cap, xs) ==
    IF Len(xs) =< Room(q, cap) THEN {q \o xs}
    ELSE {q \o [i \in 1..Room(q, cap) |-> xs[f[i]]] :
            f \in {g \in [1..Room(q, cap) -> 1..Len(xs)] :
                    \A i, j \in 1..Room(q, cap) : i < j => g[i] < g[j]}}

(* m[k] = v, which inserts or overwrites. *)
Put(f, k, v) == [x \in DOMAIN f \cup {k} |-> IF x = k THEN v ELSE f[x]]

(* m.erase(k), which does nothing when k is absent. *)
Without(f, k) == [x \in DOMAIN f \ {k} |-> f[x]]
=============================================================================
