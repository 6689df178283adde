---------------------------- MODULE MCReplication ----------------------------
(***************************************************************************)
(* Instances of Replication for TLC: n2 listens to n1.  A node relays only *)
(* if it has peers itself: n1 has n3, which has none and runs no notifier. *)
(***************************************************************************)
EXTENDS Replication

CONSTANTS n1, n2, n3, t1, t2, g, j, k, u, v

\* The requests of a thread, small and large: a frame of two cells fits the
\* buffer, one of four takes two reads at least.
PutReq(q, x, new) == [key |-> q, value |-> x, action |-> "put", ifNotExists |-> new]
DelReq(q) == [key |-> q, action |-> "delete"]
MoveReq(q, to) == [key |-> q, action |-> "move", dest |-> to]

Reqs == {PutReq(k, u, FALSE), PutReq(k, v, TRUE), DelReq(k), MoveReq(k, j),
         PutReq(g, u, FALSE)}
Sizes == [r \in Reqs |-> IF r = PutReq(k, v, TRUE) THEN 4 ELSE 2]
Owners == [q \in {g, j, k} |-> IF q = g THEN {<<n1, t2>>} ELSE {<<n1, t1>>}]
Chain == {<<n2, n1>>, <<n1, n3>>}
=============================================================================
