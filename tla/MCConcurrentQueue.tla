-------------------------- MODULE MCConcurrentQueue --------------------------
(* Three threads that put and take, with blocks of two elements. *)
EXTENDS ConcurrentQueue, TLC

CONSTANTS t1, t2, t3, b1, b2, b3, b4

Threads == {t1, t2, t3}
Blocks == {b1, b2, b3, b4}
e == "enqueue"
d == "dequeue"
Does(x, y, z) == t1 :> x @@ t2 :> y @@ t3 :> z
Hashes == t1 :> 3 @@ t2 :> 3 @@ t3 :> 0
Pool == <<b1>>

\* Free blocks are taken while blocks are given back; two threads claim one
\* element; the index of a producer is replaced.
Scripts == {Does(<<e, e>>, <<e, e, d, d, e, e, d, d>>, <<>>),
            Does(<<e>>, <<e, e, e, e, d, d, d, d>>, <<>>),
            Does(<<e>>, <<e, d>>, <<d>>),
            Does(<<e, e, e, e, e>>, <<d, d, d, d, d>>, <<>>)}
=============================================================================
