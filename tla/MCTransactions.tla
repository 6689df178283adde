---------------------------- MODULE MCTransactions ----------------------------
(***************************************************************************)
(* An instance of Transactions for TLC: a regular and a cached key.        *)
(***************************************************************************)
EXTENDS Transactions, TLC

A  == <<"a">>
AB == <<"a", "b">>
C  == <<"c">>
Names == {"a", "b", "c"}
Keys == {A, AB, C}

Put(k, new, ttl, marked) ==
    [op |-> "set", key |-> k, ifNotExists |-> new, exp |-> ttl, cache |-> marked]
Del(k) == [op |-> "remove", key |-> k]

Plain(k)  == Put(k, FALSE, 0, FALSE)
New(k)    == Put(k, TRUE, 0, FALSE)
Cached(k) == Put(k, FALSE, 1, TRUE)

\* Batches in opposite orders, one that may be refused after its first key.
CONSTANTS c1, c2
OverlapRequests == (c1 :> {<<Cached(C), New(AB)>>}) @@
                   (c2 :> {<<New(AB)>>, <<Del(AB), Del(C)>>})
=============================================================================
