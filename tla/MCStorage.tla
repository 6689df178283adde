------------------------------ MODULE MCStorage ------------------------------
(***************************************************************************)
(* Instances of Storage for TLC: two keys on one path and one beside them. *)
(***************************************************************************)
EXTENDS Storage

A  == <<"a">>
AB == <<"a", "b">>
AC == <<"a", "c">>
C  == <<"c">>

Opt(inx, exp, cache) == [ifNotExists |-> inx, exp |-> exp, cache |-> cache]
Single(o, it)  == [op |-> o, batch |-> FALSE, items |-> <<it>>]
Batch(o, its)  == [op |-> o, batch |-> TRUE, items |-> its]
Put(k, v, o)   == [key |-> k, value |-> v, opts |-> o]
Mv(k, d, o)    == [key |-> k, dest |-> d, opts |-> o]
Del(k)         == [key |-> k]

Names  == {"a", "b", "c"}
Nested == {A, AB}
Forest == {A, AB, AC, C}
Plain  == Opt(FALSE, 0, FALSE)
Ttl    == Opt(FALSE, 1, FALSE)
Cached == Opt(FALSE, 1, TRUE)
OnlyNew == Opt(TRUE, 0, FALSE)

Sets(K, O)    == {Single("set", Put(k, 1, o)) : k \in K, o \in O}
Removes(K)    == {Single("remove", Del(k)) : k \in K}
Moves(K, O)   == {Single("move", Mv(k, d, o)) : k \in K, d \in K, o \in O}

\* Cached and regular keys mixed at will, with and without TTL; the pair of
\* moves meets its own marker of a cached key before it is committed; the pair
\* of sets is refused at its second key.
MixedRequests == Sets(Nested, {Plain, Ttl, Cached, OnlyNew})
                 \cup Removes(Nested) \cup Moves(Nested, {Plain, OnlyNew})
                 \cup {Batch("move", <<Mv(A, AB, Plain), Mv(AB, A, Plain)>>),
                       Batch("set", <<Put(AB, 1, Plain), Put(A, 1, OnlyNew)>>)}

\* One key, given a TTL again before the first one runs out.
RenewRequests == Sets({A}, {Ttl, Opt(FALSE, 2, FALSE)})

\* Keys above and below one another, none of them cached.
RegularRequests ==
    Sets(Nested, {Plain, Ttl}) \cup Removes(Nested) \cup Moves(Nested, {Plain})
    \cup {Batch("remove", <<Del(A), Del(AB)>>),
          Batch("move", <<Mv(A, AB, Plain), Mv(AB, A, OnlyNew)>>)}

\* No stored key above another; one key is always cached; of two values, in
\* requests that cannot be refused after they have changed something.
LeafRequests ==
    Sets({AB}, {Plain, Ttl}) \cup Sets({C}, {Cached}) \cup Removes({AB, C})
    \cup Moves({AB, AC}, {Plain})
    \cup {Single("set", Put(AC, 2, Plain)),
          Batch("set", <<Put(AB, 2, Plain), Put(AC, 1, Plain)>>),
          Batch("remove", <<Del(AB), Del(AC)>>)}
=============================================================================
