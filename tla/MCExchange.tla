----------------------------- MODULE MCExchange -----------------------------
(* A client with two threads and a tree of two keys, /p and /p/q. *)
EXTENDS Exchange, TLC

CONSTANTS t1, t2, c1, c2, p, q, bp, v1

Threads == {t1, t2}
Conns == {c1, c2}
Keys2 == {p, q}
Bares == {bp}
SlashedIs == [s \in {bp} |-> p]
ChildrenOf == [k \in {p, q} |-> IF k = p THEN {q} ELSE {}]

Item(k, v, inx, exp) == [inx |-> inx, exp |-> exp, key |-> k, value |-> v]
Read1(k) == Item(k, None, FALSE, 0)
C(fn, batch, items) == [fn |-> fn, batch |-> batch, items |-> items]

\* One thread writes to /p, the other writes to /p/q and reads.
Calls == t1 :> {C("set", FALSE, <<Item(bp, v1, TRUE, 1)>>),
                C("move", TRUE, <<Item(p, q, FALSE, 0)>>),
                C("remove", FALSE, <<Read1(bp)>>)}
      @@ t2 :> {C("get", TRUE, <<Read1(q), Read1(p)>>),
                C("list", FALSE, <<Read1(bp)>>),
                C("ttl", FALSE, <<Read1(p)>>),
                C("import", TRUE, <<Item(q, v1, FALSE, 0), Read1(p)>>)}
H(path, method, v, inx) == [path |-> path, method |-> method, key |-> p, value |-> v,
                            inx |-> inx, exp |-> 0]
Https == {H("/key/", "PUT", v1, TRUE), H("/key/", "DELETE", None, FALSE)}
=============================================================================
