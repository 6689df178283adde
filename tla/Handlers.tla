------------------------------- MODULE Handlers -------------------------------
(***************************************************************************)
(* The functions at the two ends of a request: what the API sends and how  *)
(* it reads the answer (api.cpp, connection.cpp), what the TCP and the     *)
(* HTTP handlers answer (tcp/server.cpp, http/server.cpp), and what the    *)
(* database gives them to answer with (storage.cpp).                       *)
(*                                                                         *)
(* A call is a function of the API with its items.  An item has a key, a   *)
(* value (for a move the destination) and options.  A key can be spelled   *)
(* with or without the leading '/'; rows are stored with it.  The rows are *)
(* the values and the TTLs of the keys; Storage has the rest of them.      *)
(***************************************************************************)
EXTENDS Naturals, Sequences

CONSTANTS Key,         \* the keys, with their leading '/'
          Bare,        \* spellings without it
          Slashed,     \* the key of such a spelling
          Children,    \* the keys below a key
          NoValue,     \* no row
          None,        \* std::nullopt, or a null pointer
          Undefined    \* what using a null pointer gives

getKey(s) == IF s \in Bare THEN Slashed[s] ELSE s
-----------------------------------------------------------------------------
(* The database: get, list and ttl of a batch, in the order of the result. *)

Row(k, v) == [key |-> k, value |-> v]
Below(d, k) == {c \in Children[k] : d.data[c] # NoValue}

\* Keys found in the value cache (hot) come first.
db_get(d, spelled, hot) ==
    LET ks == [i \in DOMAIN spelled |-> getKey(spelled[i])]
        ordered == SelectSeq(ks, LAMBDA k : k \in hot) \o SelectSeq(ks, LAMBDA k : k \notin hot)
    IN  [i \in DOMAIN ks |-> LET k == ordered[i] IN
            Row(k, IF d.data[k] = NoValue THEN None ELSE d.data[k])]

\* The rows of these two are looked up as the key is spelled.
db_list(d, spelled) ==
    [i \in DOMAIN spelled |-> LET s == spelled[i] IN
        Row(s, IF s \in Bare \/ Below(d, s) = {} THEN None ELSE Below(d, s))]

db_ttl(d, spelled) ==
    [i \in DOMAIN spelled |-> LET s == spelled[i] IN
        Row(s, IF s \in Bare THEN 0 ELSE d.life[s])]

SetItemAsSpelled(d, it) ==                                  \* mutant
    LET k == getKey(it.key)
    IN  IF it.inx /\ it.key \in Key /\ d.data[k] # NoValue THEN None
        ELSE [data |-> [d.data EXCEPT ![k] = it.value],
              life |-> IF it.exp > 0 THEN [d.life EXCEPT ![k] = it.exp] ELSE d.life]

SetItem(d, it) ==
    LET k == getKey(it.key)
    IN  IF it.inx /\ d.data[k] # NoValue THEN None
        ELSE [data |-> [d.data EXCEPT ![k] = it.value],
              life |-> IF it.exp > 0 THEN [d.life EXCEPT ![k] = it.exp] ELSE d.life]

RemoveItem(d, it) ==
    LET k == getKey(it.key)
    IN  [data |-> [d.data EXCEPT ![k] = NoValue], life |-> [d.life EXCEPT ![k] = 0]]

MoveItem(d, it) ==
    LET k == getKey(it.key)
        dest == getKey(it.value)
    IN  IF d.data[k] = NoValue \/ (it.inx /\ d.data[dest] # NoValue) THEN None
        ELSE SetItem(RemoveItem(d, it),
                     [key |-> dest, value |-> d.data[k], inx |-> FALSE,
                      exp |-> IF it.exp = 0 THEN d.life[k] ELSE it.exp])

\* A batch in one transaction; None if an item fails.
All(action, d, items) ==
    LET done(s, it) == CASE action = "Put"    -> SetItem(s, it)
                         [] action = "Delete" -> RemoveItem(s, it)
                         [] action = "Move"   -> MoveItem(s, it)
        after[i \in 0..Len(items)] ==
            IF i = 0 THEN d
            ELSE IF after[i - 1] = None THEN None ELSE done(after[i - 1], items[i])
    IN  after[Len(items)]

Keys(items) == [i \in DOMAIN items |-> items[i].key]
-----------------------------------------------------------------------------
(* The requests the API sends. *)

Request(action, items) == [action |-> action, data |-> items]

con_list(items)   == Request("List", items)
con_get(items)    == Request("Get", items)
con_set(items)    == Request("Put", items)
con_remove(items) == Request("Delete", items)
con_move(items)   == Request("Move", items)
con_ttl(items)    == Request("TTL", items)

\* The lines of a file that have a space, as items of one request.
con_import(lines) == con_set(SelectSeq(lines, LAMBDA l : l.value # None))

Built(call) ==
    CASE call.fn = "list"   -> con_list(call.items)
      [] call.fn = "get"    -> con_get(call.items)
      [] call.fn = "set"    -> con_set(call.items)
      [] call.fn = "remove" -> con_remove(call.items)
      [] call.fn = "move"   -> con_move(call.items)
      [] call.fn = "ttl"    -> con_ttl(call.items)
      [] call.fn = "import" -> con_import(call.items)
-----------------------------------------------------------------------------
(* The TCP handlers: the rows after the request, and the answer. *)

Results(kind, rows) ==
    [type |-> "KeyValueResults",
     of |-> [i \in DOMAIN rows |->
                [key |-> rows[i].key, value |-> rows[i].value,
                 kind |-> IF rows[i].value = None THEN "Success" ELSE kind]]]

Answered(d, answer) == [d |-> d, answer |-> answer]
Changed(d, end) == Answered(IF end = None THEN d ELSE end,
                            [type |-> "Success", ok |-> end # None])

get(d, items, hot) == Answered(d, Results("Value", db_get(d, Keys(items), hot)))
list(d, items)     == Answered(d, Results("Children", db_list(d, Keys(items))))
ttl(d, items)      == Answered(d, Results("Value", db_ttl(d, Keys(items))))
put(d, items)      == Changed(d, All("Put", d, items))
remove(d, items)   == Changed(d, All("Delete", d, items))
move(d, items)     == Changed(d, All("Move", d, items))

process(d, request, hot) ==
    CASE request.action = "Get"    -> get(d, request.data, hot)
      [] request.action = "List"   -> list(d, request.data)
      [] request.action = "Put"    -> put(d, request.data)
      [] request.action = "Delete" -> remove(d, request.data)
      [] request.action = "Move"   -> move(d, request.data)
      [] request.action = "TTL"    -> ttl(d, request.data)
-----------------------------------------------------------------------------
(* What the functions of the API make of an answer. *)

ResultsFor(answer, n) ==
    answer # None /\ answer.type = "KeyValueResults" /\ Len(answer.of) = n

OneOf(answer, kind, none) ==
    IF ResultsFor(answer, 1) /\ answer.of[1].kind = kind THEN answer.of[1].value ELSE none

EachOf(answer, n, kind, none) ==
    IF ResultsFor(answer, n)
    THEN [i \in 1..n |-> LET r == answer.of[i] IN
             Row(r.key, IF r.kind = kind THEN r.value ELSE none)]
    ELSE <<>>

Done(answer) == answer # None /\ answer.type = "Success" /\ answer.ok

api_get(answer)      == OneOf(answer, "Value", None)
api_list(answer)     == IF answer = None THEN Undefined ELSE OneOf(answer, "Children", None)
api_ttl(answer)      == IF answer = None THEN Undefined ELSE OneOf(answer, "Value", 0)
api_set(answer)      == Done(answer)
api_remove(answer)   == Done(answer)
api_move(answer)     == Done(answer)
api_mget(answer, n)  == EachOf(answer, n, "Value", None)
api_mlist(answer, n) == EachOf(answer, n, "Children", None)
api_mttl(answer, n)  == EachOf(answer, n, "Value", 0)
api_mset(answer)     == Done(answer)
api_mremove(answer)  == Done(answer)
api_mmove(answer)    == Done(answer)
api_import(answer)   == Done(answer)

\* A function that takes one key and the one that takes several share a name.
Returned(call, answer) ==
    LET n == Len(call.items)
    IN  CASE call.fn = "get"    -> IF call.batch THEN api_mget(answer, n) ELSE api_get(answer)
          [] call.fn = "list"   -> IF call.batch THEN api_mlist(answer, n) ELSE api_list(answer)
          [] call.fn = "ttl"    -> IF call.batch THEN api_mttl(answer, n) ELSE api_ttl(answer)
          [] call.fn = "set"    -> IF call.batch THEN api_mset(answer) ELSE api_set(answer)
          [] call.fn = "remove" -> IF call.batch THEN api_mremove(answer) ELSE api_remove(answer)
          [] call.fn = "move"   -> IF call.batch THEN api_mmove(answer) ELSE api_move(answer)
          [] call.fn = "import" -> api_import(answer)
-----------------------------------------------------------------------------
(* The HTTP handlers.  The path is a prefix and a key. *)

Reply(code, d) == [code |-> code, d |-> d]

\* db::get, db::list of one key.
http_get(d, req)  == Reply(IF d.data[req.key] # NoValue THEN 200 ELSE 404, d)
http_list(d, req) == Reply(IF Below(d, req.key) # {} THEN 200 ELSE 404, d)

\* At the end of the body; an empty one is refused.
http_put(d, req) ==
    IF req.value = None THEN Reply(400, d)
    ELSE LET end == SetItem(d, req)
         IN  IF end = None THEN Reply(412, d) ELSE Reply(200, end)

http_remove(d, req) == Reply(200, RemoveItem(d, req))

\* The answer to a path that is none of the three is followed by a second one,
\* which is too late.
http(d, req) ==
    CASE req.path = "/key/"  /\ req.method = "GET"    -> http_get(d, req)
      [] req.path = "/key/"  /\ req.method = "PUT"    -> http_put(d, req)
      [] req.path = "/key/"  /\ req.method = "DELETE" -> http_remove(d, req)
      [] req.path = "/list/" /\ req.method = "GET"    -> http_list(d, req)
      [] req.path = "/"      /\ req.method = "GET"    -> Reply(200, d)
      [] req.path \notin {"/key/", "/list/", "/"}     -> Reply(404, d)
      [] OTHER                                        -> Reply(405, d)
=============================================================================
