------------------------------- MODULE Exchange -------------------------------
(***************************************************************************)
(* A request and its answer.  A thread of a client takes a connection from *)
(* the pool, writes the request, reads the answer and puts the connection  *)
(* back; a coroutine of the service reads requests from the connection and *)
(* answers them; HTTP requests reach the same database.                    *)
(*                                                                         *)
(* A connection carries frames, a length followed by a request or an       *)
(* answer, in cells of four bytes of which the length is the first.  A     *)
(* read returns what has arrived, up to the size of a buffer, or less: it  *)
(* tears if it returns less.                                               *)
(***************************************************************************)
EXTENDS Handlers, FiniteSets, Functions

CONSTANTS Thread, Con,
          Call,               \* the calls a thread may make
          HttpRequest,        \* the HTTP requests that may arrive
          ServerBuf, ClientBuf,   \* the sizes of the buffers of the two reads
          Raised,             \* the result of a call that ends with an exception
          MaxDoc,             \* bound on a length that is read from other bytes
          MaxCalls, MaxHttp, MaxTears, MaxFaults   \* bounds

ASSUME ExchangeAssumption ==
    /\ \A t \in Thread : \A c \in Call[t] :
          /\ Len(c.items) > 0 /\ (c.batch \/ Len(c.items) = 1)
          /\ c.fn \in {"list", "get", "set", "remove", "move", "ttl", "import"}
          /\ Built(c).data \in Seq(Range(c.items))
    /\ Con # {} /\ None \notin Con
    /\ {ServerBuf, ClientBuf} \subseteq Nat \ {0, 1}
    /\ {MaxDoc, MaxCalls, MaxHttp, MaxTears, MaxFaults} \subseteq Nat

VARIABLES db,         \* the rows
          up,         \* the service runs
          con,        \* the connections
          available,  \* the pool
          client,     \* the threads
          made,       \* the calls made; a call is known by its number
          answered,   \* the answers the service gave to a call
          codes,      \* the HTTP requests answered, with the code
          spent       \* tears and faults so far

vars == <<db, up, con, available, client, made, answered, codes, spent>>

\* A connection: buffer holds bytes the client read and did not use, rbuf what
\* the service has of a long request, need its length.  past is a history
\* variable: what went wrong on the connection, "torn" if a read tore, "short"
\* if a call got a short response.
Fresh == [open |-> TRUE, valid |-> TRUE, buffer |-> <<>>, toServer |-> <<>>, toClient |-> <<>>,
          rbuf |-> <<>>, need |-> 0, past |-> "clean"]
Closed == [Fresh EXCEPT !.open = FALSE]

\* A thread: waiting on its connection for an answer of need cells, got being
\* those it has; or with the result of its last call, and the call whose answer
\* that was made from.
Idle == [need |-> 0, past |-> "clean", on |-> None, call |-> 0, got |-> <<>>,
         result |-> None, from |-> 0]

Init ==
    /\ db = [data |-> [k \in Key |-> NoValue], life |-> [k \in Key |-> 0]]
    /\ up = TRUE
    /\ LET first == CHOOSE c \in Con : TRUE IN
       con = [[c \in Con |-> Closed] EXCEPT ![first] = Fresh] /\ available = <<first>>
    /\ client = [t \in Thread |-> Idle]
    /\ made = <<>> /\ answered = <<>> /\ codes = <<>>
    /\ spent = [tears |-> 0, faults |-> 0]
-----------------------------------------------------------------------------
(* Frames. *)

Frame(kind, id, size) == [i \in 1..size |-> [kind |-> kind, of |-> id, at |-> i, size |-> size]]

RequestFrame(id, call) == Frame("request", id, 2 + Len(Built(call).data))
AnswerFrame(id, answer) ==
    Frame("answer", id, IF answer.type = "Success" THEN 3 ELSE 2 + Len(answer.of))
\* An invalid request is sent back behind a length.
InvalidFrame(cells) == <<[kind |-> "invalid", of |-> 0, at |-> 1, size |-> 1 + Len(cells)]>> \o cells

\* The lengths a cell in the place of the length may be read as.
LengthsOfBody(cell) == IF cell.at = 1 THEN {cell.size - 1} ELSE 2..MaxDoc   \* mutant

Lengths(cell) == IF cell.at = 1 THEN {cell.size} ELSE 2..MaxDoc

\* The cells begin with a whole message of the kind: what the verifier finds out.
Verified(kind, cells) ==
    /\ cells # <<>>
    /\ LET m == Head(cells) IN
       /\ m.kind = kind /\ m.at = 2
       /\ m.size - 1 <= Len(cells)
       /\ SubSeq(cells, 1, m.size - 1) = Tail(Frame(kind, m.of, m.size))

\* A read of n cells, of those that arrived no more than the buffer holds.
Reads(stream, max) == 1..(IF Len(stream) < max THEN Len(stream) ELSE max)
Torn(stream, max, n) == n + 1 \in Reads(stream, max)
Tears(torn) == /\ torn => spent.tears < MaxTears
               /\ spent' = IF torn THEN [spent EXCEPT !.tears = @ + 1] ELSE spent
Past(past, torn) == IF past = "clean" /\ torn THEN "torn" ELSE past
Rest(stream, n) == SubSeq(stream, n + 1, Len(stream))
-----------------------------------------------------------------------------
(* The service: respond, once for every request on the connection. *)

\* n cells are taken from the connection and others are sent.
Served(c, n, rbuf, need, cells) ==
    LET k == con[c]
        torn == Torn(k.toServer, ServerBuf, n)
    IN  /\ Tears(torn)
        /\ con' = [con EXCEPT ![c] = [k EXCEPT !.toServer = Rest(k.toServer, n),
                                               !.toClient = k.toClient \o cells,
                                               !.rbuf = rbuf, !.need = need,
                                               !.past = Past(k.past, torn)]]

\* What was read is a request, or is sent back.
Handle(c, n, body) ==
    IF Verified("request", body)
    THEN LET id == Head(body).of IN
         \E hot \in SUBSET {k \in Key : db.data[k] # NoValue} :
            LET r == process(db, Built(made[id]), hot) IN
            /\ db' = r.d
            /\ answered' = [answered EXCEPT ![id] = Append(@, r.answer)]
            /\ Served(c, n, <<>>, 0, AnswerFrame(id, r.answer))
    ELSE /\ Served(c, n, <<>>, 0, InvalidFrame(body))
         /\ UNCHANGED <<db, answered>>

Arrived(c) == up /\ con[c].open /\ con[c].toServer # <<>>

\* Fewer than five bytes are sent back as they are.
Echo(c) ==
    /\ Arrived(c) /\ con[c].need = 0
    /\ Served(c, 1, <<>>, 0, SubSeq(con[c].toServer, 1, 1))
    /\ UNCHANGED <<db, answered, up, available, client, made, codes>>

Respond(c) ==
    /\ Arrived(c) /\ con[c].need = 0
    /\ \E n \in Reads(con[c].toServer, ServerBuf) \ {1} :
        LET cells == SubSeq(con[c].toServer, 1, n) IN
        \E docSize \in Lengths(Head(cells)) :
            IF docSize <= ServerBuf THEN Handle(c, n, Tail(cells))
            ELSE /\ Served(c, n, cells, docSize, <<>>)
                 /\ UNCHANGED <<db, answered>>
    /\ UNCHANGED <<up, available, client, made, codes>>

RespondMoreCountsBody(c) ==                                 \* mutant
    /\ Arrived(c) /\ con[c].need > 0
    /\ \E n \in Reads(con[c].toServer, ServerBuf) :
        LET cells == con[c].rbuf \o SubSeq(con[c].toServer, 1, n) IN
        IF Len(cells) - 1 = con[c].need THEN Handle(c, n, Tail(cells))
        ELSE /\ Served(c, n, cells, con[c].need, <<>>)
             /\ UNCHANGED <<db, answered>>
    /\ UNCHANGED <<up, available, client, made, codes>>

\* The loop ends when exactly the length has been read.
RespondMore(c) ==
    /\ Arrived(c) /\ con[c].need > 0
    /\ \E n \in Reads(con[c].toServer, ServerBuf) :
        LET cells == con[c].rbuf \o SubSeq(con[c].toServer, 1, n) IN
        IF Len(cells) = con[c].need THEN Handle(c, n, Tail(cells))
        ELSE /\ Served(c, n, cells, con[c].need, <<>>)
             /\ UNCHANGED <<db, answered>>
    /\ UNCHANGED <<up, available, client, made, codes>>

Http(req) ==
    /\ up /\ Len(codes) < MaxHttp
    /\ LET r == http(db, req) IN
       db' = r.d /\ codes' = Append(codes, [req |-> req, code |-> r.code])
    /\ UNCHANGED <<up, con, available, client, made, answered, spent>>
-----------------------------------------------------------------------------
(* The client. *)

Unused == {c \in Con : /\ c \notin Range(available)
                       /\ \A t \in Thread : client[t].on # c
                       /\ con[c].open => ~ con[c].valid /\ con[c].toServer = <<>>}

Finished(t, call, result, from, past) ==
    client' = [client EXCEPT ![t] = [Idle EXCEPT !.call = call, !.result = result,
                                                 !.from = from, !.past = past]]

Begins(t, call) ==
    /\ client[t].on = None /\ Len(made) < MaxCalls
    /\ made' = Append(made, call) /\ answered' = Append(answered, <<>>)
    /\ UNCHANGED <<db, up, codes>>

\* The call is written to the connection, behind what is left in the buffer.
Writes(t, call, c, state) ==
    /\ con' = [con EXCEPT ![c] = [state EXCEPT
                  !.toServer = state.toServer \o state.buffer \o RequestFrame(Len(made) + 1, call),
                  !.buffer = <<>>]]
    /\ client' = [client EXCEPT ![t] = [Idle EXCEPT !.on = c, !.call = Len(made) + 1]]

StartShared(t, call) ==                                     \* mutant
    /\ available # <<>> /\ con[Head(available)].open
    /\ Begins(t, call)
    /\ Writes(t, call, Head(available), con[Head(available)])
    /\ UNCHANGED <<available, spent>>

\* A connection from the pool.
StartPooled(t, call) ==
    /\ available # <<>> /\ con[Head(available)].open
    /\ Begins(t, call)
    /\ Writes(t, call, Head(available), con[Head(available)])
    /\ available' = Tail(available)
    /\ UNCHANGED spent

\* The other end of it is gone; it goes back to the pool.
StartBroken(t, call) ==
    /\ available # <<>> /\ ~ con[Head(available)].open
    /\ Begins(t, call)
    /\ Finished(t, Len(made) + 1, Raised, 0, "clean")
    /\ available' = Append(Tail(available), Head(available))
    /\ UNCHANGED <<con, spent>>

\* A new connection.
StartNew(t, call) ==
    /\ available = <<>> /\ up /\ Unused # {}
    /\ Begins(t, call)
    /\ Writes(t, call, CHOOSE c \in Unused : TRUE, Fresh)
    /\ UNCHANGED <<available, spent>>

\* The handshake fails: the connection is invalid and nothing is written.
StartInvalid(t, call) ==
    /\ available = <<>> /\ up /\ Unused # {}
    /\ spent.faults < MaxFaults
    /\ spent' = [spent EXCEPT !.faults = @ + 1]
    /\ Begins(t, call)
    /\ Finished(t, Len(made) + 1, Returned(call, None), 0, "torn")
    /\ UNCHANGED <<con, available>>

StartRefused(t, call) ==
    /\ available = <<>> /\ ~ up
    /\ Begins(t, call)
    /\ Finished(t, Len(made) + 1, Raised, 0, "clean")
    /\ UNCHANGED <<con, available, spent>>

\* n cells are taken and the call ends, with the answer to a call or none; an
\* invalid connection is closed, a valid one goes back to the pool.
Ends(t, n, from, valid, left) ==
    LET c == client[t].on
        k == con[c]
        torn == Torn(k.toClient, ClientBuf, n)
        past == IF left # <<>> THEN "short" ELSE Past(k.past, torn)
        call == made[client[t].call]
        answer == IF from = 0 THEN None ELSE Head(answered[from])
    IN  /\ Tears(torn)
        /\ con' = [con EXCEPT ![c] = [k EXCEPT !.toClient = Rest(k.toClient, n), !.buffer = left,
                                               !.valid = valid, !.past = past]]
        /\ available' = IF valid THEN Append(available, c) ELSE available
        /\ Finished(t, client[t].call, Returned(call, answer), from, past)

\* What a read makes of the cells it has, need being those of the answer.
Collects(t, n, cells, need) ==
    LET c == client[t].on
        k == con[c]
        body == SubSeq(cells, 2, need)
        torn == Torn(k.toClient, ClientBuf, n)
    IN  IF Len(cells) < need
        THEN /\ Tears(torn)
             /\ con' = [con EXCEPT ![c] = [k EXCEPT !.toClient = Rest(k.toClient, n),
                                                    !.past = Past(k.past, torn)]]
             /\ client' = [client EXCEPT ![t] = [client[t] EXCEPT !.got = cells, !.need = need]]
             /\ UNCHANGED available
        ELSE IF Verified("answer", body) THEN Ends(t, n, Head(body).of, TRUE, <<>>)
                                         ELSE Ends(t, n, 0, FALSE, <<>>)

Awaits(t) == client[t].on # None /\ con[client[t].on].toClient # <<>>

ReadShortResends(t) ==                                      \* mutant
    /\ Awaits(t) /\ client[t].need = 0
    /\ LET c == client[t].on
           id == client[t].call IN
       /\ Tears(Torn(con[c].toClient, ClientBuf, 1))
       /\ con' = [con EXCEPT ![c].toClient = Tail(@),
                             ![c].toServer = @ \o RequestFrame(id, made[id])]
    /\ UNCHANGED <<db, up, available, client, made, answered, codes>>

\* Fewer than five bytes: they stay in the buffer of the connection.
ReadShort(t) ==
    /\ Awaits(t) /\ client[t].need = 0
    /\ Ends(t, 1, 0, TRUE, SubSeq(con[client[t].on].toClient, 1, 1))
    /\ UNCHANGED <<db, up, made, answered, codes>>

Read(t) ==
    /\ Awaits(t) /\ client[t].need = 0
    /\ LET stream == con[client[t].on].toClient IN
       \E n \in Reads(stream, ClientBuf) \ {1} : \E need \in Lengths(Head(stream)) :
          Collects(t, n, SubSeq(stream, 1, n), need)
    /\ UNCHANGED <<db, up, made, answered, codes>>

ReadMore(t) ==
    /\ Awaits(t) /\ client[t].need > 0
    /\ LET stream == con[client[t].on].toClient IN
       \E n \in Reads(stream, ClientBuf) :
          Collects(t, n, client[t].got \o SubSeq(stream, 1, n), client[t].need)
    /\ UNCHANGED <<db, up, made, answered, codes>>

\* The connection is gone: an exception, which leaves it valid.
ReadFails(t) ==
    /\ client[t].on # None /\ ~ con[client[t].on].open
    /\ con[client[t].on].toClient = <<>>
    /\ available' = Append(available, client[t].on)
    /\ Finished(t, client[t].call, Raised, 0, con[client[t].on].past)
    /\ UNCHANGED <<db, up, con, made, answered, codes, spent>>

\* The pool's monitor drops a connection that was not used for long.
RemoveIdle ==
    /\ available # <<>>
    /\ con' = [con EXCEPT ![Head(available)].valid = FALSE]
    /\ available' = Tail(available)
    /\ UNCHANGED <<db, up, client, made, answered, codes, spent>>
-----------------------------------------------------------------------------
(* The process of the service. *)

\* It ends; what it sent may be lost with it.
Down ==
    /\ up /\ spent.faults < MaxFaults
    /\ up' = FALSE /\ spent' = [spent EXCEPT !.faults = @ + 1]
    /\ \E lost \in SUBSET {c \in Con : con[c].toClient # <<>>} :
          con' = [c \in Con |-> [con[c] EXCEPT !.open = FALSE, !.toServer = <<>>,
                                    !.toClient = IF c \in lost THEN <<>> ELSE con[c].toClient,
                                    !.rbuf = <<>>, !.need = 0]]
    /\ UNCHANGED <<db, available, client, made, answered, codes>>

Up ==
    /\ ~ up /\ up' = TRUE
    /\ UNCHANGED <<db, con, available, client, made, answered, codes, spent>>

Serve(c)   == Echo(c) \/ Respond(c) \/ RespondMore(c)
Receive(t) == ReadShort(t) \/ Read(t) \/ ReadMore(t) \/ ReadFails(t)

Next == \/ \E t \in Thread : \E call \in Call[t] :
              \/ StartPooled(t, call) \/ StartBroken(t, call) \/ StartNew(t, call)
              \/ StartInvalid(t, call) \/ StartRefused(t, call)
        \/ \E t \in Thread : Receive(t)
        \/ \E c \in Con : Serve(c)
        \/ \E req \in HttpRequest : Http(req)
        \/ RemoveIdle \/ Down \/ Up

Spec == Init /\ [][Next]_vars
-----------------------------------------------------------------------------
(* Properties. *)

Over(t) == client[t].on = None /\ client[t].call # 0

\* Whatever the reads on a connection tear apart, a call is never given the
\* answer to another one: writeImpl drops a connection on which it read
\* something else.  Only a response of less than five bytes, after which the
\* connection is kept, can put the calls that follow out of step.
OwnAnswer ==
    \A t \in Thread : Over(t) /\ client[t].from # 0 /\ client[t].past # "short" =>
        client[t].from = client[t].call

\* A request is carried out at most once, also when its connection is torn,
\* reused or broken: the service finds no request in leftover bytes.
ProcessedOnce == \A i \in DOMAIN answered : Len(answered[i]) <= 1

\* On a connection on which no read tore, a call gets its answer, however many
\* reads its request and its answer take, unless the connection breaks.
AnsweredUnlessTorn ==
    \A t \in Thread : Over(t) /\ client[t].past = "clean" /\ client[t].result # Raised =>
        client[t].from = client[t].call

Creates(call, k) == /\ call.fn \in {"set", "import"}
                    /\ \E i \in DOMAIN call.items :
                          call.items[i].inx /\ getKey(call.items[i].key) = k
Frees(call, k) == /\ call.fn \in {"remove", "move"}
                  /\ \E i \in DOMAIN call.items : getKey(call.items[i].key) = k
Succeeded(i) == \E j \in DOMAIN answered[i] : answered[i][j].type = "Success" /\ answered[i][j].ok

\* Of the requests that set a key only if it does not exist, over TCP or HTTP
\* and with either spelling of the key, one succeeds, and one more for every
\* removal.
CreatedOnce ==
    \A k \in Key :
        Cardinality({i \in DOMAIN made : Creates(made[i], k) /\ Succeeded(i)})
      + Cardinality({i \in DOMAIN codes : /\ codes[i].req.method = "PUT" /\ codes[i].req.inx
                                          /\ codes[i].req.key = k /\ codes[i].code = 200})
     <= 1 + Cardinality({i \in DOMAIN made : Frees(made[i], k) /\ Succeeded(i)})
          + Cardinality({i \in DOMAIN codes : codes[i].req.method = "DELETE" /\ codes[i].req.key = k})

\* The two ends do not wait for each other: while a call waits, bytes of its
\* request or its answer are on the way or its connection is broken, unless a
\* read tore.
NoMutualWait ==
    \A t \in Thread : client[t].on # None =>
        LET c == con[client[t].on] IN
        c.toServer # <<>> \/ c.toClient # <<>> \/ ~ c.open \/ c.past # "clean"
=============================================================================
