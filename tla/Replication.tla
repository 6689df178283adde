----------------------------- MODULE Replication -----------------------------
(***************************************************************************)
(* Peering.  A node relays every change it makes to the nodes that listen  *)
(* to it: the handler of the request commits the change and then emits it  *)
(* to the queues of the listeners connected at that moment; the notifier   *)
(* writes what it takes from a queue to the connection; the listening node *)
(* reads it and applies it to its own store, without relaying it again.    *)
(*                                                                         *)
(* A connection is a stream.  It carries frames, each its length followed  *)
(* by a request, and pings, and a read returns any number of bytes up to   *)
(* the size of a buffer, whatever frames they belong to.  Bytes are        *)
(* counted in cells of four: the length takes the first cell of a frame,   *)
(* and a ping is one cell.                                                 *)
(***************************************************************************)
EXTENDS Naturals, Integers, Sequences, FiniteSets, SequencesExt, Functions

CONSTANTS Node, Thread,
          Listens,      \* pairs <<n, m>>: m is in the peers of n, n listens to m
          Key, Value, NoValue,
          Request,      \* the changes clients may ask for
          Owner,        \* the threads <<n, t>> that may get a request for a key
          Size,         \* the cells of the frame of a request
          BufSize,      \* the cells of the buffer of a read
          None,         \* no request
          MaxChanges, MaxPings, MaxFaults   \* bounds

Put(r) == r.action = "put"
Del(r) == r.action = "delete"
Mov(r) == r.action = "move"
KeysOf(r) == IF Mov(r) THEN {r.key, r.dest} ELSE {r.key}

ASSUME ReplicationAssumption ==
    /\ Listens \subseteq Node \X Node
    /\ NoValue \notin Value
    /\ \A r \in Request :
          /\ r.action \in {"put", "delete", "move"} /\ KeysOf(r) \subseteq Key
          /\ Size[r] \in Nat \ {0, 1}
          /\ \A j, k \in KeysOf(r) : Owner[j] = Owner[k]
    /\ BufSize \in Nat \ {0, 1} /\ None \notin Request
    /\ {MaxChanges, MaxPings, MaxFaults} \subseteq Nat

VARIABLES db,         \* the values of a node
          thread,     \* what a thread that serves requests is doing
          conns,      \* the notification connections a node ever had, oldest first
          accepting,  \* the node's accept loop runs
          reader,     \* the notification client of a node, for each of its peers
          missed,     \* history: why a change did not get through first
          spent       \* changes, pings and faults so far

vars == <<db, thread, conns, accepting, reader, missed, spent>>

\* to are the connections still to be told.  A connection waits to be accepted,
\* then has a Listener that is registered for notifications.
Idle == [req |-> None, copied |-> FALSE, to |-> {}]
Connection(n) == [peer |-> n, stage |-> "backlog", up |-> TRUE,
                  queue |-> [t \in Thread |-> <<>>], wire |-> <<>>]
Reader(phase) == [phase |-> phase, conn |-> 0, frame |-> None, need |-> 0]

\* A node with peers runs the notifier and emits its changes.
Relays(n) == \E l \in Listens : l[1] = n

Init ==
    /\ db = [n \in Node |-> [k \in Key |-> NoValue]]
    /\ thread = [n \in Node |-> [t \in Thread |-> Idle]]
    /\ conns = [n \in Node |-> <<>>]
    /\ accepting = [n \in Node |-> Relays(n)]
    /\ reader = [l \in Listens |-> Reader("resolve")]
    /\ missed = [l \in Listens |-> "nothing"]
    /\ spent = [changes |-> 0, pings |-> 0, faults |-> 0]

Missed(l, why) == IF missed[l] = "nothing" THEN why ELSE missed[l]
Intact(l) == missed[l] = "nothing"
-----------------------------------------------------------------------------
(* Applying a change: db::set, db::remove and db::move. *)

\* ifNotExists is honoured where the client asks, and dropped by listeners.
Accepted(d, r) ==
    /\ Put(r) /\ r.ifNotExists => d[r.key] = NoValue
    /\ Mov(r) => d[r.key] # NoValue

Applied(d, r) ==
    CASE Put(r) -> [d EXCEPT ![r.key] = r.value]
      [] Del(r) -> [d EXCEPT ![r.key] = NoValue]
      [] Mov(r) -> IF d[r.key] = NoValue THEN d
                   ELSE [[d EXCEPT ![r.key] = NoValue] EXCEPT ![r.dest] = d[r.key]]

\* put, remove and move of the TCP and the HTTP service.
HandleEmitsFirst(n, t, r) ==                                     \* mutant
    /\ thread[n][t] = Idle /\ spent.changes < MaxChanges
    /\ \A k \in KeysOf(r) : <<n, t>> \in Owner[k]
    /\ db' = IF Accepted(db[n], r) THEN [db EXCEPT ![n] = Applied(@, r)] ELSE db
    /\ thread' = IF Relays(n) THEN [thread EXCEPT ![n][t].req = r] ELSE thread
    /\ spent' = [spent EXCEPT !.changes = @ + 1]
    /\ UNCHANGED <<conns, accepting, reader, missed>>

Handle(n, t, r) ==
    /\ thread[n][t] = Idle /\ spent.changes < MaxChanges
    /\ \A k \in KeysOf(r) : <<n, t>> \in Owner[k]
    /\ Accepted(db[n], r)
    /\ db' = [db EXCEPT ![n] = Applied(@, r)]
    /\ thread' = IF Relays(n) THEN [thread EXCEPT ![n][t].req = r] ELSE thread
    /\ spent' = [spent EXCEPT !.changes = @ + 1]
    /\ UNCHANGED <<conns, accepting, reader, missed>>

\* emit: the registered listeners are copied, then told one by one.
Copy(n, t) ==
    /\ thread[n][t].req # None /\ ~ thread[n][t].copied
    /\ LET to == {i \in DOMAIN conns[n] : conns[n][i].stage = "served"}
       IN  /\ thread' = [thread EXCEPT ![n][t] =
                            IF to = {} THEN Idle ELSE [@ EXCEPT !.copied = TRUE, !.to = to]]
           /\ missed' = [l \in Listens |->
                            IF l[2] = n /\ reader[l].conn \notin to THEN Missed(l, "absent")
                                                                   ELSE missed[l]]
    /\ UNCHANGED <<db, conns, accepting, reader, spent>>

Notify(n, t) ==
    /\ \E i \in thread[n][t].to :
          /\ conns' = [conns EXCEPT ![n][i].queue[t] = Append(@, thread[n][t].req)]
          /\ thread' = [thread EXCEPT ![n][t] =
                           IF @.to = {i} THEN Idle ELSE [@ EXCEPT !.to = @ \ {i}]]
    /\ UNCHANGED <<db, accepting, reader, missed, spent>>
-----------------------------------------------------------------------------
(* The notifier. *)

\* Frames are tagged with the thread that emitted them.
Frame(r, t) == [i \in 1..Size[r] |-> [req |-> r, by |-> t, at |-> i]]
PingFrame   == <<[req |-> None, by |-> CHOOSE t \in Thread : TRUE, at |-> 1]>>

\* A connection gets a Listener.  If its client has gone in the meantime it may
\* have no address any more, and asking for it ends the accept loop.
Accept(m) ==
    /\ accepting[m]
    /\ \E i \in DOMAIN conns[m] :
          /\ conns[m][i].stage = "backlog"
          /\ \A j \in 1..i-1 : conns[m][j].stage # "backlog"
          /\ \/ /\ conns' = [conns EXCEPT ![m][i].stage = "served"]
                /\ UNCHANGED accepting
             \/ /\ ~ conns[m][i].up
                /\ conns' = [conns EXCEPT ![m] = [j \in DOMAIN @ |->
                                IF @[j].stage = "backlog"
                                THEN [@[j] EXCEPT !.stage = "gone", !.up = FALSE] ELSE @[j]]]
                /\ accepting' = [accepting EXCEPT ![m] = FALSE]
    /\ UNCHANGED <<db, thread, reader, missed, spent>>

\* respond: a notification leaves the queue, oldest first among those of one
\* thread, and is written.  A write that fails is only logged: the Listener of
\* a broken connection stays, and its notifications are dropped.
Sent(c, cells) == IF c.up THEN [c EXCEPT !.wire = @ \o cells] ELSE c

Write(m, i) ==
    /\ conns[m][i].stage = "served"
    /\ \E t \in Thread :
          /\ conns[m][i].queue[t] # <<>>
          /\ conns' = [conns EXCEPT ![m][i] =
                Sent([@ EXCEPT !.queue[t] = Tail(@)], Frame(Head(@.queue[t]), t))]
    /\ UNCHANGED <<db, thread, accepting, reader, missed, spent>>

Ping(m, i) ==
    /\ conns[m][i].stage = "served" /\ \A t \in Thread : conns[m][i].queue[t] = <<>>
    /\ spent.pings < MaxPings
    /\ conns' = [conns EXCEPT ![m][i] = Sent(@, PingFrame)]
    /\ spent' = [spent EXCEPT !.pings = @ + 1]
    /\ UNCHANGED <<db, thread, accepting, reader, missed>>
-----------------------------------------------------------------------------
(* The notification client of node l[1] for its peer l[2]. *)

Conn(l) == conns[l[2]][reader[l].conn]
Reading(l) == reader[l].phase = "read"

\* The name of the peer is looked up once; a failure ends the client.
Resolve(l) ==
    /\ reader[l].phase = "resolve"
    /\ \/ /\ reader' = [reader EXCEPT ![l] = Reader("connect")]
          /\ UNCHANGED <<missed, spent>>
       \/ /\ spent.faults < MaxFaults
          /\ reader' = [reader EXCEPT ![l] = Reader("ended")]
          /\ missed' = [missed EXCEPT ![l] = Missed(l, "absent")]
          /\ spent' = [spent EXCEPT !.faults = @ + 1]
    /\ UNCHANGED <<db, thread, conns, accepting>>

\* waitTillConnected: tries until the peer accepts.
Connect(l) ==
    /\ reader[l].phase = "connect" /\ accepting[l[2]]
    /\ conns' = [conns EXCEPT ![l[2]] = Append(@, Connection(l[1]))]
    /\ reader' = [reader EXCEPT ![l] = [Reader("read") EXCEPT !.conn = Len(conns[l[2]]) + 1]]
    /\ UNCHANGED <<db, thread, accepting, missed, spent>>

Take(l, k) == conns' = [conns EXCEPT ![l[2]][reader[l].conn].wire = SubSeq(@, k + 1, Len(@))]

Keep(l, whole) == missed' = [missed EXCEPT ![l] = IF whole THEN @ ELSE Missed(l, "torn")]
Apply(l, r) == db' = [db EXCEPT ![l[1]] = Applied(@, r)]
Expect(l, head, n) == reader' = [reader EXCEPT ![l].frame = head, ![l].need = n]

\* The first read of a notification.  The length at its start is believed.
FirstRead(l, k) ==
    /\ reader[l].need = 0
    /\ Take(l, k)
    /\ LET h == Head(Conn(l).wire)
           header == h.at = 1 /\ h.req # None
       IN  \/ /\ k = 1                                    \* taken for a ping
              /\ Keep(l, h.req = None) /\ UNCHANGED <<db, reader>>
           \/ /\ k > 1 /\ header /\ Size[h.req] <= BufSize
              /\ IF k >= Size[h.req] THEN Apply(l, h.req)
                                     ELSE UNCHANGED db    \* the rest is not awaited
              /\ Keep(l, k = Size[h.req]) /\ UNCHANGED reader
           \/ /\ k > 1 /\ header /\ Size[h.req] > BufSize
              /\ Expect(l, h, Size[h.req] - k) /\ UNCHANGED <<db, missed>>
           \/ /\ k > 1 /\ ~ header                        \* not a length at all
              /\ \E n \in {0, -1} : Expect(l, None, n)
              /\ Keep(l, FALSE) /\ UNCHANGED db

MoreReadCountsLength(l, k) ==                                    \* mutant
    /\ reader[l].need # 0
    /\ Take(l, k)
    /\ LET left == reader[l].need + 1 - k
       IN  \/ left > 0 /\ Expect(l, reader[l].frame, left) /\ UNCHANGED <<db, missed>>
           \/ left = 0 /\ Apply(l, reader[l].frame.req) /\ Expect(l, None, 0) /\ UNCHANGED missed
           \/ left < 0 /\ Expect(l, None, -1) /\ Keep(l, FALSE) /\ UNCHANGED db

\* The reads that follow, until exactly the length announced has been read.
MoreRead(l, k) ==
    /\ reader[l].need # 0
    /\ Take(l, k)
    /\ LET left == reader[l].need - k
       IN  \/ left > 0 /\ Expect(l, reader[l].frame, left) /\ UNCHANGED <<db, missed>>
           \/ left = 0 /\ Apply(l, reader[l].frame.req) /\ Expect(l, None, 0) /\ UNCHANGED missed
           \/ left < 0 /\ Expect(l, None, -1) /\ Keep(l, FALSE) /\ UNCHANGED db

Read(l) ==
    /\ Reading(l)
    /\ \E k \in 1..BufSize : k <= Len(Conn(l).wire) /\ (FirstRead(l, k) \/ MoreRead(l, k))
    /\ UNCHANGED <<thread, accepting, spent>>

\* The end of the stream: the client closes the socket and connects again.
EndOfFileGivesUp(l) ==                                           \* mutant
    /\ Reading(l) /\ ~ Conn(l).up /\ Conn(l).wire = <<>>
    /\ reader' = [reader EXCEPT ![l] = Reader("ended")]
    /\ UNCHANGED <<db, thread, conns, accepting, missed, spent>>

EndOfFile(l) ==
    /\ Reading(l) /\ ~ Conn(l).up /\ Conn(l).wire = <<>>
    /\ reader' = [reader EXCEPT ![l] = Reader("connect")]
    /\ UNCHANGED <<db, thread, conns, accepting, missed, spent>>
-----------------------------------------------------------------------------
(* Faults. *)

\* A connection breaks; the last cells on their way may be lost.
Break(l) ==
    /\ spent.faults < MaxFaults /\ Reading(l) /\ Conn(l).up
    /\ \E k \in 0..Len(Conn(l).wire) :
          conns' = [conns EXCEPT ![l[2]][reader[l].conn] =
                       [@ EXCEPT !.up = FALSE, !.wire = SubSeq(@, 1, k)]]
    /\ missed' = [missed EXCEPT ![l] = Missed(l, "broken")]
    /\ spent' = [spent EXCEPT !.faults = @ + 1]
    /\ UNCHANGED <<db, thread, accepting, reader>>

\* A node dies and is started again: its store is what is left.
Crash(n) ==
    /\ spent.faults < MaxFaults
    /\ thread' = [thread EXCEPT ![n] = [t \in Thread |-> Idle]]
    /\ conns' = [m \in Node |-> [i \in DOMAIN conns[m] |->
           LET c == conns[m][i] IN
           CASE m = n -> [Connection(c.peer) EXCEPT !.stage = "gone", !.up = FALSE, !.wire = c.wire]
             [] m # n /\ c.peer = n -> [c EXCEPT !.up = FALSE]
             [] OTHER -> c]]
    /\ accepting' = [accepting EXCEPT ![n] = Relays(n)]
    /\ reader' = [l \in Listens |-> IF l[1] = n THEN Reader("resolve") ELSE reader[l]]
    /\ missed' = [l \in Listens |-> IF n \in {l[1], l[2]} THEN Missed(l, "broken") ELSE missed[l]]
    /\ spent' = [spent EXCEPT !.faults = @ + 1]
    /\ UNCHANGED db

Next == \/ \E n \in Node, t \in Thread : \/ \E r \in Request : Handle(n, t, r)
                                         \/ Copy(n, t) \/ Notify(n, t)
        \/ \E m \in Node : \/ Accept(m)
                           \/ \E i \in DOMAIN conns[m] : Write(m, i) \/ Ping(m, i)
        \/ \E l \in Listens : Resolve(l) \/ Connect(l) \/ Read(l) \/ EndOfFile(l) \/ Break(l)
        \/ \E n \in Node : Crash(n)

\* Every thread of the service is scheduled, and coroutines wait for nothing
\* but their connection.
Fairness ==
    /\ \A n \in Node, t \in Thread : WF_vars(Copy(n, t)) /\ WF_vars(Notify(n, t))
    /\ \A m \in Node : WF_vars(Accept(m))
    /\ \A m \in Node : WF_vars(\E i \in DOMAIN conns[m] : Write(m, i))
    /\ \A l \in Listens : WF_vars(Resolve(l) \/ Connect(l)) /\ WF_vars(Read(l)) /\ WF_vars(EndOfFile(l))

Spec == Init /\ [][Next]_vars /\ Fairness
-----------------------------------------------------------------------------
(* Properties. *)

\* The changes of a thread of l[2] that have not reached l[1] yet, in the
\* order they will.
Pending(l, t) ==
    LET th == thread[l[2]][t]
    IN  IF th.req # None /\ (~ th.copied \/ reader[l].conn \in th.to) THEN <<th.req>> ELSE <<>>
InFlight(l, t) ==
    IF ~ Reading(l) THEN Pending(l, t)
    ELSE LET heads == SelectSeq(Conn(l).wire, LAMBDA c : c.by = t /\ c.at = 1 /\ c.req # None)
             part  == IF reader[l].need > 0 /\ reader[l].frame.by = t
                      THEN <<reader[l].frame.req>> ELSE <<>>
         IN  part \o [i \in DOMAIN heads |-> heads[i].req] \o Conn(l).queue[t] \o Pending(l, t)

\* As long as nothing was missed, a listener is behind its peer by exactly
\* what is on its way: applying that, in order, to its values gives the
\* peer's, for the keys that one thread of one node alone changes.
CatchesUp ==
    \A l \in Listens, t \in Thread : Intact(l) =>
        LET final == FoldLeft(Applied, db[l[1]], InFlight(l, t))
        IN  \A k \in Key : Owner[k] = {<<l[2], t>>} => final[k] = db[l[2]][k]

\* A change on its way arrives, unless something is missed.
Arrives ==
    \A l \in Listens :
        LET onTheWay == \E t \in Thread : InFlight(l, t) # <<>>
        IN  Intact(l) /\ onTheWay ~> ~ Intact(l) \/ ~ onTheWay

\* A client whose connection broke gets another one, unless its own node was
\* started again or the peer's accept loop ended.
Reconnects ==
    \A l \in Listens : Reading(l) /\ ~ Conn(l).up
        ~> \/ Reading(l) /\ Conn(l).up
           \/ reader[l].phase = "resolve" \/ ~ accepting[l[2]]
=============================================================================
