----------------------------- MODULE Transactions -----------------------------
(***************************************************************************)
(* Transactions of the storage engine that overlap, row by row.            *)
(*                                                                         *)
(* A pessimistic RocksDB transaction locks a row when it writes it and     *)
(* keeps the lock to its end; lookups (Get) take no lock and see the       *)
(* transaction's own writes over the committed rows.  A write of a row     *)
(* that another transaction has locked waits, and fails after a while.     *)
(* Every private member of Database is a sequence of such lookups and      *)
(* writes, and one of them is a step here.                                 *)
(*                                                                         *)
(* Transactions come from a pool.  One that is taken again is initialised  *)
(* then, not when it is given back: a request that returns without commit  *)
(* or rollback leaves its locks behind in the pool.                        *)
(***************************************************************************)
EXTENDS Paths, FiniteSets

CONSTANTS Client,        \* threads that serve requests
          Cleaner,       \* the thread that runs clearExpired
          Requests,      \* the requests each client may issue
          InitialSize,   \* transactions in the pool at the start
          MaxTime        \* bound on the clock

SetItem    == [op : {"set"}, key : Key, ifNotExists : BOOLEAN, exp : Nat, cache : BOOLEAN]
RemoveItem == [op : {"remove"}, key : Key]

ASSUME TransactionsAssumption ==
    /\ Cleaner \notin Client
    /\ \A t \in Client : \A r \in Requests[t] : r \in Seq(SetItem) \cup Seq(RemoveItem)
    /\ InitialSize \in Nat /\ MaxTime \in Nat

Thread == Client \cup {Cleaner}

(***************************************************************************)
(* A row is named by its column family and key; the rows of the expiring   *)
(* family also by their time.  A value is a set: {} for a missing row, the *)
(* children of a path, {time} of an expiry, {1} for anything else.         *)
(***************************************************************************)
Row(cf, k)   == [cf |-> cf, key |-> k, ts |-> 0]
Due(ts, k)   == [cf |-> "expiring", key |-> k, ts |-> ts]
Missing == {}
Present == {1}

VARIABLES store,      \* the committed rows, a function on their names
          useMutex,   \* Configuration.storage.useMutex
          mutex,      \* clients that hold the storage mutex
          txn,        \* what a thread is doing
          idle,       \* the transactions in the pool, the next to be taken first
          now         \* the clock

vars == <<store, useMutex, mutex, txn, idle, now>>

\* job are the items of the transaction, items those not begun yet, todo the
\* steps left of the current one.
Clean == [writes |-> <<>>, held |-> {}]
NoTxn == [open |-> FALSE, job |-> <<>>, items |-> <<>>, todo |-> <<>>, writes |-> <<>>, held |-> {}]
Open(t) == txn[t].open

Init ==
    /\ store = <<>>
    /\ useMutex \in BOOLEAN
    /\ mutex = {}
    /\ txn = [t \in Thread |-> NoTxn]
    /\ idle = [i \in 1..InitialSize |-> Clean]
    /\ now = 1
-----------------------------------------------------------------------------
(* The steps of an item. *)

Absent(k)    == [do |-> "absent", key |-> k]
Write(r, v)  == [do |-> "write", row |-> r, val |-> v]
Link(c)      == [do |-> "link", node |-> c]
Expire(k, n) == [do |-> "expire", key |-> k, exp |-> n]
Marker(k)    == [do |-> "marker", key |-> k]
Unlink(c)    == [do |-> "unlink", node |-> c]
Climb(p)     == [do |-> "climb", path |-> p]

If(cond, steps) == IF cond THEN steps ELSE <<>>
Levels(k) == [i \in 1..Len(k) |-> SubSeq(k, 1, i)]

setTreeShort(it) ==                                         \* mutant
    If(it.ifNotExists, <<Absent(it.key)>>)
    \o <<Write(Row("data", it.key), Present)>>
    \o (IF it.cache THEN <<Write(Row("cache", it.key), Present)>>
                    ELSE [i \in 1..Len(it.key) - 1 |-> Link(Levels(it.key)[i])])
    \o If(it.exp > 0, <<Expire(it.key, it.exp)>>)

set(it) ==
    If(it.ifNotExists, <<Absent(it.key)>>)
    \o <<Write(Row("data", it.key), Present)>>
    \o (IF it.cache THEN <<Write(Row("cache", it.key), Present)>>
                    ELSE [i \in 1..Len(it.key) |-> Link(Levels(it.key)[i])])
    \o If(it.exp > 0, <<Expire(it.key, it.exp)>>)

removeKeepsTTL(k) == <<Write(Row("data", k), Missing), Marker(k)>>   \* mutant

remove(k) == <<Write(Row("data", k), Missing), Write(Row("expiration", k), Missing),
               Marker(k)>>

\* One entry of the pass of clearExpired.
expired(it) == remove(it.key) \o <<Write(Due(it.ts, it.key), Missing)>>

Plan(it) == CASE it.op = "set"    -> set(it)
              [] it.op = "remove" -> remove(it.key)
              [] it.op = "clear"  -> expired(it)

Committed(r) == IF r \in DOMAIN store THEN store[r] ELSE Missing

\* What a lookup inside the transaction finds.
Get(t, r) == IF r \in DOMAIN txn[t].writes THEN txn[t].writes[r] ELSE Committed(r)

LockedByOther(t, r) == \/ \E u \in Thread \ {t} : r \in txn[u].held
                       \/ \E i \in DOMAIN idle : r \in idle[i].held

\* The transaction goes on with the steps given, then with the next item.
Onward(x, steps) ==
    IF steps = <<>> /\ x.items # <<>>
    THEN [x EXCEPT !.todo = Plan(Head(x.items)), !.items = Tail(x.items)]
    ELSE [x EXCEPT !.todo = steps]

NextStep(t) == Head(txn[t].todo)
At(t, step) == txn[t].todo # <<>> /\ NextStep(t).do = step
GoOn(t, steps) ==
    /\ txn' = [txn EXCEPT ![t] = Onward(@, steps \o Tail(@.todo))]
    /\ UNCHANGED <<store, useMutex, mutex, idle, now>>
-----------------------------------------------------------------------------
(* The beginning and the end of a transaction. *)

\* TXN(): the transaction at the front of the pool, or a new one, initialised.
BeginTransactionAsIs(t, items) ==                      \* mutant
    /\ ~ Open(t)
    /\ txn' = [txn EXCEPT ![t] =
          LET old == IF idle = <<>> THEN Clean ELSE Head(idle)
          IN  Onward([open |-> TRUE, job |-> items, items |-> items, todo |-> <<>>,
                      writes |-> old.writes, held |-> old.held], <<>>)]
    /\ idle' = IF idle = <<>> THEN <<>> ELSE Tail(idle)
    /\ UNCHANGED <<store, useMutex, now>>

BeginTransactionTakesLast(t, items) ==                 \* mutant
    /\ ~ Open(t)
    /\ txn' = [txn EXCEPT ![t] = Onward([NoTxn EXCEPT !.open = TRUE, !.job = items, !.items = items], <<>>)]
    /\ idle' = IF idle = <<>> THEN <<>> ELSE SubSeq(idle, 1, Len(idle) - 1)
    /\ UNCHANGED <<store, useMutex, now>>

BeginTransaction(t, items) ==
    /\ ~ Open(t)
    /\ txn' = [txn EXCEPT ![t] = Onward([NoTxn EXCEPT !.open = TRUE, !.job = items, !.items = items], <<>>)]
    /\ idle' = IF idle = <<>> THEN <<>> ELSE Tail(idle)
    /\ UNCHANGED <<store, useMutex, now>>

\* The transaction goes back to the pool as it is.
Release(t, left) ==
    /\ txn' = [txn EXCEPT ![t] = NoTxn]
    /\ idle' = Append(idle, left)
    /\ mutex' = mutex \ {t}
    /\ UNCHANGED <<useMutex, now>>

RequestNoMutex(t, r) ==                                     \* mutant
    /\ mutex' = {}
    /\ BeginTransaction(t, r)

Request(t, r) ==
    /\ useMutex => mutex = {}
    /\ mutex' = IF useMutex THEN {t} ELSE {}
    /\ BeginTransaction(t, r)

\* Entries whose time has come, in the order of their times.
Collected ==
    LET due == {[op |-> "clear", key |-> r.key, ts |-> r.ts] :
                   r \in {r \in DOMAIN store : r.cf = "expiring" /\ r.ts < now}}
    IN  {s \in [1..Cardinality(due) -> due] :
            \A i, j \in DOMAIN s : i < j => s[i] # s[j] /\ s[i].ts <= s[j].ts}

ClearBegin ==
    /\ \E entries \in Collected : BeginTransaction(Cleaner, entries)
    /\ UNCHANGED mutex

Commit(t) ==
    /\ Open(t) /\ txn[t].todo = <<>>
    /\ LET w == txn[t].writes
           kept == DOMAIN store \ DOMAIN w
       IN  store' = [r \in kept \cup {r \in DOMAIN w : w[r] # Missing} |->
                        IF r \in kept THEN store[r] ELSE w[r]]
    /\ Release(t, Clean)
-----------------------------------------------------------------------------
(* The steps. *)

CheckAbsent(t) ==
    /\ At(t, "absent") /\ Get(t, Row("data", NextStep(t).key)) = Missing
    /\ GoOn(t, <<>>)

\* The key exists: the request returns, with neither commit nor rollback.
Refuse(t) ==
    /\ At(t, "absent") /\ Get(t, Row("data", NextStep(t).key)) # Missing
    /\ Release(t, [writes |-> txn[t].writes, held |-> txn[t].held])
    /\ UNCHANGED store

\* manageTree: the child is added to the children found.
ReadChildren(t) ==
    /\ At(t, "link")
    /\ LET c == NextStep(t).node
           r == Row("tree", Parent(c))
       IN  GoOn(t, If(c \notin Get(t, r), <<Write(r, Get(t, r) \cup {c})>>))

ReadClock(t) ==
    /\ At(t, "expire")
    /\ LET k  == NextStep(t).key
           ts == now + NextStep(t).exp
       IN  GoOn(t, <<Write(Row("expiration", k), {ts}), Write(Due(ts, k), Present)>>)

\* The marker is looked up outside the transaction.
ReadMarker(t) ==
    /\ At(t, "marker")
    /\ LET k == NextStep(t).key
           r == Row("cache", k)
       IN  GoOn(t, IF r \in DOMAIN store THEN <<Write(r, Missing)>> ELSE <<Unlink(k)>>)

\* removeChild: the child is taken out of the children found; the walk goes
\* on from a path that has none left and no value.
ReadSiblings(t) ==
    /\ At(t, "unlink")
    /\ LET c == NextStep(t).node
           r == Row("tree", Parent(c))
           rest == Get(t, r) \ {c}
       IN  GoOn(t, If(Get(t, r) # Missing,
                      <<Write(r, rest)>> \o If(rest = {} /\ Parent(c) # Root,
                                               <<Climb(Parent(c))>>)))

ReadParent(t) ==
    /\ At(t, "climb")
    /\ LET p == NextStep(t).path
       IN  GoOn(t, If(Get(t, Row("data", p)) = Missing, <<Unlink(p)>>))

WriteRow(t) ==
    /\ At(t, "write") /\ ~ LockedByOther(t, NextStep(t).row)
    /\ LET x == txn[t]
           r == NextStep(t).row
           w == [q \in DOMAIN x.writes \cup {r} |->
                    IF q = r THEN NextStep(t).val ELSE x.writes[q]]
       IN  txn' = [txn EXCEPT ![t] =
              Onward([x EXCEPT !.held = @ \cup {r}, !.writes = w], Tail(x.todo))]
    /\ UNCHANGED <<store, useMutex, mutex, idle, now>>

\* A request whose write waited too long is rolled back; the cleaner goes on
\* with its next entry.
LockTimeoutForEver(t) ==                                    \* mutant
    /\ t = Cleaner
    /\ At(t, "write") /\ LockedByOther(t, NextStep(t).row)
    /\ txn' = [txn EXCEPT ![t] = Onward(@, <<>>)]
    /\ UNCHANGED <<store, useMutex, mutex, idle, now>>

LockTimeout(t) ==
    /\ At(t, "write") /\ LockedByOther(t, NextStep(t).row)
    /\ IF t = Cleaner
       THEN /\ txn' = [txn EXCEPT ![t] = Onward(@, <<>>)]
            /\ UNCHANGED <<store, useMutex, mutex, idle, now>>
       ELSE Release(t, Clean) /\ UNCHANGED store

Step(t) == \/ CheckAbsent(t) \/ Refuse(t) \/ ReadChildren(t)
           \/ ReadClock(t) \/ ReadMarker(t) \/ ReadSiblings(t) \/ ReadParent(t)
           \/ WriteRow(t) \/ LockTimeout(t) \/ Commit(t)

Tick == now < MaxTime /\ now' = now + 1 /\ UNCHANGED <<store, useMutex, mutex, txn, idle>>

Next == \/ \E t \in Client : \E r \in Requests[t] : Request(t, r)
        \/ ClearBegin
        \/ \E t \in Thread : Step(t)
        \/ Tick

\* The cleaner loops for ever, and every thread is scheduled; a lock wait is
\* bounded by the lock timeout.
Spec == Init /\ [][Next]_vars /\ WF_vars(ClearBegin) /\ \A t \in Thread : WF_vars(Step(t))
-----------------------------------------------------------------------------
(* Properties. *)

\* However clients and the cleaner overlap, with the mutex or without, a TTL
\* is backed by a row the cleaner will find: the two rows are written and
\* deleted by different steps, and the cleaner deletes entries it read before
\* it had any lock.
ExpiryIsScheduled ==
    \A k \in Key : \A ts \in Committed(Row("expiration", k)) : Due(ts, k) \in DOMAIN store

\* With the mutex, TTLs only on cached keys and no cached key beside a regular
\* one, a stored key without marker is listed by its parent although the
\* cleaner's transaction overlaps.
RegularKeyListed ==
    useMutex => \A k \in Key :
        Row("data", k) \in DOMAIN store /\ Row("cache", k) \notin DOMAIN store =>
            k \in Committed(Row("tree", Parent(k)))

\* With the mutex, a set with ifNotExists never commits over a value another
\* request has committed since the lookup, which takes no lock.
NoOverwrite ==
    [][\A t \in Client : Commit(t) /\ useMutex =>
         \A i \in DOMAIN txn[t].job : LET it == txn[t].job[i] IN
            it.op = "set" /\ it.ifNotExists => Row("data", it.key) \notin DOMAIN store]_vars

\* A commit changes the values of its own request's keys, or of the entries
\* the cleaner collected, and no others: what a refused request had written
\* through the same pooled transaction is gone.
OwnKeysOnly ==
    [][\A t \in Thread : Commit(t) =>
         \A k \in Key : Committed(Row("data", k))' # Committed(Row("data", k)) =>
            \E i \in DOMAIN txn[t].job : k = txn[t].job[i].key]_vars

\* Every request ends, and so does every pass of the cleaner, although
\* transactions may wait for one another's rows in a circle.
RequestEnds == \A t \in Thread : Open(t) ~> ~ Open(t)

\* The locks a refused request leaves in the pool do not stay: the cleaner's
\* passes alone bring every pooled transaction to the front.
Leaked(r) == \E i \in DOMAIN idle : r \in idle[i].held
LeakedLocksReleased == \A k \in Key : Leaked(Row("data", k)) ~> ~ Leaked(Row("data", k))
=============================================================================
