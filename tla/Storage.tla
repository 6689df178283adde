------------------------------- MODULE Storage -------------------------------
(***************************************************************************)
(* The storage engine (storage.cpp) with its value cache: client           *)
(* transactions, the pass that clears expired keys, readers that fill the  *)
(* value cache, process stop and restart.                                  *)
(*                                                                         *)
(* A transaction is taken through its items one action at a time, because  *)
(* the value cache is changed by every item before the commit and is read  *)
(* without the storage mutex.  Client transactions exclude one another     *)
(* (storage.useMutex, the default).  The cleaner takes no mutex; here its  *)
(* pass is one more transaction that does not overlap a client's.          *)
(***************************************************************************)
EXTENDS Rows, FiniteSets

CONSTANTS Requests,      \* the requests clients may issue
          EnableCache,   \* Configuration.enableCache
          Faults,        \* subset of {"write", "commit", "stop", "crash"}
          MaxTime,       \* bound on the clock
          MaxReaders     \* bound on the reads in flight between read and put

RequestOf(o, Item) == [op : {o}, batch : BOOLEAN, items : Seq(Item)]

ASSUME StorageAssumption ==
    /\ Requests \subseteq
          RequestOf("set", SetItem) \cup RequestOf("remove", [key : Key])
                                    \cup RequestOf("move", MoveItem)
    /\ EnableCache \in BOOLEAN
    /\ MaxTime \in Nat
    /\ MaxReaders \in Nat

VARIABLES db,        \* committed rows
          vcache,    \* value cache: key -> value or NoValue
          now,       \* the clock
          op,        \* what the open transaction does, "idle" if there is none
          items,     \* items of the open client transaction still to do
          view,      \* the open transaction's view of the rows
          expired,   \* entries the cleaner has collected and not handled yet
          skipped,   \* entries the cleaner failed to remove in this pass
          limit,     \* the cleaner's iterator bound
          fills,     \* reads whose value is not yet in the value cache
          stop       \* the service is stopping

vars == <<db, vcache, now, op, items, view, expired, skipped, limit, fills, stop>>
txnVars == <<op, items, view, expired, skipped, limit>>

NoCache == [k \in Key |-> NoValue]

TypeOK ==
    /\ db \in Rows /\ view \in Rows
    /\ vcache \in [Key -> Value \cup {NoValue}]
    /\ now \in Nat \ {0}
    /\ op \in {"idle", "set", "remove", "move", "clear"}
    /\ op = "set" => items \in Seq(SetItem)
    /\ op = "remove" => items \in Seq([key : Key])
    /\ op = "move" => items \in Seq(MoveItem)
    /\ expired \subseteq Entry /\ skipped \subseteq Entry
    /\ limit \in Nat
    /\ fills \subseteq [key : Key, value : Value]
    /\ stop \in BOOLEAN

Init ==
    /\ db = NoRows /\ view = NoRows
    /\ vcache = NoCache
    /\ now = 1
    /\ op = "idle" /\ items = <<>>
    /\ expired = {} /\ skipped = {} /\ limit = 0
    /\ fills = {}
    /\ stop = FALSE
-----------------------------------------------------------------------------
(* Transactions. *)

BeginTransaction(name, todo) ==
    /\ op = "idle"
    /\ op' = name /\ items' = todo
    /\ view' = db

\* The transaction is over and the committed rows are those given.
End(rows) ==
    /\ db' = rows /\ view' = rows
    /\ op' = "idle" /\ items' = <<>>
    /\ expired' = {} /\ skipped' = {} /\ limit' = 0

CachePut(cache, k, v) == IF EnableCache THEN [cache EXCEPT ![k] = v] ELSE cache
CacheErase(cache, k)  == CachePut(cache, k, NoValue)

\* Only the single-key set checks that a cached key has a TTL.
Accepted(r) ==
    r.op = "set" /\ ~ r.batch =>
        \A i \in DOMAIN r.items : r.items[i].opts.cache => r.items[i].opts.exp > 0

Request(r) ==
    /\ Accepted(r)
    /\ BeginTransaction(r.op, r.items)
    /\ UNCHANGED <<db, vcache, now, expired, skipped, limit, fills, stop>>

\* What every successful item step has in common.
ItemDone(rows, cache) ==
    /\ view' = rows /\ vcache' = cache
    /\ items' = Tail(items)
    /\ UNCHANGED <<db, now, op, expired, skipped, limit, fills, stop>>

SetStep ==
    /\ op = "set" /\ items # <<>>
    /\ LET it == Head(items) IN
       /\ setAllowed(view, it)
       /\ ItemDone(set(view, it, now), CachePut(vcache, it.key, it.value))

\* The views a remove that succeeds may leave.
Removed(k) == {remove(db, view, k)} \cup
              {w \in {removeKeepsMarker(db, view, k)} : "write" \in Faults}

RemoveStep ==
    /\ op = "remove" /\ items # <<>>
    /\ LET k == Head(items).key IN
       \E w \in Removed(k) : ItemDone(w, CacheErase(vcache, k))

MoveStep ==
    /\ op = "move" /\ items # <<>>
    /\ LET m == Head(items) IN
       /\ moveAllowed(view, m)
       /\ \E w \in Removed(m.key) :
             ItemDone(move(w, view, m, now),
                      CachePut(CacheErase(vcache, m.key), m.dest, view.data[m.key]))

RejectKeepsWrites ==                                        \* mutant
    /\ items # <<>>
    /\ \/ op = "set" /\ ~ setAllowed(view, Head(items))
       \/ op = "move" /\ ~ moveAllowed(view, Head(items))
    /\ End(view)
    /\ UNCHANGED <<vcache, now, fills, stop>>

\* An item that is not allowed makes the request fail; the transaction's
\* writes are dropped, what it did to the value cache is not.
Reject ==
    /\ items # <<>>
    /\ \/ op = "set" /\ ~ setAllowed(view, Head(items))
       \/ op = "move" /\ ~ moveAllowed(view, Head(items))
    /\ End(db)
    /\ UNCHANGED <<vcache, now, fills, stop>>

\* A row cannot be written: the transaction is rolled back.  A move may have
\* erased its source from the value cache by then.
WriteFails ==
    /\ "write" \in Faults
    /\ op \in {"set", "remove", "move"} /\ items # <<>>
    /\ End(db)
    /\ \/ UNCHANGED vcache
       \/ op = "move" /\ vcache' = CacheErase(vcache, Head(items).key)
    /\ UNCHANGED <<now, fills, stop>>

Commit ==
    /\ op \in {"set", "remove", "move"} /\ items = <<>>
    /\ End(view)
    /\ UNCHANGED <<vcache, now, fills, stop>>

CommitFails ==
    /\ "commit" \in Faults
    /\ op \in {"set", "remove", "move"} /\ items = <<>>
    /\ End(db)
    /\ UNCHANGED <<vcache, now, fills, stop>>
-----------------------------------------------------------------------------
(* clearExpired. *)

\* The iterator is bounded by the clock and yields entries strictly before it.
ClearBeginLate ==                                           \* mutant
    /\ ~ stop
    /\ BeginTransaction("clear", <<>>)
    /\ limit' = now
    /\ expired' = {e \in db.expiring : e.ts + 1 < now}
    /\ UNCHANGED <<db, vcache, now, skipped, fills, stop>>

ClearBegin ==
    /\ ~ stop
    /\ BeginTransaction("clear", <<>>)
    /\ limit' = now
    /\ expired' = {e \in db.expiring : e.ts < now}
    /\ UNCHANGED <<db, vcache, now, skipped, fills, stop>>

\* Entries come in order of their expiry time.
Earliest(es) == {e \in es : \A f \in es : e.ts <= f.ts}

\* The loop is left after the entry during which the stop flag was raised.
Interrupted == stop /\ (view # db \/ skipped # {})

ClearStepKeepsValue ==                                      \* mutant
    /\ op = "clear" /\ ~ Interrupted
    /\ \E e \in Earliest(expired) :
        /\ \E w \in Removed(e.key) : view' = [w EXCEPT !.expiring = @ \ {e}]
        /\ expired' = expired \ {e}
    /\ UNCHANGED <<db, vcache, now, op, items, skipped, limit, fills, stop>>

ClearStep ==
    /\ op = "clear" /\ ~ Interrupted
    /\ \E e \in Earliest(expired) :
        /\ \E w \in Removed(e.key) : view' = [w EXCEPT !.expiring = @ \ {e}]
        /\ vcache' = CacheErase(vcache, e.key)
        /\ expired' = expired \ {e}
    /\ UNCHANGED <<db, now, op, items, skipped, limit, fills, stop>>

\* The removal fails part-way; nothing is rolled back, the entry is kept.
ClearSkip ==
    /\ "write" \in Faults
    /\ op = "clear" /\ ~ Interrupted
    /\ \E e \in Earliest(expired) :
        /\ view' \in removeFailed(db, view, e.key)
        /\ expired' = expired \ {e}
        /\ skipped' = skipped \cup {e}
    /\ UNCHANGED <<db, vcache, now, op, items, limit, fills, stop>>

ClearCommit ==
    /\ op = "clear"
    /\ expired = {} \/ Interrupted
    /\ End(view)
    /\ UNCHANGED <<vcache, now, fills, stop>>

ClearCommitFails ==
    /\ "commit" \in Faults
    /\ op = "clear"
    /\ expired = {} \/ Interrupted
    /\ End(db)
    /\ UNCHANGED <<vcache, now, fills, stop>>

\* Stopped before the first removal.
ClearReturn ==
    /\ op = "clear" /\ stop /\ view = db /\ skipped = {}
    /\ End(db)
    /\ UNCHANGED <<vcache, now, fills, stop>>
-----------------------------------------------------------------------------
(* get: on a miss the value is read under the shared lock and put into the *)
(* value cache after the lock is released.                                 *)

GetRead(k) ==
    /\ EnableCache /\ vcache[k] = NoValue
    /\ op \in {"idle", "clear"}
    /\ Exists(db, k)
    /\ Cardinality(fills) < MaxReaders
    /\ fills' = fills \cup {[key |-> k, value |-> db.data[k]]}
    /\ UNCHANGED <<db, vcache, now, txnVars, stop>>

GetFill ==
    /\ \E f \in fills : /\ vcache' = CachePut(vcache, f.key, f.value)
                        /\ fills' = fills \ {f}
    /\ UNCHANGED <<db, now, txnVars, stop>>

\* The value cache's own thread empties it periodically.
CacheClearStored ==                                         \* mutant
    /\ EnableCache
    /\ vcache' = [k \in Key |-> IF Exists(db, k) THEN NoValue ELSE vcache[k]]
    /\ UNCHANGED <<db, now, txnVars, fills, stop>>

CacheClear ==
    /\ EnableCache
    /\ vcache' = NoCache
    /\ UNCHANGED <<db, now, txnVars, fills, stop>>
-----------------------------------------------------------------------------
(* The clock and the process. *)

Tick ==
    /\ now < MaxTime
    /\ now' = now + 1
    /\ UNCHANGED <<db, vcache, txnVars, fills, stop>>

Stop ==
    /\ "stop" \in Faults
    /\ ~ stop
    /\ stop' = TRUE
    /\ UNCHANGED <<db, vcache, now, txnVars, fills>>

\* The process ends, at any point, and is started again: committed rows are
\* kept, open transactions and everything in memory are lost.
Restart ==
    /\ "crash" \in Faults
    /\ End(db)
    /\ vcache' = NoCache /\ fills' = {} /\ stop' = FALSE
    /\ UNCHANGED now

Client == \/ \E r \in Requests : Request(r)
          \/ SetStep \/ RemoveStep \/ MoveStep
          \/ Reject \/ WriteFails \/ Commit \/ CommitFails

Cleaner == \/ ClearBegin \/ ClearStep \/ ClearSkip
           \/ ClearCommit \/ ClearCommitFails \/ ClearReturn

ValueCache == (\E k \in Key : GetRead(k)) \/ GetFill \/ CacheClear

Next == Client \/ Cleaner \/ ValueCache \/ Tick \/ Stop \/ Restart

Spec == Init /\ [][Next]_vars
-----------------------------------------------------------------------------
(* Properties. *)

\* A TTL is backed by an entry of the expiring family.
Scheduled(v) ==
    \A k \in Key : v.expiration[k] # NoTTL =>
        [ts |-> v.expiration[k], key |-> k] \in v.expiring

\* Every TTL is backed by an entry of the expiring family at exactly the
\* time the expiration row holds, so the cleaner will find the key; set
\* writes the two rows, remove and clearExpired delete them one at a time.
ExpiryIsScheduled == Scheduled(db)

Listed(v) ==
    \A k \in Key : Exists(v, k) /\ k \notin v.cache => k \in v.tree[Parent(k)]

\* A key stored without a marker is listed by its parent path: no removal of
\* another key, whose walk up the tree passes through it, unlinks it.
RegularKeyListed == Listed(db)

\* When a pass of clearExpired that handled all its entries commits, no key
\* is left whose TTL ran out before the pass began, but for those whose
\* removal failed.
PassRemovesExpired ==
    [][ClearCommit /\ expired = {} =>
         \A k \in Key : db'.expiration[k] # NoTTL /\ db'.expiration[k] < limit =>
            [ts |-> db'.expiration[k], key |-> k] \in skipped]_vars

\* A listed child leads somewhere: it has a value or children of its own.
NoDanglingChild ==
    \A p \in Path : \A c \in db.tree[p] : Exists(db, c) \/ db.tree[c] # {}

\* The tree lists exactly the path components of the stored keys that are not
\* cached: what list returns for a path is determined by the data family.
TreeExact ==
    \A p \in Path :
        db.tree[p] = {c \in Key : /\ Parent(c) = p
                                  /\ \E k \in Key \ db.cache :
                                        Exists(db, k) /\ c \in treeComponents(k)}

\* The cleaner removes a key only once the TTL of that key has run out.
NotRemovedEarly ==
    [][\A k \in Key : op = "clear" /\ Exists(db, k) /\ ~ Exists(db', k) =>
         db.expiration[k] # NoTTL /\ db.expiration[k] <= limit]_vars

\* Between transactions the value cache agrees with the committed values.
ValueCacheCoherent ==
    op = "idle" => \A k \in Key : vcache[k] \in {NoValue, db.data[k]}

\* What callers see of the rows.
Visible(v) == [data |-> v.data, mortal |-> {e.key : e \in v.expiring}]

InRequest == op \in {"set", "remove", "move"}

Promise == INSTANCE Store WITH
    stored <- Visible(db),
    draft  <- Visible(IF InRequest THEN view ELSE db),
    op     <- IF InRequest THEN op ELSE "idle",
    items  <- items

\* Whatever fails or crashes and whenever the cleaner commits, requests are
\* atomic and a value disappears only by a request or after its key was given
\* a TTL: the engine implements Store.
Atomic == Promise!Spec

\* The cleaner thread runs its pass again and again, and nothing it waits for
\* depends on clients: it takes no mutex, so a client transaction that the
\* model keeps apart from it cannot hold it up for ever (SF on the start).
\* The value cache's thread never stops, readers finish what they started.
FairSpec ==
    /\ Spec
    /\ SF_vars(ClearBegin) /\ WF_vars(ClearStep) /\ WF_vars(ClearCommit)
    /\ WF_vars(SetStep \/ RemoveStep \/ MoveStep \/ Reject \/ Commit)
    /\ WF_vars(CacheClear) /\ WF_vars(GetFill)

\* A key whose TTL has run out is eventually removed or given a new TTL.
ExpiredKeyRemoved ==
    \A k \in Key :
        (db.expiration[k] # NoTTL /\ db.expiration[k] < now)
            ~> ~ (db.expiration[k] # NoTTL /\ db.expiration[k] < now)

\* A value that is no longer the stored one (put by a reader after the key was
\* changed, or by a request that failed later) does not stay in the cache.
StaleValueDropped ==
    \A k \in Key : []<> (vcache[k] \in {NoValue, db.data[k]})
=============================================================================
