-------------------------- MODULE TransactionsProofs --------------------------
(***************************************************************************)
(* Proofs about overlapping transactions, for any number of clients, any   *)
(* requests and any keys, with the storage mutex or without.               *)
(***************************************************************************)
EXTENDS TransactionSteps

StoreTyped ==
    /\ IsFiniteSet(DOMAIN store) /\ DOMAIN store \subseteq RowName
    /\ \A r \in DOMAIN store : /\ store[r] \in Values(r.cf) \ {Missing}
                               /\ r.cf = "expiring" => r.key \in Key

TxnInv(t) == /\ DOMAIN txn[t] = TxnFields
             /\ Sound(t, txn[t].job, txn[t].items, txn[t].todo, txn[t].writes)
             /\ txn[t].todo = <<>> => txn[t].items = <<>>

MutexInv ==
    useMutex => /\ \A t, u \in mutex : t = u
                /\ \A t \in Client : Open(t) =>
                      t \in mutex /\ Unset(txn[t].job, txn[t].items, txn[t].todo)

IInv == /\ StoreTyped /\ now \in Nat
        /\ DOMAIN txn = Thread
        /\ \A t \in Thread : TxnInv(t)
        /\ ExpiryIsScheduled
        /\ MutexInv
-----------------------------------------------------------------------------
(* The invariant of all. *)

\* No transaction, and the first steps of one.
LEMMA IdleSound ==
    ASSUME NEW t, NEW items \in ItemsOf(t)
    PROVE  Sound(t, items, items, <<>>, <<>>)
<1>1. DOMAIN <<>> = {} /\ IsFiniteSet({})
  BY FS_EmptySet
<1>2. <<>> \in Seq(MayDo(t, items))
  OBVIOUS
<1> QED
  BY <1>1, <1>2 DEF Sound, TxnTyped, Paired, Announced, TTLFirst

\* What a lookup that finds nothing tells a request of sets: the key is not
\* stored.
LEMMA NotFound ==
    ASSUME IInv, NEW t \in Client, NEW k \in Key, Get(t, Row("data", k)) = Missing,
           txn[t].job \in Seq(SetItem)
    PROVE  Row("data", k) \notin DOMAIN store
<1> DEFINE r == Row("data", k)
<1>1. t \in Thread /\ t # Cleaner
  BY TransactionsAssumption DEF Thread
<1>2. Sound(t, txn[t].job, txn[t].items, txn[t].todo, txn[t].writes)
  BY <1>1 DEF IInv, TxnInv
<1>3. r \notin DOMAIN txn[t].writes
  <2>1. SUFFICES ASSUME r \in DOMAIN txn[t].writes PROVE FALSE
    OBVIOUS
  <2>2. txn[t].writes[r] = Missing
    BY <2>1 DEF Get
  <2>3. MayWrite(t, txn[t].job, r, txn[t].writes[r])
    BY <1>2, <2>1 DEF Sound, TxnTyped
  <2>4. PICK i \in DOMAIN txn[t].job : txn[t].job[i].op # "set"
    <3>1. r.cf = "data"
      BY DEF Row
    <3> HIDE DEF r
    <3> QED
      BY <2>2, <2>3, <3>1 DEF MayWrite
  <2>5. txn[t].job[i] \in SetItem
    BY <2>4, LenProperties
  <2> QED
    BY <2>4, <2>5 DEF SetItem
<1>4. Committed(r) = Missing
  BY <1>3 DEF Get
<1> QED
  BY <1>4 DEF Committed, IInv, StoreTyped

\* One transaction has gone a step further.
LEMMA TxnStep ==
    ASSUME IInv, NEW t \in Thread, NEW y, txn' = [txn EXCEPT ![t] = y],
           UNCHANGED <<store, useMutex, mutex, now>>,
           DOMAIN y = TxnFields, y.open = txn[t].open, Sound(t, y.job, y.items, y.todo, y.writes),
           y.todo = <<>> => y.items = <<>>,
           t \in Client /\ useMutex /\ y.open => Unset(y.job, y.items, y.todo)
    PROVE  IInv'
<1>1. DOMAIN txn' = Thread /\ txn'[t] = y /\ \A u \in Thread \ {t} : txn'[u] = txn[u]
  BY DEF IInv
<1>2. StoreTyped' /\ now' \in Nat /\ ExpiryIsScheduled'
  BY DEF IInv, StoreTyped, ExpiryIsScheduled, Committed
<1>3. \A u \in Thread : TxnInv(u)'
  BY <1>1 DEF IInv, TxnInv
<1>4. \A a, b, c : Unset(a, b, c)' <=> Unset(a, b, c)
  BY DEF Unset
<1>5. MutexInv'
  <2>1. SUFFICES ASSUME useMutex PROVE /\ \A u, v \in mutex : u = v
                                      /\ \A u \in Client : txn'[u].open =>
                                            u \in mutex /\ Unset(txn'[u].job, txn'[u].items, txn'[u].todo)
    BY <1>4 DEF MutexInv, Open
  <2>2. \A u \in Client : Open(u) => u \in mutex /\ Unset(txn[u].job, txn[u].items, txn[u].todo)
    BY <2>1 DEF IInv, MutexInv
  <2>3. \A u, v \in mutex : u = v
    BY <2>1 DEF IInv, MutexInv
  <2>4. \A u \in Client : u \in Thread
    BY DEF Thread
  <2> QED
    BY <1>1, <2>1, <2>2, <2>3, <2>4 DEF Open
<1> QED
  BY <1>1, <1>2, <1>3, <1>5 DEF IInv

\* The next step is replaced by others, having read what it had to read.
LEMMA GoOnInv ==
    ASSUME IInv, NEW t \in Thread, NEW steps, GoOn(t, steps), txn[t].todo # <<>>,
           NextStep(t).do # "write",
           NextStep(t).do = "absent" => Get(t, Row("data", NextStep(t).key)) = Missing,
           steps \in Seq(MayDo(t, txn[t].job)), Paired(steps),
           t = Cleaner => steps \in Seq(Plain(t, txn[t].job))
    PROVE  IInv'
<1> DEFINE x == txn[t]
           new == steps \o Tail(x.todo)
           y == Onward(x, new)
           M == MayDo(t, x.job)
<1>1. DOMAIN x = TxnFields /\ Sound(t, x.job, x.items, x.todo, x.writes)
  BY DEF IInv, TxnInv
<1>2. Sound(t, x.job, x.items, new, x.writes)
  BY <1>1, SpliceSound DEF NextStep
<1>3. txn' = [txn EXCEPT ![t] = y] /\ UNCHANGED <<store, useMutex, mutex, now>>
  BY DEF GoOn
<1>4. ASSUME t \in Client, useMutex, x.open PROVE Unset(x.job, x.items, new)
  <2>0. x.todo \in Seq(M) /\ steps \in Seq(M)
    BY <1>1 DEF Sound, TxnTyped
  <2>1. /\ Len(steps) \in Nat /\ Len(x.todo) \in Nat \ {0}
        /\ DOMAIN new = 1..Len(new) /\ Len(new) = Len(steps) + Len(x.todo) - 1
        /\ DOMAIN x.todo = 1..Len(x.todo)
        /\ \A i \in 2..Len(x.todo) : new[Len(steps) + i - 1] = x.todo[i]
    <3> HIDE DEF M
    <3> QED
      BY <2>0, SpliceElements
  <2>2. Unset(x.job, x.items, x.todo)
    BY <1>4 DEF IInv, MutexInv, Open
  <2> HIDE DEF new, M
  <2>3. SUFFICES ASSUME NEW i \in DOMAIN x.job, x.job[i].op = "set", x.job[i].ifNotExists,
                        Row("data", x.job[i].key) \in DOMAIN store,
                        ~ \E j \in DOMAIN x.items : x.items[j] = x.job[i]
                 PROVE  \E j \in DOMAIN new : new[j] = Absent(x.job[i].key)
    BY DEF Unset
  <2>4. PICK j \in DOMAIN x.todo : x.todo[j] = Absent(x.job[i].key)
    BY <2>2, <2>3 DEF Unset
  <2>5. j # 1
    <3>1. SUFFICES ASSUME j = 1 PROVE FALSE
      OBVIOUS
    <3>2. NextStep(t) = Absent(x.job[i].key)
      BY <2>4, <3>1 DEF NextStep
    <3>3. Get(t, Row("data", x.job[i].key)) = Missing
      BY <3>2 DEF Absent
    <3>4. t # Cleaner /\ x.job \in ItemsOf(t)
      BY <1>1, <1>4, TransactionsAssumption DEF Sound, TxnTyped
    <3>5. x.job \in Seq(SetItem) /\ x.job[i] \in SetItem
      <4>1. x.job \in Seq(SetItem) \/ x.job \in Seq(RemoveItem)
        BY <3>4 DEF ItemsOf
      <4>2. \A S : x.job \in Seq(S) => x.job[i] \in S
        BY LenProperties
      <4>3. x.job[i] \notin RemoveItem
        BY <2>3 DEF RemoveItem
      <4> QED
        BY <4>1, <4>2, <4>3
    <3>6. x.job[i].key \in Key
      BY <3>5 DEF SetItem
    <3> QED
      BY <1>4, <2>3, <3>3, <3>5, <3>6, NotFound
  <2>6. j \in 2..Len(x.todo) /\ Len(steps) + j - 1 \in DOMAIN new
    BY <2>1, <2>5
  <2> QED
    BY <2>1, <2>4, <2>6, ZenonT(60)
<1>5. /\ DOMAIN y = TxnFields /\ y.open = x.open
      /\ Sound(t, y.job, y.items, y.todo, y.writes)
      /\ y.todo = <<>> => y.items = <<>>
      /\ Unset(x.job, x.items, new) => Unset(y.job, y.items, y.todo)
  <2> HIDE DEF new, x
  <2> QED
    BY <1>1, <1>2, OnwardSound
<1> HIDE DEF y
<1> QED
  BY <1>3, <1>4, <1>5, TxnStep, ZenonT(60)

\* A transaction has ended, committed or not.
LEMMA ReleaseTxns ==
    ASSUME IInv, NEW t \in Thread, NEW left, Release(t, left)
    PROVE  /\ DOMAIN txn' = Thread /\ now' \in Nat
           /\ \A u \in Thread : TxnInv(u)'
           /\ \A u \in Thread : Open(u)' => u # t /\ txn'[u] = txn[u]
<1>0. \A u : <<>> \in ItemsOf(u)
  BY DEF ItemsOf
<1>1. /\ DOMAIN txn' = Thread /\ now' \in Nat
      /\ txn'[t] = NoTxn /\ \A u \in Thread \ {t} : txn'[u] = txn[u]
  BY DEF IInv, Release
<1>2. \A u \in Thread : TxnInv(u)'
  <2>1. Sound(t, <<>>, <<>>, <<>>, <<>>)
    BY <1>0, IdleSound
  <2>2. TxnInv(t)'
    BY <1>1, <2>1 DEF TxnInv, NoTxn, TxnFields
  <2> QED
    BY <1>1, <2>2 DEF IInv, TxnInv
<1> QED
  BY <1>1, <1>2 DEF Open, NoTxn

\* With nothing committed the rows stay.
LEMMA ReleaseInv ==
    ASSUME IInv, NEW t \in Thread, NEW left, Release(t, left), UNCHANGED store
    PROVE  IInv'
<1>1. StoreTyped' /\ ExpiryIsScheduled'
  BY DEF IInv, StoreTyped, ExpiryIsScheduled, Committed
<1>2. \A a, b, c : Unset(a, b, c)' <=> Unset(a, b, c)
  BY DEF Unset
<1>3. MutexInv'
  <2>1. SUFFICES ASSUME useMutex
                 PROVE  /\ \A u, v \in mutex' : u = v
                        /\ \A u \in Client : Open(u)' =>
                              u \in mutex' /\ Unset(txn'[u].job, txn'[u].items, txn'[u].todo)
    BY <1>2 DEF MutexInv, Release
  <2>2. \A u \in Client : Open(u) => u \in mutex /\ Unset(txn[u].job, txn[u].items, txn[u].todo)
    BY <2>1 DEF IInv, MutexInv
  <2>3. mutex' = mutex \ {t} /\ \A u, v \in mutex : u = v
    BY <2>1 DEF IInv, MutexInv, Release
  <2>4. \A u \in Client : Open(u)' => u # t /\ txn'[u] = txn[u]
    BY ReleaseTxns DEF Thread
  <2> QED
    BY <2>2, <2>3, <2>4 DEF Open
<1> QED
  BY <1>1, <1>3, ReleaseTxns DEF IInv

\* A transaction begins, whatever the one taken from the pool was used for.
LEMMA BeginInv ==
    ASSUME IInv, NEW t \in Thread, NEW items \in ItemsOf(t), BeginTransaction(t, items),
           t = Cleaner => UNCHANGED mutex,
           t \in Client /\ useMutex => mutex = {} /\ mutex' = {t}
    PROVE  IInv'
<1> DEFINE x == [NoTxn EXCEPT !.open = TRUE, !.job = items, !.items = items]
           y == Onward(x, <<>>)
<1>1. DOMAIN x = TxnFields /\ x.job = items /\ x.items = items /\ x.writes = <<>> /\ x.open = TRUE
  BY DEF NoTxn, TxnFields
<1>2. txn' = [txn EXCEPT ![t] = y] /\ UNCHANGED <<store, useMutex, now>>
  BY DEF BeginTransaction
<1>3. Sound(t, x.job, x.items, <<>>, x.writes) /\ Unset(x.job, x.items, <<>>)
  <2> HIDE DEF x
  <2>1. Unset(items, items, <<>>)
    BY DEF Unset
  <2> QED
    BY <1>1, <2>1, IdleSound
<1> HIDE DEF x
<1>4. /\ DOMAIN y = TxnFields /\ y.open = TRUE
      /\ Sound(t, y.job, y.items, y.todo, y.writes)
      /\ y.todo = <<>> => y.items = <<>>
      /\ Unset(y.job, y.items, y.todo)
  BY <1>1, <1>3, OnwardSound
<1> HIDE DEF y
<1>5. DOMAIN txn' = Thread /\ txn'[t] = y /\ \A u \in Thread \ {t} : txn'[u] = txn[u]
  BY <1>2 DEF IInv
<1>6. StoreTyped' /\ now' \in Nat /\ ExpiryIsScheduled'
  BY <1>2 DEF IInv, StoreTyped, ExpiryIsScheduled, Committed
<1>7. \A u \in Thread : TxnInv(u)'
  BY <1>4, <1>5 DEF IInv, TxnInv
<1>8. \A a, b, c : Unset(a, b, c)' <=> Unset(a, b, c)
  BY <1>2 DEF Unset
<1>9. MutexInv'
  <2>1. SUFFICES ASSUME useMutex
                 PROVE  /\ \A u, v \in mutex' : u = v
                        /\ \A u \in Client : txn'[u].open =>
                              u \in mutex' /\ Unset(txn'[u].job, txn'[u].items, txn'[u].todo)
    BY <1>2, <1>8 DEF MutexInv, Open
  <2>2. \A u \in Client : Open(u) => u \in mutex /\ Unset(txn[u].job, txn[u].items, txn[u].todo)
    BY <2>1 DEF IInv, MutexInv
  <2>3. \A u, v \in mutex : u = v
    BY <2>1 DEF IInv, MutexInv
  <2>4. \A u \in Client : u \in Thread /\ u # Cleaner
    BY TransactionsAssumption DEF Thread
  <2>5. CASE t = Cleaner
    BY <1>5, <2>2, <2>3, <2>4, <2>5 DEF Open
  <2>6. CASE t \in Client
    BY <1>4, <1>5, <2>1, <2>2, <2>4, <2>6 DEF Open
  <2> QED
    BY <2>5, <2>6 DEF Thread
<1> QED
  BY <1>5, <1>6, <1>7, <1>9 DEF IInv

\* What the cleaner collects are entries of the expiring rows.
LEMMA CollectedItems ==
    ASSUME IInv, NEW entries \in Collected
    PROVE  entries \in ItemsOf(Cleaner)
<1> DEFINE rows == {r \in DOMAIN store : r.cf = "expiring" /\ r.ts < now}
           due == {[op |-> "clear", key |-> r.key, ts |-> r.ts] : r \in rows}
<1>1. IsFiniteSet(rows)
  BY FS_Subset DEF IInv, StoreTyped
<1>2. IsFiniteSet(due)
  <2> DEFINE f == [r \in rows |-> [op |-> "clear", key |-> r.key, ts |-> r.ts]]
  <2> HIDE DEF rows
  <2>1. f \in Surjection(rows, due)
    BY DEF Surjection
  <2> HIDE DEF f, due
  <2> QED
    BY <1>1, <2>1, FS_Surjection
<1>3. Cardinality(due) \in Nat
  BY <1>2, FS_CardinalityType
<1>4. due \subseteq ClearItem
  BY DEF IInv, StoreTyped, ClearItem, RowName
<1>5. entries \in [1..Cardinality(due) -> due]
  BY DEF Collected
<1> HIDE DEF due
<1>6. entries \in [1..Cardinality(due) -> ClearItem]
  BY <1>4, <1>5
<1> QED
  BY <1>3, <1>6, SeqDef DEF ItemsOf

\* What a commit does to a row.
LEMMA CommitRows ==
    ASSUME IInv, NEW t \in Thread, Commit(t)
    PROVE  LET w == txn[t].writes IN
           /\ \A r : r \in DOMAIN store' <=> IF r \in DOMAIN w THEN w[r] # Missing ELSE r \in DOMAIN store
           /\ \A r \in DOMAIN store' : store'[r] = IF r \in DOMAIN w THEN w[r] ELSE store[r]
           /\ IsFiniteSet(DOMAIN store')
           /\ DOMAIN w \subseteq RowName
           /\ \A r \in DOMAIN w : w[r] \in Values(r.cf) /\ MayWrite(t, txn[t].job, r, w[r])
<1> DEFINE w == txn[t].writes
           kept == DOMAIN store \ DOMAIN w
           made == {r \in DOMAIN w : w[r] # Missing}
<1>1. store' = [r \in kept \cup made |-> IF r \in kept THEN store[r] ELSE w[r]]
  BY DEF Commit
<1>2. /\ IsFiniteSet(DOMAIN w) /\ DOMAIN w \subseteq RowName
      /\ \A r \in DOMAIN w : w[r] \in Values(r.cf) /\ MayWrite(t, txn[t].job, r, w[r])
  BY DEF IInv, TxnInv, Sound, TxnTyped
<1>3. IsFiniteSet(DOMAIN store)
  BY DEF IInv, StoreTyped
<1>4. IsFiniteSet(kept) /\ IsFiniteSet(made)
  <2>1. kept \subseteq DOMAIN store /\ made \subseteq DOMAIN w
    OBVIOUS
  <2> QED
    BY <1>2, <1>3, <2>1, FS_Subset
<1>5. DOMAIN store' = kept \cup made
  BY <1>1
<1>6. IsFiniteSet(DOMAIN store')
  <2> HIDE DEF kept, made
  <2> QED
    BY <1>4, <1>5, FS_Union, ZenonT(60)
<1> QED
  BY <1>1, <1>2, <1>5, <1>6

\* A commit of a client backs every TTL it leaves, and one of the cleaner
\* deletes the TTL with the entry.
LEMMA CommitSchedules ==
    ASSUME IInv, NEW t \in Thread, Commit(t)
    PROVE  ExpiryIsScheduled'
<1> DEFINE w == txn[t].writes
<1>1. SUFFICES ASSUME NEW k \in Key, Row("expiration", k) \in DOMAIN store',
                      NEW ts \in store'[Row("expiration", k)]
               PROVE  Due(ts, k) \in DOMAIN store'
  BY DEF ExpiryIsScheduled, Committed, Missing
<1> DEFINE e == Row("expiration", k)
           d == Due(ts, k)
<1>2. e.cf = "expiration" /\ e.key = k /\ d.cf = "expiring" /\ d.key = k
  BY DEF Row, Due
<1>3. txn[t].todo = <<>> /\ Sound(t, txn[t].job, txn[t].items, txn[t].todo, w)
  BY DEF Commit, IInv, TxnInv
<1>4. ASSUME e \in DOMAIN w PROVE t # Cleaner /\ d \in DOMAIN w
  <2>1. store'[e] = w[e] /\ w[e] # Missing
    BY <1>1, <1>4, CommitRows
  <2>2. MayWrite(t, txn[t].job, e, w[e])
    BY <1>4, CommitRows
  <2>3. t # Cleaner
    BY <1>2, <2>1, <2>2 DEF MayWrite
  <2>4. \A q \in DOMAIN w : q.cf = "expiration" => \A n \in w[q] : Due(n, q.key) \in DOMAIN w
    BY <1>3 DEF Sound, Announced
  <2> QED
    BY <1>1, <1>2, <1>4, <2>1, <2>3, <2>4
<1>5. ASSUME e \notin DOMAIN w PROVE d \in DOMAIN store
  <2>1. e \in DOMAIN store /\ store'[e] = store[e]
    BY <1>1, <1>5, CommitRows
  <2>2. ts \in Committed(e)
    BY <1>1, <2>1 DEF Committed
  <2> QED
    BY <2>2 DEF IInv, ExpiryIsScheduled
<1>6. ASSUME d \in DOMAIN w PROVE t # Cleaner /\ w[d] # Missing
  <2>1. MayWrite(t, txn[t].job, d, w[d])
    BY <1>6, CommitRows
  <2>2. t # Cleaner
    <3>1. SUFFICES ASSUME t = Cleaner PROVE e \in DOMAIN w
      BY <1>4
    <3>2. TTLFirst(txn[t].todo, w)
      BY <1>3, <3>1 DEF Sound
    <3> QED
      BY <1>2, <1>6, <3>2 DEF TTLFirst
  <2> QED
    BY <1>2, <2>1, <2>2 DEF MayWrite
<1> HIDE DEF e, d
<1>7. d \in DOMAIN store'
  BY <1>4, <1>5, <1>6, CommitRows
<1> QED
  BY <1>7 DEF d

LEMMA CommitInv ==
    ASSUME IInv, NEW t \in Thread, Commit(t)
    PROVE  IInv'
<1> DEFINE w == txn[t].writes
<1>1. Release(t, Clean)
  BY DEF Commit
<1>2. StoreTyped'
  <2>1. DOMAIN store' \subseteq RowName
    BY CommitRows DEF IInv, StoreTyped
  <2>2. \A r \in DOMAIN store' : /\ store'[r] \in Values(r.cf) \ {Missing}
                                 /\ r.cf = "expiring" => r.key \in Key
    BY CommitRows DEF IInv, StoreTyped, MayWrite
  <2> QED
    BY <2>1, <2>2, CommitRows DEF StoreTyped
<1>3. MutexInv'
  <2>1. SUFFICES ASSUME useMutex
                 PROVE  /\ \A u, v \in mutex' : u = v
                        /\ \A u \in Client : Open(u)' =>
                              u \in mutex' /\ Unset(txn[u].job, txn[u].items, txn[u].todo)'
    BY <1>1 DEF MutexInv, Release
  <2>2. \A u \in Client : Open(u) => u \in mutex /\ Unset(txn[u].job, txn[u].items, txn[u].todo)
    BY <2>1 DEF IInv, MutexInv
  <2>3. mutex' = mutex \ {t} /\ \A u, v \in mutex : u = v
    BY <1>1, <2>1 DEF IInv, MutexInv, Release
  <2>4. \A u \in Client : Open(u)' => u # t /\ txn'[u] = txn[u] /\ u \in Thread
    BY <1>1, ReleaseTxns DEF Thread
  <2>5. SUFFICES ASSUME NEW u \in Client, Open(u)'
                 PROVE  u \in mutex' /\ Unset(txn[u].job, txn[u].items, txn[u].todo)'
    BY <2>3
  <2>6. u # t /\ txn'[u] = txn[u] /\ Open(u) /\ u \in mutex
    BY <2>2, <2>4, <2>5 DEF Open
  <2>7. t = Cleaner
    <3>1. SUFFICES ASSUME t \in Client PROVE FALSE
      BY DEF Thread
    <3>2. Open(t)
      BY DEF Commit
    <3> QED
      BY <2>2, <2>3, <2>6, <3>1, <3>2
  <2>8. \A k : Row("data", k) \in DOMAIN store' => Row("data", k) \in DOMAIN store
    <3>1. SUFFICES ASSUME NEW k, Row("data", k) \in DOMAIN w, w[Row("data", k)] # Missing PROVE FALSE
      BY CommitRows
    <3>2. MayWrite(t, txn[t].job, Row("data", k), w[Row("data", k)])
      BY <3>1, CommitRows
    <3>3. PICK i \in DOMAIN txn[t].job : txn[t].job[i].op = "set"
      BY <3>1, <3>2 DEF MayWrite, Row
    <3>4. txn[t].job \in Seq(ClearItem)
      BY <2>7 DEF IInv, TxnInv, Sound, TxnTyped, ItemsOf
    <3>5. txn[t].job[i] \in ClearItem
      BY <3>4, LenProperties
    <3> QED
      BY <3>3, <3>5 DEF ClearItem
  <2>9. Unset(txn[u].job, txn[u].items, txn[u].todo)
    BY <2>2, <2>6
  <2> QED
    BY <2>3, <2>6, <2>8, <2>9 DEF Unset
<1> QED
  BY <1>1, <1>2, <1>3, CommitSchedules, ReleaseTxns DEF IInv
-----------------------------------------------------------------------------
(* The steps that look something up. *)

\* What a lookup finds is a value of the row's family.
LEMMA GetTyped ==
    ASSUME IInv, NEW t \in Thread, NEW r \in RowName
    PROVE  Get(t, r) \in Values(r.cf)
<1>1. r \in DOMAIN txn[t].writes => txn[t].writes[r] \in Values(r.cf)
  BY DEF IInv, TxnInv, Sound, TxnTyped
<1>2. Committed(r) \in Values(r.cf)
  BY DEF IInv, StoreTyped, Committed, Values, Missing
<1> QED
  BY <1>1, <1>2 DEF Get

\* The next step is one the transaction may do.
LEMMA NextStepTyped ==
    ASSUME IInv, NEW t \in Thread, txn[t].todo # <<>>
    PROVE  NextStep(t) \in MayDo(t, txn[t].job) /\ NextStep(t) \in StepType
<1>1. txn[t].todo \in Seq(MayDo(t, txn[t].job))
  BY DEF IInv, TxnInv, Sound, TxnTyped
<1>2. NextStep(t) \in MayDo(t, txn[t].job)
  BY <1>1, HeadTailProperties DEF NextStep
<1> QED
  BY <1>2 DEF MayDo

\* Steps that set no TTL replace the next one.
LEMMA PlainGoOn ==
    ASSUME IInv, NEW t \in Thread, NEW steps \in Seq(Plain(t, txn[t].job)), GoOn(t, steps),
           txn[t].todo # <<>>, NextStep(t).do \notin {"write", "absent"}
    PROVE  IInv'
<1>1. steps \in Seq(MayDo(t, txn[t].job)) /\ Paired(steps)
  BY PlainPaired
<1> QED
  BY <1>1, GoOnInv

\* Rows of the tree and of the markers may be written at any time, and nodes
\* unlinked.
LEMMA PlainSteps ==
    ASSUME NEW t, NEW job
    PROVE  /\ \A p \in Path : \A v \in Values("tree") : Write(Row("tree", p), v) \in Plain(t, job)
           /\ \A k \in Key : Write(Row("cache", k), Missing) \in Plain(t, job)
           /\ \A k \in Key : Unlink(k) \in Plain(t, job) /\ Climb(k) \in Plain(t, job)
           /\ <<>> \in Seq(Plain(t, job))
           /\ \A s \in Plain(t, job) : <<s>> \in Seq(Plain(t, job))
           /\ \A s, u \in Plain(t, job) : <<s, u>> \in Seq(Plain(t, job))
<1>1. ASSUME NEW p \in Path, NEW v \in Values("tree") PROVE Write(Row("tree", p), v) \in Plain(t, job)
  <2>1. Row("tree", p) \in RowName
    BY DEF Row, RowName, Families
  <2>2. Write(Row("tree", p), v) \in StepType
    BY <2>1, StepsAreTyped DEF Row
  <2> QED
    BY <2>2 DEF Plain, MayDo, MayWrite, Write, Row
<1>2. ASSUME NEW k \in Key PROVE Write(Row("cache", k), Missing) \in Plain(t, job)
  <2>1. Row("cache", k) \in RowName /\ Missing \in Values("cache")
    BY DEF Row, RowName, Families, Missing, Values, Path
  <2>2. Write(Row("cache", k), Missing) \in StepType
    BY <2>1, StepsAreTyped DEF Row
  <2> QED
    BY <2>2 DEF Plain, MayDo, MayWrite, Write, Row
<1>3. ASSUME NEW k \in Key PROVE Unlink(k) \in Plain(t, job) /\ Climb(k) \in Plain(t, job)
  BY StepsAreTyped DEF Plain, MayDo, Unlink, Climb
<1> QED
  BY <1>1, <1>2, <1>3

LEMMA CheckAbsentInv == ASSUME IInv, NEW t \in Thread, CheckAbsent(t) PROVE IInv'
<1>1. <<>> \in Seq(Plain(t, txn[t].job))
  OBVIOUS
<1>2. <<>> \in Seq(MayDo(t, txn[t].job)) /\ Paired(<<>>)
  BY <1>1, PlainPaired, ZenonT(60)
<1>3. /\ txn[t].todo # <<>> /\ NextStep(t).do = "absent" /\ GoOn(t, <<>>)
      /\ Get(t, Row("data", NextStep(t).key)) = Missing
  BY DEF CheckAbsent, At
<1> QED
  BY <1>1, <1>2, <1>3, GoOnInv, ZenonT(60)

LEMMA ReadChildrenInv == ASSUME IInv, NEW t \in Thread, ReadChildren(t) PROVE IInv'
<1> DEFINE c == NextStep(t).node
           r == Row("tree", Parent(c))
           steps == If(c \notin Get(t, r), <<Write(r, Get(t, r) \cup {c})>>)
<1>1. txn[t].todo # <<>> /\ NextStep(t).do = "link" /\ GoOn(t, steps)
  BY DEF ReadChildren, At
<1>2. c \in Key /\ Parent(c) \in Path
  BY <1>1, NextStepTyped, StepKinds, ParentIsPath
<1>3. r \in RowName /\ r.cf = "tree"
  BY <1>2 DEF Row, RowName, Families
<1>4. Get(t, r) \cup {c} \in Values("tree")
  BY <1>2, <1>3, GetTyped DEF Values
<1>5. Write(r, Get(t, r) \cup {c}) \in Plain(t, txn[t].job)
  BY <1>2, <1>4, PlainSteps
<1>6. steps \in Seq(Plain(t, txn[t].job))
  BY <1>5, PlainSteps, ZenonT(60) DEF If
<1> HIDE DEF steps
<1> QED
  BY <1>1, <1>6, PlainGoOn

LEMMA ReadClockInv == ASSUME IInv, NEW t \in Thread, ReadClock(t) PROVE IInv'
<1> DEFINE k == NextStep(t).key
           ts == now + NextStep(t).exp
           first == Write(Row("expiration", k), {ts})
           second == Write(Due(ts, k), Present)
           steps == <<first, second>>
           M == MayDo(t, txn[t].job)
<1>1. txn[t].todo # <<>> /\ NextStep(t).do = "expire" /\ GoOn(t, steps)
  BY DEF ReadClock, At
<1>2. k \in Key /\ ts \in Nat /\ t # Cleaner
  BY <1>1, NextStepTyped, StepKinds DEF MayDo, IInv
<1>3. Row("expiration", k) \in RowName /\ Due(ts, k) \in RowName
  BY <1>2 DEF Row, Due, RowName, Families, Path
<1>4. {ts} \in Values("expiration") /\ Present \in Values("expiring") /\ Present # Missing
  BY <1>2 DEF Values, Present, Missing
<1>5. first \in StepType /\ second \in StepType
  BY <1>3, <1>4, StepsAreTyped DEF Row, Due
<1>6. first \in M /\ second \in M
  BY <1>2, <1>4, <1>5, SMTT(30) DEF MayDo, MayWrite, Write, Row, Due
<1>7. /\ first.row.key = k /\ first.val = {ts}
      /\ ~ (second.do = "write" /\ second.row.cf = "expiration")
  BY DEF Write, Row, Due
<1>8. second = Write(Due(ts, k), Present)
  OBVIOUS
<1> HIDE DEF first, second, M, ts
<1>9. steps \in Seq(M) /\ Len(steps) = 2 /\ steps[1] = first /\ steps[2] = second /\ DOMAIN steps = 1..2
  BY <1>6
<1> HIDE DEF steps
<1>10. Paired(steps)
  <2>1. SUFFICES ASSUME NEW i \in DOMAIN steps, steps[i].do = "write", steps[i].row.cf = "expiration",
                        NEW n \in steps[i].val
                 PROVE  i < Len(steps) /\ steps[i + 1] = Write(Due(n, steps[i].row.key), Present)
    BY DEF Paired
  <2>2. i = 1 \/ i = 2
    BY <1>9
  <2>3. i = 1
    BY <1>7, <1>9, <2>1, <2>2
  <2>4. n = ts /\ steps[i].row.key = k
    BY <1>7, <1>9, <2>1, <2>3
  <2> QED
    BY <1>8, <1>9, <2>3, <2>4
<1> QED
  BY <1>1, <1>2, <1>9, <1>10, GoOnInv DEF M

LEMMA ReadMarkerInv == ASSUME IInv, NEW t \in Thread, ReadMarker(t) PROVE IInv'
<1> DEFINE k == NextStep(t).key
           r == Row("cache", k)
           steps == IF r \in DOMAIN store THEN <<Write(r, Missing)>> ELSE <<Unlink(k)>>
<1>1. txn[t].todo # <<>> /\ NextStep(t).do = "marker" /\ GoOn(t, steps)
  BY DEF ReadMarker, At
<1>2. k \in Key
  BY <1>1, NextStepTyped, StepKinds
<1>3. Write(r, Missing) \in Plain(t, txn[t].job) /\ Unlink(k) \in Plain(t, txn[t].job)
  BY <1>2, PlainSteps
<1>4. steps \in Seq(Plain(t, txn[t].job))
  BY <1>3, PlainSteps, ZenonT(60)
<1> HIDE DEF steps
<1> QED
  BY <1>1, <1>4, PlainGoOn

LEMMA ReadSiblingsInv == ASSUME IInv, NEW t \in Thread, ReadSiblings(t) PROVE IInv'
<1> DEFINE c == NextStep(t).node
           p == Parent(c)
           r == Row("tree", p)
           rest == Get(t, r) \ {c}
           walk == If(rest = {} /\ p # Root, <<Climb(p)>>)
           steps == If(Get(t, r) # Missing, <<Write(r, rest)>> \o walk)
           P == Plain(t, txn[t].job)
<1>1. txn[t].todo # <<>> /\ NextStep(t).do = "unlink" /\ GoOn(t, steps)
  BY DEF ReadSiblings, At
<1>2. c \in Key /\ p \in Path
  BY <1>1, NextStepTyped, StepKinds, ParentIsPath
<1>3. r \in RowName /\ r.cf = "tree"
  BY <1>2 DEF Row, RowName, Families
<1>4. rest \in Values("tree")
  BY <1>2, <1>3, GetTyped DEF Values
<1>5. Write(r, rest) \in P
  BY <1>2, <1>4, PlainSteps
<1>6. p # Root => Climb(p) \in P
  BY <1>2, PlainSteps DEF Path
<1>7. walk \in Seq(P)
  BY <1>6, PlainSteps, ZenonT(60) DEF If
<1>8. <<Write(r, rest)>> \in Seq(P)
  BY <1>5, PlainSteps
<1>9. steps \in Seq(P)
  <2> HIDE DEF P, walk, rest, r
  <2>1. <<Write(r, rest)>> \o walk \in Seq(P) /\ <<>> \in Seq(P)
    BY <1>7, <1>8, ConcatProperties
  <2> QED
    BY <2>1 DEF If
<1> HIDE DEF steps
<1> QED
  BY <1>1, <1>9, PlainGoOn

LEMMA ReadParentInv == ASSUME IInv, NEW t \in Thread, ReadParent(t) PROVE IInv'
<1> DEFINE p == NextStep(t).path
           steps == If(Get(t, Row("data", p)) = Missing, <<Unlink(p)>>)
<1>1. txn[t].todo # <<>> /\ NextStep(t).do = "climb" /\ GoOn(t, steps)
  BY DEF ReadParent, At
<1>2. p \in Key
  BY <1>1, NextStepTyped, StepKinds
<1>3. steps \in Seq(Plain(t, txn[t].job))
  BY <1>2, PlainSteps, ZenonT(60) DEF If
<1> HIDE DEF steps
<1> QED
  BY <1>1, <1>3, PlainGoOn
-----------------------------------------------------------------------------
(* The steps that write. *)

LEMMA WriteRowInv == ASSUME IInv, NEW t \in Thread, WriteRow(t) PROVE IInv'
<1> DEFINE x == txn[t]
           s == Head(x.todo)
           r == s.row
           new == [q \in DOMAIN x.writes \cup {r} |-> IF q = r THEN s.val ELSE x.writes[q]]
           z == [x EXCEPT !.held = @ \cup {r}, !.writes = new]
           rest == Tail(x.todo)
           y == Onward(z, rest)
<1>1. /\ x.todo # <<>> /\ s.do = "write"
      /\ txn' = [txn EXCEPT ![t] = y] /\ UNCHANGED <<store, useMutex, mutex, now>>
  <2>1. x.todo # <<>> /\ s.do = "write" /\ UNCHANGED <<store, useMutex, mutex, now>>
    BY DEF WriteRow, At, NextStep
  <2>2. txn' = [txn EXCEPT ![t] = y]
    BY Zenon DEF WriteRow, At, NextStep
  <2> QED
    BY <2>1, <2>2
<1>2. DOMAIN x = TxnFields /\ Sound(t, x.job, x.items, x.todo, x.writes)
  BY DEF IInv, TxnInv
<1>3. Sound(t, x.job, x.items, rest, new)
  <2>1. /\ DOMAIN new = DOMAIN x.writes \cup {r} /\ new[r] = s.val
        /\ \A q \in DOMAIN x.writes : q # r => new[q] = x.writes[q]
    OBVIOUS
  <2> HIDE DEF x, new
  <2> QED
    BY <1>1, <1>2, <2>1, WrittenSound, ZenonT(60)
<1> HIDE DEF new
<1>4. DOMAIN z = TxnFields /\ z.job = x.job /\ z.items = x.items /\ z.writes = new /\ z.open = x.open
  BY <1>2 DEF TxnFields
<1> HIDE DEF z
<1>5. ASSUME t \in Client, useMutex, x.open PROVE Unset(z.job, z.items, rest)
  <2>1. x.todo \in Seq(MayDo(t, x.job))
    BY <1>2 DEF Sound, TxnTyped
  <2>2. /\ DOMAIN x.todo = 1..Len(x.todo) /\ Len(x.todo) \in Nat \ {0}
        /\ DOMAIN rest = 1..(Len(x.todo) - 1)
        /\ \A j \in 1..(Len(x.todo) - 1) : rest[j] = x.todo[j + 1]
        /\ s = x.todo[1]
    BY <1>1, <2>1, HeadTailProperties, LenProperties, EmptySeq
  <2>3. Unset(x.job, x.items, x.todo)
    BY <1>5 DEF IInv, MutexInv, Open
  <2> HIDE DEF x, s, rest
  <2>4. ASSUME NEW k, NEW j \in DOMAIN x.todo, x.todo[j] = Absent(k)
        PROVE  \E i \in DOMAIN rest : rest[i] = Absent(k)
    <3>1. j # 1
      BY <1>1, <2>2, <2>4 DEF Absent
    <3>2. j - 1 \in 1..(Len(x.todo) - 1) /\ j - 1 + 1 = j
      BY <2>2, <3>1
    <3>3. rest[j - 1] = Absent(k) /\ j - 1 \in DOMAIN rest
      BY <2>2, <2>4, <3>2
    <3> QED
      BY <3>3
  <2> QED
    BY <1>4, <2>3, <2>4 DEF Unset
<1>6. /\ DOMAIN y = TxnFields /\ y.open = z.open
      /\ Sound(t, y.job, y.items, y.todo, y.writes)
      /\ y.todo = <<>> => y.items = <<>>
      /\ Unset(z.job, z.items, rest) => Unset(y.job, y.items, y.todo)
  <2> HIDE DEF rest, x
  <2> QED
    BY <1>3, <1>4, OnwardSound, SMTT(30)
<1> HIDE DEF y
<1> QED
  BY <1>1, <1>4, <1>5, <1>6, TxnStep, ZenonT(60)

\* The cleaner gives an entry up.
LEMMA SkipSound ==
    ASSUME NEW job, NEW items, NEW todo, NEW writes, Sound(Cleaner, job, items, todo, writes)
    PROVE  Sound(Cleaner, job, items, <<>>, writes)
<1>1. TxnTyped(Cleaner, job, items, <<>>, writes)
  <2>1. <<>> \in Seq(MayDo(Cleaner, job))
    OBVIOUS
  <2> QED
    BY <2>1 DEF Sound, TxnTyped
<1>2. \A r \in DOMAIN writes : r.cf = "expiration" => writes[r] = {}
  <2>1. \A r \in DOMAIN writes : MayWrite(Cleaner, job, r, writes[r])
    BY ZenonT(60) DEF Sound, TxnTyped
  <2> QED
    BY <2>1, ZenonT(60) DEF MayWrite, Missing
<1>3. DOMAIN <<>> = {}
  OBVIOUS
<1>4. Paired(<<>>) /\ Announced(<<>>, writes)
  BY <1>2, <1>3, SMTT(30) DEF Paired, Announced
<1>5. TTLFirst(<<>>, writes)
  BY <1>3 DEF Sound, TTLFirst
<1> QED
  BY <1>1, <1>4, <1>5 DEF Sound

LEMMA LockTimeoutInv == ASSUME IInv, NEW t \in Thread, LockTimeout(t) PROVE IInv'
<1>1. CASE t # Cleaner
  BY <1>1, ReleaseInv DEF LockTimeout
<1>2. CASE t = Cleaner
  <2> DEFINE x == txn[t]
             y == Onward(x, <<>>)
  <2>1. txn' = [txn EXCEPT ![t] = y] /\ UNCHANGED <<store, useMutex, mutex, now>>
    BY <1>2 DEF LockTimeout
  <2>2. DOMAIN x = TxnFields /\ Sound(t, x.job, x.items, x.todo, x.writes)
    BY DEF IInv, TxnInv
  <2>3. Sound(t, x.job, x.items, <<>>, x.writes)
    BY <1>2, <2>2, SkipSound
  <2>4. /\ DOMAIN y = TxnFields /\ y.open = x.open
        /\ Sound(t, y.job, y.items, y.todo, y.writes)
        /\ y.todo = <<>> => y.items = <<>>
    <3> HIDE DEF x
    <3> QED
      BY <2>2, <2>3, OnwardSound
  <2>5. t \notin Client
    BY <1>2, TransactionsAssumption
  <2> HIDE DEF y
  <2> QED
    BY <2>1, <2>4, <2>5, TxnStep, ZenonT(60)
<1> QED
  BY <1>1, <1>2
-----------------------------------------------------------------------------
(* Invariance. *)

LEMMA InitInv == Init => IInv
<1>1. SUFFICES ASSUME Init PROVE IInv
  OBVIOUS
<1>2. store = <<>> /\ now = 1 /\ mutex = {} /\ txn = [t \in Thread |-> NoTxn]
  BY <1>1 DEF Init
<1>3. DOMAIN store = {}
  BY <1>2
<1>4. StoreTyped
  BY <1>3, FS_EmptySet DEF StoreTyped
<1>5. ExpiryIsScheduled
  BY <1>3 DEF ExpiryIsScheduled, Committed, Missing
<1>6. ASSUME NEW t \in Thread PROVE TxnInv(t) /\ ~ Open(t)
  <2>1. txn[t] = NoTxn /\ <<>> \in ItemsOf(t)
    BY <1>2 DEF ItemsOf
  <2>2. Sound(t, <<>>, <<>>, <<>>, <<>>)
    BY <2>1, IdleSound
  <2> QED
    <3>1. /\ DOMAIN NoTxn = TxnFields /\ ~ NoTxn.open /\ NoTxn.job = <<>>
          /\ NoTxn.items = <<>> /\ NoTxn.todo = <<>> /\ NoTxn.writes = <<>>
      BY SMTT(30) DEF NoTxn, TxnFields
    <3> QED
      BY <3>1, <2>1, <2>2, ZenonT(60) DEF TxnInv, Open
<1>7. MutexInv
  BY <1>2, <1>6 DEF MutexInv, Thread
<1> QED
  BY <1>2, <1>4, <1>5, <1>6, <1>7 DEF IInv

LEMMA StepInv == IInv /\ [Next]_vars => IInv'
<1>0. SUFFICES ASSUME IInv, [Next]_vars PROVE IInv'
  OBVIOUS
<1>1. ASSUME NEW t \in Client, NEW r \in Requests[t], Request(t, r) PROVE IInv'
  <2>1. t \in Thread /\ t # Cleaner /\ r \in ItemsOf(t)
    BY TransactionsAssumption DEF Thread, ItemsOf
  <2>2. BeginTransaction(t, r) /\ (useMutex => mutex = {} /\ mutex' = {t})
    BY <1>1 DEF Request
  <2> QED
    BY <1>0, <2>1, <2>2, BeginInv
<1>2. ASSUME ClearBegin PROVE IInv'
  <2>1. PICK entries \in Collected : BeginTransaction(Cleaner, entries)
    BY <1>2 DEF ClearBegin
  <2>2. UNCHANGED mutex /\ Cleaner \in Thread /\ Cleaner \notin Client
    BY <1>2, TransactionsAssumption DEF ClearBegin, Thread
  <2>3. entries \in ItemsOf(Cleaner)
    BY <1>0, CollectedItems
  <2> QED
    BY <1>0, <2>1, <2>2, <2>3, BeginInv
<1>3. ASSUME NEW t \in Thread, Step(t) PROVE IInv'
  <2>1. ASSUME Refuse(t) PROVE IInv'
    BY <1>0, <2>1, ReleaseInv DEF Refuse
  <2> QED
    BY <1>0, <1>3, <2>1, CheckAbsentInv, ReadChildrenInv, ReadClockInv, ReadMarkerInv, ReadSiblingsInv,
       ReadParentInv, WriteRowInv, LockTimeoutInv, CommitInv DEF Step
<1>4. ASSUME Tick \/ UNCHANGED vars PROVE IInv'
  <2>1. now' \in Nat /\ UNCHANGED <<store, useMutex, mutex, txn>>
    BY <1>0, <1>4 DEF Tick, vars, IInv
  <2>2. StoreTyped' /\ ExpiryIsScheduled' /\ DOMAIN txn' = Thread
    BY <1>0, <2>1 DEF IInv, StoreTyped, ExpiryIsScheduled, Committed
  <2>3. \A t \in Thread : TxnInv(t)'
    BY <1>0, <2>1 DEF IInv, TxnInv
  <2>4. MutexInv'
    BY <1>0, <2>1 DEF IInv, MutexInv, Open, Unset
  <2> QED
    BY <2>1, <2>2, <2>3, <2>4 DEF IInv
<1> QED
  BY <1>0, <1>1, <1>2, <1>3, <1>4 DEF Next

LEMMA Invariance == Spec => []IInv
BY InitInv, StepInv, PTL DEF Spec
-----------------------------------------------------------------------------
(* The theorems. *)

\* A TTL is backed by a row the cleaner finds, however many requests and the
\* cleaner overlap and with the mutex or without: set writes the two rows of a
\* TTL in one transaction, remove deletes only the first of them, and the
\* cleaner, which deletes the second, has deleted the first before.
THEOREM TTLScheduled == Spec => []ExpiryIsScheduled
<1>1. IInv => ExpiryIsScheduled
  BY DEF IInv
<1> QED
  BY <1>1, Invariance, PTL

\* What a request refused half-way has written through a pooled transaction
\* is never committed by the one that takes the transaction next.
THEOREM CommitsOwnKeys == Spec => OwnKeysOnly
<1>1. ASSUME IInv, NEW t \in Thread, Commit(t), NEW k \in Key,
             Committed(Row("data", k))' # Committed(Row("data", k))
      PROVE  \E i \in DOMAIN txn[t].job : k = txn[t].job[i].key
  <2> DEFINE r == Row("data", k)
             w == txn[t].writes
  <2>1. r \in DOMAIN w
    BY <1>1, CommitRows DEF Committed
  <2>2. MayWrite(t, txn[t].job, r, w[r])
    BY <1>1, <2>1, CommitRows
  <2>3. r.cf = "data" /\ r.key = k
    BY DEF Row
  <2> HIDE DEF r, w
  <2> QED
    BY <2>2, <2>3 DEF MayWrite
<1>2. IInv => (\A t \in Thread : Commit(t) =>
                 \A k \in Key : Committed(Row("data", k))' # Committed(Row("data", k)) =>
                    \E i \in DOMAIN txn[t].job : k = txn[t].job[i].key)
  BY <1>1
<1> QED
  BY <1>2, Invariance, PTL DEF OwnKeysOnly

\* The lookup of ifNotExists takes no lock, but with the mutex what it found
\* still holds when the request commits: the only transaction beside it is the
\* cleaner's, which creates no value.
THEOREM CreatesOnly == Spec => NoOverwrite
<1>1. ASSUME IInv, NEW t \in Client, Commit(t), useMutex,
             NEW i \in DOMAIN txn[t].job, txn[t].job[i].op = "set", txn[t].job[i].ifNotExists
      PROVE  Row("data", txn[t].job[i].key) \notin DOMAIN store
  <2>1. Open(t) /\ txn[t].todo = <<>> /\ t \in Thread
    BY <1>1 DEF Commit, Thread
  <2>2. txn[t].items = <<>>
    BY <1>1, <2>1 DEF IInv, TxnInv
  <2>3. Unset(txn[t].job, txn[t].items, txn[t].todo)
    BY <1>1, <2>1 DEF IInv, MutexInv
  <2>4. DOMAIN <<>> = {}
    OBVIOUS
  <2> QED
    BY <1>1, <2>1, <2>2, <2>3, <2>4 DEF Unset
<1>2. IInv => (\A t \in Client : Commit(t) /\ useMutex =>
                 \A i \in DOMAIN txn[t].job : LET it == txn[t].job[i] IN
                    it.op = "set" /\ it.ifNotExists => Row("data", it.key) \notin DOMAIN store)
  BY <1>1
<1> QED
  BY <1>2, Invariance, PTL DEF NoOverwrite
=============================================================================
