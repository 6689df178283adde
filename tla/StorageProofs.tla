---------------------------- MODULE StorageProofs ----------------------------
(***************************************************************************)
(* Proofs about Storage, and that it implements Store, for every set of    *)
(* keys, requests and faults.                                              *)
(***************************************************************************)
EXTENDS Storage, TLAPS

(* Paths. *)

LEMMA ComponentFacts ==
    ASSUME NEW k \in Key, NEW c \in treeComponents(k)
    PROVE  /\ c \in Key /\ c \in Seq(Name)
           /\ Len(c) \in 1..Len(k)
           /\ c = SubSeq(k, 1, Len(c))
<1>1. k \in Seq(Name) /\ treeComponents(k) \subseteq Key
  BY KeyAssumption
<1>2. PICK i \in 1..Len(k) : c = SubSeq(k, 1, i)
  BY DEF treeComponents
<1>3. Len(c) = i
  BY <1>1, <1>2
<1> QED
  BY <1>1, <1>2, <1>3, KeyAssumption

LEMMA ParentIsPath ==
    ASSUME NEW k \in Key
    PROVE  Parent(k) \in Path
<1>1. k \in Seq(Name) /\ k # <<>> /\ treeComponents(k) \subseteq Key
  BY KeyAssumption
<1>2. Len(k) \in Nat \ {0}
  BY <1>1
<1>3. CASE Len(k) = 1
  <2>1. Parent(k) = <<>>
    BY <1>1, <1>3 DEF Parent
  <2> QED
    BY <2>1 DEF Path, Root
<1>4. CASE Len(k) > 1
  <2>1. Len(k) - 1 \in 1..Len(k)
    BY <1>2, <1>4
  <2>2. Parent(k) \in treeComponents(k)
    BY <2>1, ZenonT(60) DEF Parent, treeComponents
  <2> QED
    BY <1>1, <2>2 DEF Path
<1>5. Len(k) = 1 \/ Len(k) > 1
  BY <1>2
<1> QED
  BY <1>3, <1>4, <1>5

LEMMA SelfComponent ==
    ASSUME NEW k \in Key
    PROVE  k \in treeComponents(k)
<1>1. k \in Seq(Name) /\ k # <<>>
  BY KeyAssumption
<1>2. Len(k) \in 1..Len(k) /\ SubSeq(k, 1, Len(k)) = k
  BY <1>1
<1> QED
  BY <1>2, ZenonT(60) DEF treeComponents

\* Every component but the key itself is the parent of a longer component.
LEMMA ComponentBelow ==
    ASSUME NEW k \in Key, NEW c \in treeComponents(k), c # k
    PROVE  \E d \in treeComponents(k) : Len(d) > Len(c) /\ Parent(d) = c
<1>1. k \in Seq(Name) /\ k # <<>>
  BY KeyAssumption
<1>2. PICK i \in 1..Len(k) : c = SubSeq(k, 1, i)
  BY DEF treeComponents
<1>3. Len(c) = i /\ i < Len(k)
  BY <1>1, <1>2
<1> DEFINE d == SubSeq(k, 1, i + 1)
<1>4. d \in treeComponents(k)
  <2>1. i + 1 \in 1..Len(k)
    BY <1>1, <1>3
  <2> QED
    BY <2>1 DEF treeComponents
<1>5. Len(d) = i + 1
  BY <1>1, <1>3
<1>6. SubSeq(d, 1, i) = c
  BY <1>1, <1>2, <1>3, <1>5
<1>7. Parent(d) = c /\ Len(d) > Len(c)
  BY <1>1, <1>3, <1>5, <1>6 DEF Parent
<1> HIDE DEF d
<1> QED
  BY <1>4, <1>7
-----------------------------------------------------------------------------
(* What the operations on rows preserve. *)

LEMMA ManageTreeFacts ==
    ASSUME NEW tree \in [Path -> SUBSET Key], NEW k \in Key
    PROVE  /\ manageTree(tree, k) \in [Path -> SUBSET Key]
           /\ \A p \in Path : tree[p] \subseteq manageTree(tree, k)[p]
           /\ k \in manageTree(tree, k)[Parent(k)]
<1>1. treeComponents(k) \subseteq Key
  BY KeyAssumption
<1> QED
  BY <1>1, SelfComponent, ParentIsPath DEF manageTree

LEMMA RemoveChildFacts ==
    ASSUME NEW v \in Rows, NEW k \in Key
    PROVE  /\ removeChild(v, k) \in [Path -> SUBSET Key]
           /\ \A c \in Unlinked(v, k) : c = k \/ ~ Exists(v, c)
<1>1. v.tree \in [Path -> SUBSET Key]
  BY DEF Rows
<1>2. removeChild(v, k) \in [Path -> SUBSET Key]
  BY <1>1 DEF removeChild
<1>3. ASSUME NEW c \in Unlinked(v, k), c # k
      PROVE  ~ Exists(v, c)
  <2>1. c \in treeComponents(k)
    BY DEF Unlinked
  <2>2. PICK d \in treeComponents(k) : Len(d) > Len(c) /\ Parent(d) = c
    BY <1>3, <2>1, ComponentBelow
  <2>3. Vacated(v, d)
    BY <2>2 DEF Unlinked
  <2> QED
    BY <2>2, <2>3 DEF Vacated
<1> QED
  BY <1>2, <1>3

LEMMA ExpiresAtType ==
    ASSUME NEW clock \in Nat, NEW exp \in Nat
    PROVE  ExpiresAt(clock, exp) \in Nat
BY RowsAssumption DEF ExpiresAt

LEMMA ParseTTLType ==
    ASSUME NEW ts \in Nat, NEW clock \in Nat
    PROVE  parseTTL(ts, clock) \in Nat
<1>1. CASE ts > clock
  <2>1. ts - clock \in Nat
    BY <1>1
  <2>2. (ts - clock) \div TicksPerSecond \in Nat
    BY <2>1, RowsAssumption
  <2> QED
    BY <1>1, <2>2 DEF parseTTL
<1>2. CASE ~ (ts > clock)
  BY <1>2 DEF parseTTL
<1> QED
  BY <1>1, <1>2

LEMMA SetFacts ==
    ASSUME NEW v \in Rows, NEW it \in SetItem, NEW clock \in Nat
    PROVE  /\ set(v, it, clock) \in Rows
           /\ Scheduled(v) => Scheduled(set(v, it, clock))
           /\ Listed(v) => Listed(set(v, it, clock))
<1> DEFINE ts == ExpiresAt(clock, it.opts.exp)
           w == set(v, it, clock)
<1>1. /\ it.key \in Key /\ it.value \in Value
      /\ it.opts.exp \in Nat /\ it.opts.cache \in BOOLEAN
  BY DEF SetItem, Options
<1>2. ts \in Nat
  BY <1>1, ExpiresAtType, ZenonT(60)
<1>3. /\ v.data \in [Key -> Value \cup {NoValue}] /\ v.tree \in [Path -> SUBSET Key]
      /\ v.expiration \in [Key -> Nat] /\ v.expiring \subseteq Entry
      /\ v.cache \subseteq Key
  BY DEF Rows
<1> HIDE DEF ts
<1>4. /\ w.data = [v.data EXCEPT ![it.key] = it.value]
      /\ w.tree = IF it.opts.cache THEN v.tree ELSE manageTree(v.tree, it.key)
      /\ w.expiration = IF it.opts.exp > 0 THEN [v.expiration EXCEPT ![it.key] = ts]
                                           ELSE v.expiration
      /\ w.expiring = IF it.opts.exp > 0
                         THEN v.expiring \cup {[ts |-> ts, key |-> it.key]}
                         ELSE v.expiring
      /\ w.cache = IF it.opts.cache THEN v.cache \cup {it.key} ELSE v.cache
  BY DEF set, ts
<1>5. w \in Rows
  <2>1. [ts |-> ts, key |-> it.key] \in Entry
    BY <1>1, <1>2 DEF Entry
  <2>2. w.tree \in [Path -> SUBSET Key]
    BY <1>1, <1>3, <1>4, ManageTreeFacts
  <2>3. w.data \in [Key -> Value \cup {NoValue}]
    BY <1>1, <1>3, <1>4
  <2>4. w.expiration \in [Key -> Nat]
    BY <1>1, <1>2, <1>3, <1>4
  <2>5. w.expiring \subseteq Entry /\ w.cache \subseteq Key
    BY <2>1, <1>1, <1>3, <1>4
  <2>6. w = [data |-> w.data, tree |-> w.tree, expiration |-> w.expiration,
             expiring |-> w.expiring, cache |-> w.cache]
    BY DEF set
  <2> HIDE DEF w
  <2> QED
    BY <2>2, <2>3, <2>4, <2>5, <2>6 DEF Rows
<1> HIDE DEF w
<1>6. ASSUME Scheduled(v) PROVE Scheduled(w)
  BY <1>1, <1>2, <1>3, <1>4, <1>6 DEF Scheduled
<1>7. ASSUME Listed(v) PROVE Listed(w)
  <2> SUFFICES ASSUME NEW k \in Key, Exists(w, k), k \notin w.cache
               PROVE  k \in w.tree[Parent(k)]
    BY DEF Listed
  <2>1. Parent(k) \in Path
    BY ParentIsPath
  <2>2. CASE k = it.key
    BY <2>2, <1>1, <1>3, <1>4, ManageTreeFacts
  <2>3. CASE k # it.key
    <3>1. Exists(v, k) /\ k \notin v.cache
      BY <2>3, <1>1, <1>3, <1>4 DEF Exists
    <3>2. k \in v.tree[Parent(k)]
      BY <3>1, <1>7 DEF Listed
    <3> QED
      BY <3>2, <2>1, <1>1, <1>3, <1>4, ManageTreeFacts
  <2> QED
    BY <2>2, <2>3
<1> QED
  BY <1>5, <1>6, <1>7 DEF w

LEMMA RemoveFacts ==
    ASSUME NEW committed, NEW v \in Rows, NEW k \in Key
    PROVE  LET w == remove(committed, v, k) IN
           /\ w \in Rows
           /\ w.expiration = [v.expiration EXCEPT ![k] = NoTTL]
           /\ w.expiring = v.expiring
           /\ Scheduled(v) => Scheduled(w)
           /\ Listed(v) => Listed(w)
<1> DEFINE w == remove(committed, v, k)
<1>1. /\ v.data \in [Key -> Value \cup {NoValue}] /\ v.tree \in [Path -> SUBSET Key]
      /\ v.expiration \in [Key -> Nat] /\ v.expiring \subseteq Entry
      /\ v.cache \subseteq Key
  BY DEF Rows
<1>2. /\ w.data = [v.data EXCEPT ![k] = NoValue]
      /\ w.tree = IF k \in committed.cache THEN v.tree ELSE removeChild(v, k)
      /\ w.expiration = [v.expiration EXCEPT ![k] = NoTTL]
      /\ w.expiring = v.expiring
      /\ w.cache = IF k \in committed.cache THEN v.cache \ {k} ELSE v.cache
  BY DEF remove
<1>3. w \in Rows
  <2>1. w.tree \in [Path -> SUBSET Key]
    BY <1>1, <1>2, RemoveChildFacts
  <2>2. w.data \in [Key -> Value \cup {NoValue}]
    BY <1>1, <1>2
  <2>3. w.expiration \in [Key -> Nat]
    BY <1>1, <1>2 DEF NoTTL
  <2>4. w.expiring \subseteq Entry /\ w.cache \subseteq Key
    BY <1>1, <1>2
  <2>5. w = [data |-> w.data, tree |-> w.tree, expiration |-> w.expiration,
             expiring |-> w.expiring, cache |-> w.cache]
    BY DEF remove
  <2> HIDE DEF w
  <2> QED
    BY <2>1, <2>2, <2>3, <2>4, <2>5 DEF Rows
<1> HIDE DEF w
<1>4. ASSUME Scheduled(v) PROVE Scheduled(w)
  BY <1>1, <1>2, <1>4 DEF Scheduled, NoTTL
<1>5. ASSUME Listed(v) PROVE Listed(w)
  <2> SUFFICES ASSUME NEW j \in Key, Exists(w, j), j \notin w.cache
               PROVE  j \in w.tree[Parent(j)]
    BY DEF Listed
  <2>1. Parent(j) \in Path
    BY ParentIsPath
  <2>2. j # k /\ Exists(v, j) /\ j \notin v.cache
    BY <1>1, <1>2 DEF Exists
  <2>3. j \in v.tree[Parent(j)]
    BY <2>2, <1>5 DEF Listed
  <2>4. j \notin Unlinked(v, k)
    BY <2>2, RemoveChildFacts
  <2> QED
    BY <2>1, <2>3, <2>4, <1>2 DEF removeChild
<1> QED
  BY <1>2, <1>3, <1>4, <1>5 DEF w

\* The same of every view a remove that succeeds may leave.
LEMMA RemovedFacts ==
    ASSUME view \in Rows, NEW k \in Key, NEW w \in Removed(k)
    PROVE  /\ w \in Rows
           /\ w.expiration = [view.expiration EXCEPT ![k] = NoTTL]
           /\ w.expiring = view.expiring
           /\ Scheduled(view) => Scheduled(w)
           /\ Listed(view) => Listed(w)
<1> DEFINE r == remove(db, view, k)
<1>1. /\ r \in Rows
      /\ r.expiration = [view.expiration EXCEPT ![k] = NoTTL]
      /\ r.expiring = view.expiring
      /\ Scheduled(view) => Scheduled(r)
      /\ Listed(view) => Listed(r)
  BY RemoveFacts
<1>2. w = r \/ w = [r EXCEPT !.cache = view.cache]
  BY DEF Removed, removeKeepsMarker
<1>3. r.cache \subseteq view.cache /\ view.cache \subseteq Key
  BY DEF remove, Rows
<1> HIDE DEF r
<1>4. CASE w = [r EXCEPT !.cache = view.cache]
  <2>1. /\ w \in Rows /\ w.data = r.data /\ w.tree = r.tree /\ w.cache = view.cache
        /\ w.expiration = r.expiration /\ w.expiring = r.expiring
    BY <1>1, <1>3, <1>4 DEF Rows
  <2> QED
    BY <1>1, <1>3, <2>1 DEF Scheduled, Listed, Exists
<1> QED
  BY <1>1, <1>2, <1>4

LEMMA RemoveFailedFacts ==
    ASSUME NEW committed, NEW v \in Rows, NEW k \in Key,
           NEW w \in removeFailed(committed, v, k)
    PROVE  /\ w \in Rows
           /\ \/ w.expiration = v.expiration
              \/ w.expiration = [v.expiration EXCEPT ![k] = NoTTL]
           /\ Scheduled(v) => Scheduled(w)
           /\ Listed(v) => Listed(w)
<1>1. /\ v.data \in [Key -> Value \cup {NoValue}] /\ v.tree \in [Path -> SUBSET Key]
      /\ v.expiration \in [Key -> Nat] /\ v.expiring \subseteq Entry
      /\ v.cache \subseteq Key
  BY DEF Rows
<1>2. PICK U \in SUBSET Unlinked(v, k) :
         /\ w \in Rows
         /\ w.data \in {v.data, [v.data EXCEPT ![k] = NoValue]}
         /\ U # {} => w.data = [v.data EXCEPT ![k] = NoValue]
         /\ w.tree = [p \in Path |-> v.tree[p] \ U]
         /\ w.expiration \in {v.expiration, [v.expiration EXCEPT ![k] = NoTTL]}
         /\ w.expiring = v.expiring /\ w.cache = v.cache
  <2> DEFINE noData == [v EXCEPT !.data[k] = NoValue]
             noRow  == [noData EXCEPT !.expiration[k] = NoTTL]
             below(i) == {c \in Unlinked(v, k) : Len(c) > i}
             cut(i) == [noRow EXCEPT !.tree = [p \in Path |-> v.tree[p] \ below(i)]]
  <2>1. w = v \/ w = noData \/ \E i : w = cut(i)
    BY ZenonT(60) DEF removeFailed
  <2>2. v.tree = [p \in Path |-> v.tree[p] \ {}]
    BY <1>1
  <2>3. ASSUME w = v \/ w = noData
        PROVE  /\ w \in Rows
               /\ w.data \in {v.data, [v.data EXCEPT ![k] = NoValue]}
               /\ w.tree = v.tree /\ w.expiration = v.expiration
               /\ w.expiring = v.expiring /\ w.cache = v.cache
    BY <1>1, <2>3 DEF Rows
  <2>4. ASSUME w = v \/ w = noData
        PROVE  \E U \in SUBSET Unlinked(v, k) : U = {} /\ w.tree = [p \in Path |-> v.tree[p] \ U]
    BY <2>2, <2>3, <2>4, ZenonT(60)
  <2>5. ASSUME NEW i, w = cut(i)
        PROVE  /\ w \in Rows
               /\ w.data = [v.data EXCEPT ![k] = NoValue]
               /\ w.tree = [p \in Path |-> v.tree[p] \ below(i)]
               /\ w.expiration = [v.expiration EXCEPT ![k] = NoTTL]
               /\ w.expiring = v.expiring /\ w.cache = v.cache
    <3> HIDE DEF below
    <3> QED
      BY <1>1, <2>5, ZenonT(60) DEF Rows, NoTTL
  <2>6. \A i : below(i) \subseteq Unlinked(v, k)
    OBVIOUS
  <2> HIDE DEF cut, below, noData
  <2>7. CASE w = v \/ w = noData
    <3>1. PICK U \in SUBSET Unlinked(v, k) : U = {} /\ w.tree = [p \in Path |-> v.tree[p] \ U]
      BY <2>4, <2>7, ZenonT(60)
    <3> QED
      BY <2>3, <2>7, <3>1
  <2>8. CASE \E i : w = cut(i)
    <3>1. PICK i : w = cut(i)
      BY <2>8
    <3>2. below(i) \in SUBSET Unlinked(v, k)
      BY <2>6
    <3> QED
      BY <2>5, <3>1, <3>2, ZenonT(60)
  <2> QED
    BY <2>1, <2>7, <2>8, ZenonT(60)
<1>3. ASSUME Scheduled(v) PROVE Scheduled(w)
  BY <1>1, <1>2, <1>3 DEF Scheduled, NoTTL
<1>4. ASSUME Listed(v) PROVE Listed(w)
  <2> SUFFICES ASSUME NEW j \in Key, Exists(w, j), j \notin w.cache
               PROVE  j \in w.tree[Parent(j)]
    BY DEF Listed
  <2>1. Parent(j) \in Path
    BY ParentIsPath
  <2>2. Exists(v, j) /\ j \notin v.cache /\ (U # {} => j # k)
    BY <1>1, <1>2 DEF Exists
  <2>3. j \in v.tree[Parent(j)]
    BY <2>2, <1>4 DEF Listed
  <2>4. j \notin U
    BY <2>2, <1>2, RemoveChildFacts
  <2> QED
    BY <2>1, <2>3, <2>4, <1>2
<1> QED
  BY <1>2, <1>3, <1>4

LEMMA MoveFacts ==
    ASSUME NEW u \in Rows, NEW v \in Rows, NEW m \in MoveItem, NEW clock \in Nat,
           Exists(v, m.key)
    PROVE  LET w == move(u, v, m, clock) IN
           /\ w \in Rows
           /\ Scheduled(u) => Scheduled(w)
           /\ Listed(u) => Listed(w)
<1>1. /\ m.key \in Key /\ m.dest \in Key
      /\ m.opts.exp \in Nat /\ m.opts.cache \in BOOLEAN /\ m.opts.ifNotExists \in BOOLEAN
  BY DEF MoveItem, Options
<1>2. v.data[m.key] \in Value /\ v.expiration[m.key] \in Nat
  BY <1>1 DEF Rows, Exists
<1>3. parseTTL(v.expiration[m.key], clock) \in Nat
  BY <1>2, ParseTTLType, ZenonT(60)
<1>4. moved(v, m, clock) \in SetItem
  BY <1>1, <1>2, <1>3 DEF moved, SetItem, Options
<1> QED
  BY <1>4, SetFacts DEF move
-----------------------------------------------------------------------------
(* The inductive invariant.  The properties speak of the committed rows,   *)
(* which a commit replaces by the transaction's view, so they are kept for *)
(* the view as well; and while the cleaner runs, every TTL that has run    *)
(* out is among the entries it has still to handle or has skipped.         *)

Collected ==
    op = "clear" =>
        \A k \in Key : view.expiration[k] # NoTTL /\ view.expiration[k] < limit =>
            [ts |-> view.expiration[k], key |-> k] \in expired \cup skipped

RowsOK == /\ Scheduled(db) /\ Scheduled(view)
          /\ Listed(db) /\ Listed(view)

IInv == TypeOK /\ RowsOK /\ Collected

\* What is taken from a sequence has the type of its elements.
LEMMA HeadTail ==
    ASSUME NEW S, NEW s \in Seq(S), s # <<>>
    PROVE  Head(s) \in S /\ Tail(s) \in Seq(S)
OBVIOUS

\* The empty database satisfies the invariant.
LEMMA InitIInv == Init => IInv
<1> SUFFICES ASSUME Init PROVE IInv
  OBVIOUS
<1>1. NoRows \in Rows /\ Scheduled(NoRows) /\ Listed(NoRows)
  BY DEF NoRows, Rows, Scheduled, Listed, Exists, NoTTL
<1>2. NoCache \in [Key -> Value \cup {NoValue}]
  BY DEF NoCache
<1>3. db = NoRows /\ view = NoRows /\ op = "idle"
  BY DEF Init
<1>4. TypeOK
  <2>1. now \in Nat \ {0} /\ limit \in Nat
    BY DEF Init
  <2>2. stop \in BOOLEAN
    BY Zenon DEF Init
  <2> QED
    BY <1>1, <1>2, <2>1, <2>2, Zenon DEF Init, TypeOK
<1>5. RowsOK /\ Collected
  BY <1>1, <1>3 DEF RowsOK, Collected
<1> QED
  BY <1>4, <1>5 DEF IInv

\* Ending a transaction with rows that satisfy the invariant.
LEMMA EndIInv ==
    ASSUME IInv, NEW rows \in Rows, Scheduled(rows), Listed(rows), End(rows),
           vcache' \in [Key -> Value \cup {NoValue}],
           now' \in Nat \ {0},
           fills' \subseteq [key : Key, value : Value],
           stop' \in BOOLEAN
    PROVE  IInv'
<1>1. TypeOK'
  BY DEF End, TypeOK
<1>2. RowsOK'
  BY DEF End, RowsOK
<1>3. Collected'
  BY DEF End, Collected
<1> QED
  BY <1>1, <1>2, <1>3 DEF IInv

LEMMA CachePutType ==
    ASSUME NEW cache \in [Key -> Value \cup {NoValue}], NEW k \in Key,
           NEW v \in Value \cup {NoValue}
    PROVE  CachePut(cache, k, v) \in [Key -> Value \cup {NoValue}]
BY DEF CachePut

LEMMA CacheEraseType ==
    ASSUME NEW cache \in [Key -> Value \cup {NoValue}], NEW k \in Key
    PROVE  CacheErase(cache, k) \in [Key -> Value \cup {NoValue}]
BY DEF CacheErase, CachePut

\* Every step of a client transaction keeps the invariant.
LEMMA ClientIInv == IInv /\ Client => IInv'
<1> SUFFICES ASSUME IInv, Client PROVE IInv'
  OBVIOUS
<1>0. TypeOK /\ RowsOK /\ now \in Nat
  BY DEF IInv, TypeOK
<1>1. ASSUME NEW r \in Requests, Request(r) PROVE IInv'
  <2>1. \/ r.op = "set" /\ r.items \in Seq(SetItem)
        \/ r.op = "remove" /\ r.items \in Seq([key : Key])
        \/ r.op = "move" /\ r.items \in Seq(MoveItem)
    BY StorageAssumption, ZenonT(60) DEF RequestOf
  <2>2. TypeOK'
    BY <1>0, <1>1, <2>1 DEF Request, BeginTransaction, TypeOK
  <2>3. RowsOK'
    BY <1>0, <1>1 DEF Request, BeginTransaction, RowsOK
  <2>4. Collected'
    BY <1>1, <2>1 DEF Request, BeginTransaction, Collected
  <2> QED
    BY <2>2, <2>3, <2>4 DEF IInv
<1>2. ASSUME SetStep PROVE IInv'
  <2> DEFINE it == Head(items)
  <2>1. op = "set" /\ items \in Seq(SetItem) /\ items # <<>>
    BY <1>0, <1>2 DEF SetStep, TypeOK
  <2>2. it \in SetItem /\ Tail(items) \in Seq(SetItem)
    BY <2>1
  <2>3. it.key \in Key /\ it.value \in Value
    BY <2>2 DEF SetItem
  <2>4. ItemDone(set(view, it, now), CachePut(vcache, it.key, it.value))
    BY <1>2 DEF SetStep
  <2>5. CachePut(vcache, it.key, it.value) \in [Key -> Value \cup {NoValue}]
    BY <1>0, <2>3, CachePutType DEF TypeOK
  <2>6. /\ set(view, it, now) \in Rows
        /\ Scheduled(set(view, it, now)) /\ Listed(set(view, it, now))
    BY <1>0, <2>2, SetFacts DEF TypeOK, RowsOK
  <2> HIDE DEF it
  <2>7. TypeOK'
    BY <1>0, <2>1, <2>2, <2>4, <2>5, <2>6 DEF ItemDone, TypeOK
  <2>8. RowsOK' /\ Collected'
    BY <1>0, <2>1, <2>4, <2>6 DEF ItemDone, RowsOK, Collected
  <2> QED
    BY <2>7, <2>8 DEF IInv
<1>3. ASSUME RemoveStep PROVE IInv'
  <2> DEFINE k == Head(items).key
  <2>1. op = "remove" /\ items \in Seq([key : Key]) /\ items # <<>>
    BY <1>0, <1>3 DEF RemoveStep, TypeOK
  <2>2. k \in Key /\ Tail(items) \in Seq([key : Key])
    <3>1. Head(items) \in [key : Key] /\ Tail(items) \in Seq([key : Key])
      BY <2>1, HeadTail, ZenonT(60)
    <3> QED
      BY <3>1
  <2>3. PICK w \in Removed(k) : ItemDone(w, CacheErase(vcache, k))
    BY <1>3 DEF RemoveStep
  <2>4. CacheErase(vcache, k) \in [Key -> Value \cup {NoValue}]
    BY <1>0, <2>2, CacheEraseType DEF TypeOK
  <2>5. w \in Rows /\ Scheduled(w) /\ Listed(w)
    BY <1>0, <2>2, RemovedFacts, ZenonT(60) DEF TypeOK, RowsOK
  <2> HIDE DEF k
  <2>6. TypeOK'
    BY <1>0, <2>1, <2>2, <2>3, <2>4, <2>5 DEF ItemDone, TypeOK
  <2>7. RowsOK' /\ Collected'
    BY <1>0, <2>1, <2>3, <2>5 DEF ItemDone, RowsOK, Collected
  <2> QED
    BY <2>6, <2>7 DEF IInv
<1>4. ASSUME MoveStep PROVE IInv'
  <2> DEFINE m == Head(items)
             c == CachePut(CacheErase(vcache, m.key), m.dest, view.data[m.key])
  <2>1. op = "move" /\ items \in Seq(MoveItem) /\ items # <<>>
    BY <1>0, <1>4 DEF MoveStep, TypeOK
  <2>2. m \in MoveItem /\ Tail(items) \in Seq(MoveItem)
    BY <2>1
  <2>3. m.key \in Key /\ m.dest \in Key
    BY <2>2 DEF MoveItem
  <2>4. PICK u \in Removed(m.key) :
           ItemDone(move(u, view, m, now), c) /\ Exists(view, m.key)
    BY <1>4 DEF MoveStep, moveAllowed
  <2> DEFINE w == move(u, view, m, now)
  <2>5. view.data[m.key] \in Value \cup {NoValue}
    BY <1>0, <2>3 DEF TypeOK, Rows
  <2>6. c \in [Key -> Value \cup {NoValue}]
    <3>1. CacheErase(vcache, m.key) \in [Key -> Value \cup {NoValue}]
      BY <1>0, <2>3, CacheEraseType DEF TypeOK
    <3> QED
      BY <2>3, <2>5, <3>1, CachePutType
  <2>7. w \in Rows /\ Scheduled(w) /\ Listed(w)
    <3>1. u \in Rows /\ Scheduled(u) /\ Listed(u)
      BY <1>0, <2>3, RemovedFacts, ZenonT(60) DEF TypeOK, RowsOK
    <3> QED
      BY <1>0, <2>2, <2>4, <3>1, MoveFacts DEF TypeOK
  <2>8. ItemDone(w, c)
    BY <2>4
  <2> HIDE DEF m, w, c
  <2>9. TypeOK'
    BY <1>0, <2>1, <2>2, <2>6, <2>7, <2>8 DEF ItemDone, TypeOK
  <2>10. RowsOK' /\ Collected'
    BY <1>0, <2>1, <2>7, <2>8 DEF ItemDone, RowsOK, Collected
  <2> QED
    BY <2>9, <2>10 DEF IInv
<1>5. ASSUME Reject \/ Commit \/ CommitFails PROVE IInv'
  BY <1>0, <1>5, EndIInv DEF Reject, Commit, CommitFails, TypeOK, RowsOK
<1>6. ASSUME WriteFails PROVE IInv'
  <2>1. vcache' \in [Key -> Value \cup {NoValue}]
    <3>1. CASE UNCHANGED vcache
      BY <1>0, <3>1 DEF TypeOK
    <3>2. CASE op = "move" /\ vcache' = CacheErase(vcache, Head(items).key)
      <4>1. Head(items).key \in Key
        <5>1. items \in Seq(MoveItem) /\ items # <<>>
          BY <1>0, <1>6, <3>2 DEF WriteFails, TypeOK
        <5>2. Head(items) \in MoveItem
          BY <5>1
        <5> QED
          BY <5>2 DEF MoveItem
      <4> QED
        BY <1>0, <3>2, <4>1, CacheEraseType DEF TypeOK
    <3> QED
      BY <1>6, <3>1, <3>2 DEF WriteFails
  <2> QED
    BY <1>0, <1>6, <2>1, EndIInv DEF WriteFails, TypeOK, RowsOK
<1> QED
  BY <1>1, <1>2, <1>3, <1>4, <1>5, <1>6 DEF Client

\* Every step of the cleaner keeps the invariant.
LEMMA CleanerIInv == IInv /\ Cleaner => IInv'
<1> SUFFICES ASSUME IInv, Cleaner PROVE IInv'
  OBVIOUS
<1>0. TypeOK /\ RowsOK /\ Collected
  BY DEF IInv
<1>1. ASSUME ClearBegin PROVE IInv'
  <2>1. TypeOK'
    <3>1. expired' \subseteq Entry
      BY <1>0, <1>1 DEF ClearBegin, TypeOK, Rows
    <3> QED
      BY <1>0, <1>1, <3>1 DEF ClearBegin, BeginTransaction, TypeOK
  <2>2. RowsOK'
    BY <1>0, <1>1 DEF ClearBegin, BeginTransaction, RowsOK
  <2>3. Collected'
    <3> SUFFICES ASSUME NEW k \in Key, db.expiration[k] # NoTTL, db.expiration[k] < now
                 PROVE  [ts |-> db.expiration[k], key |-> k] \in expired'
      BY <1>1 DEF ClearBegin, BeginTransaction, Collected
    <3>1. [ts |-> db.expiration[k], key |-> k] \in db.expiring
      BY <1>0 DEF RowsOK, Scheduled
    <3> QED
      BY <1>1, <3>1 DEF ClearBegin
  <2> QED
    BY <2>1, <2>2, <2>3 DEF IInv
<1>2. ASSUME ClearStep PROVE IInv'
  <2>1. op = "clear"
    BY <1>2 DEF ClearStep
  <2>2. PICK e \in Earliest(expired) :
           /\ \E w \in Removed(e.key) : view' = [w EXCEPT !.expiring = @ \ {e}]
           /\ vcache' = CacheErase(vcache, e.key)
           /\ expired' = expired \ {e}
    BY <1>2, ZenonT(60) DEF ClearStep
  <2>3. e \in Entry /\ e.key \in Key
    BY <1>0, <2>2 DEF Earliest, TypeOK, Entry
  <2>4. PICK w \in Removed(e.key) : view' = [w EXCEPT !.expiring = @ \ {e}]
    BY <2>2, ZenonT(60)
  <2>5. /\ w \in Rows /\ Scheduled(w) /\ Listed(w)
        /\ w.expiration = [view.expiration EXCEPT ![e.key] = NoTTL]
        /\ w.expiring = view.expiring
    <3>1. view \in Rows /\ Scheduled(view) /\ Listed(view)
      BY <1>0 DEF TypeOK, RowsOK
    <3>2. e.key \in Key
      BY <2>3
    <3> QED
      BY <3>1, <3>2, RemovedFacts
  <2>6. /\ view' \in Rows
        /\ view'.expiration = w.expiration /\ view'.expiring = w.expiring \ {e}
        /\ view'.data = w.data /\ view'.tree = w.tree /\ view'.cache = w.cache
    BY <2>5, <2>4 DEF Rows
  <2>7. w.expiration[e.key] = NoTTL
    BY <1>0, <2>3, <2>5 DEF TypeOK, Rows
  <2>8. Scheduled(view')
    <3> SUFFICES ASSUME NEW k \in Key, w.expiration[k] # NoTTL
                 PROVE  [ts |-> w.expiration[k], key |-> k] \in w.expiring \ {e}
      BY <2>6 DEF Scheduled
    <3>1. k # e.key
      BY <2>7
    <3>2. [ts |-> w.expiration[k], key |-> k] \in w.expiring
      BY <2>5 DEF Scheduled
    <3> QED
      BY <3>1, <3>2
  <2>9. Listed(view')
    BY <2>5, <2>6 DEF Listed, Exists
  <2>10. TypeOK'
    <3>1. vcache' \in [Key -> Value \cup {NoValue}]
      BY <1>0, <2>2, <2>3, CacheEraseType DEF TypeOK
    <3> QED
      BY <1>0, <1>2, <2>2, <2>6, <3>1 DEF ClearStep, TypeOK
  <2>11. Collected'
    <3> SUFFICES ASSUME NEW k \in Key, w.expiration[k] # NoTTL, w.expiration[k] < limit
                 PROVE  [ts |-> w.expiration[k], key |-> k] \in expired' \cup skipped
      BY <1>2, <2>6 DEF ClearStep, Collected
    <3>1. k # e.key
      BY <2>7
    <3>2. w.expiration[k] = view.expiration[k]
      BY <1>0, <2>3, <2>5, <3>1 DEF TypeOK, Rows
    <3> QED
      BY <1>0, <2>1, <2>2, <3>1, <3>2 DEF Collected
  <2> QED
    BY <1>0, <1>2, <2>8, <2>9, <2>10, <2>11 DEF IInv, RowsOK, ClearStep
<1>3. ASSUME ClearSkip PROVE IInv'
  <2>1. op = "clear"
    BY <1>3 DEF ClearSkip
  <2>2. PICK e \in Earliest(expired) :
           /\ view' \in removeFailed(db, view, e.key)
           /\ expired' = expired \ {e}
           /\ skipped' = skipped \cup {e}
    BY <1>3 DEF ClearSkip
  <2>3. e \in Entry /\ e \in expired /\ e.key \in Key
    BY <1>0, <2>2 DEF Earliest, TypeOK, Entry
  <2>4. /\ view' \in Rows /\ Scheduled(view') /\ Listed(view')
        /\ \/ view'.expiration = view.expiration
           \/ view'.expiration = [view.expiration EXCEPT ![e.key] = NoTTL]
    <3>1. view \in Rows /\ Scheduled(view) /\ Listed(view)
      BY <1>0 DEF TypeOK, RowsOK
    <3>2. e.key \in Key /\ view' \in removeFailed(db, view, e.key)
      BY <2>2, <2>3
    <3> QED
      BY <3>1, <3>2, RemoveFailedFacts
  <2>5. TypeOK'
    BY <1>0, <1>3, <2>2, <2>3, <2>4 DEF ClearSkip, TypeOK
  <2>6. Collected'
    <3> SUFFICES ASSUME NEW k \in Key, view'.expiration[k] # NoTTL,
                        view'.expiration[k] < limit
                 PROVE  [ts |-> view'.expiration[k], key |-> k] \in expired' \cup skipped'
      BY <1>3 DEF ClearSkip, Collected
    <3>1. view'.expiration[k] = view.expiration[k]
      BY <1>0, <2>3, <2>4, ZenonT(60) DEF TypeOK, Rows
    <3>2. expired \cup skipped \subseteq expired' \cup skipped'
      BY <2>2
    <3> QED
      BY <1>0, <2>1, <3>1, <3>2 DEF Collected
  <2> QED
    BY <1>0, <1>3, <2>4, <2>5, <2>6 DEF IInv, RowsOK, ClearSkip
<1>4. ASSUME ClearCommit \/ ClearCommitFails \/ ClearReturn PROVE IInv'
  BY <1>0, <1>4, EndIInv
     DEF ClearCommit, ClearCommitFails, ClearReturn, TypeOK, RowsOK
<1> QED
  BY <1>1, <1>2, <1>3, <1>4 DEF Cleaner

\* Steps that touch neither the rows nor the transaction.
LEMMA OtherIInv == IInv /\ (ValueCache \/ Tick \/ Stop \/ Restart) => IInv'
<1> SUFFICES ASSUME IInv, ValueCache \/ Tick \/ Stop \/ Restart PROVE IInv'
  OBVIOUS
<1>0. TypeOK /\ RowsOK /\ Collected
  BY DEF IInv
<1>1. NoCache \in [Key -> Value \cup {NoValue}]
  BY DEF NoCache
<1>2. CASE Restart
  BY <1>0, <1>1, <1>2, EndIInv, ZenonT(60) DEF Restart, TypeOK, RowsOK
<1>3. CASE ValueCache \/ Tick \/ Stop
  <2>1. UNCHANGED <<db, txnVars>>
    BY <1>3 DEF ValueCache, GetRead, GetFill, CacheClear, Tick, Stop
  <2>2. RowsOK' /\ Collected'
    BY <1>0, <2>1 DEF txnVars, RowsOK, Collected
  <2>3. vcache' \in [Key -> Value \cup {NoValue}]
    <3>1. CASE GetFill
      <4>1. PICK f \in fills : vcache' = CachePut(vcache, f.key, f.value)
        BY <3>1 DEF GetFill
      <4>2. f.key \in Key /\ f.value \in Value
        BY <1>0 DEF TypeOK
      <4> QED
        BY <1>0, <4>1, <4>2, CachePutType DEF TypeOK
    <3> QED
      BY <1>0, <1>1, <1>3, <3>1
         DEF ValueCache, GetRead, CacheClear, Tick, Stop, TypeOK
  <2>4. fills' \subseteq [key : Key, value : Value]
    <3>1. ASSUME NEW k \in Key, GetRead(k) PROVE db.data[k] \in Value
      BY <1>0, <3>1, SMTT(30) DEF GetRead, Exists, TypeOK, Rows
    <3>2. fills \subseteq [key : Key, value : Value]
      BY <1>0 DEF TypeOK
    <3>3. ASSUME NEW k \in Key, GetRead(k)
          PROVE  fills' \subseteq [key : Key, value : Value]
      <4>1. fills' = fills \cup {[key |-> k, value |-> db.data[k]]}
        BY <3>3 DEF GetRead
      <4> QED
        BY <3>1, <3>2, <3>3, <4>1
    <3>4. ASSUME GetFill \/ CacheClear \/ Tick \/ Stop PROVE fills' \subseteq fills
      BY <3>4 DEF GetFill, CacheClear, Tick, Stop
    <3> QED
      BY <1>3, <3>2, <3>3, <3>4 DEF ValueCache
  <2>5. now' \in Nat \ {0}
    <3>1. now \in Nat \ {0}
      BY <1>0 DEF TypeOK
    <3>2. now' = now \/ now' = now + 1
      BY <1>3 DEF ValueCache, GetRead, GetFill, CacheClear, Tick, Stop
    <3> QED
      BY <3>1, <3>2
  <2>6. stop' \in BOOLEAN
    BY <1>0, <1>3, Zenon
       DEF ValueCache, GetRead, GetFill, CacheClear, Tick, Stop, TypeOK
  <2>7. TypeOK'
    BY <1>0, <2>1, <2>3, <2>4, <2>5, <2>6 DEF txnVars, TypeOK
  <2> QED
    BY <2>2, <2>7 DEF IInv
<1> QED
  BY <1>2, <1>3

LEMMA StepIInv == IInv /\ [Next]_vars => IInv'
<1>1. IInv /\ UNCHANGED vars => IInv'
  BY DEF IInv, TypeOK, RowsOK, Collected, vars
<1> QED
  BY <1>1, ClientIInv, CleanerIInv, OtherIInv DEF Next

LEMMA Invariance == Spec => []IInv
BY InitIInv, StepIInv, PTL DEF Spec
-----------------------------------------------------------------------------
(* The theorems. *)

\* Every variable keeps its type, whatever clients request and whatever fails.
THEOREM TypeCorrect == Spec => []TypeOK
<1>1. IInv => TypeOK
  BY DEF IInv
<1> QED
  BY <1>1, Invariance, PTL

\* A key with a TTL always has an entry at that time in the expiring family
\* (set, remove, move and clearExpired), so a later pass will remove it.
THEOREM ExpiryScheduled == Spec => []ExpiryIsScheduled
<1>1. IInv => ExpiryIsScheduled
  BY DEF IInv, RowsOK, ExpiryIsScheduled
<1> QED
  BY <1>1, Invariance, PTL

\* A stored key without a marker is always listed by its parent: removeChild
\* stops its walk below every path that has a value.
THEOREM RegularListed == Spec => []RegularKeyListed
<1>1. IInv => RegularKeyListed
  BY DEF IInv, RowsOK, RegularKeyListed
<1> QED
  BY <1>1, Invariance, PTL

\* A complete pass of clearExpired leaves no key whose TTL had run out when
\* it began, except those it reported it could not remove.
THEOREM PassComplete == Spec => PassRemovesExpired
<1>1. IInv /\ [Next]_vars =>
        [ClearCommit /\ expired = {} =>
           \A k \in Key : db'.expiration[k] # NoTTL /\ db'.expiration[k] < limit =>
              [ts |-> db'.expiration[k], key |-> k] \in skipped]_vars
  <2> SUFFICES ASSUME IInv, ClearCommit, expired = {}, NEW k \in Key,
                      db'.expiration[k] # NoTTL, db'.expiration[k] < limit
               PROVE  [ts |-> db'.expiration[k], key |-> k] \in skipped
    OBVIOUS
  <2>1. op = "clear" /\ db' = view
    BY DEF ClearCommit, End
  <2> QED
    BY <2>1 DEF IInv, Collected
<1> QED
  BY <1>1, Invariance, PTL DEF Spec, PassRemovesExpired
-----------------------------------------------------------------------------
(* The storage engine implements Store: every step of Storage is, for the  *)
(* callers, a step of Store or no step at all.                             *)

Mortal(v) == {e.key : e \in v.expiring}

\* While the cleaner's transaction is open it has only removed keys that
\* committed entries of the expiring family name, and only dropped entries.
\* Items are left only while a request is open.
ClearOnly ==
    /\ ~ InRequest => items = <<>>
    /\ op = "clear" =>
        /\ expired \subseteq db.expiring
        /\ view.expiring \subseteq db.expiring
        /\ \A k \in Key : \/ view.data[k] = db.data[k]
                          \/ view.data[k] = NoValue /\ k \in Mortal(db)

LEMMA VisibleSet ==
    ASSUME NEW v \in Rows, NEW it \in SetItem, NEW clock \in Nat
    PROVE  Visible(set(v, it, clock)) =
             [data   |-> [v.data EXCEPT ![it.key] = it.value],
              mortal |-> Mortal(v) \cup (IF it.opts.exp > 0 THEN {it.key} ELSE {})]
<1> DEFINE w == set(v, it, clock)
           e == [ts |-> ExpiresAt(clock, it.opts.exp), key |-> it.key]
           more == IF it.opts.exp > 0 THEN {e} ELSE {}
           mortal == IF it.opts.exp > 0 THEN {it.key} ELSE {}
<1> SUFFICES Visible(w) = [data   |-> [v.data EXCEPT ![it.key] = it.value],
                           mortal |-> Mortal(v) \cup mortal]
  OBVIOUS
<1>1. w.data = [v.data EXCEPT ![it.key] = it.value]
  BY DEF set
<1>2. w.expiring = v.expiring \cup more
  BY DEF set
<1>3. {x.key : x \in more} = mortal
  <2>1. e.key = it.key
    OBVIOUS
  <2> HIDE DEF e
  <2> QED
    BY <2>1
<1> HIDE DEF w, more, mortal
<1>4. Mortal(w) = Mortal(v) \cup mortal
  BY <1>2, <1>3 DEF Mortal
<1> QED
  BY <1>1, <1>4, ZenonT(60) DEF Visible, Mortal

LEMMA VisibleRemoved ==
    ASSUME view \in Rows, NEW k \in Key, NEW w \in Removed(k)
    PROVE  w.data = [view.data EXCEPT ![k] = NoValue] /\ w.expiring = view.expiring
<1> DEFINE r == remove(db, view, k)
<1>1. r \in Rows
  BY RemoveFacts, ZenonT(60)
<1>2. r.data = [view.data EXCEPT ![k] = NoValue] /\ r.expiring = view.expiring
  BY DEF remove
<1>3. w = r \/ w = [r EXCEPT !.cache = view.cache]
  BY DEF Removed, removeKeepsMarker
<1> HIDE DEF r
<1> QED
  BY <1>1, <1>2, <1>3 DEF Rows

LEMMA VisibleRemoveFailed ==
    ASSUME view \in Rows, NEW k \in Key, NEW w \in removeFailed(db, view, k)
    PROVE  /\ w.data \in {view.data, [view.data EXCEPT ![k] = NoValue]}
           /\ w.expiring = view.expiring
<1> DEFINE noData == [view EXCEPT !.data[k] = NoValue]
           noRow  == [noData EXCEPT !.expiration[k] = NoTTL]
<1>1. w = view \/ w = noData \/ \E tree : w = [noRow EXCEPT !.tree = tree]
  BY ZenonT(60) DEF removeFailed
<1>2. /\ view.data \in [Key -> Value \cup {NoValue}] /\ view.tree \in [Path -> SUBSET Key]
      /\ view.expiration \in [Key -> Nat] /\ view.expiring \subseteq Entry
      /\ view.cache \subseteq Key
  BY DEF Rows
<1>3. /\ noData \in Rows /\ noData.data = [view.data EXCEPT ![k] = NoValue]
      /\ noData.expiring = view.expiring
  BY <1>2 DEF Rows
<1>4. /\ noRow \in Rows /\ noRow.data = noData.data
      /\ noRow.expiring = noData.expiring
  <2> HIDE DEF noData
  <2> QED
    BY <1>3 DEF Rows, NoTTL
<1> HIDE DEF noRow, noData
<1>5. ASSUME NEW tree, w = [noRow EXCEPT !.tree = tree]
      PROVE  w.data = noRow.data /\ w.expiring = noRow.expiring
  BY <1>4, <1>5 DEF Rows
<1> QED
  BY <1>1, <1>3, <1>4, <1>5
-----------------------------------------------------------------------------
LEMMA ClearOnlyInvariant == IInv /\ ClearOnly /\ [Next]_vars => ClearOnly'
<1>a. ASSUME IInv, ClearOnly, [Next]_vars PROVE ~ InRequest' => items' = <<>>
  <2>1. ASSUME NEW r \in Requests, Request(r) PROVE InRequest'
    BY <2>1, StorageAssumption DEF Request, BeginTransaction, RequestOf, InRequest
  <2> QED
    BY <1>a, <2>1 DEF ClearOnly, InRequest, Next, Client, SetStep, RemoveStep,
       MoveStep, ItemDone, Reject, WriteFails, Commit, CommitFails, Cleaner,
       ClearBegin, BeginTransaction, ClearStep, ClearSkip, ClearCommit,
       ClearCommitFails, ClearReturn, ValueCache, GetRead, GetFill, CacheClear,
       Tick, Stop, Restart, End, vars, txnVars
<1> SUFFICES ASSUME IInv, ClearOnly, [Next]_vars, op' = "clear" PROVE ClearOnly'
  BY <1>a DEF ClearOnly
<1>b. ~ InRequest' /\ items' = <<>>
  BY <1>a DEF InRequest
<1>0. TypeOK
  BY DEF IInv
<1>1. CASE ClearBegin
  BY <1>b, <1>1 DEF ClearBegin, BeginTransaction, ClearOnly
<1>2. CASE ClearStep
  <2>1. PICK e \in expired :
           /\ \E w \in Removed(e.key) : view' = [w EXCEPT !.expiring = @ \ {e}]
           /\ expired' = expired \ {e}
    BY <1>2, ZenonT(60) DEF ClearStep, Earliest
  <2>w. PICK w \in Removed(e.key) : view' = [w EXCEPT !.expiring = @ \ {e}]
    BY <2>1, ZenonT(60)
  <2>2. op = "clear" /\ UNCHANGED db
    BY <1>2 DEF ClearStep
  <2>3. e.key \in Key /\ e.key \in Mortal(db)
    BY <1>0, <2>1, <2>2 DEF ClearOnly, Mortal, TypeOK, Entry
  <2>4. w \in Rows
    BY <1>0, <2>w, <2>3, RemovedFacts, ZenonT(60) DEF TypeOK, IInv, RowsOK
  <2>5. view'.data = [view.data EXCEPT ![e.key] = NoValue]
        /\ view'.expiring = view.expiring \ {e}
    <3>1. w.data = [view.data EXCEPT ![e.key] = NoValue] /\ w.expiring = view.expiring
      BY <1>0, <2>3, VisibleRemoved, ZenonT(60) DEF TypeOK
    <3> QED
      BY <2>w, <2>4, <3>1 DEF Rows
  <2> QED
    BY <1>b, <1>0, <2>1, <2>2, <2>3, <2>5 DEF ClearOnly, TypeOK, Rows
<1>3. CASE ClearSkip
  <2>1. PICK e \in expired :
           view' \in removeFailed(db, view, e.key) /\ expired' = expired \ {e}
    BY <1>3 DEF ClearSkip, Earliest
  <2>2. op = "clear" /\ UNCHANGED db
    BY <1>3 DEF ClearSkip
  <2>3. e.key \in Key /\ e.key \in Mortal(db)
    BY <1>0, <2>1, <2>2 DEF ClearOnly, Mortal, TypeOK, Entry
  <2>4. view'.data \in {view.data, [view.data EXCEPT ![e.key] = NoValue]}
        /\ view'.expiring = view.expiring
    BY <1>0, <2>1, <2>3, VisibleRemoveFailed DEF TypeOK
  <2> QED
    BY <1>b, <1>0, <2>1, <2>2, <2>3, <2>4 DEF ClearOnly, TypeOK, Rows
<1>4. CASE UNCHANGED <<db, txnVars>>
  BY <1>b, <1>4 DEF txnVars, ClearOnly, Mortal
<1>5. CASE Client \/ ClearCommit \/ ClearCommitFails \/ ClearReturn \/ Restart
  <2>1. ~ \E r \in Requests : Request(r)
    BY StorageAssumption DEF Request, BeginTransaction, RequestOf
  <2> QED
    BY <1>5, <2>1, ZenonT(60) DEF Client, SetStep, RemoveStep, MoveStep, ItemDone, Reject,
       WriteFails, Commit, CommitFails, ClearCommit, ClearCommitFails,
       ClearReturn, Restart, End
<1> QED
  BY <1>1, <1>2, <1>3, <1>4, <1>5 DEF Next, Cleaner, ValueCache, GetRead,
     GetFill, CacheClear, Tick, Stop, vars, txnVars
-----------------------------------------------------------------------------
\* The empty database is the empty store.
LEMMA StoreInit == Init => Promise!Init
<1> SUFFICES ASSUME Init PROVE Promise!Init
  OBVIOUS
<1>1. Visible(db) = [data |-> [k \in Key |-> NoValue], mortal |-> {}]
  BY ZenonT(60) DEF Init, NoRows, Visible
<1> QED
  BY <1>1, ZenonT(60) DEF Init, Promise!Init, InRequest

\* A step that keeps the committed rows and opens, closes or continues no
\* request is not seen by callers.
LEMMA Unseen ==
    ASSUME UNCHANGED <<db, items>>, ~ InRequest, ~ InRequest'
    PROVE  UNCHANGED Promise!vars
BY DEF Promise!vars, Visible, InRequest

\* A step of a client transaction is the step of Store with its name; a
\* failure is Abort.
LEMMA ClientStore == IInv /\ Client => [Promise!Next]_(Promise!vars)
<1> SUFFICES ASSUME IInv, Client PROVE Promise!Next \/ UNCHANGED Promise!vars
  OBVIOUS
<1>0. TypeOK /\ view \in Rows /\ db \in Rows /\ now \in Nat
  BY DEF IInv, TypeOK
<1>1. ASSUME NEW r \in Requests, Request(r) PROVE Promise!Begin(r)
  <2>1. r.op \in {"set", "remove", "move"}
    BY StorageAssumption DEF RequestOf
  <2> QED
    BY <1>1, <2>1 DEF Request, BeginTransaction, Promise!Begin, InRequest, Visible
<1>2. ASSUME SetStep PROVE Promise!Set
  <2> DEFINE it == Head(items)
  <2>1. /\ op = "set" /\ op' = "set" /\ items # <<>> /\ items' = Tail(items)
        /\ db' = db /\ setAllowed(view, it) /\ view' = set(view, it, now)
    BY <1>2 DEF SetStep, ItemDone
  <2>2. it \in SetItem
    BY <1>0, <2>1, HeadTail DEF TypeOK
  <2>3. Visible(view') =
             [data   |-> [view.data EXCEPT ![it.key] = it.value],
              mortal |-> Mortal(view) \cup (IF it.opts.exp > 0 THEN {it.key} ELSE {})]
    BY <1>0, <2>1, <2>2, VisibleSet, ZenonT(60)
  <2>4. Visible(view).data = view.data /\ Visible(view).mortal = Mortal(view)
    BY DEF Visible, Mortal
  <2>5. it.opts.ifNotExists => view.data[it.key] = NoValue
    BY <2>1 DEF setAllowed, Exists
  <2>6. Visible(db)' = Visible(db) /\ Visible(view)' = Visible(view')
    BY <2>1 DEF Visible
  <2> HIDE DEF it
  <2> QED
    BY <2>1, <2>3, <2>4, <2>5, <2>6 DEF Promise!Set, Promise!Apply, InRequest, it
<1>3. ASSUME RemoveStep PROVE Promise!Remove
  <2> DEFINE k == Head(items).key
  <2>1. PICK w \in Removed(k) : view' = w
    BY <1>3 DEF RemoveStep, ItemDone
  <2>2. /\ op = "remove" /\ op' = "remove" /\ items # <<>> /\ items' = Tail(items)
        /\ db' = db
    BY <1>3 DEF RemoveStep, ItemDone
  <2>3. k \in Key
    <3>1. Head(items) \in [key : Key]
      BY <1>0, <2>2, HeadTail, ZenonT(60) DEF TypeOK
    <3> QED
      BY <3>1
  <2>4. view'.data = [view.data EXCEPT ![k] = NoValue] /\ view'.expiring = view.expiring
    BY <1>0, <2>1, <2>3, VisibleRemoved
  <2>5. Visible(view)' = [data   |-> [Visible(view).data EXCEPT ![k] = NoValue],
                          mortal |-> Visible(view).mortal]
    BY <2>4 DEF Visible
  <2>6. Visible(db)' = Visible(db)
    BY <2>2 DEF Visible
  <2> QED
    BY <2>2, <2>5, <2>6 DEF Promise!Remove, Promise!Apply, InRequest
<1>4. ASSUME MoveStep PROVE Promise!Move
  <2> DEFINE m == Head(items)
             it == moved(view, m, now)
  <2>1. PICK w \in Removed(m.key) : view' = move(w, view, m, now)
    BY <1>4 DEF MoveStep, ItemDone
  <2>2. /\ op = "move" /\ op' = "move" /\ items # <<>> /\ items' = Tail(items)
        /\ db' = db /\ moveAllowed(view, m)
    BY <1>4 DEF MoveStep, ItemDone
  <2>3. m \in MoveItem /\ m.key \in Key /\ m.dest \in Key /\ m.opts \in Options
    <3>1. m \in MoveItem
      BY <1>0, <2>2, HeadTail DEF TypeOK
    <3> QED
      BY <3>1 DEF MoveItem
  <2>4. /\ view.data[m.key] \in Value /\ view.expiration[m.key] \in Nat
        /\ m.opts.exp \in Nat /\ m.opts.cache \in BOOLEAN /\ m.opts.ifNotExists \in BOOLEAN
    BY <1>0, <2>2, <2>3 DEF moveAllowed, Exists, Rows, Options
  <2>5. it \in SetItem
    BY <1>0, <2>3, <2>4, ParseTTLType, ZenonT(60) DEF moved, SetItem, Options
  <2>6. it.key = m.dest /\ it.value = view.data[m.key]
    BY DEF moved
  <2>7. /\ w \in Rows /\ w.data = [view.data EXCEPT ![m.key] = NoValue]
        /\ Mortal(w) = Mortal(view)
    BY <1>0, <2>1, <2>3, RemovedFacts, VisibleRemoved, ZenonT(60) DEF Mortal
  <2> DEFINE inherited == IF it.opts.exp > 0 THEN {m.dest} ELSE {}
  <2> HIDE DEF it
  <2>8. Visible(set(w, it, now)) =
             [data   |-> [w.data EXCEPT ![it.key] = it.value],
              mortal |-> Mortal(w) \cup (IF it.opts.exp > 0 THEN {it.key} ELSE {})]
    BY <1>0, <2>5, <2>7, VisibleSet, ZenonT(60)
  <2>9. Visible(view)' = Visible(set(w, it, now))
    BY <2>1, ZenonT(60) DEF move, Visible, it
  <2>10. Visible(view).data = view.data /\ Visible(view).mortal = Mortal(view)
    BY DEF Visible, Mortal
  <2>11. Visible(view)' =
           [data   |-> [[Visible(view).data EXCEPT ![m.key] = NoValue]
                           EXCEPT ![m.dest] = Visible(view).data[m.key]],
            mortal |-> Visible(view).mortal \cup inherited]
    BY <2>6, <2>7, <2>8, <2>9, <2>10
  <2>12. inherited \in SUBSET {m.dest}
    OBVIOUS
  <2>13. /\ m.opts.ifNotExists => Visible(view).data[m.dest] = NoValue
         /\ Visible(view).data[m.key] # NoValue
    BY <2>2, <2>10 DEF moveAllowed, Exists
  <2>14. Visible(db)' = Visible(db)
    BY <2>2 DEF Visible
  <2> HIDE DEF inherited
  <2> QED
    BY <2>2, <2>11, <2>12, <2>13, <2>14, ZenonT(60) DEF Promise!Move, Promise!Apply, InRequest
<1>5. ASSUME Reject \/ WriteFails \/ CommitFails PROVE Promise!Abort
  BY <1>5, ZenonT(60) DEF Reject, WriteFails, CommitFails, End, Promise!Abort, Promise!Finish,
     InRequest, Visible
<1>6. ASSUME Commit PROVE Promise!Commit
  BY <1>6 DEF Commit, End, Promise!Commit, Promise!Finish, InRequest, Visible
<1> QED
  BY <1>1, <1>2, <1>3, <1>4, <1>5, <1>6 DEF Client, Promise!Next

\* A pass of the cleaner is invisible until its commit, which is Expire.
LEMMA CleanerStore == IInv /\ ClearOnly /\ Cleaner => [Promise!Next]_(Promise!vars)
<1> SUFFICES ASSUME IInv, ClearOnly, Cleaner PROVE Promise!Next \/ UNCHANGED Promise!vars
  OBVIOUS
<1>0. TypeOK /\ view \in Rows /\ db \in Rows
  BY DEF IInv, TypeOK
<1>1. ASSUME ClearBegin \/ ClearStep \/ ClearSkip \/ ClearCommitFails \/ ClearReturn
      PROVE  UNCHANGED Promise!vars
  <2>1. ~ InRequest /\ ~ InRequest' /\ UNCHANGED <<db, items>>
    BY <1>1 DEF ClearOnly, InRequest, ClearBegin, BeginTransaction, ClearStep,
       ClearSkip, ClearCommitFails, ClearReturn, End
  <2> QED
    BY <2>1, Unseen
<1>2. ASSUME ClearCommit PROVE Promise!Expire
  <2>1. /\ ~ InRequest /\ ~ InRequest' /\ items' = <<>>
        /\ db' = view /\ op = "clear"
    BY <1>2 DEF ClearCommit, End, InRequest
  <2>2. /\ view.expiring \subseteq db.expiring
        /\ \A k \in Key : \/ view.data[k] = db.data[k]
                          \/ view.data[k] = NoValue /\ k \in Mortal(db)
    BY <2>1 DEF ClearOnly
  <2>3. view.data \in [Key -> Value \cup {NoValue}] /\ db.data \in [Key -> Value \cup {NoValue}]
    BY <1>0 DEF Rows
  <2> DEFINE keys == {k \in Key \cap Mortal(db) : view.data[k] = NoValue}
  <2>4. view.data = [k \in Key |-> IF k \in keys THEN NoValue ELSE db.data[k]]
    BY <2>2, <2>3
  <2>5. keys \in SUBSET Mortal(db) /\ Mortal(view) \in SUBSET Mortal(db)
    BY <2>2 DEF Mortal
  <2>6. /\ Visible(db).data = db.data /\ Visible(db).mortal = Mortal(db)
        /\ Visible(db)' = [data |-> view.data, mortal |-> Mortal(view)]
    BY <2>1, ZenonT(60) DEF Visible, Mortal
  <2> HIDE DEF keys
  <2>7. Visible(db)' =
          [data   |-> [k \in Key |-> IF k \in keys THEN NoValue ELSE Visible(db).data[k]],
           mortal |-> Mortal(view)]
    BY <2>4, <2>6
  <2>8. Visible(IF InRequest THEN view ELSE db)' = Visible(db)'
    BY <2>1 DEF Visible
  <2> QED
    BY <2>1, <2>5, <2>6, <2>7, <2>8, ZenonT(60) DEF Promise!Expire, Promise!Finish
<1> QED
  BY <1>1, <1>2 DEF Cleaner, Promise!Next

\* The value cache, the clock and the stop flag are not seen; a restart drops
\* the open request, if there is one.
LEMMA OtherStore ==
    IInv /\ ClearOnly /\ (ValueCache \/ Tick \/ Stop \/ Restart \/ UNCHANGED vars)
        => [Promise!Next]_(Promise!vars)
<1> SUFFICES ASSUME IInv, ClearOnly,
                    ValueCache \/ Tick \/ Stop \/ Restart \/ UNCHANGED vars
             PROVE  Promise!Next \/ UNCHANGED Promise!vars
  OBVIOUS
<1>1. ASSUME UNCHANGED <<db, txnVars>> PROVE UNCHANGED Promise!vars
  BY <1>1 DEF txnVars, Promise!vars, Visible, InRequest
<1>2. ASSUME Restart, InRequest PROVE Promise!Abort
  BY <1>2 DEF Restart, End, Promise!Abort, Promise!Finish, InRequest, Visible
<1>3. ASSUME Restart, ~ InRequest PROVE UNCHANGED Promise!vars
  <2>1. UNCHANGED <<db, items>> /\ ~ InRequest'
    BY <1>3 DEF Restart, End, InRequest, ClearOnly
  <2> QED
    BY <1>3, <2>1, Unseen
<1> QED
  BY <1>1, <1>2, <1>3 DEF ValueCache, GetRead, GetFill, CacheClear, Tick, Stop,
     vars, txnVars, Promise!Next

\* The engine implements Store for every set of keys, requests and faults:
\* requests are atomic, and a value disappears only by a request or, at a
\* commit of clearExpired, after its key was given a TTL.
THEOREM StorageImplementsStore == Spec => Atomic
<1>1. Init => ClearOnly
  BY DEF Init, ClearOnly, InRequest
<1>2. IInv /\ ClearOnly /\ [Next]_vars => [Promise!Next]_(Promise!vars)
  BY ClientStore, CleanerStore, OtherStore DEF Next
<1> QED
  BY <1>1, <1>2, Invariance, ClearOnlyInvariant, StoreInit, PTL
     DEF Spec, Atomic, Promise!Spec
=============================================================================
