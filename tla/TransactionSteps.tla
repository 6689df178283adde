--------------------------- MODULE TransactionSteps ---------------------------
(***************************************************************************)
(* What holds of one transaction of Transactions at every step: what it    *)
(* may write, and how the two rows of a TTL go together.                   *)
(***************************************************************************)
EXTENDS Transactions, FiniteSetTheorems, SequenceTheorems, TLAPS

Families == {"data", "tree", "expiration", "expiring", "cache"}
RowName  == [cf : Families, key : Path, ts : Nat]
Values(cf) == SUBSET (IF cf = "tree" THEN Key ELSE Nat)

ClearItem == [op : {"clear"}, key : Key, ts : Nat]
ItemsOf(t) == IF t = Cleaner THEN Seq(ClearItem) ELSE Seq(SetItem) \cup Seq(RemoveItem)

StepType == [do : {"absent", "marker"}, key : Key]
            \cup [do : {"write"}, row : {r \in RowName : r.cf = "tree"}, val : Values("tree")]
            \cup [do : {"write"}, row : {r \in RowName : r.cf # "tree"}, val : Values("data")]
            \cup [do : {"link", "unlink"}, node : Key]
            \cup [do : {"expire"}, key : Key, exp : Nat]
            \cup [do : {"climb"}, path : Key]

(***************************************************************************)
(* What a transaction may write: the values of its own items, removed by   *)
(* all but sets; rows of the expiring family are deleted by the cleaner    *)
(* alone, which adds no TTL.                                               *)
(***************************************************************************)
MayWrite(t, job, r, v) ==
    /\ r.cf = "data" =>
          \E i \in DOMAIN job : job[i].key = r.key /\ (v = Missing <=> job[i].op # "set")
    /\ r.cf = "expiring" => r.key \in Key /\ (v = Missing <=> t = Cleaner)
    /\ r.cf = "expiration" /\ t = Cleaner => v = Missing

MayDo(t, job) ==
    {s \in StepType : /\ s.do = "write" => MayWrite(t, job, s.row, s.val)
                      /\ s.do = "expire" => t # Cleaner}

TxnFields == {"open", "job", "items", "todo", "writes", "held"}

TxnTyped(t, job, items, todo, writes) ==
    /\ job \in ItemsOf(t) /\ items \in ItemsOf(t)
    /\ \A i \in DOMAIN items : \E j \in DOMAIN job : items[i] = job[j]
    /\ todo \in Seq(MayDo(t, job))
    /\ IsFiniteSet(DOMAIN writes) /\ DOMAIN writes \subseteq RowName
    /\ \A r \in DOMAIN writes : writes[r] \in Values(r.cf) /\ MayWrite(t, job, r, writes[r])

\* Two rows make a TTL.  The step that writes the first of them is followed by
\* the one that writes the second,
Paired(todo) ==
    \A i \in DOMAIN todo :
       todo[i].do = "write" /\ todo[i].row.cf = "expiration" =>
          \A ts \in todo[i].val :
             i < Len(todo) /\ todo[i + 1] = Write(Due(ts, todo[i].row.key), Present)

\* so that only between these two steps the second is missing.
Announced(todo, writes) ==
    \A r \in DOMAIN writes : r.cf = "expiration" =>
       \A ts \in writes[r] :
          \/ Due(ts, r.key) \in DOMAIN writes
          \/ todo # <<>> /\ todo[1] = Write(Due(ts, r.key), Present)

\* The cleaner deletes an entry only after the TTL.
TTLFirst(todo, writes) ==
    /\ \A r \in DOMAIN writes :
          r.cf = "expiring" => Row("expiration", r.key) \in DOMAIN writes
    /\ \A i \in DOMAIN todo :
          todo[i].do = "write" /\ todo[i].row.cf = "expiring" =>
             LET r == Row("expiration", todo[i].row.key)
             IN  \/ r \in DOMAIN writes
                 \/ \E j \in 1..(i - 1) : todo[j] = Write(r, Missing)

Sound(t, job, items, todo, writes) ==
    /\ TxnTyped(t, job, items, todo, writes)
    /\ Paired(todo) /\ Announced(todo, writes)
    /\ t = Cleaner => TTLFirst(todo, writes)

\* An item that is to create its key has found none, or is yet to look.
Unset(job, items, todo) ==
    \A i \in DOMAIN job : LET it == job[i] IN
        it.op = "set" /\ it.ifNotExists =>
           \/ Row("data", it.key) \notin DOMAIN store
           \/ \E j \in DOMAIN items : items[j] = it
           \/ \E j \in DOMAIN todo : todo[j] = Absent(it.key)
-----------------------------------------------------------------------------
(* Paths. *)

\* The parent of a key is a key or the root.
LEMMA ParentIsPath == \A c \in Key : Parent(c) \in Path /\ c # Root
<1>1. SUFFICES ASSUME NEW c \in Key PROVE Parent(c) \in Path /\ c # Root
  OBVIOUS
<1>2. c \in Seq(Name) /\ c # <<>> /\ treeComponents(c) \subseteq Key
  BY KeyAssumption
<1>3. Len(c) \in Nat \ {0}
  BY <1>2
<1>4. CASE Len(c) = 1
  <2>1. SubSeq(c, 1, 0) = <<>>
    BY <1>2, SubSeqEmpty
  <2>2. Parent(c) = <<>>
    BY <2>1, <1>4 DEF Parent
  <2> QED
    BY <2>2, <1>2 DEF Path, Root
<1>5. CASE Len(c) > 1
  <2>0. Len(c) - 1 \in 1..Len(c)
    BY <1>3, <1>5
  <2>1. Parent(c) \in treeComponents(c)
    BY <2>0, ZenonT(60) DEF Parent, treeComponents
  <2> QED
    BY <2>1, <1>2 DEF Path, Root
<1>6. Len(c) = 1 \/ Len(c) > 1
  BY <1>3
<1> QED
  BY <1>4, <1>5, <1>6

\* The levels of a key, from the root down, are keys.
LEMMA LevelsAreKeys == \A k \in Key : Len(k) \in Nat /\ \A i \in 1..Len(k) : Levels(k)[i] \in Key
<1>1. SUFFICES ASSUME NEW k \in Key PROVE Len(k) \in Nat /\ \A i \in 1..Len(k) : Levels(k)[i] \in Key
  OBVIOUS
<1>2. k \in Seq(Name) /\ treeComponents(k) \subseteq Key
  BY KeyAssumption
<1>3. \A i \in 1..Len(k) : SubSeq(k, 1, i) \in treeComponents(k)
  BY DEF treeComponents
<1> QED
  BY <1>2, <1>3 DEF Levels
-----------------------------------------------------------------------------
(* Sequences. *)

\* A concatenation begins as its first part does.
LEMMA ConcatFirst ==
    ASSUME NEW S, NEW s \in Seq(S), NEW u \in Seq(S), s # <<>>
    PROVE  /\ s \o u \in Seq(S) /\ s \o u # <<>>
           /\ 1 \in DOMAIN (s \o u) /\ (s \o u)[1] = s[1]
<1>1. Len(s) \in Nat \ {0} /\ Len(u) \in Nat
  BY EmptySeq
<1>2. /\ s \o u \in Seq(S)
      /\ Len(s \o u) = Len(s) + Len(u)
      /\ \A i \in 1..Len(s) : (s \o u)[i] = s[i]
  BY <1>1
<1> QED
  BY <1>1, <1>2

\* The next step is replaced by the steps given.
LEMMA SpliceElements ==
    ASSUME NEW S, NEW s \in Seq(S), NEW todo \in Seq(S), todo # <<>>
    PROVE  LET new == s \o Tail(todo) IN
           /\ new \in Seq(S) /\ Len(s) \in Nat /\ Len(todo) \in Nat \ {0}
           /\ DOMAIN new = 1..Len(new) /\ Len(new) = Len(s) + Len(todo) - 1
           /\ DOMAIN todo = 1..Len(todo) /\ DOMAIN s = 1..Len(s)
           /\ \A i \in 1..Len(s) : new[i] = s[i]
           /\ \A i \in 2..Len(todo) : new[Len(s) + i - 1] = todo[i]
           /\ \A i \in DOMAIN new : i > Len(s) => new[i] = todo[i - Len(s) + 1]
<1>1. Len(todo) \in Nat \ {0} /\ Len(s) \in Nat
  BY EmptySeq
<1>2. /\ Tail(todo) \in Seq(S) /\ Len(Tail(todo)) = Len(todo) - 1
      /\ \A i \in 1..Len(Tail(todo)) : Tail(todo)[i] = todo[i + 1]
  BY HeadTailProperties
<1> DEFINE new == s \o Tail(todo)
<1>3. /\ new \in Seq(S)
      /\ Len(new) = Len(s) + Len(Tail(todo))
      /\ \A i \in 1..Len(new) : new[i] = IF i <= Len(s) THEN s[i] ELSE Tail(todo)[i - Len(s)]
  BY <1>2, ConcatProperties
<1>4. DOMAIN new = 1..Len(new) /\ Len(new) = Len(s) + Len(todo) - 1
  BY <1>1, <1>2, <1>3, LenProperties
<1>5. DOMAIN todo = 1..Len(todo) /\ DOMAIN s = 1..Len(s)
  BY LenProperties
<1> HIDE DEF new
<1>6. \A i \in 1..Len(s) : new[i] = s[i]
  BY <1>1, <1>3, <1>4
<1>7. \A i \in DOMAIN new : i > Len(s) => new[i] = todo[i - Len(s) + 1]
  <2>1. SUFFICES ASSUME NEW i \in 1..Len(new), i > Len(s) PROVE new[i] = todo[i - Len(s) + 1]
    BY <1>4
  <2>2. new[i] = Tail(todo)[i - Len(s)] /\ i - Len(s) \in 1..Len(Tail(todo))
    BY <1>1, <1>2, <1>3, <1>4, <2>1
  <2> QED
    BY <2>2, <1>2
<1>8. \A i \in 2..Len(todo) : new[Len(s) + i - 1] = todo[i]
  <2>1. SUFFICES ASSUME NEW i \in 2..Len(todo) PROVE new[Len(s) + i - 1] = todo[i]
    OBVIOUS
  <2>2. Len(s) + i - 1 \in DOMAIN new /\ Len(s) + i - 1 > Len(s) /\ Len(s) + i - 1 - Len(s) + 1 = i
    BY <1>1, <1>4
  <2> QED
    BY <2>2, <1>7
<1> QED
  BY <1>1, <1>3, <1>4, <1>5, <1>6, <1>7, <1>8 DEF new
-----------------------------------------------------------------------------
(* The steps of a transaction. *)

\* What each step is.
LEMMA StepsAreTyped ==
    /\ \A k \in Key : Absent(k) \in StepType /\ Marker(k) \in StepType /\ Unlink(k) \in StepType
                      /\ Link(k) \in StepType /\ Climb(k) \in StepType
    /\ \A k \in Key : \A n \in Nat : Expire(k, n) \in StepType
    /\ \A r \in RowName : \A v \in Values(r.cf) : Write(r, v) \in StepType
<1>1. \A r \in RowName : \A v \in Values(r.cf) : Write(r, v) \in StepType
  BY DEF StepType, Write, Values
<1>2. \A k \in Key : Absent(k) \in StepType /\ Marker(k) \in StepType /\ Unlink(k) \in StepType
                      /\ Link(k) \in StepType /\ Climb(k) \in StepType
  BY DEF StepType, Absent, Marker, Unlink, Link, Climb
<1>3. \A k \in Key : \A n \in Nat : Expire(k, n) \in StepType
  BY DEF StepType, Expire
<1> QED
  BY <1>1, <1>2, <1>3

\* What the step taken next may be, by its kind.
LEMMA StepKinds ==
    \A s \in StepType :
       /\ s.do \in {"absent", "marker", "write", "link", "unlink", "expire", "climb"}
       /\ s.do \in {"absent", "marker"} => s.key \in Key
       /\ s.do = "write" => s.row \in RowName /\ s.val \in Values(s.row.cf) /\ s = Write(s.row, s.val)
       /\ s.do \in {"link", "unlink"} => s.node \in Key
       /\ s.do = "expire" => s.key \in Key /\ s.exp \in Nat
       /\ s.do = "climb" => s.path \in Key
BY DEF StepType, Write, Values

\* Steps that touch neither of the two rows of a TTL, but to delete the first.
Plain(t, job) ==
    {s \in MayDo(t, job) : s.do = "write" => /\ s.row.cf # "expiring"
                                             /\ s.row.cf = "expiration" => s.val = Missing}

\* Steps of remove, of the cleaner and of clients.
LEMMA RemovePlan ==
    ASSUME NEW t, NEW job, NEW i \in DOMAIN job, job[i].key \in Key, job[i].op # "set"
    PROVE  remove(job[i].key) \in Seq(Plain(t, job))
<1> DEFINE k == job[i].key
<1>1. Row("data", k) \in RowName /\ Row("expiration", k) \in RowName
  BY DEF Row, RowName, Families, Path
<1>2. Missing \in Values("data") /\ Missing \in Values("expiration")
  BY DEF Missing, Values
<1>3. Write(Row("data", k), Missing) \in StepType /\ Write(Row("expiration", k), Missing) \in StepType
  BY <1>1, <1>2, StepsAreTyped DEF Row
<1>4. Marker(k) \in Plain(t, job)
  BY StepsAreTyped DEF Plain, MayDo, Marker
<1>5. Write(Row("data", k), Missing) \in Plain(t, job)
  BY <1>3, ZenonT(60) DEF Plain, MayDo, MayWrite, Write, Row, Missing
<1>6. Write(Row("expiration", k), Missing) \in Plain(t, job)
  BY <1>3, ZenonT(60) DEF Plain, MayDo, MayWrite, Write, Row, Missing
<1> QED
  BY <1>4, <1>5, <1>6 DEF remove

\* Steps of set: the lookup of ifNotExists is one of them.
LEMMA SetPlan ==
    ASSUME NEW t, t # Cleaner, NEW job, NEW i \in DOMAIN job, job[i] \in SetItem
    PROVE  /\ set(job[i]) \in Seq(Plain(t, job)) /\ set(job[i]) # <<>>
           /\ job[i].ifNotExists => \E j \in DOMAIN set(job[i]) : set(job[i])[j] = Absent(job[i].key)
<1> DEFINE it == job[i]
           P == Plain(t, job)
           a == If(it.ifNotExists, <<Absent(it.key)>>)
           b == <<Write(Row("data", it.key), Present)>>
           links == [n \in 1..Len(it.key) |-> Link(Levels(it.key)[n])]
           c == IF it.cache THEN <<Write(Row("cache", it.key), Present)>> ELSE links
           d == If(it.exp > 0, <<Expire(it.key, it.exp)>>)
<1>0. it.key \in Key /\ it.exp \in Nat /\ it.op = "set" /\ it.ifNotExists \in BOOLEAN /\ it.cache \in BOOLEAN
  BY DEF SetItem
<1>1. Row("data", it.key) \in RowName /\ Row("cache", it.key) \in RowName
  BY <1>0 DEF Row, RowName, Families, Path
<1>2. Present \in Values("data") /\ Present \in Values("cache") /\ Present # Missing
  BY DEF Present, Missing, Values
<1>3. Write(Row("data", it.key), Present) \in StepType /\ Write(Row("cache", it.key), Present) \in StepType
  BY <1>1, <1>2, StepsAreTyped DEF Row
<1>4. Absent(it.key) \in P /\ Expire(it.key, it.exp) \in P
  BY <1>0, StepsAreTyped DEF Plain, MayDo, Absent, Expire
<1>5. Write(Row("data", it.key), Present) \in P
  BY <1>0, <1>2, <1>3 DEF Plain, MayDo, MayWrite, Write, Row
<1>6. Write(Row("cache", it.key), Present) \in P
  BY <1>3 DEF Plain, MayDo, MayWrite, Write, Row
<1>7. \A x \in Key : Link(x) \in P
  BY StepsAreTyped, ZenonT(60) DEF Plain, MayDo, Link
<1>8. links \in Seq(P)
  <2>1. Len(it.key) \in Nat /\ \A n \in 1..Len(it.key) : Levels(it.key)[n] \in Key
    BY <1>0, LevelsAreKeys
  <2>2. links \in [1..Len(it.key) -> P]
    BY <2>1, <1>7
  <2> HIDE DEF P, links
  <2> QED
    BY <2>1, <2>2, SeqDef
<1>9. a \in Seq(P) /\ b \in Seq(P) /\ c \in Seq(P) /\ d \in Seq(P)
  <2> HIDE DEF P, links
  <2> QED
    BY <1>0, <1>4, <1>5, <1>6, <1>8 DEF If
<1>10. set(it) = ((a \o b) \o c) \o d
  BY DEF set
<1>11. it.ifNotExists => a # <<>> /\ a[1] = Absent(it.key)
  <2>1. ASSUME NEW e PROVE <<e>> # <<>> /\ <<e>>[1] = e
    OBVIOUS
  <2> QED
    BY <2>1 DEF If
<1> HIDE DEF P, a, b, c, d
<1>12. set(it) \in Seq(P) /\ set(it) # <<>>
  <2>1. b # <<>>
    BY DEF b
  <2>2. a \o b \in Seq(P) /\ a \o b # <<>>
    BY <1>9, <2>1
  <2>3. (a \o b) \o c \in Seq(P) /\ (a \o b) \o c # <<>>
    BY <1>9, <2>2, ConcatFirst
  <2> QED
    BY <1>9, <1>10, <2>3, ConcatFirst
<1>13. ASSUME it.ifNotExists PROVE 1 \in DOMAIN set(it) /\ set(it)[1] = Absent(it.key)
  <2>1. a # <<>> /\ a[1] = Absent(it.key)
    BY <1>11, <1>13, Zenon
  <2>2. a \o b \in Seq(P) /\ a \o b # <<>> /\ (a \o b)[1] = Absent(it.key)
    BY <2>1, <1>9, ConcatFirst
  <2>3. (a \o b) \o c \in Seq(P) /\ (a \o b) \o c # <<>> /\ ((a \o b) \o c)[1] = Absent(it.key)
    BY <2>2, <1>9, ConcatFirst
  <2> QED
    BY <2>3, <1>9, <1>10, ConcatFirst, SMTT(30)
<1> QED
  BY <1>12, <1>13 DEF P

\* Steps of the cleaner for one entry: the entry itself is deleted last.
LEMMA ClearPlan ==
    ASSUME NEW job, NEW i \in DOMAIN job, job[i] \in ClearItem
    PROVE  /\ expired(job[i]) \in Seq(MayDo(Cleaner, job)) /\ expired(job[i]) # <<>>
           /\ Paired(expired(job[i]))
           /\ TTLFirst(expired(job[i]), <<>>)
<1> DEFINE it == job[i]
           k == it.key
           P == Plain(Cleaner, job)
           last == Write(Due(it.ts, k), Missing)
<1>1. it.op = "clear" /\ k \in Key /\ it.ts \in Nat
  BY DEF ClearItem
<1>2. remove(k) \in Seq(P)
  BY <1>1, RemovePlan
<1>3. last \in MayDo(Cleaner, job)
  <2>1. Due(it.ts, k) \in RowName /\ Missing \in Values("expiring")
    BY <1>1 DEF Due, RowName, Families, Path, Missing, Values
  <2>2. last \in StepType
    BY <2>1, StepsAreTyped DEF Due
  <2> QED
    BY <1>1, <2>2 DEF MayDo, MayWrite, Write, Due, Missing
<1>4. P \subseteq MayDo(Cleaner, job)
  BY DEF Plain
<1>5. /\ expired(it) \in Seq(MayDo(Cleaner, job))
      /\ DOMAIN expired(it) = 1..4
      /\ expired(it)[1] \in P /\ expired(it)[3] \in P
      /\ expired(it)[2] = Write(Row("expiration", k), Missing)
      /\ expired(it)[2] \in P
      /\ expired(it)[4] = last
  <2>1. remove(k) = <<Write(Row("data", k), Missing), Write(Row("expiration", k), Missing), Marker(k)>>
    BY DEF remove
  <2>0. expired(it) = remove(k) \o <<last>>
    BY DEF expired
  <2> HIDE DEF P, last
  <2>2. Len(remove(k)) = 3 /\ Len(<<last>>) = 1 /\ <<last>>[1] = last
    BY <2>1
  <2>3. remove(k) \in Seq(MayDo(Cleaner, job)) /\ <<last>> \in Seq(MayDo(Cleaner, job))
    BY <1>2, <1>3, <1>4, SeqMonotonic
  <2>4. \A j \in 1..3 : remove(k)[j] \in P
    BY <1>2, <2>2, ElementOfSeq
  <2>5. /\ expired(it) \in Seq(MayDo(Cleaner, job))
        /\ Len(expired(it)) = 4
        /\ \A j \in 1..4 : expired(it)[j] = IF j <= 3 THEN remove(k)[j] ELSE <<last>>[j - 3]
    <3> DEFINE r == remove(k)
               l == <<last>>
    <3>1. r \in Seq(MayDo(Cleaner, job)) /\ l \in Seq(MayDo(Cleaner, job)) /\ Len(r) = 3 /\ Len(l) = 1
      BY <2>2, <2>3
    <3> HIDE DEF r, l
    <3>2. /\ r \o l \in Seq(MayDo(Cleaner, job)) /\ Len(r \o l) = 4
          /\ \A j \in 1..4 : (r \o l)[j] = IF j <= 3 THEN r[j] ELSE l[j - 3]
      <4>1. /\ r \o l \in Seq(MayDo(Cleaner, job)) /\ Len(r \o l) = Len(r) + Len(l)
            /\ \A j \in 1..Len(r) + Len(l) : (r \o l)[j] = IF j <= Len(r) THEN r[j] ELSE l[j - Len(r)]
        BY <3>1, ConcatProperties, Zenon
      <4>2. Len(r) + Len(l) = 4
        BY <3>1
      <4> QED
        BY <3>1, <4>1, <4>2
    <3> QED
      BY <3>2, <2>0 DEF r, l
  <2>6. DOMAIN expired(it) = 1..4
    BY <2>5, LenProperties
  <2>7. remove(k)[2] = Write(Row("expiration", k), Missing)
    BY <2>1
  <2> QED
    BY <2>2, <2>4, <2>5, <2>6, <2>7
<1>6. \A j \in 1..4 : expired(it)[j].do = "write" /\ expired(it)[j].row.cf = "expiration" =>
                         expired(it)[j].val = {}
  <2>1. last.row.cf # "expiration"
    BY DEF Write, Due
  <2>2. \A s \in P : s.do = "write" /\ s.row.cf = "expiration" => s.val = {}
    BY DEF Plain, Missing
  <2> HIDE DEF P, last
  <2> QED
    BY <1>5, <2>1, <2>2
<1>7. \A j \in 1..4 : expired(it)[j].do = "write" /\ expired(it)[j].row.cf = "expiring" => j = 4
  <2>2. \A s \in P : s.do = "write" => s.row.cf # "expiring"
    BY DEF Plain
  <2> HIDE DEF P, last
  <2> QED
    BY <1>5, <2>2
<1>8. Paired(expired(it))
  BY <1>5, <1>6 DEF Paired
<1>9. TTLFirst(expired(it), <<>>)
  <2>1. last.row.key = k
    BY DEF Write, Due
  <2> HIDE DEF last
  <2>2. 2 \in 1..(4 - 1)
    OBVIOUS
  <2> QED
    BY <1>5, <1>7, <2>1, <2>2 DEF TTLFirst
<1>10. expired(it) # <<>>
  <2>1. 1 \in DOMAIN expired(it) /\ 1 \notin DOMAIN <<>>
    BY <1>5
  <2> QED
    BY <2>1
<1> QED
  BY <1>5, <1>8, <1>9, <1>10

\* Steps that set no TTL need no pairing.
LEMMA PlainPaired ==
    ASSUME NEW t, NEW job, NEW p \in Seq(Plain(t, job))
    PROVE  p \in Seq(MayDo(t, job)) /\ Paired(p)
<1>1. Plain(t, job) \subseteq MayDo(t, job)
  BY DEF Plain
<1>2. p \in Seq(MayDo(t, job))
  BY <1>1, SeqMonotonic
<1>3. \A j \in DOMAIN p : p[j] \in Plain(t, job)
  BY LenProperties, ElementOfSeq
<1>4. \A j \in DOMAIN p : p[j].do = "write" /\ p[j].row.cf = "expiration" => p[j].val = {}
  BY <1>3 DEF Plain, Missing
<1>5. Paired(p)
  BY <1>4 DEF Paired
<1> QED
  BY <1>2, <1>5

\* A plan keeps the two rows of a TTL together, and looks first where it must.
LEMMA PlanSound ==
    ASSUME NEW t \in Thread, NEW job \in ItemsOf(t), NEW i \in DOMAIN job
    PROVE  /\ Plan(job[i]) \in Seq(MayDo(t, job)) /\ Plan(job[i]) # <<>>
           /\ Paired(Plan(job[i]))
           /\ t = Cleaner => TTLFirst(Plan(job[i]), <<>>)
           /\ job[i].op = "set" /\ job[i].ifNotExists =>
                 \E j \in DOMAIN Plan(job[i]) : Plan(job[i])[j] = Absent(job[i].key)
<1> DEFINE it == job[i]
<1>1. \A p \in Seq(Plain(t, job)) : p \in Seq(MayDo(t, job)) /\ Paired(p)
  BY PlainPaired
<1>2. CASE t = Cleaner
  <2>1. it \in ClearItem
    BY <1>2 DEF ItemsOf
  <2>2. it.op = "clear"
    BY <2>1 DEF ClearItem
  <2>3. Plan(it) = expired(it)
    BY <2>2 DEF Plan
  <2> QED
    BY <1>2, <2>1, <2>2, <2>3, ClearPlan
<1>3. CASE t # Cleaner /\ it \in SetItem
  <2>1. Plan(it) = set(it)
    BY <1>3 DEF Plan, SetItem
  <2>2. Plan(it) \in Seq(Plain(t, job)) /\ Plan(it) # <<>>
    BY <2>1, <1>3, SetPlan
  <2>3. it.ifNotExists => \E j \in DOMAIN set(it) : set(it)[j] = Absent(it.key)
    BY <1>3, SetPlan, ZenonT(60)
  <2> QED
    BY <1>1, <1>3, <2>1, <2>2, <2>3
<1>4. CASE t # Cleaner /\ it \in RemoveItem
  <2>1. Plan(it) = remove(it.key) /\ it.op # "set" /\ it.key \in Key
    BY <1>4 DEF Plan, RemoveItem
  <2>2. Plan(it) \in Seq(Plain(t, job)) /\ Plan(it) # <<>>
    BY <2>1, RemovePlan DEF remove
  <2> QED
    BY <1>1, <1>4, <2>1, <2>2
<1>5. t # Cleaner => it \in SetItem \/ it \in RemoveItem
  BY DEF ItemsOf
<1> QED
  BY <1>2, <1>3, <1>4, <1>5
-----------------------------------------------------------------------------
(* The invariant of one transaction. *)

\* New steps take the place of one that writes nothing.
LEMMA SpliceSound ==
    ASSUME NEW t, NEW job, NEW items, NEW todo, NEW writes, NEW steps,
           Sound(t, job, items, todo, writes),
           todo # <<>>, Head(todo).do # "write",
           steps \in Seq(MayDo(t, job)), Paired(steps),
           t = Cleaner => steps \in Seq(Plain(t, job))
    PROVE  Sound(t, job, items, steps \o Tail(todo), writes)
<1> DEFINE new == steps \o Tail(todo)
           M == MayDo(t, job)
<1>1. todo \in Seq(M) /\ steps \in Seq(M)
  BY DEF Sound, TxnTyped
<1>2. Head(todo) = todo[1]
  OBVIOUS
<1>3. /\ new \in Seq(M) /\ Len(steps) \in Nat /\ Len(todo) \in Nat \ {0}
      /\ DOMAIN new = 1..Len(new) /\ Len(new) = Len(steps) + Len(todo) - 1
      /\ DOMAIN todo = 1..Len(todo) /\ DOMAIN steps = 1..Len(steps)
      /\ \A i \in 1..Len(steps) : new[i] = steps[i]
      /\ \A i \in 2..Len(todo) : new[Len(steps) + i - 1] = todo[i]
      /\ \A i \in DOMAIN new : i > Len(steps) => new[i] = todo[i - Len(steps) + 1]
  <2> HIDE DEF M
  <2> QED
    BY <1>1, SpliceElements, ZenonT(60)
<1> HIDE DEF new, M
<1>4. TxnTyped(t, job, items, new, writes)
  BY <1>3 DEF Sound, TxnTyped, M
<1>5. Paired(new)
  <2>1. SUFFICES ASSUME NEW i \in DOMAIN new, new[i].do = "write", new[i].row.cf = "expiration",
                        NEW ts \in new[i].val
                 PROVE  i < Len(new) /\ new[i + 1] = Write(Due(ts, new[i].row.key), Present)
    BY DEF Paired
  <2>2. CASE i <= Len(steps)
    <3>1. i \in DOMAIN steps /\ new[i] = steps[i]
      BY <1>3, <2>2
    <3>2. i < Len(steps) /\ steps[i + 1] = Write(Due(ts, steps[i].row.key), Present)
      BY <2>1, <3>1 DEF Paired
    <3>3. i + 1 \in 1..Len(steps)
      BY <1>3, <3>1, <3>2
    <3>4. i < Len(new)
      BY <1>3, <3>2
    <3> QED
      BY <1>3, <3>1, <3>2, <3>3, <3>4, ZenonT(60)
  <2>3. CASE i > Len(steps)
    <3> DEFINE n == i - Len(steps) + 1
    <3>1. n \in DOMAIN todo /\ n \in 2..Len(todo) /\ new[i] = todo[n]
      BY <1>3, <2>3
    <3>2. n < Len(todo) /\ todo[n + 1] = Write(Due(ts, todo[n].row.key), Present)
      BY <2>1, <3>1 DEF Sound, Paired
    <3>3. n + 1 \in 2..Len(todo) /\ Len(steps) + (n + 1) - 1 = i + 1 /\ i < Len(new)
      <4>1. /\ Len(steps) \in Nat /\ Len(todo) \in Nat /\ Len(new) = Len(steps) + Len(todo) - 1
            /\ i \in 1..Len(new)
        BY <1>3
      <4>2. n < Len(todo)
        BY <3>2
      <4> QED
        BY <4>1, <4>2, <2>3, SMTT(30)
    <3>4. new[Len(steps) + (n + 1) - 1] = todo[n + 1]
      BY <1>3, <3>3, ZenonT(60)
    <3> QED
      BY <3>1, <3>2, <3>3, <3>4
  <2> QED
    BY <1>3, <2>2, <2>3
<1>6. Announced(new, writes)
  <2>1. \A r, v : todo[1] # Write(r, v)
    BY <1>2 DEF Write
  <2> QED
    BY <2>1 DEF Sound, Announced
<1>7. ASSUME t = Cleaner PROVE TTLFirst(new, writes)
  <2>1. \A j \in DOMAIN steps : steps[j].do = "write" => steps[j].row.cf # "expiring"
    BY <1>7, LenProperties, ElementOfSeq DEF Plain
  <2>2. TTLFirst(todo, writes)
    BY <1>7 DEF Sound
  <2>3. SUFFICES ASSUME NEW i \in DOMAIN new, new[i].do = "write", new[i].row.cf = "expiring",
                        Row("expiration", new[i].row.key) \notin DOMAIN writes
                 PROVE  \E j \in 1..(i - 1) : new[j] = Write(Row("expiration", new[i].row.key), Missing)
    BY <2>2 DEF TTLFirst
  <2> DEFINE n == i - Len(steps) + 1
             ttl == Write(Row("expiration", new[i].row.key), Missing)
  <2>4. i > Len(steps) /\ n \in DOMAIN todo /\ new[i] = todo[n]
    BY <1>3, <2>1, <2>3
  <2>5. PICK j \in 1..(n - 1) : todo[j] = ttl
    BY <2>2, <2>3, <2>4 DEF TTLFirst
  <2>6. j # 1
    BY <1>2, <2>5 DEF Write
  <2>7. j \in 2..Len(todo) /\ Len(steps) + j - 1 \in 1..(i - 1)
    BY <1>3, <2>4, <2>5, <2>6, SMTT(30)
  <2>8. new[Len(steps) + j - 1] = ttl
    BY <1>3, <2>5, <2>7
  <2> QED
    BY <2>7, <2>8
<1> QED
  BY <1>4, <1>5, <1>6, <1>7 DEF Sound, new

\* The next step writes its row.
LEMMA WrittenSound ==
    ASSUME NEW t, NEW job, NEW items, NEW todo, NEW writes, NEW new,
           Sound(t, job, items, todo, writes),
           todo # <<>>, Head(todo).do = "write",
           DOMAIN new = DOMAIN writes \cup {Head(todo).row},
           new[Head(todo).row] = Head(todo).val,
           \A q \in DOMAIN writes : q # Head(todo).row => new[q] = writes[q]
    PROVE  Sound(t, job, items, Tail(todo), new)
<1> DEFINE s == Head(todo)
           r == s.row
           rest == Tail(todo)
           M == MayDo(t, job)
<1>1. todo \in Seq(M) /\ s = todo[1]
  BY DEF Sound, TxnTyped
<1>2. /\ s \in M /\ rest \in Seq(M)
      /\ Len(todo) \in Nat \ {0} /\ DOMAIN todo = 1..Len(todo)
      /\ DOMAIN rest = 1..Len(rest) /\ Len(rest) = Len(todo) - 1
      /\ \A i \in 1..Len(rest) : rest[i] = todo[i + 1]
  <2> HIDE DEF M
  <2> QED
    BY <1>1, HeadTailProperties, LenProperties, EmptySeq
<1>3. r \in RowName /\ s.val \in Values(r.cf) /\ s = Write(r, s.val) /\ MayWrite(t, job, r, s.val)
  BY <1>2, StepKinds DEF MayDo
<1>4. DOMAIN new = DOMAIN writes \cup {r} /\ new[r] = s.val
      /\ \A q \in DOMAIN writes : q # r => new[q] = writes[q]
  OBVIOUS
<1> HIDE DEF s, r, rest, M
<1>5. TxnTyped(t, job, items, rest, new)
  <2>1. IsFiniteSet(DOMAIN new)
    <3>1. IsFiniteSet(DOMAIN writes)
      BY DEF Sound, TxnTyped
    <3> QED
      BY <1>4, <3>1, FS_AddElement
  <2>2. DOMAIN new \subseteq RowName
    BY <1>3, <1>4, ZenonT(60) DEF Sound, TxnTyped
  <2>3. \A q \in DOMAIN new : new[q] \in Values(q.cf) /\ MayWrite(t, job, q, new[q])
    BY <1>3, <1>4, ZenonT(60) DEF Sound, TxnTyped
  <2> QED
    BY <1>2, <2>1, <2>2, <2>3 DEF Sound, TxnTyped, M
<1>6. Paired(rest)
  <2>1. SUFFICES ASSUME NEW i \in DOMAIN rest, rest[i].do = "write", rest[i].row.cf = "expiration",
                        NEW ts \in rest[i].val
                 PROVE  i < Len(rest) /\ rest[i + 1] = Write(Due(ts, rest[i].row.key), Present)
    BY DEF Paired
  <2>2. i + 1 \in DOMAIN todo /\ rest[i] = todo[i + 1]
    BY <1>2
  <2>3. i + 1 < Len(todo) /\ todo[i + 1 + 1] = Write(Due(ts, rest[i].row.key), Present)
    BY <2>1, <2>2 DEF Sound, Paired
  <2>4. i < Len(rest) /\ i + 1 \in 1..Len(rest)
    BY <1>2, <2>3
  <2> QED
    BY <1>2, <2>3, <2>4
<1>7. Announced(rest, new)
  <2>1. SUFFICES ASSUME NEW q \in DOMAIN new, q.cf = "expiration", NEW ts \in new[q],
                        Due(ts, q.key) \notin DOMAIN new
                 PROVE  rest # <<>> /\ rest[1] = Write(Due(ts, q.key), Present)
    BY DEF Announced
  <2>2. CASE q = r
    <3>1. 1 \in DOMAIN todo /\ todo[1].do = "write" /\ todo[1].row = r /\ ts \in todo[1].val
      BY <1>1, <1>2, <1>3, <1>4, <2>1, <2>2 DEF s, r
    <3>2. 1 < Len(todo) /\ todo[1 + 1] = Write(Due(ts, r.key), Present)
      BY <2>1, <2>2, <3>1 DEF Sound, Paired
    <3>3. 1 \in 1..Len(rest)
      BY <1>2, <3>2
    <3>4. rest # <<>>
      BY <3>3
    <3> QED
      BY <1>2, <2>2, <3>2, <3>3, <3>4
  <2>3. CASE q # r
    <3>1. q \in DOMAIN writes /\ ts \in writes[q]
      BY <1>4, <2>1, <2>3
    <3>2. todo[1] = Write(Due(ts, q.key), Present)
      BY <1>4, <2>1, <3>1 DEF Sound, Announced
    <3>3. r = Due(ts, q.key)
      BY <1>1, <3>2 DEF r, Write
    <3> QED
      BY <3>3, <2>1, <1>4, ZenonT(60)
  <2> QED
    BY <2>2, <2>3
<1>8. ASSUME t = Cleaner PROVE TTLFirst(rest, new)
  <2>1. TTLFirst(todo, writes)
    BY <1>8 DEF Sound
  <2>2. \A q \in DOMAIN new : q.cf = "expiring" => Row("expiration", q.key) \in DOMAIN new
    <3>1. SUFFICES ASSUME r.cf = "expiring" PROVE Row("expiration", r.key) \in DOMAIN writes
      BY <1>4, <2>1, ZenonT(60) DEF TTLFirst
    <3>2. 1 \in DOMAIN todo /\ todo[1].do = "write" /\ todo[1].row = r
      BY <1>1, <1>2 DEF s, r
    <3>3. 1..(1 - 1) = {}
      OBVIOUS
    <3> QED
      BY <2>1, <3>1, <3>2, <3>3 DEF TTLFirst
  <2>3. SUFFICES ASSUME NEW i \in DOMAIN rest, rest[i].do = "write", rest[i].row.cf = "expiring",
                        Row("expiration", rest[i].row.key) \notin DOMAIN new
                 PROVE  \E j \in 1..(i - 1) : rest[j] = Write(Row("expiration", rest[i].row.key), Missing)
    BY <2>2 DEF TTLFirst
  <2> DEFINE q == Row("expiration", rest[i].row.key)
  <2>4. i + 1 \in DOMAIN todo /\ rest[i] = todo[i + 1]
    BY <1>2
  <2>5. PICK j \in 1..i : todo[j] = Write(q, Missing)
    <3> DEFINE n == i + 1
    <3>1. n \in DOMAIN todo /\ todo[n] = rest[i]
      BY <2>4
    <3> HIDE DEF n
    <3>2. /\ todo[n].do = "write" /\ todo[n].row.cf = "expiring"
          /\ Row("expiration", todo[n].row.key) \notin DOMAIN writes
      BY <1>4, <2>3, <3>1
    <3>3. \E j \in 1..(n - 1) : todo[j] = Write(Row("expiration", todo[n].row.key), Missing)
      BY <2>1, <3>1, <3>2 DEF TTLFirst
    <3>4. todo[n].row.key = rest[i].row.key
      BY <3>1
    <3>5. \E j \in 1..(n - 1) : todo[j] = Write(q, Missing)
      BY <3>3, <3>4, Zenon
    <3>6. n - 1 = i
      BY <1>2 DEF n
    <3> QED
      BY <3>5, <3>6
  <2>6. j # 1
    BY <1>1, <1>4, <2>3, <2>5 DEF r, Write
  <2>7. j - 1 \in 1..(i - 1) /\ j - 1 \in 1..Len(rest) /\ j - 1 + 1 = j
    BY <1>2, <2>5, <2>6
  <2>8. rest[j - 1] = Write(q, Missing)
    BY <1>2, <2>5, <2>7
  <2> QED
    BY <2>7, <2>8
<1> QED
  BY <1>5, <1>6, <1>7, <1>8 DEF Sound, rest

\* The transaction goes on with the steps given or, when none are left, with
\* the plan of its next item.
LEMMA OnwardSound ==
    ASSUME NEW t \in Thread, NEW x, NEW steps, DOMAIN x = TxnFields,
           Sound(t, x.job, x.items, steps, x.writes)
    PROVE  LET y == Onward(x, steps) IN
           /\ DOMAIN y = TxnFields /\ y.open = x.open
           /\ Sound(t, y.job, y.items, y.todo, y.writes)
           /\ y.todo = <<>> => y.items = <<>>
           /\ Unset(x.job, x.items, steps) => Unset(y.job, y.items, y.todo)
<1> DEFINE y == Onward(x, steps)
<1>1. CASE ~ (steps = <<>> /\ x.items # <<>>)
  <2>1. y = [x EXCEPT !.todo = steps]
    BY <1>1 DEF Onward
  <2>2. /\ DOMAIN y = TxnFields /\ y.open = x.open /\ y.job = x.job /\ y.items = x.items
        /\ y.todo = steps /\ y.writes = x.writes
    BY <2>1 DEF TxnFields
  <2> QED
    BY <1>1, <2>2
<1>2. CASE steps = <<>> /\ x.items # <<>>
  <2> DEFINE plan == Plan(Head(x.items))
  <2>1. y = [x EXCEPT !.todo = plan, !.items = Tail(x.items)]
    BY <1>2 DEF Onward
  <2>2. /\ DOMAIN y = TxnFields /\ y.open = x.open /\ y.job = x.job /\ y.items = Tail(x.items)
        /\ y.todo = plan /\ y.writes = x.writes
    BY <2>1 DEF TxnFields
  <2>3. /\ x.job \in ItemsOf(t) /\ x.items \in ItemsOf(t)
        /\ \A i \in DOMAIN x.items : \E j \in DOMAIN x.job : x.items[i] = x.job[j]
    BY SMTT(30) DEF Sound, TxnTyped
  <2>4. PICK S : x.items \in Seq(S) /\ Seq(S) \subseteq ItemsOf(t)
    BY <2>3 DEF ItemsOf
  <2>5. /\ Tail(x.items) \in Seq(S)
        /\ Len(x.items) \in Nat \ {0} /\ DOMAIN x.items = 1..Len(x.items)
        /\ DOMAIN Tail(x.items) = 1..(Len(x.items) - 1)
        /\ \A i \in 1..(Len(x.items) - 1) : Tail(x.items)[i] = x.items[i + 1]
    BY <1>2, <2>4, HeadTailProperties, LenProperties, EmptySeq
  <2>6. PICK n \in DOMAIN x.job : x.job[n] = x.items[1]
    BY <2>3, <2>5
  <2>7. Head(x.items) = x.job[n]
    BY <2>6
  <2>8. /\ plan \in Seq(MayDo(t, x.job)) /\ plan # <<>> /\ Paired(plan)
        /\ t = Cleaner => TTLFirst(plan, <<>>)
        /\ x.job[n].op = "set" /\ x.job[n].ifNotExists =>
              \E j \in DOMAIN plan : plan[j] = Absent(x.job[n].key)
    BY <2>3, <2>7, PlanSound
  <2>9. \A i \in DOMAIN Tail(x.items) : \E j \in DOMAIN x.job : Tail(x.items)[i] = x.job[j]
    <3>1. \A i \in DOMAIN Tail(x.items) : i + 1 \in DOMAIN x.items /\ Tail(x.items)[i] = x.items[i + 1]
      BY <2>5
    <3> QED
      BY <2>3, <3>1
  <2> HIDE DEF plan, y
  <2>10. TxnTyped(t, y.job, y.items, y.todo, y.writes)
    <3>1. Tail(x.items) \in ItemsOf(t)
      BY <2>4, <2>5, ZenonT(60)
    <3>2. TxnTyped(t, x.job, x.items, steps, x.writes)
      BY DEF Sound
    <3>3. TxnTyped(t, x.job, Tail(x.items), plan, x.writes)
      BY <2>8, <2>9, <3>1, <3>2, SMTT(30) DEF TxnTyped
    <3> QED
      BY <2>2, <3>3
  <2>11. Announced(plan, x.writes)
    BY <1>2 DEF Sound, Announced
  <2>12. t = Cleaner => TTLFirst(plan, x.writes)
    BY <2>8 DEF Sound, TTLFirst
  <2>13. Sound(t, y.job, y.items, y.todo, y.writes)
    BY <2>2, <2>8, <2>10, <2>11, <2>12, SMTT(30) DEF Sound
  <2>14. ASSUME Unset(x.job, x.items, steps) PROVE Unset(y.job, y.items, y.todo)
    <3>1. SUFFICES ASSUME NEW i \in DOMAIN x.job, x.job[i].op = "set", x.job[i].ifNotExists,
                          Row("data", x.job[i].key) \in DOMAIN store
                   PROVE  \/ \E j \in DOMAIN Tail(x.items) : Tail(x.items)[j] = x.job[i]
                          \/ \E j \in DOMAIN plan : plan[j] = Absent(x.job[i].key)
      BY <2>2 DEF Unset
    <3>2. PICK j \in DOMAIN x.items : x.items[j] = x.job[i]
      BY <1>2, <2>14, <3>1 DEF Unset
    <3>3. CASE j = 1
      BY <2>6, <2>8, <3>1, <3>2, <3>3
    <3>4. CASE j # 1
      <4>1. j - 1 \in 1..(Len(x.items) - 1) /\ j - 1 + 1 = j
        BY <2>5, <3>4
      <4> QED
        BY <4>1, <2>5, <3>2
    <3> QED
      BY <3>3, <3>4
  <2> QED
    BY <2>2, <2>8, <2>13, <2>14, SMTT(30) DEF y
<1> QED
  BY <1>1, <1>2, SMTT(30)
=============================================================================
