------------------------------ MODULE PoolProofs ------------------------------
(***************************************************************************)
(* Proofs about the resource pool, for any number of threads and any       *)
(* configuration.                                                          *)
(***************************************************************************)
EXTENDS Pool, FiniteSetTheorems, TLAPS

Checked == {t \in Thread : at[t] = "checked"}
Holding == {t \in Thread : at[t] = "holding"}

(***************************************************************************)
(* The inductive invariant.  Exclusive needs that numbers of resources not *)
(* created yet are nowhere; OvershootBounded needs the threads that have   *)
(* passed the test and not taken the mutex yet; SweepComplete needs that   *)
(* the queue is in the order of the release times.                         *)
(***************************************************************************)
Placed ==
    /\ \A t \in Thread : at[t] = "holding" => held[t] \in 1..created
    /\ \A i \in 1..Len(available) : available[i].con <= created
    /\ Exclusive

Ordered ==
    /\ \A i \in 1..Len(available) : available[i].time <= now
    /\ \A i, j \in 1..Len(available) : i <= j => available[i].time <= available[j].time

Counted ==
    /\ Cardinality(Holding) <= total
    /\ total + Cardinality(Checked) <= MaxConnections + Cardinality(Thread) - 1

IInv == TypeOK /\ Placed /\ Ordered /\ Counted

\* Counting threads: sets of threads are finite, and a thread that moves from
\* one set to another changes both counts by one.
LEMMA ThreadCount ==
    ASSUME NEW S \in SUBSET Thread
    PROVE  /\ IsFiniteSet(S) /\ Cardinality(S) \in Nat
           /\ Cardinality(S) <= Cardinality(Thread)
           /\ \A t \in S : Cardinality(S \ {t}) = Cardinality(S) - 1
           /\ \A t \in Thread \ S : Cardinality(S \cup {t}) = Cardinality(S) + 1
<1>1. IsFiniteSet(S) /\ Cardinality(S) <= Cardinality(Thread)
  BY PoolAssumption, FS_Subset
<1> QED
  BY <1>1, FS_CardinalityType, FS_AddElement, FS_RemoveElement

\* What the queue holds.
LEMMA QueueFacts ==
    ASSUME NEW q \in Seq(Wrapper), NEW i \in 1..Len(q)
    PROVE  q[i].time \in Nat /\ q[i].con \in Nat \ {0}
<1>1. q[i] \in Wrapper
  OBVIOUS
<1> QED
  BY <1>1 DEF Wrapper

\* The queue after its front is taken.
LEMMA TailFacts ==
    ASSUME NEW q \in Seq(Wrapper), q # <<>>
    PROVE  /\ Tail(q) \in Seq(Wrapper) /\ Head(q) \in Wrapper
           /\ Len(Tail(q)) = Len(q) - 1 /\ Len(q) \in Nat \ {0}
           /\ Head(q) = q[1]
           /\ \A i \in 1..Len(Tail(q)) : Tail(q)[i] = q[i + 1]
OBVIOUS

\* The queue after a resource is added at its end.
LEMMA AppendFacts ==
    ASSUME NEW q \in Seq(Wrapper), NEW w \in Wrapper
    PROVE  /\ Append(q, w) \in Seq(Wrapper)
           /\ Len(Append(q, w)) = Len(q) + 1 /\ Len(q) \in Nat
           /\ \A i \in 1..Len(q) : Append(q, w)[i] = q[i]
           /\ Append(q, w)[Len(q) + 1] = w
OBVIOUS

\* A pool that has just been constructed satisfies the invariant.
LEMMA InitIInv == Init => IInv
<1> SUFFICES ASSUME Init PROVE IInv
  OBVIOUS
<1>1. /\ available \in Seq(Wrapper) /\ Len(available) = InitialSize
      /\ \A i \in 1..Len(available) : available[i] = [con |-> i, time |-> 0]
  <2>1. \A i \in 1..InitialSize : [con |-> i, time |-> 0] \in Wrapper
    BY PoolAssumption DEF Wrapper
  <2> QED
    BY <2>1, PoolAssumption DEF Init
<1>2. TypeOK
  <2>1. at \in [Thread -> {"out", "checked", "holding"}] /\ held \in [Thread -> Nat]
    BY DEF Init
  <2>2. now \in Nat /\ total \in Nat /\ created \in Nat /\ sweep \in Nat \cup {-1}
    BY PoolAssumption DEF Init
  <2> QED
    BY <1>1, <2>1, <2>2 DEF TypeOK
<1>3. Placed
  BY <1>1, PoolAssumption DEF Init, Placed, Exclusive
<1>4. Ordered
  <2>1. now = 0 /\ \A i \in 1..Len(available) : available[i].time = 0
    BY <1>1, ZenonT(60) DEF Init
  <2> QED
    BY <2>1 DEF Ordered
<1>5. Counted
  <2>1. Holding = {} /\ Checked = {}
    BY DEF Init, Holding, Checked
  <2>2. Cardinality({}) = 0 /\ Cardinality(Thread) \in Nat \ {0}
    BY PoolAssumption, FS_EmptySet, FS_CardinalityType
  <2> QED
    BY <2>1, <2>2, PoolAssumption DEF Init, Counted
<1> QED
  BY <1>2, <1>3, <1>4, <1>5 DEF IInv

\* What a thread's steps do to the sets of threads.
LEMMA Moves ==
    ASSUME TypeOK, NEW t \in Thread, NEW x \in {"out", "checked", "holding"},
           at' = [at EXCEPT ![t] = x]
    PROVE  /\ Holding' = IF x = "holding" THEN Holding \cup {t} ELSE Holding \ {t}
           /\ Checked' = IF x = "checked" THEN Checked \cup {t} ELSE Checked \ {t}
BY DEF TypeOK, Holding, Checked

\* A thread's passing the test, the only step that adds to Checked.
LEMMA CheckCounted ==
    ASSUME IInv, NEW t \in Thread, AcquireCheck(t)
    PROVE  Counted'
<1>1. Holding' = Holding
  BY Moves DEF IInv, AcquireCheck, Holding
<1>2. Cardinality(Checked') <= Cardinality(Thread) /\ Cardinality(Checked') \in Nat
  BY ThreadCount DEF Checked
<1>3. Cardinality(Thread) \in Nat
  BY PoolAssumption, FS_CardinalityType
<1> QED
  BY <1>1, <1>2, <1>3, PoolAssumption DEF AcquireCheck, IInv, TypeOK, Counted

\* A thread's taking the mutex counts once and leaves Checked.
LEMMA TakeCounted ==
    ASSUME IInv, NEW t \in Thread, at[t] = "checked", total' = total + 1,
           NEW x \in {"out", "holding"}, at' = [at EXCEPT ![t] = x]
    PROVE  Counted'
<1>1. /\ Holding' = IF x = "holding" THEN Holding \cup {t} ELSE Holding \ {t}
      /\ Checked' = Checked \ {t}
  BY Moves, ZenonT(60) DEF IInv
<1>2. t \notin Holding /\ t \in Checked /\ Holding \ {t} = Holding
  BY DEF Holding, Checked
<1>3. Holding \in SUBSET Thread /\ Checked \in SUBSET Thread
  BY DEF Holding, Checked
<1>4. /\ Cardinality(Holding') <= Cardinality(Holding) + 1
      /\ Cardinality(Checked') = Cardinality(Checked) - 1
      /\ Cardinality(Holding) \in Nat /\ Cardinality(Checked) \in Nat
      /\ Cardinality(Holding') \in Nat
  <2>1. Cardinality(Holding') \in {Cardinality(Holding), Cardinality(Holding) + 1}
    BY <1>1, <1>2, <1>3, ThreadCount, ZenonT(60)
  <2>2. Cardinality(Checked') = Cardinality(Checked) - 1
    BY <1>1, <1>2, <1>3, ThreadCount
  <2>3. Cardinality(Holding) \in Nat /\ Cardinality(Checked) \in Nat
    BY <1>3, ThreadCount
  <2> QED
    BY <2>1, <2>2, <2>3
<1>5. Cardinality(Thread) \in Nat /\ MaxConnections \in Nat
  BY PoolAssumption, FS_CardinalityType
<1>6. /\ total \in Nat
      /\ Cardinality(Holding) <= total
      /\ total + Cardinality(Checked) <= MaxConnections + Cardinality(Thread) - 1
  BY DEF IInv, TypeOK, Counted
<1>7. /\ Cardinality(Holding') <= total'
      /\ total' + Cardinality(Checked') <= MaxConnections + Cardinality(Thread) - 1
  BY <1>4, <1>5, <1>6
<1> QED
  BY <1>7 DEF Counted

\* A return is counted once, and there was something to count.
LEMMA ReturnCounted ==
    ASSUME IInv, NEW t \in Thread, at[t] = "holding", total' = total - 1,
           at' = [at EXCEPT ![t] = "out"]
    PROVE  Counted' /\ total' \in Nat
<1>1. Holding' = Holding \ {t} /\ Checked' = Checked
  BY Moves, ZenonT(60) DEF IInv, Checked
<1>2. t \in Holding /\ Holding \in SUBSET Thread /\ Checked \in SUBSET Thread
  BY DEF Holding, Checked
<1>3. /\ Cardinality(Holding') = Cardinality(Holding) - 1
      /\ Cardinality(Holding) \in Nat /\ Cardinality(Checked) \in Nat
      /\ Cardinality(Holding') \in Nat
  BY <1>1, <1>2, ThreadCount
<1>4. Cardinality(Thread) \in Nat /\ MaxConnections \in Nat
  BY PoolAssumption, FS_CardinalityType
<1>5. /\ total \in Nat
      /\ Cardinality(Holding) <= total
      /\ total + Cardinality(Checked) <= MaxConnections + Cardinality(Thread) - 1
  BY DEF IInv, TypeOK, Counted
<1>6. Cardinality(Checked') = Cardinality(Checked)
  BY <1>1
<1>7. /\ total' \in Nat
      /\ Cardinality(Holding') <= total'
      /\ total' + Cardinality(Checked') <= MaxConnections + Cardinality(Thread) - 1
  BY <1>3, <1>4, <1>5, <1>6
<1> QED
  BY <1>7 DEF Counted

\* Neither counter nor thread changes.
LEMMA SameCounted == IInv /\ UNCHANGED <<total, at>> => Counted'
BY DEF IInv, Counted, Holding, Checked

\* Every step keeps the invariant.
LEMMA StepIInv == IInv /\ [Next]_vars => IInv'
<1> SUFFICES ASSUME IInv, [Next]_vars PROVE IInv'
  OBVIOUS
<1>0. TypeOK /\ Placed /\ Ordered /\ Counted
  BY DEF IInv
<1>1. ASSUME NEW t \in Thread, AcquireCheck(t) PROVE IInv'
  <2>1. TypeOK'
    BY <1>0, <1>1 DEF AcquireCheck, TypeOK
  <2>2. Placed'
    <3>1. \A u \in Thread : at'[u] = "holding" => at[u] = "holding"
      BY <1>0, <1>1 DEF AcquireCheck, TypeOK
    <3> QED
      BY <1>0, <1>1, <3>1 DEF AcquireCheck, Placed, Exclusive
  <2>3. Ordered'
    BY <1>0, <1>1 DEF AcquireCheck, Ordered
  <2> QED
    BY <1>1, <2>1, <2>2, <2>3, CheckCounted DEF IInv
<1>2. ASSUME NEW t \in Thread, AcquireCreate(t) PROVE IInv'
  <2>1. TypeOK'
    BY <1>0, <1>2 DEF AcquireCreate, TypeOK
  <2>2. Placed'
    <3>1. /\ \A u \in Thread \ {t} : at'[u] = at[u] /\ held'[u] = held[u]
          /\ at'[t] = "holding" /\ held'[t] = created + 1 /\ available' = <<>>
      BY <1>0, <1>2 DEF AcquireCreate, TypeOK
    <3> QED
      BY <1>0, <1>2, <3>1 DEF AcquireCreate, TypeOK, Placed, Exclusive
  <2>3. Ordered'
    BY <1>0, <1>2 DEF AcquireCreate, Ordered
  <2> QED
    BY <1>2, <2>1, <2>2, <2>3, TakeCounted, ZenonT(60) DEF IInv, AcquireCreate
<1>3. ASSUME NEW t \in Thread, AcquireThrows(t) PROVE IInv'
  <2>1. TypeOK'
    BY <1>0, <1>3 DEF AcquireThrows, TypeOK
  <2>2. Placed'
    <3>1. \A u \in Thread : at'[u] = "holding" => at[u] = "holding" /\ held'[u] = held[u]
      BY <1>0, <1>3 DEF AcquireThrows, TypeOK
    <3> QED
      BY <1>0, <1>3, <3>1 DEF AcquireThrows, TypeOK, Placed, Exclusive
  <2>3. Ordered'
    BY <1>0, <1>3 DEF AcquireThrows, Ordered
  <2> QED
    BY <1>3, <2>1, <2>2, <2>3, TakeCounted, ZenonT(60) DEF IInv, AcquireThrows
<1>4. ASSUME NEW t \in Thread, AcquireReuse(t) PROVE IInv'
  <2>0. available \in Seq(Wrapper) /\ available # <<>> /\ available' = Tail(available)
    BY <1>0, <1>4 DEF AcquireReuse, TypeOK
  <2>1. TypeOK'
    BY <1>0, <1>4, <2>0, TailFacts DEF AcquireReuse, TypeOK, Wrapper
  <2>2. Placed'
    <3>1. /\ \A u \in Thread \ {t} : at'[u] = at[u] /\ held'[u] = held[u]
          /\ at'[t] = "holding" /\ held'[t] = available[1].con
      BY <1>0, <1>4, <2>0, TailFacts DEF AcquireReuse, TypeOK
    <3>2. /\ Len(available') = Len(available) - 1 /\ Len(available) \in Nat \ {0}
          /\ \A i \in 1..Len(available') : available'[i] = available[i + 1]
      BY <2>0, TailFacts
    <3>3. created' = created
      BY <1>4 DEF AcquireReuse
    <3>4. Exclusive'
      <4>1. ASSUME NEW u \in Thread, NEW v \in Thread, u # v,
                   at'[u] = "holding", at'[v] = "holding"
            PROVE  held'[u] # held'[v]
        BY <1>0, <3>1, <3>2, <4>1 DEF Placed, Exclusive
      <4>2. ASSUME NEW u \in Thread, at'[u] = "holding", NEW i \in 1..Len(available')
            PROVE  available'[i].con # held'[u]
        <5>1. i + 1 \in 1..Len(available) /\ 1 \in 1..Len(available) /\ i + 1 # 1
          BY <3>2
        <5> QED
          BY <1>0, <3>1, <3>2, <4>2, <5>1 DEF Placed, Exclusive
      <4>3. ASSUME NEW i \in 1..Len(available'), NEW j \in 1..Len(available'), i # j
            PROVE  available'[i].con # available'[j].con
        <5>1. i + 1 \in 1..Len(available) /\ j + 1 \in 1..Len(available) /\ i + 1 # j + 1
          BY <3>2, <4>3
        <5> QED
          BY <1>0, <3>2, <5>1, ZenonT(60) DEF Placed, Exclusive
      <4> QED
        BY <4>1, <4>2, <4>3 DEF Exclusive
    <3>5. available[1].con \in 1..created
      <4>1. 1 \in 1..Len(available)
        BY <3>2
      <4> QED
        BY <1>0, <2>0, <4>1, QueueFacts DEF Placed, TypeOK
    <3>6. \A u \in Thread : at'[u] = "holding" => held'[u] \in 1..created'
      BY <1>0, <3>1, <3>3, <3>5 DEF Placed
    <3>7. \A i \in 1..Len(available') : available'[i].con <= created'
      BY <1>0, <3>2, <3>3 DEF Placed
    <3> QED
      BY <3>4, <3>6, <3>7 DEF Placed
  <2>3. Ordered'
    BY <1>0, <1>4, <2>0, TailFacts DEF AcquireReuse, Ordered
  <2> QED
    BY <1>4, <2>1, <2>2, <2>3, TakeCounted, ZenonT(60) DEF IInv, AcquireReuse
<1>5. ASSUME NEW t \in Thread, Release(t) PROVE IInv'
  <2> DEFINE w == [con |-> held[t], time |-> now]
  <2>1. /\ available \in Seq(Wrapper) /\ available' = Append(available, w)
        /\ at[t] = "holding" /\ total' = total - 1 /\ at' = [at EXCEPT ![t] = "out"]
        /\ held' = [held EXCEPT ![t] = 0] /\ UNCHANGED <<now, created, sweep>>
    BY <1>0, <1>5 DEF Release, Returned, TypeOK
  <2>2. w \in Wrapper /\ w.con = held[t] /\ w.time = now
    BY <1>0, <2>1 DEF Wrapper, TypeOK, Placed
  <2> HIDE DEF w
  <2>3. Counted' /\ total' \in Nat
    BY <2>1, ReturnCounted, ZenonT(60)
  <2>4. /\ available' \in Seq(Wrapper)
        /\ Len(available') = Len(available) + 1 /\ Len(available) \in Nat
        /\ \A i \in 1..Len(available) : available'[i] = available[i]
        /\ available'[Len(available) + 1] = w
    BY <2>1, <2>2, AppendFacts
  <2>5. TypeOK'
    BY <1>0, <2>1, <2>3, <2>4 DEF TypeOK
  <2>6. Placed'
    <3>1. \A u \in Thread : at'[u] = "holding" =>
             u # t /\ at[u] = "holding" /\ held'[u] = held[u]
      BY <1>0, <2>1 DEF TypeOK
    <3>2. \A i \in 1..Len(available') : i \in 1..Len(available) \/ available'[i] = w
      BY <2>4
    <3>3. Exclusive'
      BY <1>0, <2>1, <2>2, <2>4, <3>1, <3>2, SMTT(60) DEF Placed, Exclusive
    <3> QED
      BY <1>0, <2>1, <2>2, <2>4, <3>1, <3>2, <3>3 DEF Placed
  <2>7. Ordered'
    BY <1>0, <2>1, <2>2, <2>4 DEF Ordered, TypeOK
  <2> QED
    BY <2>3, <2>5, <2>6, <2>7 DEF IInv
<1>6. ASSUME NEW t \in Thread, ReleaseDestroys(t) PROVE IInv'
  <2>1. /\ at[t] = "holding" /\ total' = total - 1 /\ at' = [at EXCEPT ![t] = "out"]
        /\ held' = [held EXCEPT ![t] = 0] /\ UNCHANGED <<now, created, sweep, available>>
    BY <1>6 DEF ReleaseDestroys, Returned
  <2>2. Counted' /\ total' \in Nat
    BY <2>1, ReturnCounted, ZenonT(60)
  <2>3. TypeOK'
    BY <1>0, <2>1, <2>2 DEF TypeOK
  <2>4. Placed'
    <3>1. \A u \in Thread : at'[u] = "holding" => at[u] = "holding" /\ held'[u] = held[u]
      BY <1>0, <2>1 DEF TypeOK
    <3> QED
      BY <1>0, <2>1, <3>1 DEF Placed, Exclusive
  <2>5. Ordered'
    BY <1>0, <2>1 DEF Ordered
  <2> QED
    BY <2>2, <2>3, <2>4, <2>5 DEF IInv
<1>7. ASSUME SweepRemove PROVE IInv'
  <2>1. /\ available \in Seq(Wrapper) /\ available # <<>> /\ available' = Tail(available)
        /\ UNCHANGED <<now, total, created, at, held, sweep>>
    BY <1>0, <1>7 DEF SweepRemove, Idled, TypeOK
  <2>2. /\ available' \in Seq(Wrapper) /\ Len(available) \in Nat \ {0}
        /\ Len(available') = Len(available) - 1
        /\ \A i \in 1..Len(available') : i + 1 \in 1..Len(available)
        /\ \A i \in 1..Len(available') : available'[i] = available[i + 1]
    BY <2>1, TailFacts
  <2>3. TypeOK'
    BY <1>0, <2>1, <2>2 DEF TypeOK
  <2>4. Placed'
    BY <1>0, <2>1, <2>2 DEF Placed, Exclusive
  <2>5. Ordered'
    BY <1>0, <2>1, <2>2 DEF Ordered
  <2> QED
    BY <2>1, <2>3, <2>4, <2>5, SameCounted DEF IInv
<1>8. ASSUME SweepBegin \/ SweepEnd \/ Tick \/ UNCHANGED vars PROVE IInv'
  <2>1. UNCHANGED <<total, created, available, at, held>> /\ now' \in Nat /\ now <= now'
    BY <1>0, <1>8 DEF SweepBegin, SweepEnd, Tick, vars, TypeOK
  <2>2. sweep' \in Nat \cup {-1}
    BY <1>0, <1>8 DEF SweepBegin, SweepEnd, Tick, vars, TypeOK
  <2>3. TypeOK'
    BY <1>0, <2>1, <2>2 DEF TypeOK
  <2>4. Placed'
    BY <1>0, <2>1 DEF Placed, Exclusive
  <2>5. Ordered'
    <3>1. \A i \in 1..Len(available) : available[i].time \in Nat
      BY <1>0, QueueFacts DEF TypeOK
    <3> QED
      BY <1>0, <2>1, <3>1 DEF Ordered, TypeOK
  <2> QED
    BY <2>1, <2>3, <2>4, <2>5, SameCounted DEF IInv
<1> QED
  BY <1>1, <1>2, <1>3, <1>4, <1>5, <1>6, <1>7, <1>8 DEF Next, Acquire

LEMMA Invariance == Spec => []IInv
BY InitIInv, StepIInv, PTL DEF Spec
-----------------------------------------------------------------------------
(* The theorems. *)

\* Acquiring, returning and dropping resources never puts one in two places,
\* for any number of threads and any configuration of the pool.
THEOREM ResourceExclusive == Spec => []Exclusive
<1>1. IInv => Exclusive
  BY DEF IInv, Placed
<1> QED
  BY <1>1, Invariance, PTL

\* Testing maxConnections before taking the mutex lets the counter exceed it
\* by less than the number of threads, even if the factory throws.
THEOREM Overshoot == Spec => []OvershootBounded
<1>1. IInv => OvershootBounded
  <2>1. Cardinality(Checked) \in Nat /\ Cardinality(Thread) \in Nat
    BY ThreadCount, PoolAssumption, FS_CardinalityType DEF Checked
  <2> QED
    BY <2>1, PoolAssumption DEF IInv, Counted, TypeOK, OvershootBounded
<1> QED
  BY <1>1, Invariance, PTL

\* release never decrements the unsigned counter below the resources in use.
THEOREM UseIsCounted == Spec => []UseCounted
<1>1. IInv => UseCounted
  BY DEF IInv, Counted, UseCounted, Holding
<1> QED
  BY <1>1, Invariance, PTL

\* A pass of removeExpired misses no resource that idled for too long when
\* the pass began, though it looks only at the front of the queue.
THEOREM SweepMissesNone == Spec => SweepComplete
<1>1. IInv /\ [Next]_vars =>
        [SweepEnd => \A i \in 1..Len(available) :
                        sweep - available[i].time < MaxIdleTime]_vars
  <2> SUFFICES ASSUME IInv, SweepEnd, NEW i \in 1..Len(available)
               PROVE  sweep - available[i].time < MaxIdleTime
    OBVIOUS
  <2>1. available \in Seq(Wrapper) /\ available # <<>> /\ 1 \in 1..Len(available)
    BY DEF IInv, TypeOK
  <2>2. available[1].time \in Nat /\ available[i].time \in Nat /\ Head(available) = available[1]
    BY <2>1, QueueFacts
  <2>3. available[1].time <= available[i].time
    BY <2>1 DEF IInv, Ordered
  <2>4. sweep - available[1].time < MaxIdleTime /\ sweep \in Int
    BY <2>1, <2>2, PoolAssumption DEF SweepEnd, Idled, IInv, TypeOK
  <2> QED
    BY <2>2, <2>3, <2>4, PoolAssumption, SMTT(30)
<1> QED
  BY <1>1, Invariance, PTL DEF Spec, SweepComplete
=============================================================================
