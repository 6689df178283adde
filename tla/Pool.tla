--------------------------------- MODULE Pool ---------------------------------
(***************************************************************************)
(* The pool of reusable resources (common/pool/pool.hpp): transactions and *)
(* encrypters in the storage engine, connections in the client API.        *)
(*                                                                         *)
(* A thread acquires a resource in two steps, because the test against     *)
(* maxConnections is made before the pool's mutex is taken; everything     *)
(* else it does runs under the mutex.  The monitor thread drops resources  *)
(* that idled for too long, taking the mutex again for each of them.       *)
(***************************************************************************)
EXTENDS Integers, Sequences, FiniteSets

CONSTANTS Thread,
          InitialSize, MaxPoolSize, MaxConnections, MaxIdleTime,
          CreatorThrows,   \* the factory may throw (a refused connection)
          MaxCreated,      \* bound on the resources ever created
          MaxTime          \* bound on the clock

ASSUME PoolAssumption ==
    /\ IsFiniteSet(Thread) /\ Thread # {}
    /\ InitialSize \in Nat /\ MaxPoolSize \in Nat
    /\ MaxConnections \in Nat \ {0} /\ MaxIdleTime \in Nat
    /\ CreatorThrows \in BOOLEAN
    /\ MaxCreated \in Nat /\ MaxTime \in Nat

VARIABLES now,        \* the clock, in seconds
          total,      \* resources handed out, as the pool counts them
          created,    \* resources created; resources are numbered from 1
          available,  \* idle resources, the next to be handed out first
          at,         \* where a thread is: "out", "checked" or "holding"
          held,       \* the resource a thread holds, 0 if none
          sweep       \* the clock when the monitor began its pass, -1 if idle

vars == <<now, total, created, available, at, held, sweep>>

Wrapper == [con : Nat \ {0}, time : Nat]

TypeOK ==
    /\ now \in Nat /\ total \in Nat /\ created \in Nat
    /\ available \in Seq(Wrapper)
    /\ at \in [Thread -> {"out", "checked", "holding"}]
    /\ held \in [Thread -> Nat]
    /\ sweep \in Nat \cup {-1}

Init ==
    /\ now = 0 /\ total = 0
    /\ created = InitialSize
    /\ available = [i \in 1..InitialSize |-> [con |-> i, time |-> 0]]
    /\ at = [t \in Thread |-> "out"]
    /\ held = [t \in Thread |-> 0]
    /\ sweep = -1
-----------------------------------------------------------------------------
(* acquire *)

\* The test without the mutex; a thread that fails it gets nothing.
AcquireCheckLate(t) ==                                      \* mutant
    /\ at[t] = "out"
    /\ total <= MaxConnections
    /\ at' = [at EXCEPT ![t] = "checked"]
    /\ UNCHANGED <<now, total, created, available, held, sweep>>

AcquireCheck(t) ==
    /\ at[t] = "out"
    /\ total < MaxConnections
    /\ at' = [at EXCEPT ![t] = "checked"]
    /\ UNCHANGED <<now, total, created, available, held, sweep>>

AcquireCreateUncounted(t) ==                                \* mutant
    /\ at[t] = "checked" /\ available = <<>>
    /\ created < MaxCreated
    /\ created' = created + 1
    /\ at' = [at EXCEPT ![t] = "holding"]
    /\ held' = [held EXCEPT ![t] = created + 1]
    /\ UNCHANGED <<now, total, available, sweep>>

AcquireCreate(t) ==
    /\ at[t] = "checked" /\ available = <<>>
    /\ created < MaxCreated
    /\ total' = total + 1 /\ created' = created + 1
    /\ at' = [at EXCEPT ![t] = "holding"]
    /\ held' = [held EXCEPT ![t] = created + 1]
    /\ UNCHANGED <<now, available, sweep>>

\* The factory throws after both counters have been incremented.
AcquireThrows(t) ==
    /\ CreatorThrows
    /\ at[t] = "checked" /\ available = <<>>
    /\ created < MaxCreated
    /\ total' = total + 1 /\ created' = created + 1
    /\ at' = [at EXCEPT ![t] = "out"]
    /\ UNCHANGED <<now, available, held, sweep>>

AcquireCopies(t) ==                                         \* mutant
    /\ at[t] = "checked" /\ available # <<>>
    /\ total' = total + 1
    /\ at' = [at EXCEPT ![t] = "holding"]
    /\ held' = [held EXCEPT ![t] = Head(available).con]
    /\ UNCHANGED <<now, created, available, sweep>>

AcquireReuse(t) ==
    /\ at[t] = "checked" /\ available # <<>>
    /\ total' = total + 1
    /\ available' = Tail(available)
    /\ at' = [at EXCEPT ![t] = "holding"]
    /\ held' = [held EXCEPT ![t] = Head(available).con]
    /\ UNCHANGED <<now, created, sweep>>
-----------------------------------------------------------------------------
(* release, by the destructor of the proxy.  A valid resource goes to the  *)
(* back of the queue if there is room, any other is destroyed.             *)

Returned(t, queue) ==
    /\ at[t] = "holding"
    /\ total' = total - 1
    /\ at' = [at EXCEPT ![t] = "out"]
    /\ held' = [held EXCEPT ![t] = 0]
    /\ available' = queue
    /\ UNCHANGED <<now, created, sweep>>

ReleaseFront(t) ==                                          \* mutant
    /\ Len(available) < MaxPoolSize
    /\ Returned(t, <<[con |-> held[t], time |-> now]>> \o available)

Release(t) ==
    /\ Len(available) < MaxPoolSize
    /\ Returned(t, Append(available, [con |-> held[t], time |-> now]))

ReleaseDestroys(t) == Returned(t, available)
-----------------------------------------------------------------------------
(* removeExpired, by the monitor thread. *)

SweepBegin ==
    /\ sweep = -1
    /\ sweep' = now
    /\ UNCHANGED <<now, total, created, available, at, held>>

\* The front has idled for too long; the clock is the one read at the start.
Idled == available # <<>> /\ sweep - Head(available).time >= MaxIdleTime

SweepRemove ==
    /\ sweep # -1 /\ Idled
    /\ available' = Tail(available)
    /\ UNCHANGED <<now, total, created, at, held, sweep>>

SweepEnd ==
    /\ sweep # -1 /\ ~ Idled
    /\ sweep' = -1
    /\ UNCHANGED <<now, total, created, available, at, held>>

Tick ==
    /\ now < MaxTime
    /\ now' = now + 1
    /\ UNCHANGED <<total, created, available, at, held, sweep>>

Acquire(t) == AcquireCheck(t) \/ AcquireCreate(t) \/ AcquireThrows(t) \/ AcquireReuse(t)

Next == \/ \E t \in Thread : Acquire(t) \/ Release(t) \/ ReleaseDestroys(t)
        \/ SweepBegin \/ SweepRemove \/ SweepEnd
        \/ Tick

Spec == Init /\ [][Next]_vars
-----------------------------------------------------------------------------
(* Properties. *)

\* A resource is in one place: with at most one thread, or once in the queue.
\* Two requests never work in the same transaction or on the same connection.
Exclusive ==
    /\ \A t, u \in Thread : t # u /\ at[t] = "holding" /\ at[u] = "holding" =>
          held[t] # held[u]
    /\ \A t \in Thread : at[t] = "holding" =>
          \A i \in 1..Len(available) : available[i].con # held[t]
    /\ \A i, j \in 1..Len(available) : i # j => available[i].con # available[j].con

\* Threads that passed the test together exceed maxConnections by at most one
\* each but the first: acquire tests the counter before it takes the mutex.
OvershootBounded == total <= MaxConnections + Cardinality(Thread) - 1

\* The counter covers the resources in use, so that release cannot take it
\* below zero (it is unsigned).
UseCounted == Cardinality({t \in Thread : at[t] = "holding"}) <= total

\* When the monitor stops at the first resource that has not idled too long,
\* no other one in the queue has: removeExpired looks only at the front.
SweepComplete ==
    [][SweepEnd => \A i \in 1..Len(available) :
                      sweep - available[i].time < MaxIdleTime]_vars
=============================================================================
