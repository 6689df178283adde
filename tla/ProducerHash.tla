----------------------------- MODULE ProducerHash ----------------------------
(***************************************************************************)
(* How a thread finds the part of the queue it writes to (the implicit     *)
(* producers of concurrentqueue.h): by its id, in hash tables that only    *)
(* grow.  A thread that is in no table adds itself, and the table may be   *)
(* replaced at the same time by a larger one.                              *)
(*                                                                         *)
(* Threads that end are not modelled: those of the service live as long as *)
(* the queues do.                                                          *)
(***************************************************************************)
EXTENDS Naturals, Sequences, FreeList   \* for its threads

CONSTANTS HashOf,      \* hash_thread_id
          HashSize,    \* INITIAL_IMPLICIT_PRODUCER_HASH_SIZE
          Empty        \* invalid_thread_id

VARIABLES table,       \* the tables, each with the one before as its "prev"
          hashCount,   \* implicitProducerHashCount
          resizing,    \* implicitProducerHashResizeInProgress
          producers,   \* the list of producers, the newest first
          created,     \* how many there are; they are numbered from 1
          find         \* the call of each thread

hashVars == <<table, hashCount, resizing, producers, created, find>>

Slot == [key |-> Empty, value |-> 0]
Table(capacity) == [capacity |-> capacity, slot |-> [i \in 0..capacity - 1 |-> Slot]]
Capacity(h) == table[h].capacity

NoFind == [at |-> "out", main |-> 0, count |-> 0, index |-> 0, producer |-> 0, next |-> <<>>]

HashInit ==
    /\ table = <<Table(HashSize)>>
    /\ hashCount = 0 /\ resizing = FALSE
    /\ producers = <<>> /\ created = 0
    /\ find = [t \in Thread |-> NoFind]

\* The slots of a table in the order a thread probes them.
Probe(t, h) == [i \in 1..Capacity(h) |-> (HashOf[t] + i - 1) % Capacity(h)]

\* The place of the thread in a table, 0 if an empty slot comes first.
Place(t, h) ==
    LET key(i) == table[h].slot[Probe(t, h)[i]].key
        stops == {i \in 1..Capacity(h) : key(i) \in {t, Empty}}
        first == CHOOSE i \in stops : \A j \in stops : i <= j
    IN  IF key(first) = t THEN first ELSE 0

ValueOf(t, h) == table[h].slot[Probe(t, h)[Place(t, h)]].value

Finding(t, at) == find[t].at = at
FindGoes(t, at) == find' = [find EXCEPT ![t].at = at]

CallFind(t) == find' = [find EXCEPT ![t] = [NoFind EXCEPT !.at = "lookup"]]

LookupMain(t) ==                                            \* mutant
    /\ Finding(t, "lookup")
    /\ LET main == Len(table) IN
       find' = [find EXCEPT ![t] =
           IF Place(t, main) = 0 THEN [@ EXCEPT !.at = "count", !.main = main]
           ELSE [@ EXCEPT !.at = "found", !.producer = ValueOf(t, main)]]
    /\ UNCHANGED <<table, hashCount, resizing, producers, created>>

\* The newest table that has the thread; an old one is no place to stay.
Lookup(t) ==
    /\ Finding(t, "lookup")
    /\ LET main == Len(table)
           in == {h \in 1..main : Place(t, h) # 0}
           newest == CHOOSE h \in in : \A g \in in : g <= h
       IN  find' = [find EXCEPT ![t] =
               IF in = {} THEN [@ EXCEPT !.at = "count", !.main = main]
               ELSE [@ EXCEPT !.at = IF newest = main THEN "found" ELSE "insert",
                              !.main = main, !.index = HashOf[t],
                              !.producer = ValueOf(t, newest)]]
    /\ UNCHANGED <<table, hashCount, resizing, producers, created>>

CountThread(t) ==
    /\ Finding(t, "count")
    /\ hashCount' = hashCount + 1
    /\ find' = [find EXCEPT ![t].at = "full", ![t].count = hashCount + 1]
    /\ UNCHANGED <<table, resizing, producers, created>>

TestFullNever(t) ==                                         \* mutant
    /\ Finding(t, "full")
    /\ FindGoes(t, "create")
    /\ UNCHANGED <<table, hashCount, resizing, producers, created>>

\* Half full: the thread that gets the flag replaces the table, and the others
\* use the old one while it is less than three quarters full.
TestFull(t) ==
    /\ Finding(t, "full")
    /\ LET f == find[t]
           half == Capacity(f.main) \div 2
       IN  IF f.count >= half /\ ~ resizing
           THEN /\ resizing' = TRUE
                /\ find' = [find EXCEPT ![t].at = "resize", ![t].main = Len(table)]
           ELSE /\ find' = [find EXCEPT ![t] =
                       IF f.count < half + (Capacity(f.main) \div 4) THEN [@ EXCEPT !.at = "create"]
                       ELSE [@ EXCEPT !.main = Len(table)]]
                /\ UNCHANGED resizing
    /\ UNCHANGED <<table, hashCount, producers, created>>

\* The least power of two times the capacity for which the table is not half full.
NewCapacity(capacity, count) ==
    LET fits == {n \in 1..count + 1 : count < (capacity * 2 ^ n) \div 2}
    IN  capacity * 2 ^ (CHOOSE n \in fits : \A m \in fits : n <= m)

Resize(t) ==
    /\ Finding(t, "resize")
    /\ LET f == find[t] IN
       IF f.count >= Capacity(f.main) \div 2
       THEN /\ table' = Append(table, Table(NewCapacity(Capacity(f.main), f.count)))
            /\ find' = [find EXCEPT ![t].at = "unlock", ![t].main = Len(table) + 1]
       ELSE FindGoes(t, "unlock") /\ UNCHANGED table
    /\ UNCHANGED <<hashCount, resizing, producers, created>>

\* Then the table is less than three quarters full.
Unlock(t) ==
    /\ Finding(t, "unlock")
    /\ resizing' = FALSE
    /\ FindGoes(t, "create")
    /\ UNCHANGED <<table, hashCount, producers, created>>

\* recycle_or_create_producer, with no producer to recycle
CreateProducer(t) ==
    /\ Finding(t, "create")
    /\ created' = created + 1
    /\ find' = [find EXCEPT ![t].at = "link", ![t].producer = created + 1, ![t].next = producers]
    /\ UNCHANGED <<table, hashCount, resizing, producers>>

\* add_producer: compare_exchange of the head of the list.
LinkProducer(t) ==
    /\ Finding(t, "link")
    /\ IF producers = find[t].next
       THEN /\ producers' = <<find[t].producer>> \o producers
            /\ find' = [find EXCEPT ![t].at = "insert", ![t].index = HashOf[t]]
       ELSE /\ find' = [find EXCEPT ![t].next = producers]
            /\ UNCHANGED producers
    /\ UNCHANGED <<table, hashCount, resizing, created>>

\* compare_exchange of the key of one slot, then the value, or the next slot.
InsertKey(t) ==
    /\ Finding(t, "insert")
    /\ LET f == find[t]
           i == f.index % Capacity(f.main)
       IN  IF table[f.main].slot[i].key = Empty
           THEN /\ table' = [table EXCEPT ![f.main].slot[i] = [key |-> t, value |-> f.producer]]
                /\ FindGoes(t, "found")
           ELSE /\ find' = [find EXCEPT ![t].index = i + 1]
                /\ UNCHANGED table
    /\ UNCHANGED <<hashCount, resizing, producers, created>>

HashStep(t) ==
    \/ Lookup(t) \/ CountThread(t) \/ TestFull(t) \/ Resize(t) \/ Unlock(t)
    \/ CreateProducer(t) \/ LinkProducer(t) \/ InsertKey(t)
=============================================================================
