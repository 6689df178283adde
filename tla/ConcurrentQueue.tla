--------------------------- MODULE ConcurrentQueue ---------------------------
(***************************************************************************)
(* The queue of a listener's notifications (concurrentqueue.h): threads    *)
(* that set or remove keys put them in, the connection takes them out.     *)
(* Each thread that puts has a part of its own (an implicit producer), a   *)
(* sequence of blocks; blocks that were emptied go to the list of free     *)
(* blocks, from which every producer takes.                                *)
(*                                                                         *)
(* A producer finds the blocks through a circular index, which it replaces *)
(* by a larger one when the next entry is in use.  Those who take read the *)
(* index at the same time.                                                 *)
(***************************************************************************)
EXTENDS Integers, ProducerHash

CONSTANTS Script,        \* what each thread does: puts ("enqueue") and takes ("dequeue")
          BlockSize,     \* BLOCK_SIZE
          IndexSize,     \* IMPLICIT_INITIAL_INDEX_SIZE
          InitialBlocks, \* initialBlockPool, a sequence
          MaxFailures,   \* allocations of a block that may fail
          NoItem

ASSUME QueueAssumption ==
    /\ BlockSize \in Nat /\ BlockSize > 1 /\ IndexSize \in Nat \ {0}
    /\ \A i \in DOMAIN InitialBlocks : InitialBlocks[i] \in Block

VARIABLES script,        \* what the threads still have to do
          pool,          \* initialBlockPoolIndex
          block,         \* the elements and elementsCompletelyDequeued of each block
          used,          \* the blocks that exist: of the pool, or allocated
          producer,      \* of each producer the indexes, counters and headers of its index
          entry,         \* of each producer the entries, numbered in order of creation
          op,            \* the operation of each thread
          put,           \* history: the items each thread has put in
          got,           \* history: what each thread has taken out
          failures

queueVars == <<pool, block, used, producer, entry>>
vars == <<script, queueVars, op, put, got, failures, hashVars, listVars>>

Invalid == 1             \* INVALID_BLOCK_BASE, which is not even
BlockSizes == 0..BlockSize - 1
NewBlock == [element |-> [i \in BlockSizes |-> NoItem], dequeued |-> 0]
NewEntry == [key |-> Invalid, value |-> Null]
NewHeader(capacity, tail, index) == [capacity |-> capacity, tail |-> tail, index |-> index]

\* The index of a producer's constructor: its tail comes before the first entry.
NewProducer ==
    [tailIndex |-> 0, headIndex |-> 0, optimistic |-> 0, overcommit |-> 0, tailBlock |-> Null,
     header |-> <<NewHeader(IndexSize, IndexSize - 1, [i \in 0..IndexSize - 1 |-> i + 1])>>]

NoOp == [at |-> "idle", p |-> 0, entry |-> 0, block |-> Null, rest |-> <<>>, best |-> 0, seen |-> 0,
         tried |-> FALSE, count |-> 0,
         over |-> 0, index |-> 0, header |-> 0, tail |-> 0]

Init ==
    /\ script \in Script
    /\ pool = 0
    /\ block = [b \in Block |-> NewBlock]
    /\ used = {}
    /\ producer = <<>> /\ entry = <<>>
    /\ op = [t \in Thread |-> NoOp]
    /\ put = [t \in Thread |-> <<>>] /\ got = [t \in Thread |-> <<>>]
    /\ failures = 0
    /\ HashInit /\ ListInit

OpAt(t, at) == op[t].at = at
OpGoes(t, at) == op' = [op EXCEPT ![t].at = at]
Done(t) == /\ op' = [op EXCEPT ![t] = NoOp]
           /\ script' = [script EXCEPT ![t] = Tail(@)]
Idle(t, what) == OpAt(t, "idle") /\ script[t] # <<>> /\ Head(script[t]) = what
-----------------------------------------------------------------------------
(* enqueue *)

StartEnqueue(t) ==
    /\ Idle(t, "enqueue")
    /\ CallFind(t) /\ OpGoes(t, "find")
    /\ UNCHANGED <<script, queueVars, put, got, failures, listVars>>
    /\ UNCHANGED <<table, hashCount, resizing, producers, created>>

\* The producer's state comes with it when it is created.
FindStep(t) ==
    /\ HashStep(t)
    /\ IF created' # created
       THEN /\ producer' = Append(producer, NewProducer)
            /\ entry' = Append(entry, [i \in 1..IndexSize |-> NewEntry])
       ELSE UNCHANGED <<producer, entry>>
    /\ UNCHANGED <<script, pool, block, used, op, put, got, failures, listVars>>

\* With a producer: a new block at the end of one, else the next place.
Found(t) ==
    /\ Finding(t, "found") /\ OpAt(t, "find")
    /\ LET p == find[t].producer IN
       op' = [op EXCEPT ![t].p = p,
                        ![t].at = IF producer[p].tailIndex % BlockSize = 0 THEN "index" ELSE "store"]
    /\ find' = [find EXCEPT ![t] = NoFind]
    /\ UNCHANGED <<script, queueVars, put, got, failures, listVars>>
    /\ UNCHANGED <<table, hashCount, resizing, producers, created>>

Newest(p) == producer[p].header[Len(producer[p].header)]

\* new_block_index: the entries from the oldest on, then as many new ones.
Enlarged(p) ==
    LET h == Newest(p)
        c == h.capacity
    IN  NewHeader(2 * c, c - 1,
                  [i \in 0..2 * c - 1 |-> IF i < c THEN h.index[(h.tail + 1 + i) % c]
                                                   ELSE Len(entry[p]) + i - c + 1])

\* insert_block_index_entry
InsertEntry(t) ==
    /\ OpAt(t, "index")
    /\ LET p == op[t].p
           h == Newest(p)
           next == h.index[(h.tail + 1) % h.capacity]
           free == entry[p][next].key = Invalid \/ entry[p][next].value = Null
           header == IF free THEN producer[p].header ELSE Append(producer[p].header, Enlarged(p))
           entries == IF free THEN entry[p] ELSE entry[p] \o [i \in 1..h.capacity |-> NewEntry]
           last == Len(header)
           newTail == (header[last].tail + 1) % header[last].capacity
           e == header[last].index[newTail]
       IN  /\ producer' = [producer EXCEPT ![p].header = [header EXCEPT ![last].tail = newTail]]
           /\ entry' = [entry EXCEPT ![p] = [entries EXCEPT ![e].key = producer[p].tailIndex]]
           /\ op' = [op EXCEPT ![t].at = "pool", ![t].entry = e]
    /\ UNCHANGED <<script, pool, block, used, put, got, failures, hashVars, listVars>>

\* try_get_block_from_initial_pool, the first try of requisition_block.
FromPool(t) ==
    /\ OpAt(t, "pool")
    /\ IF pool < Len(InitialBlocks)
       THEN /\ pool' = pool + 1
            /\ used' = used \cup {InitialBlocks[pool + 1]}
            /\ op' = [op EXCEPT ![t].at = "block", ![t].block = InitialBlocks[pool + 1]]
            /\ UNCHANGED call
       ELSE /\ CallTryGet(t) /\ OpGoes(t, "list")
            /\ UNCHANGED <<pool, used>>
    /\ UNCHANGED <<script, block, producer, entry, put, got, failures, hashVars, freeListHead, node>>

FromList(t) ==
    /\ OpAt(t, "list") /\ At(t, "got")
    /\ op' = [op EXCEPT ![t].block = call[t].head,
                        ![t].at = IF call[t].head = Null THEN "allocate" ELSE "block"]
    /\ Return(t)
    /\ UNCHANGED <<script, queueVars, put, got, failures, hashVars, freeListHead, node>>

Allocate(t) ==
    /\ OpAt(t, "allocate")
    /\ LET b == CHOOSE b \in Block \ used : b \notin {InitialBlocks[i] : i \in DOMAIN InitialBlocks}
       IN  /\ used' = used \cup {b}
           /\ op' = [op EXCEPT ![t].at = "block", ![t].block = b]
    /\ UNCHANGED <<script, pool, block, producer, entry, put, got, failures, hashVars, listVars>>

\* No memory: the entry is given back (rewind_block_index_tail), nothing is put.
AllocateFails(t) ==
    /\ OpAt(t, "allocate") /\ failures < MaxFailures
    /\ failures' = failures + 1
    /\ LET p == op[t].p
           last == Len(producer[p].header)
           c == Newest(p).capacity
       IN  /\ producer' = [producer EXCEPT ![p].header[last].tail = (@ + c - 1) % c]
           /\ entry' = [entry EXCEPT ![p][op[t].entry].value = Null]
    /\ Done(t)
    /\ UNCHANGED <<pool, block, used, put, got, hashVars, listVars>>

\* reset_empty, and the block goes into the index.
UseBlock(t) ==
    /\ OpAt(t, "block")
    /\ LET b == op[t].block IN
          /\ block' = [block EXCEPT ![b].dequeued = 0]
          /\ entry' = [entry EXCEPT ![op[t].p][op[t].entry].value = b]
          /\ producer' = [producer EXCEPT ![op[t].p].tailBlock = b]
    /\ OpGoes(t, "store")
    /\ UNCHANGED <<script, pool, used, put, got, failures, hashVars, listVars>>

\* The element, then the tail, with which it can be taken.
Store(t) ==
    /\ OpAt(t, "store")
    /\ LET p == op[t].p
           i == producer[p].tailIndex
           item == [by |-> t, n |-> Len(put[t]) + 1]
       IN  /\ block' = [block EXCEPT ![producer[p].tailBlock].element[i % BlockSize] = item]
           /\ producer' = [producer EXCEPT ![p].tailIndex = i + 1]
           /\ put' = [put EXCEPT ![t] = Append(@, item)]
    /\ Done(t)
    /\ UNCHANGED <<pool, used, entry, got, failures, hashVars, listVars>>
-----------------------------------------------------------------------------
(* try_dequeue *)

size_approx(p) == IF producer[p].headIndex < producer[p].tailIndex
                  THEN producer[p].tailIndex - producer[p].headIndex ELSE 0

\* Nothing is returned.
Returns(t, item) ==
    /\ got' = [got EXCEPT ![t] = IF item = NoItem THEN @ ELSE Append(@, item)]
    /\ Done(t)

\* The producers are looked at in the order of the list, as it is now.
StartDequeue(t) ==
    /\ Idle(t, "dequeue")
    /\ op' = [op EXCEPT ![t].at = "scan", ![t].rest = producers]
    /\ UNCHANGED <<script, queueVars, put, got, failures, hashVars, listVars>>

\* The one with the most elements, of the first three that have any.
Scan(t) ==
    /\ OpAt(t, "scan")
    /\ LET o == op[t]
           size == size_approx(Head(o.rest))
       IN  IF o.rest # <<>> /\ o.seen < 3
           THEN /\ op' = [op EXCEPT ![t] = [o EXCEPT
                             !.rest = Tail(@),
                             !.seen = IF size > 0 THEN @ + 1 ELSE @,
                             !.p = IF size > o.best THEN Head(o.rest) ELSE @,
                             !.best = IF size > @ THEN size ELSE @]]
                /\ UNCHANGED <<got, script>>
           ELSE IF o.seen = 0 THEN Returns(t, NoItem)
           ELSE /\ op' = [op EXCEPT ![t].at = "look", ![t].rest = <<>>]
                /\ UNCHANGED <<got, script>>
    /\ UNCHANGED <<queueVars, put, failures, hashVars, listVars>>

\* This producer has nothing: the others in turn, then nothing is returned.
TryNext(t) ==
    LET o == op[t]
        left == IF o.tried THEN o.rest ELSE SelectSeq(producers, LAMBDA p : p # o.p)
    IN  IF left = <<>> THEN Returns(t, NoItem)
        ELSE /\ op' = [op EXCEPT ![t] = [o EXCEPT !.p = Head(left), !.at = "look",
                                                  !.rest = Tail(left), !.tried = TRUE]]
             /\ UNCHANGED <<got, script>>

Look(t) ==
    /\ OpAt(t, "look")
    /\ LET p == producer[op[t].p] IN
       IF p.optimistic - p.overcommit < p.tailIndex
       THEN /\ op' = [op EXCEPT ![t].at = "claim", ![t].over = p.overcommit]
            /\ UNCHANGED <<got, script>>
       ELSE TryNext(t)
    /\ UNCHANGED <<queueVars, put, failures, hashVars, listVars>>

Claim(t) ==
    /\ OpAt(t, "claim")
    /\ LET p == op[t].p IN
          /\ op' = [op EXCEPT ![t].at = "check", ![t].count = producer[p].optimistic]
          /\ producer' = [producer EXCEPT ![p].optimistic = @ + 1]
    /\ UNCHANGED <<script, pool, block, used, entry, put, got, failures, hashVars, listVars>>

\* Too many claims: one is taken back.
Overcommitted(t) ==
    /\ OpAt(t, "check")
    /\ op[t].count - op[t].over >= producer[op[t].p].tailIndex
    /\ producer' = [producer EXCEPT ![op[t].p].overcommit = @ + 1]
    /\ TryNext(t)
    /\ UNCHANGED <<pool, block, used, entry, put, failures, hashVars, listVars>>

TakeIndexEarly(t) ==                                        \* mutant
    /\ OpAt(t, "check")
    /\ LET p == op[t].p IN
          /\ op' = [op EXCEPT ![t].at = "tail", ![t].index = producer[p].headIndex]
          /\ producer' = [producer EXCEPT ![p].headIndex = @ + 1]
    /\ UNCHANGED <<script, pool, block, used, entry, put, got, failures, hashVars, listVars>>

TakeIndex(t) ==
    /\ OpAt(t, "check")
    /\ op[t].count - op[t].over < producer[op[t].p].tailIndex
    /\ LET p == op[t].p IN
          /\ op' = [op EXCEPT ![t].at = "tail", ![t].index = producer[p].headIndex]
          /\ producer' = [producer EXCEPT ![p].headIndex = @ + 1]
    /\ UNCHANGED <<script, pool, block, used, entry, put, got, failures, hashVars, listVars>>

\* get_block_index_index_for_index: the newest index and its tail,
LoadTail(t) ==
    /\ OpAt(t, "tail")
    /\ op' = [op EXCEPT ![t].at = "take", ![t].header = Len(producer[op[t].p].header),
                        ![t].tail = Newest(op[t].p).tail]
    /\ UNCHANGED <<script, queueVars, put, got, failures, hashVars, listVars>>

\* from which the entry of the block is as far back as the block is.
EntryFor(t) ==
    LET p == op[t].p
        h == producer[p].header[op[t].header]
        base == op[t].index - (op[t].index % BlockSize)
        tailBase == entry[p][h.index[op[t].tail]].key
        back == (tailBase - base) \div BlockSize
    IN  h.index[(op[t].tail + h.capacity * (back + 1) - back) % h.capacity]

\* The element is moved out of the block.
Take(t) ==
    /\ OpAt(t, "take")
    /\ LET e == EntryFor(t)
           b == entry[op[t].p][e].value
           i == op[t].index % BlockSize
       IN  /\ got' = [got EXCEPT ![t] = Append(@, block[b].element[i])]
           /\ block' = [block EXCEPT ![b].element[i] = NoItem]
           /\ op' = [op EXCEPT ![t].at = "empty", ![t].entry = e, ![t].block = b]
    /\ UNCHANGED <<script, pool, used, producer, entry, put, failures, hashVars, listVars>>

\* set_empty: who takes the last element of a block frees it.
SetEmpty(t) ==
    /\ OpAt(t, "empty")
    /\ block' = [block EXCEPT ![op[t].block].dequeued = @ + 1]
    /\ IF block[op[t].block].dequeued = BlockSize - 1
       THEN OpGoes(t, "free") /\ UNCHANGED script
       ELSE Done(t)
    /\ UNCHANGED <<pool, used, producer, entry, put, got, failures, hashVars, listVars>>

\* The entry, then add_block_to_free_list.
FreeBlock(t) ==
    /\ OpAt(t, "free")
    /\ entry' = [entry EXCEPT ![op[t].p][op[t].entry].value = Null]
    /\ CallAdd(t, op[t].block)
    /\ OpGoes(t, "adding")
    /\ UNCHANGED <<script, pool, block, used, producer, put, got, failures, hashVars,
                   freeListHead, node>>

Added(t) ==
    /\ OpAt(t, "adding") /\ At(t, "out")
    /\ Done(t)
    /\ UNCHANGED <<queueVars, put, got, failures, hashVars, listVars>>

ListCall(t) ==
    /\ ListStep(t)
    /\ UNCHANGED <<script, queueVars, op, put, got, failures, hashVars>>

Enqueue(t) ==
    \/ StartEnqueue(t) \/ FindStep(t) \/ Found(t) \/ InsertEntry(t) \/ FromPool(t) \/ FromList(t)
    \/ Allocate(t) \/ AllocateFails(t) \/ UseBlock(t) \/ Store(t)
Dequeue(t) ==
    \/ StartDequeue(t) \/ Scan(t) \/ Look(t) \/ Claim(t) \/ Overcommitted(t) \/ TakeIndex(t)
    \/ LoadTail(t) \/ Take(t) \/ SetEmpty(t) \/ FreeBlock(t) \/ Added(t)

Next == \E t \in Thread : Enqueue(t) \/ Dequeue(t) \/ ListCall(t)
Spec == Init /\ [][Next]_vars
-----------------------------------------------------------------------------
(* Properties. *)

\* The blocks a thread has taken out of the shared structures.
Held(t) == ({op[t].block} \ {Null}) \cap
               IF OpAt(t, "block") \/ OpAt(t, "free") THEN {op[t].block}
               ELSE IF OpAt(t, "adding") /\ At(t, "add") THEN {op[t].block} ELSE {}
Indexed(p) == {entry[p][e].value : e \in DOMAIN entry[p]} \ {Null}

\* A block is in one place: of one producer, held by one thread, or on the list
\* of free blocks; and an entry of an index has a block of its own.
TypeOK ==
    /\ \A p \in DOMAIN producer :
          /\ producer[p].headIndex <= producer[p].tailIndex
          /\ \A e, f \in DOMAIN entry[p] :
                e # f /\ entry[p][e].value = entry[p][f].value => entry[p][e].value = Null
          /\ Indexed(p) \cap Listed = {}
          /\ \A q \in DOMAIN producer : p # q => Indexed(p) \cap Indexed(q) = {}
    /\ \A t, u \in Thread : t # u => Held(t) \cap Held(u) = {}
    /\ \A t \in Thread : Held(t) \cap Listed = {}

\* What is taken out was put in, and is taken out once.
TakenOnce ==
    \A t, u \in Thread : \A i \in DOMAIN got[t], j \in DOMAIN got[u] :
        /\ got[t][i] # NoItem
        /\ got[t][i] = got[u][j] => t = u /\ i = j

\* A thread that takes gets what one thread has put in the order in which it was put.
ThreadFIFO ==
    \A t \in Thread : \A i, j \in DOMAIN got[t] :
        i < j /\ got[t][i].by = got[t][j].by => got[t][i].n < got[t][j].n

\* No block is lost: when no thread is in an operation, a block that exists is on
\* the list of free blocks or holds the elements of a producer.
NoBlockLost ==
    (\A t \in Thread : OpAt(t, "idle")) =>
        used = Listed \cup UNION {Indexed(p) : p \in DOMAIN producer}

\* A probe of a hash table ends: there is always an empty slot.
EmptySlot ==
    \A h \in DOMAIN table : \E i \in DOMAIN table[h].slot : table[h].slot[i].key = Empty
=============================================================================
