------------------------------ MODULE FreeList -------------------------------
(***************************************************************************)
(* The list of free blocks of the queue (FreeList of concurrentqueue.h): a *)
(* stack without locks.  A count of references keeps a node from being put *)
(* back while another thread reads its successor; a thread that may not    *)
(* put a node back leaves that to the last one that refers to it.          *)
(*                                                                         *)
(* One action is one access to shared memory, in the order of the program. *)
(***************************************************************************)
EXTENDS Naturals, FiniteSets

CONSTANTS Thread, Block,
          Null        \* no block

VARIABLES freeListHead,
          node,       \* of each block: the references (REFS_MASK), whether it should
                      \* be on the list (SHOULD_BE_ON_FREELIST), the next block
          call        \* the call of each thread

listVars == <<freeListHead, node, call>>

FreeListNode == [refs |-> 0, should |-> FALSE, next |-> Null]
NoCall == [at |-> "out", block |-> Null, head |-> Null, next |-> Null, getting |-> FALSE]

ListInit ==
    /\ freeListHead = Null
    /\ node = [b \in Block |-> FreeListNode]
    /\ call = [t \in Thread |-> NoCall]

\* The calls, as the queue makes them.
CallTryGet(t) == call' = [call EXCEPT ![t] = [NoCall EXCEPT !.at = "load", !.getting = TRUE]]
CallAdd(t, b) == call' = [call EXCEPT ![t] = [NoCall EXCEPT !.at = "add", !.block = b]]
Return(t)     == call' = [call EXCEPT ![t] = NoCall]

At(t, at) == call[t].at = at
Goes(t, at) == call' = [call EXCEPT ![t].at = at]
-----------------------------------------------------------------------------
(* try_get *)

LoadHead(t) ==
    /\ At(t, "load")
    /\ call' = [call EXCEPT ![t].head = freeListHead,
                            ![t].at = IF freeListHead = Null THEN "got" ELSE "ref"]
    /\ UNCHANGED <<freeListHead, node>>

ReferAny(t) ==                                              \* mutant
    /\ At(t, "ref")
    /\ node' = [node EXCEPT ![call[t].head].refs = @ + 1]
    /\ Goes(t, "next")
    /\ UNCHANGED freeListHead

\* A reference, unless there is none any more: then the node is not on the list.
Refer(t) ==
    /\ At(t, "ref")
    /\ IF node[call[t].head].refs = 0
       THEN Goes(t, "load") /\ UNCHANGED node
       ELSE /\ node' = [node EXCEPT ![call[t].head].refs = @ + 1]
            /\ Goes(t, "next")
    /\ UNCHANGED freeListHead

LoadNext(t) ==
    /\ At(t, "next")
    /\ call' = [call EXCEPT ![t].next = node[call[t].head].next, ![t].at = "swap"]
    /\ UNCHANGED <<freeListHead, node>>

\* compare_exchange of the head; when it fails, the head it saw is tried next.
SwapHead(t) ==
    /\ At(t, "swap")
    /\ IF freeListHead = call[t].head
       THEN freeListHead' = call[t].next /\ Goes(t, "unref2")
       ELSE /\ call' = [call EXCEPT ![t].block = call[t].head, ![t].head = freeListHead,
                                    ![t].at = "unref"]
            /\ UNCHANGED freeListHead
    /\ UNCHANGED node

\* Its own reference and the one of the list.
Unrefer2(t) ==
    /\ At(t, "unref2")
    /\ node' = [node EXCEPT ![call[t].head].refs = @ - 2]
    /\ Goes(t, "got")
    /\ UNCHANGED freeListHead

NextTry(c) == IF c.head = Null THEN "got" ELSE "ref"

UnreferForgets(t) ==                                        \* mutant
    /\ At(t, "unref")
    /\ node' = [node EXCEPT ![call[t].block].refs = @ - 1]
    /\ Goes(t, NextTry(call[t]))
    /\ UNCHANGED freeListHead

\* The last reference to a node that should be on the list puts it there.
Unrefer(t) ==
    /\ At(t, "unref")
    /\ LET b == call[t].block IN
          /\ node' = [node EXCEPT ![b].refs = @ - 1]
          /\ Goes(t, IF node[b].should /\ node[b].refs = 1 THEN "addhead" ELSE NextTry(call[t]))
    /\ UNCHANGED freeListHead
-----------------------------------------------------------------------------
(* add, add_knowing_refcount_is_zero *)

AfterAdd(t) == IF call[t].getting THEN Goes(t, NextTry(call[t])) ELSE Return(t)

Add(t) ==
    /\ At(t, "add")
    /\ node' = [node EXCEPT ![call[t].block].should = TRUE]
    /\ IF node[call[t].block].refs = 0 THEN Goes(t, "addhead") ELSE Return(t)
    /\ UNCHANGED freeListHead

\* The head to expect; a get under way keeps the head it is going to try.
AddLoadHead(t) ==
    /\ At(t, "addhead")
    /\ call' = [call EXCEPT ![t].next = freeListHead, ![t].at = "addstore"]
    /\ UNCHANGED <<freeListHead, node>>

AddStore(t) ==
    /\ At(t, "addstore")
    /\ node' = [node EXCEPT ![call[t].block] = [refs |-> 1, should |-> FALSE,
                                                next |-> call[t].next]]
    /\ Goes(t, "addswap")
    /\ UNCHANGED freeListHead

AddSwap(t) ==
    /\ At(t, "addswap")
    /\ IF freeListHead = call[t].next
       THEN freeListHead' = call[t].block /\ AfterAdd(t)
       ELSE /\ call' = [call EXCEPT ![t].next = freeListHead, ![t].at = "addfailed"]
            /\ UNCHANGED freeListHead
    /\ UNCHANGED node

\* Leaves the node to those who refer to it, or tries again if nobody does.
AddFailed(t) ==
    /\ At(t, "addfailed")
    /\ LET b == call[t].block IN
          /\ node' = [node EXCEPT ![b].refs = @ - 1, ![b].should = TRUE]
          /\ IF node[b].refs = 1 /\ ~ node[b].should THEN Goes(t, "addstore") ELSE AfterAdd(t)
    /\ UNCHANGED freeListHead

ListStep(t) ==
    \/ LoadHead(t) \/ Refer(t) \/ LoadNext(t) \/ SwapHead(t) \/ Unrefer2(t) \/ Unrefer(t)
    \/ Add(t) \/ AddLoadHead(t) \/ AddStore(t) \/ AddSwap(t) \/ AddFailed(t)

\* The blocks on the list.
Listed ==
    LET from[n \in 0..Cardinality(Block), b \in Block \cup {Null}] ==
            IF b = Null \/ n = 0 THEN {} ELSE {b} \cup from[n - 1, node[b].next]
    IN  from[Cardinality(Block), freeListHead]
=============================================================================
