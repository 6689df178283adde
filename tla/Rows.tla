--------------------------------- MODULE Rows ---------------------------------
(***************************************************************************)
(* The rows of the five column families and what one operation inside a    *)
(* transaction does to them: the private members set, remove and move of   *)
(* Database (storage.cpp), as functions from a transaction's view of the   *)
(* rows to the view after the operation.                                   *)
(*                                                                         *)
(*   data        key -> value, NoValue for a missing row                   *)
(*   tree        path -> children ("forrest"), {} for a missing row        *)
(*   expiration  key -> expiry time, NoTTL for a missing row               *)
(*   expiring    rows (expiry time, key), in order of expiry time          *)
(*   cache       keys that have a marker row                               *)
(*                                                                         *)
(* Time is counted in ticks, TicksPerSecond of them to a second: the code  *)
(* keeps nanoseconds and truncates to seconds, and at least two ticks per  *)
(* second are needed to see the difference.  A key of the expiring family  *)
(* is the expiry time followed by the clock at the time of the write; the  *)
(* suffix only keeps rows of different keys apart, as the key does here.   *)
(***************************************************************************)
EXTENDS Paths

CONSTANTS Value,            \* what clients store
          NoValue,          \* no row in data
          TicksPerSecond    \* resolution of the clock

ASSUME RowsAssumption == /\ NoValue \notin Value
                         /\ TicksPerSecond \in Nat \ {0}

NoTTL == 0
Entry == [ts : Nat, key : Key]

Rows == [data       : [Key -> Value \cup {NoValue}],
         tree       : [Path -> SUBSET Key],
         expiration : [Key -> Nat],
         expiring   : SUBSET Entry,
         cache      : SUBSET Key]

NoRows == [data       |-> [k \in Key |-> NoValue],
           tree       |-> [p \in Path |-> {}],
           expiration |-> [k \in Key |-> NoTTL],
           expiring   |-> {},
           cache      |-> {}]

Options  == [ifNotExists : BOOLEAN, exp : Nat, cache : BOOLEAN]
SetItem  == [key : Key, value : Value, opts : Options]
MoveItem == [key : Key, dest : Key, opts : Options]

Exists(v, k) == v.data[k] # NoValue
-----------------------------------------------------------------------------
(* Expiry times. *)

ExpiresAt(clock, exp) == clock + exp * TicksPerSecond

\* Whole seconds left until ts, 0 once ts is reached.
parseTTL(ts, clock) == IF ts > clock THEN (ts - clock) \div TicksPerSecond ELSE 0
-----------------------------------------------------------------------------
(* The tree. *)

manageTree(tree, k) ==
    [p \in Path |-> tree[p] \cup {c \in treeComponents(k) : Parent(c) = p}]

\* Removing c leaves its parent path with neither children nor a value.
VacatedIgnoresValue(v, c) == v.tree[Parent(c)] = {c}        \* mutant
VacatedIgnoresSiblings(v, c) == ~ Exists(v, Parent(c))      \* mutant

Vacated(v, c) == /\ v.tree[Parent(c)] = {c}
                 /\ ~ Exists(v, Parent(c))

\* removeChild walks up from the key and goes on above a level only if the
\* removal there vacated the parent path.
UnlinkedOneLevel(v, k) == {k}                               \* mutant

Unlinked(v, k) ==
    {c \in treeComponents(k) :
        \A d \in treeComponents(k) : Len(d) > Len(c) => Vacated(v, d)}

removeChild(v, k) == [p \in Path |-> v.tree[p] \ Unlinked(v, k)]
-----------------------------------------------------------------------------
(* set: data row, marker or tree, then the two expiry rows. *)

setAllowed(v, it) == it.opts.ifNotExists => ~ Exists(v, it.key)

set(v, it, clock) ==
    LET ts == ExpiresAt(clock, it.opts.exp) IN
    [data       |-> [v.data EXCEPT ![it.key] = it.value],
     tree       |-> IF it.opts.cache THEN v.tree ELSE manageTree(v.tree, it.key),
     expiration |-> IF it.opts.exp > 0 THEN [v.expiration EXCEPT ![it.key] = ts]
                                       ELSE v.expiration,
     expiring   |-> IF it.opts.exp > 0
                       THEN v.expiring \cup {[ts |-> ts, key |-> it.key]}
                       ELSE v.expiring,
     cache      |-> IF it.opts.cache THEN v.cache \cup {it.key} ELSE v.cache]
-----------------------------------------------------------------------------
(* remove: the marker is looked up in the committed rows (db->Get), not in *)
(* the transaction, and a marked key leaves the tree alone.                *)

removeKeepsTTL(committed, v, k) ==                          \* mutant
    [data       |-> [v.data EXCEPT ![k] = NoValue],
     tree       |-> IF k \in committed.cache THEN v.tree ELSE removeChild(v, k),
     expiration |-> v.expiration,
     expiring   |-> v.expiring,
     cache      |-> IF k \in committed.cache THEN v.cache \ {k} ELSE v.cache]

remove(committed, v, k) ==
    [data       |-> [v.data EXCEPT ![k] = NoValue],
     tree       |-> IF k \in committed.cache THEN v.tree ELSE removeChild(v, k),
     expiration |-> [v.expiration EXCEPT ![k] = NoTTL],
     expiring   |-> v.expiring,
     cache      |-> IF k \in committed.cache THEN v.cache \ {k} ELSE v.cache]

\* A marker that cannot be deleted is not noticed: the status tested after
\* the deletion is that of the lookup.
removeKeepsMarker(committed, v, k) ==
    [remove(committed, v, k) EXCEPT !.cache = v.cache]

\* The views a failing remove leaves when it is not rolled back: nothing
\* done, the data row deleted, or both rows deleted and the tree unlinked
\* only below the level whose row could not be written.
removeFailed(committed, v, k) ==
    LET noData == [v EXCEPT !.data[k] = NoValue]
        noRow  == [noData EXCEPT !.expiration[k] = NoTTL]
        below(i) == {c \in Unlinked(v, k) : Len(c) > i}
    IN  {v, noData} \cup
        {[noRow EXCEPT !.tree = [p \in Path |-> v.tree[p] \ below(i)]] :
            i \in IF k \in committed.cache THEN {} ELSE {Len(c) : c \in Unlinked(v, k)}}
-----------------------------------------------------------------------------
(* move: remove the source, set the destination with the source's value,   *)
(* what is left of its TTL and its marker.                                 *)

moveAllowed(v, m) == /\ m.opts.ifNotExists => ~ Exists(v, m.dest)
                     /\ Exists(v, m.key)

moved(v, m, clock) ==
    [key   |-> m.dest,
     value |-> v.data[m.key],
     opts  |-> [ifNotExists |-> m.opts.ifNotExists,
                exp   |-> IF m.opts.exp = 0 THEN parseTTL(v.expiration[m.key], clock)
                                            ELSE m.opts.exp,
                cache |-> m.key \in v.cache \/ m.opts.cache]]

\* w is the view in which the source has been removed.
move(w, v, m, clock) == set(w, moved(v, m, clock), clock)
=============================================================================
