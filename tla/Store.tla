-------------------------------- MODULE Store --------------------------------
(***************************************************************************)
(* What the storage engine promises its callers (storage.hpp): a map from  *)
(* keys to values changed by requests that take effect completely or not   *)
(* at all.  Nothing else changes a value, but for keys that were given a   *)
(* TTL: those may disappear at any time, one or several together.          *)
(*                                                                         *)
(* The tree, the expiry rows, the cleaner's passes, the value cache and    *)
(* crashes are details of the implementation, Storage.                     *)
(***************************************************************************)
EXTENDS Naturals, Sequences

CONSTANTS Key, Value, NoValue, Requests

VARIABLES stored,   \* the values callers see, and the keys that may expire
          draft,    \* the same with the items of the open request applied
          op,       \* the open request, "idle" if there is none
          items     \* its items still to be applied

vars == <<stored, draft, op, items>>

Init ==
    /\ stored = [data |-> [k \in Key |-> NoValue], mortal |-> {}]
    /\ draft = stored
    /\ op = "idle" /\ items = <<>>

Begin(r) ==
    /\ op = "idle"
    /\ op' = r.op /\ items' = r.items
    /\ UNCHANGED <<stored, draft>>

Apply(state) ==
    /\ draft' = state /\ items' = Tail(items)
    /\ UNCHANGED <<stored, op>>

Set ==
    /\ op = "set" /\ items # <<>>
    /\ LET it == Head(items) IN
       /\ it.opts.ifNotExists => draft.data[it.key] = NoValue
       /\ Apply([data   |-> [draft.data EXCEPT ![it.key] = it.value],
                 mortal |-> draft.mortal \cup (IF it.opts.exp > 0 THEN {it.key} ELSE {})])

Remove ==
    /\ op = "remove" /\ items # <<>>
    /\ Apply([data   |-> [draft.data EXCEPT ![Head(items).key] = NoValue],
              mortal |-> draft.mortal])

\* The destination may inherit a TTL.
Move ==
    /\ op = "move" /\ items # <<>>
    /\ LET m == Head(items) IN
       /\ m.opts.ifNotExists => draft.data[m.dest] = NoValue
       /\ draft.data[m.key] # NoValue
       /\ \E inherited \in SUBSET {m.dest} :
             Apply([data   |-> [[draft.data EXCEPT ![m.key] = NoValue]
                                   EXCEPT ![m.dest] = draft.data[m.key]],
                    mortal |-> draft.mortal \cup inherited])

Finish(state) ==
    /\ stored' = state /\ draft' = state
    /\ op' = "idle" /\ items' = <<>>

Commit == op # "idle" /\ items = <<>> /\ Finish(draft)

\* A request that is refused, fails or dies with the process leaves no trace.
Abort == op # "idle" /\ Finish(stored)

Expire ==
    /\ op = "idle"
    /\ \E keys \in SUBSET stored.mortal, left \in SUBSET stored.mortal :
          Finish([data   |-> [k \in Key |-> IF k \in keys THEN NoValue ELSE stored.data[k]],
                  mortal |-> left])

Next == \/ \E r \in Requests : Begin(r)
        \/ Set \/ Remove \/ Move
        \/ Commit \/ Abort \/ Expire

Spec == Init /\ [][Next]_vars
=============================================================================
