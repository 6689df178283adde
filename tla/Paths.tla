-------------------------------- MODULE Paths --------------------------------
(***************************************************************************)
(* Keys as UNIX-like paths.  A normalised key "/a/b" is the sequence of    *)
(* its components <<"a", "b">>; the root path "/" is the empty sequence.   *)
(* The storage code keeps, for every path with children, one row holding   *)
(* the set of child names.  Here a child is represented by its own path,   *)
(* so the row of p is a set of keys c with Parent(c) = p.                  *)
(***************************************************************************)
EXTENDS Naturals, Sequences

CONSTANTS Name,   \* path components
          Key     \* the keys of the instance: non-empty paths

Root == <<>>
Path == Key \cup {Root}

Parent(c) == SubSeq(c, 1, Len(c) - 1)

(***************************************************************************)
(* treeComponents splits a key into one (parent path, child) pair for      *)
(* every level, from "/" down.  The pair is determined by the child's      *)
(* path, so the result is the set of non-empty prefixes of the key; the    *)
(* order is recovered from their lengths.                                  *)
(***************************************************************************)
treeComponents(k) == {SubSeq(k, 1, i) : i \in 1..Len(k)}

ASSUME KeyAssumption ==
    \A k \in Key : /\ k \in Seq(Name) \ {<<>>}
                   /\ treeComponents(k) \subseteq Key
=============================================================================
