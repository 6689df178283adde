-------------------------------- MODULE MCPool --------------------------------
(***************************************************************************)
(* Instances of Pool for TLC.  Threads are interchangeable.                *)
(***************************************************************************)
EXTENDS Pool, TLC

Threads == Permutations(Thread)
=============================================================================
