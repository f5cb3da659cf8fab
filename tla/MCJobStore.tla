----------------------------- MODULE MCJobStore -----------------------------
(* Instances of JobStore for TLC.  TextKey gives each path the key of its own *)
(* spelling; a link retarget then makes two spellings meet at one key.       *)
EXTENDS JobStore, TLC

CONSTANTS j1, j2, p1, p2, k1, k2

MCTextKey == p1 :> k1 @@ p2 :> k2
MCTextKeyOne == p1 :> k1
JobSymmetry == Permutations(Jobs)
=============================================================================
