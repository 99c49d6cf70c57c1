--------------------------- MODULE MCBuildQueue ----------------------------
(***************************************************************************)
(* TLC instances of BuildQueue.  Jobs and workers are interchangeable in   *)
(* every definition, so safety runs may identify states up to renaming.    *)
(***************************************************************************)
EXTENDS BuildQueue, TLC

Symmetry == Permutations(Jobs) \cup Permutations(Workers) \cup Permutations(Slots)
=============================================================================
