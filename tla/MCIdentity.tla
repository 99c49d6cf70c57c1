----------------------------- MODULE MCIdentity -----------------------------
(***************************************************************************)
(* TLC instance of Identity: three signups and a registration that compete   *)
(* for two handles and two team names.                                     *)
(***************************************************************************)
EXTENDS Identity, TLC

Alike == Permutations(Signups) \cup Permutations(Handles) \cup Permutations(Names)
=============================================================================
