------------------------ MODULE MCKubernetesSandbox ------------------------
(***************************************************************************)
(* TLC instance of KubernetesSandbox: the three attempts a job has, and    *)
(* two cleanups of one run.                                                *)
(***************************************************************************)
EXTENDS KubernetesSandbox, TLC

Alike == Permutations(Attempts) \cup Permutations(Stops)
=============================================================================
