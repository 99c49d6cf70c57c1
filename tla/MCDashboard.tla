---------------------------- MODULE MCDashboard ----------------------------
(***************************************************************************)
(* TLC instance of Dashboard.  One team is enough: what a second one adds  *)
(* are polls and starts that the orchestrator refuses.                     *)
(***************************************************************************)
EXTENDS Dashboard, TLC
=============================================================================
