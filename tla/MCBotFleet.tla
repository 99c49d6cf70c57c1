----------------------------- MODULE MCBotFleet -----------------------------
(***************************************************************************)
(* TLC instances of BotFleet.                                              *)
(***************************************************************************)
EXTENDS BotFleet, TLC
=============================================================================
