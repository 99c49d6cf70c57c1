--------------------------- MODULE MCLeaderboard ---------------------------
(***************************************************************************)
(* TLC instances of Leaderboard: two runs, and scores that round to        *)
(* nothing, down and up.                                                   *)
(***************************************************************************)
EXTENDS Leaderboard

FewScores == {1, 4, 5}
=============================================================================
