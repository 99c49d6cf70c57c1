---------------------------- MODULE Leaderboard ----------------------------
(***************************************************************************)
(* One team's member of the sorted set "leaderboard" in Redis and what     *)
(* writes it: the final flush of each of the team's runs, by any replica   *)
(* of the ingester, the rebuild of a starting orchestrator, signup, login  *)
(* and /contestants.  A member's score is read and written by two calls,   *)
(* and nobody locks it.                                                    *)
(*                                                                         *)
(* Members are independent of each other, so one team stands for all.  A   *)
(* score is a number in a third of the digit that toFixed(2) keeps: the    *)
(* ingester ranks rounded scores, the rebuild ranks the rows' own.         *)
(***************************************************************************)
EXTENDS Integers, FiniteSetsExt

CONSTANTS Runs,        \* the team's benchmark runs
          Scores,      \* the scores a run may reach
          CallsFail,   \* whether calls of a final flush to Redis may fail
          MaxLosses,   \* bound on Redis losing its data
          MaxStarts    \* bound on restarts of the orchestrator

\* There is a highest one, as there is of the doubles that hold them.
ASSUME ScoresAssumption ==
  Scores \subseteq Nat /\ \E top \in Scores : \A score \in Scores : score <= top
ASSUME BoundAssumption  == MaxLosses \in Nat /\ MaxStarts \in Nat

VARIABLES
  board,     \* the team's score in Redis, or Absent
  row,       \* per run: [status, score] of its row in benchmark_runs
  flush,     \* per run: where its final flush is, and what it read
  team,      \* the team has a document in teams
  member,    \* somebody can log in for the team
  adding,    \* the zAdd of signup or of /contestants is on its way to Redis
  rebuild,   \* where the start of the orchestrator is, and what it read
  losses, starts

boardVars == <<board, row, flush, team, member, adding, rebuild, losses, starts>>

Absent == -1
None   == -2

\* Number(rows[0]?.score || 0)
Best(S) == Max(S \cup {0})

Init ==
  /\ board = Absent
  /\ row = [r \in Runs |-> [status |-> "none", score |-> 0]]
  /\ flush = [r \in Runs |-> [pc |-> "new", score |-> None, seen |-> None]]
  /\ team = FALSE /\ member = FALSE /\ adding = FALSE
  /\ rebuild = [pc |-> "up", score |-> None, seen |-> None]
  /\ losses = 0 /\ starts = 0

\* zAdd(), on the strength of what zScore() said: old === null || score > old.
AddedTo(old, score, seen) == IF seen = Absent \/ score > seen THEN score ELSE old

-----------------------------------------------------------------------------
(***************************************************************************)
(* A run: its row, and the final flush() of the ingester.                  *)
(***************************************************************************)
At(r, pc) == flush[r].pc = pc

\* Nothing of a flush that is not under way is kept.
Goto(r, pc) == flush' = [flush EXCEPT ![r] = [pc |-> pc, score |-> None, seen |-> None]]

Rounded(score) == 3 * ((score + 1) \div 3)

StartRun(r) ==
  /\ member /\ rebuild.pc = "up"
  /\ row[r].status = "none"
  /\ row' = [row EXCEPT ![r].status = "running"]
  /\ UNCHANGED <<board, flush, team, member, adding, rebuild, losses, starts>>

\* The load has ended, and finalize() writes the run's figures; a score that rounds
\* to zero is not ranked.
WriteRow(r, score) ==
  /\ At(r, "new") /\ row[r].status # "none"
  /\ row' = [row EXCEPT ![r].score = score]
  /\ IF Rounded(score) > 0
     THEN flush' = [flush EXCEPT ![r] = [pc |-> "score", score |-> Rounded(score), seen |-> None]]
     ELSE Goto(r, "done")
  /\ UNCHANGED <<board, team, member, adding, rebuild, losses, starts>>

\* zScore().
ReadScore(r) ==
  /\ At(r, "score")
  /\ flush' = [flush EXCEPT ![r].seen = board, ![r].pc = "add"]
  /\ UNCHANGED <<board, row, team, member, adding, rebuild, losses, starts>>

\* zAdd(), if need be.
AddScore(r) ==
  /\ At(r, "add")
  /\ board' = AddedTo(board, flush[r].score, flush[r].seen)
  /\ Goto(r, "done")
  /\ UNCHANGED <<row, team, member, adding, rebuild, losses, starts>>

\* A call fails: the score is not ranked, or it is and nobody knows.
FlushEnds(r) ==
  /\ CallsFail /\ flush[r].pc \in {"score", "add"}
  /\ \/ UNCHANGED board
     \/ At(r, "add") /\ board' = AddedTo(board, flush[r].score, flush[r].seen)
  /\ Goto(r, "done")
  /\ UNCHANGED <<row, team, member, adding, rebuild, losses, starts>>

\* run_complete is delivered once more, after a crash or a rebalance: what the new
\* owner counts is another score, often none.
Redelivered(r) ==
  /\ flush[r].pc # "new"
  /\ Goto(r, "new")
  /\ UNCHANGED <<board, row, team, member, adding, rebuild, losses, starts>>

\* The orchestrator's verdict, whose order with the flush is not fixed: the timer
\* or the failing start may be first.
Settle(r, status) ==
  /\ row[r].status = "running"
  /\ row' = [row EXCEPT ![r].status = status]
  /\ UNCHANGED <<board, flush, team, member, adding, rebuild, losses, starts>>

-----------------------------------------------------------------------------
(***************************************************************************)
(* Teams and members (see Identity).                                       *)
(***************************************************************************)
\* Both documents are stored, and zAdd(0) is sent and not awaited; or signup fails and
\* leaves one of the two behind.
SignUp ==
  /\ rebuild.pc = "up" /\ ~team /\ ~member
  /\ \/ team' = TRUE /\ member' = TRUE /\ adding' = TRUE
     \/ team' = TRUE /\ UNCHANGED <<member, adding>>
     \/ member' = TRUE /\ UNCHANGED <<team, adding>>
  /\ UNCHANGED <<board, row, flush, rebuild, losses, starts>>

\* /contestants: a team that is new to the collection is stored, whoever may log in for
\* it, and zAdd(0) is sent.
Register ==
  /\ rebuild.pc = "up" /\ ~team
  /\ team' = TRUE /\ adding' = TRUE
  /\ UNCHANGED <<board, row, flush, member, rebuild, losses, starts>>

\* The zAdd arrives, perhaps after it was queued while Redis was away, and overwrites
\* whatever is there; or it is lost.
ZeroArrives ==
  /\ adding
  /\ adding' = FALSE
  /\ board' \in {0, board}
  /\ UNCHANGED <<row, flush, team, member, rebuild, losses, starts>>

\* zAdd(0, NX).
LogIn ==
  /\ rebuild.pc = "up" /\ member /\ board = Absent
  /\ board' = 0
  /\ UNCHANGED <<row, flush, team, member, adding, rebuild, losses, starts>>

-----------------------------------------------------------------------------
(***************************************************************************)
(* The orchestrator's start: rebuildLeaderboardFromDurableState().         *)
(***************************************************************************)
\* It goes down, also while it starts: a call of the rebuild that fails ends the
\* process.
GoDown ==
  /\ starts < MaxStarts
  /\ starts' = starts + 1
  /\ rebuild' = [pc |-> "teams", score |-> None, seen |-> None]
  /\ adding' = FALSE
  /\ UNCHANGED <<board, row, flush, team, member, losses>>

FindTeams ==
  /\ rebuild.pc = "teams"
  /\ rebuild' = [rebuild EXCEPT !.pc = IF team THEN "query" ELSE "up"]
  /\ UNCHANGED <<board, row, flush, team, member, adding, losses, starts>>

Completed == {r \in Runs : row[r].status = "completed"}

\* Mutant of QueryBest: without a completed run NULL is the score.
QueryBestOrNull ==
  /\ rebuild.pc = "query"
  /\ rebuild' = [rebuild EXCEPT !.pc = "score",
                   !.score = IF Completed = {} THEN None ELSE Best({row[r].score : r \in Completed})]
  /\ UNCHANGED <<board, row, flush, team, member, adding, losses, starts>>

\* Mutant of QueryBest: without a completed run the team is skipped.
QueryBestOrSkip ==
  /\ rebuild.pc = "query"
  /\ rebuild' = IF Completed = {} THEN [rebuild EXCEPT !.pc = "up"]
                ELSE [rebuild EXCEPT !.pc = "score", !.score = Best({row[r].score : r \in Completed})]
  /\ UNCHANGED <<board, row, flush, team, member, adding, losses, starts>>

\* The best completed run, or 0.
QueryBest ==
  /\ rebuild.pc = "query"
  /\ rebuild' = [rebuild EXCEPT !.pc = "score", !.score = Best({row[r].score : r \in Completed})]
  /\ UNCHANGED <<board, row, flush, team, member, adding, losses, starts>>

RebuildReads ==
  /\ rebuild.pc = "score"
  /\ rebuild' = [rebuild EXCEPT !.pc = "add", !.seen = board]
  /\ UNCHANGED <<board, row, flush, team, member, adding, losses, starts>>

RebuildAdds ==
  /\ rebuild.pc = "add"
  /\ board' = AddedTo(board, rebuild.score, rebuild.seen)
  /\ rebuild' = [pc |-> "up", score |-> None, seen |-> None]
  /\ UNCHANGED <<row, flush, team, member, adding, losses, starts>>

\* Redis comes back empty.
LoseData ==
  /\ losses < MaxLosses
  /\ losses' = losses + 1
  /\ board' = Absent
  /\ UNCHANGED <<row, flush, team, member, adding, rebuild, starts>>

-----------------------------------------------------------------------------
Next ==
  \/ \E r \in Runs :
       \/ StartRun(r) \/ ReadScore(r) \/ AddScore(r) \/ FlushEnds(r)
       \/ Redelivered(r)
       \/ \E score \in Scores : WriteRow(r, score)
       \/ \E status \in {"completed", "failed"} : Settle(r, status)
  \/ SignUp \/ Register \/ ZeroArrives \/ LogIn
  \/ GoDown \/ FindTeams \/ QueryBest \/ RebuildReads \/ RebuildAdds
  \/ LoseData

Spec == Init /\ [][Next]_boardVars

-----------------------------------------------------------------------------
(***************************************************************************)
(* Properties.                                                             *)
(***************************************************************************)
\* Every variable keeps its type.
TypeOK ==
  /\ board \in Nat \cup {Absent}
  /\ row \in [Runs -> [status : {"none", "running", "completed", "failed"}, score : Nat]]
  /\ flush \in [Runs -> [pc : {"new", "score", "add", "done"}, score : Nat \cup {None},
                        seen : Nat \cup {Absent, None}]]
  /\ team \in BOOLEAN /\ member \in BOOLEAN /\ adding \in BOOLEAN
  /\ rebuild \in [pc : {"up", "teams", "query", "score", "add"}, score : Nat \cup {None},
                  seen : Nat \cup {Absent, None}]
  /\ losses \in 0..MaxLosses /\ starts \in 0..MaxStarts

RebuildEnds == rebuild.pc # "up" /\ rebuild'.pc = "up"

\* Redis lost the member, or somebody wrote it, since the rebuild's zScore.
MetAnother == rebuild.pc = "add" /\ board # rebuild.seen

\* Whatever happened to the board before or since the rebuild began, a start of the
\* orchestrator ends with every team listed; only a member that is lost after the
\* rebuild has seen it stays missing.  And unless the member was written or lost between
\* the rebuild's two calls, its score is no worse than the completed run it looked up.
ListedAgain ==
  [][team /\ RebuildEnds =>
       /\ board' # Absent \/ (MetAnother /\ board = Absent)
       /\ MetAnother \/ board' >= rebuild.score]_boardVars

\* README.md:71, 139: the member's score is the team's best, the "Best completed run
\* score".  Once all runs are settled and flushed, a score above zero is at least one of
\* the two: that of a run that completed, or no worse than the best of those.
BoardIsBestCompleted ==
  LET completed == {Rounded(row[r].score) : r \in Completed} IN
  (\A r \in Runs : row[r].status = "none" \/ (row[r].status # "running" /\ At(r, "done"))) =>
    board <= 0 \/ board \in completed \/ board >= Best(completed)
=============================================================================
