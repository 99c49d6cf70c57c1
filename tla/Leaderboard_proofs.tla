------------------------- MODULE Leaderboard_proofs -------------------------
(***************************************************************************)
(* Proofs about Leaderboard: its type invariant, and that a start of the   *)
(* orchestrator ends with every team listed.                               *)
(***************************************************************************)
EXTENDS Leaderboard, WellFoundedInduction, TLAPS

-----------------------------------------------------------------------------
(***************************************************************************)
(* The best of some scores.                                                *)
(***************************************************************************)
\* Best() is determined by what it must be.
LEMMA BestIs ==
  ASSUME NEW T, T \subseteq Int,
         NEW m \in T \cup {0}, \A x \in T \cup {0} : m >= x
  PROVE  Best(T) = m
<1>1. \E x \in T \cup {0} : \A y \in T \cup {0} : x >= y
  OBVIOUS
<1>2. Best(T) = CHOOSE x \in T \cup {0} : \A y \in T \cup {0} : x >= y
  BY DEF Best, Max
<1>3. PICK b : b = Best(T) /\ b \in T \cup {0} /\ \A y \in T \cup {0} : b >= y
  BY <1>1, <1>2
<1>4. b \in Int /\ m \in Int /\ b >= m /\ m >= b
  BY <1>3
<1>5. b = m
  BY <1>4
<1> QED
  BY <1>3, <1>5

\* Scores that are bounded have a highest one.
LEMMA HighestExists ==
  ASSUME NEW n \in Nat, NEW T, T \subseteq 0..n, T # {}
  PROVE  \E x \in T : \A y \in T : x >= y
<1> DEFINE Gaps == {n - x : x \in T}
<1>1. Gaps \subseteq Nat /\ Gaps # {}
  <2>1. PICK x \in T : TRUE
    OBVIOUS
  <2>2. n - x \in Gaps
    BY <2>1
  <2>3. \A y \in T : n - y \in Nat
    OBVIOUS
  <2> QED
    BY <2>2, <2>3
<1>2. PICK d \in Gaps : \A e \in Gaps : <<e, d>> \notin OpToRel(<, Nat)
  BY <1>1, NatLessThanWellFounded, WFMin
<1>3. \A e \in Gaps : ~(e < d)
  BY <1>1, <1>2 DEF OpToRel
<1>4. PICK x \in T : d = n - x
  OBVIOUS
<1>5. \A y \in T : x >= y
  BY <1>3, <1>4
<1> QED
  BY <1>5

LEMMA BestIsAScore ==
  ASSUME NEW T, T \subseteq Scores \cup {0}
  PROVE  Best(T) \in Nat
<1>1. PICK top \in Nat : \A score \in Scores : score <= top
  BY ScoresAssumption
<1>2. T \cup {0} \subseteq 0..top
  BY <1>1, ScoresAssumption
<1>3. PICK m \in T \cup {0} : \A x \in T \cup {0} : m >= x
  BY <1>2, HighestExists
<1> QED
  BY <1>2, <1>3, BestIs

-----------------------------------------------------------------------------
(***************************************************************************)
(* The invariant: the types, what a flush and a rebuild hold between their *)
(* two calls.                                                              *)
(***************************************************************************)
StatusType == {"none", "running", "completed", "failed"}

\* A run's row holds 0 or a score, so that the rebuild finds the best of them.
RowsHoldScores == \A r \in Runs : row[r].score \in Scores \cup {0}

\* What is about to be written is a score, compared with what was on the board.
Pending(w) ==
  /\ w.pc \in {"score", "add"} => w.score \in Nat
  /\ w.pc = "add" => w.seen \in Nat \cup {Absent}

IInv ==
  /\ TypeOK
  /\ RowsHoldScores
  /\ \A r \in Runs : Pending(flush[r])
  /\ Pending(rebuild)

\* Scores are rounded to scores.
LEMMA RoundedIsNat ==
  ASSUME NEW score \in Nat
  PROVE  Rounded(score) \in Nat
  BY DEF Rounded

\* A flush that is not under way holds nothing, and the others are as they were.
LEMMA GotoTypes ==
  ASSUME IInv, NEW r \in Runs, NEW pc \in {"new", "done"}, Goto(r, pc)
  PROVE  /\ flush' \in [Runs -> [pc : {"new", "score", "add", "done"}, score : Nat \cup {None},
                                 seen : Nat \cup {Absent, None}]]
         /\ \A q \in Runs : Pending(flush'[q])
<1>1. flush' = [flush EXCEPT ![r] = [pc |-> pc, score |-> None, seen |-> None]]
  BY DEF Goto
<1>2. flush' \in [Runs -> [pc : {"new", "score", "add", "done"}, score : Nat \cup {None},
                          seen : Nat \cup {Absent, None}]]
  BY <1>1 DEF IInv, TypeOK
<1>3. ASSUME NEW q \in Runs
      PROVE  Pending(flush'[q])
  BY <1>1, <1>3 DEF IInv, TypeOK, Pending
<1> QED
  BY <1>2, <1>3

\* What zAdd() leaves on the board.
LEMMA AddedIsAScore ==
  ASSUME NEW old \in Nat \cup {Absent}, NEW score \in Nat, NEW seen
  PROVE  AddedTo(old, score, seen) \in Nat \cup {Absent}
  BY DEF AddedTo

-----------------------------------------------------------------------------
(***************************************************************************)
(* The steps of a run.                                                     *)
(***************************************************************************)
LEMMA RunKeeps ==
  ASSUME IInv, NEW r \in Runs,
         \/ StartRun(r) \/ \E status \in {"completed", "failed"} : Settle(r, status)
  PROVE  IInv'
<1>1. /\ UNCHANGED <<board, flush, team, member, adding, rebuild, losses, starts>>
      /\ \E status \in {"running", "completed", "failed"} :
           row' = [row EXCEPT ![r].status = status]
  BY DEF StartRun, Settle
<1>2. PICK status \in {"running", "completed", "failed"} :
        row' = [row EXCEPT ![r].status = status]
  BY <1>1
<1>3. row' \in [Runs -> [status : StatusType, score : Nat]]
  BY <1>2 DEF IInv, TypeOK, StatusType
<1>4. \A q \in Runs : row'[q].score = row[q].score
  BY <1>2 DEF IInv, TypeOK
<1>5. TypeOK'
  BY <1>1, <1>3 DEF IInv, TypeOK, StatusType
<1>6. RowsHoldScores'
  BY <1>4 DEF IInv, RowsHoldScores
<1>7. (\A q \in Runs : Pending(flush[q]))' /\ Pending(rebuild)'
  BY <1>1 DEF IInv
<1> QED
  BY <1>1, <1>5, <1>6, <1>7 DEF IInv

LEMMA WriteRowKeeps ==
  ASSUME IInv, NEW r \in Runs, NEW score \in Scores, WriteRow(r, score)
  PROVE  IInv'
<1>1. /\ UNCHANGED <<board, team, member, adding, rebuild, losses, starts>>
      /\ row' = [row EXCEPT ![r].score = score]
  BY DEF WriteRow
<1>2. score \in Nat /\ Rounded(score) \in Nat
  BY ScoresAssumption, RoundedIsNat
<1>3. /\ row' \in [Runs -> [status : StatusType, score : Nat]]
      /\ RowsHoldScores'
  BY <1>1, <1>2 DEF IInv, TypeOK, StatusType, RowsHoldScores
<1>4. /\ flush' \in [Runs -> [pc : {"new", "score", "add", "done"}, score : Nat \cup {None},
                              seen : Nat \cup {Absent, None}]]
      /\ \A q \in Runs : Pending(flush'[q])
  <2>1. CASE Goto(r, "done")
    BY <2>1, GotoTypes
  <2>2. CASE flush' = [flush EXCEPT ![r] = [pc |-> "score", score |-> Rounded(score), seen |-> None]]
    <3>1. flush' \in [Runs -> [pc : {"new", "score", "add", "done"}, score : Nat \cup {None},
                              seen : Nat \cup {Absent, None}]]
      BY <1>2, <2>2 DEF IInv, TypeOK
    <3>2. ASSUME NEW q \in Runs
          PROVE  Pending(flush'[q])
      BY <1>2, <2>2, <3>2 DEF IInv, TypeOK, Pending
    <3> QED
      BY <3>1, <3>2
  <2> QED
    BY <2>1, <2>2 DEF WriteRow
<1>5. TypeOK'
  BY <1>1, <1>3, <1>4 DEF IInv, TypeOK, StatusType
<1>6. Pending(rebuild)'
  BY <1>1 DEF IInv
<1> QED
  BY <1>1, <1>3, <1>4, <1>5, <1>6 DEF IInv

LEMMA ReadScoreKeeps ==
  ASSUME IInv, NEW r \in Runs, ReadScore(r)
  PROVE  IInv'
<1>1. /\ UNCHANGED <<board, row, team, member, adding, rebuild, losses, starts>>
      /\ flush' = [flush EXCEPT ![r].seen = board, ![r].pc = "add"]
      /\ flush[r].pc = "score"
  BY DEF ReadScore, At
<1>2. flush' \in [Runs -> [pc : {"new", "score", "add", "done"}, score : Nat \cup {None},
                          seen : Nat \cup {Absent, None}]]
  BY <1>1 DEF IInv, TypeOK
<1>3. ASSUME NEW q \in Runs
      PROVE  Pending(flush'[q])
  BY <1>1, <1>3 DEF IInv, TypeOK, Pending
<1>4. TypeOK' /\ RowsHoldScores' /\ Pending(rebuild)'
  BY <1>1, <1>2 DEF IInv, TypeOK, RowsHoldScores
<1> QED
  BY <1>1, <1>3, <1>4 DEF IInv

LEMMA AddScoreKeeps ==
  ASSUME IInv, NEW r \in Runs, AddScore(r) \/ FlushEnds(r) \/ Redelivered(r)
  PROVE  IInv'
<1>1. /\ UNCHANGED <<row, team, member, adding, rebuild, losses, starts>>
      /\ \E pc \in {"new", "done"} : Goto(r, pc)
      /\ \/ UNCHANGED board
         \/ At(r, "add") /\ board' = AddedTo(board, flush[r].score, flush[r].seen)
  BY DEF AddScore, FlushEnds, Redelivered
<1>2. board' \in Nat \cup {Absent}
  BY <1>1, AddedIsAScore DEF At, IInv, TypeOK, Pending
<1>3. TypeOK' /\ \A q \in Runs : Pending(flush'[q])
  BY <1>1, <1>2, GotoTypes DEF IInv, TypeOK
<1>4. RowsHoldScores' /\ Pending(rebuild)'
  BY <1>1 DEF IInv, RowsHoldScores
<1> QED
  BY <1>3, <1>4 DEF IInv

-----------------------------------------------------------------------------
(***************************************************************************)
(* The steps of the accounts, of the orchestrator's start and of Redis.    *)
(***************************************************************************)
LEMMA AccountKeeps ==
  ASSUME IInv, SignUp \/ Register \/ ZeroArrives \/ LogIn
  PROVE  IInv'
<1>1. /\ UNCHANGED <<row, flush, rebuild, losses, starts>>
      /\ team' \in BOOLEAN /\ member' \in BOOLEAN /\ adding' \in BOOLEAN
      /\ board' \in {0, board}
  BY DEF SignUp, Register, ZeroArrives, LogIn, IInv, TypeOK
<1>2. TypeOK'
  BY <1>1 DEF IInv, TypeOK
<1>3. RowsHoldScores' /\ (\A r \in Runs : Pending(flush[r]))' /\ Pending(rebuild)'
  BY <1>1 DEF IInv, RowsHoldScores
<1> QED
  BY <1>2, <1>3 DEF IInv

\* A step of the rebuild before its write: the query finds a score because the rows
\* hold scores.
LEMMA RebuildKeeps ==
  ASSUME IInv, GoDown \/ FindTeams \/ QueryBest \/ RebuildReads
  PROVE  IInv'
<1>1. /\ UNCHANGED <<board, row, flush, team, member, losses>>
      /\ adding' \in {adding, FALSE}
      /\ starts' = starts \/ (starts' = starts + 1 /\ starts < MaxStarts)
  BY DEF GoDown, FindTeams, QueryBest, RebuildReads
<1>2. /\ rebuild' \in [pc : {"up", "teams", "query", "score", "add"}, score : Nat \cup {None},
                       seen : Nat \cup {Absent, None}]
      /\ Pending(rebuild')
  <2>1. CASE GoDown \/ FindTeams
    BY <2>1 DEF GoDown, FindTeams, IInv, TypeOK, Pending, None
  <2>2. CASE QueryBest
    <3>1. Best({row[r].score : r \in Completed}) \in Nat
      BY BestIsAScore DEF IInv, RowsHoldScores, Completed
    <3> QED
      BY <2>2, <3>1 DEF QueryBest, IInv, TypeOK, Pending
  <2>3. CASE RebuildReads
    BY <2>3 DEF RebuildReads, IInv, TypeOK, Pending
  <2> QED
    BY <2>1, <2>2, <2>3
<1>3. TypeOK'
  <2>1. starts' \in 0..MaxStarts
    BY <1>1, BoundAssumption DEF IInv, TypeOK
  <2> QED
    BY <1>1, <1>2, <2>1 DEF IInv, TypeOK
<1>4. RowsHoldScores' /\ (\A r \in Runs : Pending(flush[r]))'
  BY <1>1 DEF IInv, RowsHoldScores
<1> QED
  BY <1>1, <1>2, <1>3, <1>4 DEF IInv

LEMMA RebuildAddsKeeps ==
  ASSUME IInv, RebuildAdds
  PROVE  IInv'
<1>1. /\ UNCHANGED <<row, flush, team, member, adding, losses, starts>>
      /\ rebuild' = [pc |-> "up", score |-> None, seen |-> None]
      /\ board' = AddedTo(board, rebuild.score, rebuild.seen)
  BY DEF RebuildAdds
<1>2. rebuild.score \in Nat
  BY DEF RebuildAdds, IInv, Pending
<1>3. board' \in Nat \cup {Absent}
  BY <1>1, <1>2, AddedIsAScore DEF IInv, TypeOK
<1>4. TypeOK' /\ Pending(rebuild)'
  BY <1>1, <1>3 DEF IInv, TypeOK, Pending
<1>5. RowsHoldScores' /\ (\A r \in Runs : Pending(flush[r]))'
  BY <1>1 DEF IInv, RowsHoldScores
<1> QED
  BY <1>4, <1>5 DEF IInv

LEMMA LoseDataKeeps ==
  ASSUME IInv, LoseData
  PROVE  IInv'
<1>1. /\ UNCHANGED <<row, flush, team, member, adding, rebuild, starts>>
      /\ losses' \in 0..MaxLosses
      /\ board' = Absent
  BY BoundAssumption DEF LoseData, IInv, TypeOK
<1>2. TypeOK'
  BY <1>1 DEF IInv, TypeOK
<1>3. RowsHoldScores' /\ (\A r \in Runs : Pending(flush[r]))' /\ Pending(rebuild)'
  BY <1>1 DEF IInv, RowsHoldScores
<1> QED
  BY <1>2, <1>3 DEF IInv

-----------------------------------------------------------------------------
(***************************************************************************)
(* The invariant holds.                                                    *)
(***************************************************************************)
LEMMA InitIInv == Init => IInv
<1> SUFFICES ASSUME Init
             PROVE  IInv
  OBVIOUS
<1>1. TypeOK
  <2>1. 0 \in 0..MaxLosses /\ 0 \in 0..MaxStarts
    BY BoundAssumption
  <2> QED
    BY <2>1 DEF Init, TypeOK
<1>2. RowsHoldScores /\ (\A r \in Runs : Pending(flush[r])) /\ Pending(rebuild)
  BY DEF Init, RowsHoldScores, Pending
<1> QED
  BY <1>1, <1>2 DEF IInv

LEMMA NextIInv == IInv /\ [Next]_boardVars => IInv'
<1> SUFFICES ASSUME IInv, [Next]_boardVars
             PROVE  IInv'
  OBVIOUS
<1>1. ASSUME NEW r \in Runs,
             \/ StartRun(r) \/ ReadScore(r) \/ AddScore(r) \/ FlushEnds(r)
             \/ Redelivered(r)
             \/ \E score \in Scores : WriteRow(r, score)
             \/ \E status \in {"completed", "failed"} : Settle(r, status)
      PROVE  IInv'
  BY <1>1, RunKeeps, ReadScoreKeeps, AddScoreKeeps, WriteRowKeeps
<1>2. CASE SignUp \/ Register \/ ZeroArrives \/ LogIn
  BY <1>2, AccountKeeps
<1>3. CASE GoDown \/ FindTeams \/ QueryBest \/ RebuildReads
  BY <1>3, RebuildKeeps
<1>4. CASE RebuildAdds
  BY <1>4, RebuildAddsKeeps
<1>5. CASE LoseData
  BY <1>5, LoseDataKeeps
<1>6. CASE UNCHANGED boardVars
  BY <1>6 DEF boardVars, IInv, TypeOK, RowsHoldScores, Pending
<1> QED
  BY <1>1, <1>2, <1>3, <1>4, <1>5, <1>6 DEF Next

\* The invariant holds in every state the orchestrator, the ingester and Redis reach.
THEOREM Invariance == Spec => []IInv
<1>1. Init => IInv
  BY InitIInv
<1>2. IInv /\ [Next]_boardVars => IInv'
  BY NextIInv
<1> QED
  BY <1>1, <1>2, PTL DEF Spec

\* Every variable keeps its type: what is written to the board is a score, also after
\* a rebuild that finds no completed run.
THEOREM TypeCorrect == Spec => []TypeOK
<1>1. IInv => TypeOK
  BY DEF IInv
<1> QED
  BY <1>1, Invariance, PTL

\* The last step of a rebuild leaves the member listed, unless it was lost after the
\* rebuild's zScore; and no worse than the completed run that was looked up, unless the
\* member met between the two calls is not the one that was seen.
LEMMA AddLists ==
  ASSUME IInv, RebuildAdds
  PROVE  /\ board' # Absent \/ (MetAnother /\ board = Absent)
         /\ MetAnother \/ board' >= rebuild.score
<1>1. /\ rebuild.pc = "add" /\ rebuild.score \in Nat
      /\ board \in Nat \cup {Absent} /\ rebuild.seen \in Nat \cup {Absent}
      /\ board' = IF rebuild.seen = Absent \/ rebuild.score > rebuild.seen
                  THEN rebuild.score ELSE board
  BY DEF RebuildAdds, AddedTo, IInv, TypeOK, Pending
<1>2. CASE rebuild.seen = Absent \/ rebuild.score > rebuild.seen
  BY <1>1, <1>2 DEF Absent
<1>3. CASE ~(rebuild.seen = Absent \/ rebuild.score > rebuild.seen)
  BY <1>1, <1>3 DEF MetAnother, Absent
<1> QED
  BY <1>2, <1>3

\* For any number of runs, scores, restarts and losses, and whatever is written between
\* the rebuild's calls: a start of the orchestrator ends with the team listed and as high
\* as the rows say, but for a member that was lost or written between zScore and zAdd.
THEOREM TeamsAreListedAgain == Spec => ListedAgain
<1> DEFINE Listed == team /\ RebuildEnds =>
                       /\ board' # Absent \/ (MetAnother /\ board = Absent)
                       /\ MetAnother \/ board' >= rebuild.score
<1>1. ASSUME IInv, [Next]_boardVars
      PROVE  [Listed]_boardVars
  <2> SUFFICES ASSUME team, RebuildEnds
               PROVE  Listed
    OBVIOUS
  <2>1. RebuildAdds
    <3>1. CASE FindTeams
      BY <3>1 DEF FindTeams, RebuildEnds
    <3>2. CASE GoDown \/ QueryBest \/ RebuildReads
      <4>1. rebuild \in [pc : {"up", "teams", "query", "score", "add"}, score : Nat \cup {None},
                         seen : Nat \cup {Absent, None}]
        BY <1>1 DEF IInv, TypeOK
      <4>2. CASE GoDown
        BY <4>2 DEF GoDown, RebuildEnds
      <4>3. CASE QueryBest
        BY <4>1, <4>3 DEF QueryBest, RebuildEnds
      <4>4. CASE RebuildReads
        BY <4>1, <4>4 DEF RebuildReads, RebuildEnds
      <4> QED
        BY <3>2, <4>2, <4>3, <4>4
    <3>3. CASE SignUp \/ Register \/ ZeroArrives \/ LogIn \/ LoseData
      BY <3>3 DEF SignUp, Register, ZeroArrives, LogIn, LoseData, RebuildEnds
    <3>4. ASSUME NEW r \in Runs,
                 \/ StartRun(r) \/ ReadScore(r) \/ AddScore(r) \/ FlushEnds(r)
                 \/ Redelivered(r)
                 \/ \E score \in Scores : WriteRow(r, score)
                 \/ \E status \in {"completed", "failed"} : Settle(r, status)
          PROVE  FALSE
      BY <3>4 DEF StartRun, ReadScore, AddScore, FlushEnds, Redelivered, WriteRow,
                  Settle, RebuildEnds
    <3>5. CASE UNCHANGED boardVars
      BY <3>5 DEF boardVars, RebuildEnds
    <3> QED
      BY <1>1, <3>1, <3>2, <3>3, <3>4, <3>5 DEF Next
  <2> QED
    BY <1>1, <2>1, AddLists
<1>2. IInv /\ [Next]_boardVars => [Listed]_boardVars
  BY <1>1
<1>3. Spec => [][Listed]_boardVars
  BY <1>2, Invariance, PTL DEF Spec
<1> QED
  BY <1>3 DEF ListedAgain

=============================================================================
