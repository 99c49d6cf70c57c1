-------------------------- MODULE BuildQueue_proofs --------------------------
(***************************************************************************)
(* Theorems about BuildQueue, for any jobs, workers, slots and limit.      *)
(***************************************************************************)
EXTENDS BuildQueue, TLAPS

USE DEF OpenStatus, DoneStatus, HoldingPcs, Idle, SetSlot, ProcessExits

\* Releasing a lapsed lease changes neither the attempts nor the source.
LEMMA ReleasedRow ==
  ASSUME NEW row \in JobRow
  PROVE  /\ Released(row) \in JobRow
         /\ Released(row).attempts = row.attempts
         /\ Released(row).source = row.source
BY DEF Released, JobRow

\* The table that claimNext() claims from has the right type.
LEMMA ReleasedTable ==
  ASSUME TypeOK
  PROVE  AfterRelease \in [Jobs -> JobRow]
BY ReleasedRow DEF TypeOK, AfterRelease

\* A claim counts one attempt and stays within the limit.
LEMMA ClaimedRow ==
  ASSUME NEW row \in JobRow, NEW w \in Workers, Claimable(row)
  PROVE  /\ Claimed(row, w) \in JobRow
         /\ Claimed(row, w).attempts = row.attempts + 1
         /\ row.attempts + 1 \in 1..MaxAttempts
<1>1. row.attempts \in 0..MaxAttempts /\ row.attempts < MaxAttempts
  BY DEF Claimable, JobRow
<1>2. row.attempts + 1 \in 1..MaxAttempts /\ row.attempts + 1 \in 0..MaxAttempts
  BY <1>1, MaxAttemptsAssumption
<1> QED BY <1>2 DEF Claimed, JobRow

\* A finished row has the right type.
LEMMA FinishedRow ==
  ASSUME NEW row \in JobRow, NEW status \in DoneStatus
  PROVE  Finished(row, status) \in JobRow
BY DEF Finished, JobRow

\* A row put back to the queue has the right type.
LEMMA RequeuedRow ==
  ASSUME NEW row \in JobRow
  PROVE  Requeued(row) \in JobRow
BY DEF Requeued, JobRow

\* A table update keeps the table's type, also when the key is no job (NoJob).
LEMMA RowUpdate ==
  ASSUME TypeOK, NEW j, NEW row, j \in Jobs => row \in JobRow
  PROVE  [job EXCEPT ![j] = row] \in [Jobs -> JobRow]
BY DEF TypeOK

\* Setting one slot keeps the type of all.
LEMMA SlotUpdate ==
  ASSUME TypeOK, NEW w \in Workers, NEW s \in Slots, NEW state \in SlotState, SetSlot(w, s, state)
  PROVE  slot' \in [Workers -> [Slots -> SlotState]]
BY DEF TypeOK

\* A slot that moves on with its job keeps its type.
LEMMA SlotMoves ==
  ASSUME TypeOK, NEW w \in Workers, NEW s \in Slots, NEW pc \in {"built", "unbuilt", "throwing"}
  PROVE  [slot[w][s] EXCEPT !.pc = pc] \in SlotState
<1>1. slot[w][s] \in SlotState
  BY DEF TypeOK
<1> QED BY <1>1 DEF SlotState

\* A slot without a job has the right type.
LEMMA IdleSlot ==
  ASSUME NEW pc \in {"off", "loop", "claiming"}
  PROVE  Idle(pc) \in SlotState
BY MaxAttemptsAssumption DEF SlotState

\* A heartbeat keeps the row's type.
LEMMA RenewedRow ==
  ASSUME NEW row \in JobRow
  PROVE  [row EXCEPT !.lease = "live"] \in JobRow
BY DEF JobRow

\* The initial state has the right types.
LEMMA TypeInit == Init => TypeOK
BY MaxAttemptsAssumption DEF Init, TypeOK, JobRow, SlotState, SubmissionStatus

\* Every action of the API, the clock, the process and the loops keeps the types.
LEMMA TypeStep == TypeOK /\ [Next]_vars => TypeOK'
<1> SUFFICES ASSUME TypeOK, [Next]_vars PROVE TypeOK'
  OBVIOUS
<1> USE DEF TypeOK
<1>1. ASSUME NEW j \in Jobs, Submit(j) PROVE TypeOK'
  BY <1>1 DEF Submit, JobRow, SubmissionStatus
<1>2. ASSUME NEW j \in Jobs, LeaseExpires(j) PROVE TypeOK'
  BY <1>2 DEF LeaseExpires, JobRow
<1>3. ASSUME NEW j \in Jobs, BackoffElapses(j) PROVE TypeOK'
  BY <1>3 DEF BackoffElapses, JobRow
<1>4. ASSUME NEW w \in Workers, StartWorker(w) PROVE TypeOK'
  BY <1>4, MaxAttemptsAssumption DEF StartWorker, SlotState
<1>5. ASSUME NEW w \in Workers, StopSignal(w) PROVE TypeOK'
  BY <1>5 DEF StopSignal
<1>6. ASSUME NEW w \in Workers, Crash(w) PROVE TypeOK'
  BY <1>6, MaxAttemptsAssumption DEF Crash, SlotState
<1>7. ASSUME NEW w \in Workers, NEW s \in Slots, SlotStep(w, s) PROVE TypeOK'
  <2> HIDE DEF SetSlot, Idle
  <2>1. CASE PollOrEnd(w, s)
    BY <2>1, IdleSlot, SlotUpdate DEF PollOrEnd
  <2>2. CASE ClaimNothing(w, s)
    BY <2>2, ReleasedTable, IdleSlot, SlotUpdate DEF ClaimNothing
  <2>3. ASSUME NEW j \in Jobs, ClaimJob(w, s, j) PROVE TypeOK'
    <3>1. AfterRelease[j] \in JobRow /\ Claimable(AfterRelease[j])
      BY <2>3, ReleasedTable DEF ClaimJob
    <3>2. job' \in [Jobs -> JobRow]
      BY <2>3, <3>1, ReleasedTable, ClaimedRow DEF ClaimJob
    <3>3. AfterRelease[j].attempts + 1 \in 0..MaxAttempts
      BY <3>1, ClaimedRow, MaxAttemptsAssumption
    <3>4. [pc |-> "building", job |-> j, attempt |-> AfterRelease[j].attempts + 1] \in SlotState
      BY <3>3 DEF SlotState
    <3> QED BY <2>3, <3>2, <3>4, SlotUpdate DEF ClaimJob, SubmissionStatus
  <2>4. CASE ClaimThrows(w, s)
    BY <2>4, IdleSlot DEF ClaimThrows
  <2>5. ASSUME NEW outcome \in {"built", "unbuilt"}, BuildReturns(w, s, outcome) PROVE TypeOK'
    BY <2>5, SlotMoves, SlotUpdate DEF BuildReturns
  <2>6. CASE BuildThrows(w, s)
    BY <2>6, SlotMoves, SlotUpdate DEF BuildThrows
  <2>7. CASE Heartbeat(w, s)
    <3> DEFINE j == slot[w][s].job
               row == [job[j] EXCEPT !.lease = "live"]
    <3>1. j \in Jobs => row \in JobRow
      BY RenewedRow
    <3> HIDE DEF j, row
    <3>2. [job EXCEPT ![j] = row] \in [Jobs -> JobRow]
      BY <3>1, RowUpdate
    <3>3. job' = [job EXCEPT ![j] = row] /\ UNCHANGED <<submission, life, slot>>
      BY <2>7 DEF Heartbeat, j, row
    <3> QED BY <3>2, <3>3
  <2>8. ASSUME CompleteTxn(w, s) PROVE job' \in [Jobs -> JobRow] /\ submission' \in [Jobs -> SubmissionStatus]
    BY <2>8, FinishedRow DEF CompleteTxn, SubmissionStatus
  <2>9. ASSUME RetryTxn(w, s) PROVE job' \in [Jobs -> JobRow] /\ submission' \in [Jobs -> SubmissionStatus]
    <3> DEFINE j == slot[w][s].job
               row == IF slot[w][s].attempt >= MaxAttempts
                      THEN Finished(job[j], "failed") ELSE Requeued(job[j])
    <3>1. j \in Jobs => row \in JobRow
      BY FinishedRow, RequeuedRow
    <3> HIDE DEF j, row
    <3>2. [job EXCEPT ![j] = row] \in [Jobs -> JobRow]
      BY <3>1, RowUpdate
    <3>3. job' = [job EXCEPT ![j] = row] \/ job' = job
      BY <2>9 DEF RetryTxn, j, row
    <3>4. submission' \in [Jobs -> SubmissionStatus]
      BY <2>9 DEF RetryTxn, SubmissionStatus
    <3> QED BY <3>2, <3>3, <3>4
  <2>10. CASE Complete(w, s)
    BY <2>8, <2>10, IdleSlot, SlotUpdate DEF Complete
  <2>11. CASE CompleteThrows(w, s)
    BY <2>8, <2>11, SlotMoves, SlotUpdate DEF CompleteThrows
  <2>12. CASE RetryOrFail(w, s)
    BY <2>9, <2>12, IdleSlot, SlotUpdate DEF RetryOrFail
  <2>13. CASE RetryThrows(w, s)
    BY <2>9, <2>13, IdleSlot DEF RetryThrows
  <2> QED BY <1>7, <2>1, <2>2, <2>3, <2>4, <2>5, <2>6, <2>7, <2>10, <2>11, <2>12, <2>13 DEF SlotStep
<1>8. CASE UNCHANGED vars
  BY <1>8 DEF vars
<1> QED BY <1>1, <1>2, <1>3, <1>4, <1>5, <1>6, <1>7, <1>8 DEF Next

\* TypeOK holds in every state of every behaviour.
THEOREM TypeCorrect == Spec => []TypeOK
BY TypeInit, TypeStep, PTL DEF Spec

-----------------------------------------------------------------------------
(***************************************************************************)
(* How one step may change one row of submission_build_jobs (r to q) and   *)
(* its submission (s to t).                                                *)
(***************************************************************************)
Inserted(r, q, t) == /\ r.status = "absent" /\ q.status = "queued" /\ t = "queued"
                     /\ q.attempts = r.attempts /\ q.source

Touched(r, q, s, t) == /\ r.status \in OpenStatus /\ q.status = r.status /\ t = s
                       /\ q.attempts = r.attempts /\ q.source = r.source /\ q.owner = r.owner

Lapsed(r, q, s, t) == /\ r.status = "running" /\ r.lease = "expired"
                      /\ q.status = "queued" /\ t = s
                      /\ q.attempts = r.attempts /\ q.source = r.source

Leased(r, q, t) == /\ \/ r.status = "queued"
                      \/ r.status = "running" /\ r.lease = "expired"
                   /\ r.attempts < MaxAttempts /\ q.attempts = r.attempts + 1
                   /\ q.status = "running" /\ t = "building"
                   /\ r.source /\ q.source

Ended(r, q, t) == /\ r.status = "running" /\ ~q.source /\ q.attempts = r.attempts
                  /\ \/ q.status = "succeeded" /\ t = "built"
                     \/ q.status = "failed" /\ t = "failed"

PutBack(r, q, t) == /\ r.status = "running" /\ q.status = "queued" /\ t = "queued"
                    /\ q.attempts = r.attempts /\ q.source = r.source

RowStep(r, q, s, t) == \/ q = r /\ t = s
                       \/ Inserted(r, q, t)
                       \/ Touched(r, q, s, t)
                       \/ Lapsed(r, q, s, t)
                       \/ Leased(r, q, t)
                       \/ Ended(r, q, t)
                       \/ PutBack(r, q, t)

RowSteps == \A j \in Jobs : RowStep(job[j], job'[j], submission[j], submission'[j])

\* A loop that runs belongs to a living process, and the attempt it works on is one
\* that its job has counted.
SlotInv ==
  \A w \in Workers, s \in Slots :
    /\ slot[w][s].pc # "off" => Alive(w)
    /\ slot[w][s].pc \in HoldingPcs =>
         /\ slot[w][s].job \in Jobs
         /\ slot[w][s].attempt \in 1..job[slot[w][s].job].attempts

\* What complete() and retryOrFail() make of a running row: it is ended, or put back.
LEMMA RunningRowEnds ==
  ASSUME NEW row \in JobRow, row.status = "running"
  PROVE  /\ Ended(row, Finished(row, "succeeded"), "built")
         /\ Ended(row, Finished(row, "failed"), "failed")
         /\ PutBack(row, Requeued(row), "queued")
BY DEF Ended, PutBack, Finished, Requeued, JobRow

\* Claiming a claimable row that has its source leases it for its next attempt.
LEMMA ClaimableRowIsLeased ==
  ASSUME NEW row \in JobRow, NEW w \in Workers, Claimable(row), row.source
  PROVE  Leased(row, Claimed(row, w), "building")
BY DEF Leased, Claimable, Claimed, JobRow

\* Each step changes each job and its submission in one of the listed ways, or not at all.
LEMMA EveryStepIsARowStep ==
  ASSUME TypeOK, SlotInv, [Next]_vars
  PROVE  RowSteps
<1> USE DEF TypeOK, RowSteps
<1> DEFINE Same == job' = job /\ submission' = submission
<1>0. ASSUME Same PROVE RowSteps
  BY <1>0 DEF RowStep
<1> HIDE DEF RowSteps
<1>1. ASSUME NEW j \in Jobs, Submit(j) PROVE RowSteps
  BY <1>1 DEF Submit, JobRow, RowSteps, RowStep, Inserted
<1>2. ASSUME NEW j \in Jobs, LeaseExpires(j) PROVE RowSteps
  BY <1>2 DEF LeaseExpires, JobRow, RowSteps, RowStep, Touched
<1>3. ASSUME NEW j \in Jobs, BackoffElapses(j) PROVE RowSteps
  BY <1>3 DEF BackoffElapses, JobRow, RowSteps, RowStep, Touched
<1>4. ASSUME NEW w \in Workers, StartWorker(w) \/ StopSignal(w) \/ Crash(w) PROVE RowSteps
  BY <1>0, <1>4 DEF StartWorker, StopSignal, Crash
<1>5. ASSUME NEW w \in Workers, NEW s \in Slots, SlotStep(w, s) PROVE RowSteps
  <2>1. CASE PollOrEnd(w, s) \/ ClaimThrows(w, s) \/ BuildThrows(w, s)
    BY <1>0, <2>1 DEF PollOrEnd, ClaimThrows, BuildThrows
  <2>2. ASSUME NEW outcome \in {"built", "unbuilt"}, BuildReturns(w, s, outcome) PROVE RowSteps
    BY <1>0, <2>2 DEF BuildReturns
  <2>3. ASSUME NEW j \in Jobs PROVE RowStep(job[j], AfterRelease[j], submission[j], submission[j])
    BY DEF AfterRelease, Released, RowStep, Lapsed, JobRow
  <2>4. CASE ClaimNothing(w, s)
    BY <2>3, <2>4 DEF ClaimNothing, RowSteps
  <2>5. ASSUME NEW j \in Jobs, ClaimJob(w, s, j) PROVE RowSteps
    <3>1. Leased(job[j], Claimed(AfterRelease[j], w), "building")
      <4>1. job[j] \in JobRow /\ AfterRelease[j] = Released(job[j])
        BY DEF AfterRelease
      <4>2. Leased(AfterRelease[j], Claimed(AfterRelease[j], w), "building")
        BY <2>5, ReleasedTable, ClaimableRowIsLeased DEF ClaimJob
      <4>3. AfterRelease[j].status = "queued"
        BY <2>5 DEF ClaimJob, Claimable
      <4>4. job[j].status = "queued" \/ (job[j].status = "running" /\ job[j].lease = "expired")
        BY <4>1, <4>3 DEF Released
      <4>5. Released(job[j]).attempts = job[j].attempts /\ Released(job[j]).source = job[j].source
        BY <4>1, ReleasedRow
      <4> QED BY <4>1, <4>2, <4>4, <4>5 DEF Leased
    <3>2. job' = [AfterRelease EXCEPT ![j] = Claimed(AfterRelease[j], w)]
          /\ submission' = [submission EXCEPT ![j] = "building"]
      BY <2>5 DEF ClaimJob
    <3>3. AfterRelease \in [Jobs -> JobRow]
      BY ReleasedTable
    <3> QED BY <2>3, <3>1, <3>2, <3>3 DEF RowSteps, RowStep
  <2>6. CASE Heartbeat(w, s)
    BY <2>6 DEF Heartbeat, OwnsRunning, JobRow, RowSteps, RowStep, Touched
  <2>7. ASSUME CompleteTxn(w, s), slot[w][s].pc \in HoldingPcs PROVE RowSteps
    <3> DEFINE j == slot[w][s].job
    <3>1. j \in Jobs
      BY <2>7 DEF SlotInv
    <3> HIDE DEF j
    <3>2. CASE ~OwnsRunning(w, j)
      BY <1>0, <2>7, <3>2 DEF CompleteTxn, j
    <3>3. CASE OwnsRunning(w, j)
      <4>1. PICK outcome \in {<<"succeeded", "built">>, <<"failed", "failed">>} :
              /\ job' = [job EXCEPT ![j] = Finished(job[j], outcome[1])]
              /\ submission' = [submission EXCEPT ![j] = outcome[2]]
        BY <2>7, <3>3 DEF CompleteTxn, j
      <4>2. Ended(job[j], Finished(job[j], outcome[1]), outcome[2])
        BY <3>1, <3>3, RunningRowEnds DEF OwnsRunning
      <4> QED BY <3>1, <4>1, <4>2 DEF RowSteps, RowStep
    <3> QED BY <3>2, <3>3
  <2>8. ASSUME RetryTxn(w, s), slot[w][s].pc \in HoldingPcs PROVE RowSteps
    <3> DEFINE j == slot[w][s].job
    <3>1. j \in Jobs
      BY <2>8 DEF SlotInv
    <3> HIDE DEF j
    <3>2. CASE ~OwnsRunning(w, j)
      BY <1>0, <2>8, <3>2 DEF RetryTxn, j
    <3>3. CASE OwnsRunning(w, j) /\ slot[w][s].attempt >= MaxAttempts
      <4>1. /\ job' = [job EXCEPT ![j] = Finished(job[j], "failed")]
            /\ submission' = [submission EXCEPT ![j] = "failed"]
        BY <2>8, <3>3 DEF RetryTxn, j
      <4>2. Ended(job[j], Finished(job[j], "failed"), "failed")
        BY <3>1, <3>3, RunningRowEnds DEF OwnsRunning
      <4> QED BY <3>1, <4>1, <4>2 DEF RowSteps, RowStep
    <3>4. CASE OwnsRunning(w, j) /\ ~(slot[w][s].attempt >= MaxAttempts)
      <4>1. /\ job' = [job EXCEPT ![j] = Requeued(job[j])]
            /\ submission' = [submission EXCEPT ![j] = "queued"]
        BY <2>8, <3>4 DEF RetryTxn, j
      <4>2. PutBack(job[j], Requeued(job[j]), "queued")
        BY <3>1, <3>4, RunningRowEnds DEF OwnsRunning
      <4> QED BY <3>1, <4>1, <4>2 DEF RowSteps, RowStep
    <3> QED BY <3>2, <3>3, <3>4
  <2>9. CASE Complete(w, s) \/ CompleteThrows(w, s)
    BY <1>0, <2>7, <2>9 DEF Complete, CompleteThrows
  <2>10. CASE RetryOrFail(w, s) \/ RetryThrows(w, s)
    BY <1>0, <2>8, <2>10 DEF RetryOrFail, RetryThrows
  <2> QED BY <1>5, <2>1, <2>2, <2>4, <2>5, <2>6, <2>9, <2>10 DEF SlotStep
<1>6. CASE UNCHANGED vars
  BY <1>0, <1>6 DEF vars
<1> QED BY <1>1, <1>2, <1>3, <1>4, <1>5, <1>6 DEF Next

-----------------------------------------------------------------------------
(***************************************************************************)
(* How one step may change the loops.                                      *)
(***************************************************************************)
SameHold(w, s) == /\ slot[w][s].pc \in HoldingPcs /\ slot'[w][s].pc \in HoldingPcs
                  /\ slot'[w][s].job = slot[w][s].job
                  /\ slot'[w][s].attempt = slot[w][s].attempt

\* A loop holds a job after a step only if it held it before, or has claimed it.
LEMMA HoldsByClaim ==
  ASSUME TypeOK, [Next]_vars
  PROVE  \A w \in Workers, s \in Slots : slot'[w][s].pc \in HoldingPcs =>
           SameHold(w, s) \/ \E j \in Jobs : ClaimJob(w, s, j)
<1> SUFFICES ASSUME NEW w \in Workers, NEW s \in Slots, slot'[w][s].pc \in HoldingPcs
             PROVE  SameHold(w, s) \/ \E j \in Jobs : ClaimJob(w, s, j)
  OBVIOUS
<1> USE DEF TypeOK
<1>0. slot[w][s] \in SlotState
  OBVIOUS
<1>1. CASE UNCHANGED slot
  BY <1>1 DEF SameHold
<1>2. ASSUME NEW v \in Workers, StartWorker(v) \/ ProcessExits(v) PROVE SameHold(w, s)
  BY <1>2 DEF StartWorker, SameHold
<1>3. ASSUME NEW v \in Workers, NEW u \in Slots, NEW pc \in {"loop", "claiming", "off"},
             SetSlot(v, u, Idle(pc))
      PROVE  SameHold(w, s)
  BY <1>3 DEF SameHold
<1>4. ASSUME NEW v \in Workers, NEW u \in Slots, NEW pc \in HoldingPcs,
             slot[v][u].pc \in HoldingPcs, SetSlot(v, u, [slot[v][u] EXCEPT !.pc = pc])
      PROVE  SameHold(w, s)
  BY <1>0, <1>4 DEF SameHold, SlotState
<1>5. ASSUME NEW v \in Workers, NEW u \in Slots, NEW j \in Jobs, ClaimJob(v, u, j)
      PROVE  SameHold(w, s) \/ \E i \in Jobs : ClaimJob(w, s, i)
  <2>1. CASE v = w /\ u = s
    BY <1>5, <2>1
  <2>2. CASE ~(v = w /\ u = s)
    <3>1. slot'[w][s] = slot[w][s]
      BY <1>5, <2>2 DEF ClaimJob
    <3> QED BY <3>1 DEF SameHold
  <2> QED BY <2>1, <2>2
<1>6. ASSUME NEW v \in Workers, NEW u \in Slots, SlotStep(v, u)
      PROVE  SameHold(w, s) \/ \E i \in Jobs : ClaimJob(w, s, i)
  <2> HIDE DEF SetSlot, Idle, ProcessExits, TypeOK
  <2>1. CASE PollOrEnd(v, u)
    BY <1>3, <2>1 DEF PollOrEnd
  <2>2. CASE ClaimNothing(v, u) \/ Complete(v, u) \/ RetryOrFail(v, u)
    BY <1>3, <2>2 DEF ClaimNothing, Complete, RetryOrFail
  <2>3. CASE ClaimThrows(v, u) \/ RetryThrows(v, u)
    BY <1>2, <2>3 DEF ClaimThrows, RetryThrows
  <2>4. CASE BuildThrows(v, u) \/ CompleteThrows(v, u)
    BY <1>4, <2>4 DEF BuildThrows, CompleteThrows
  <2>5. CASE \E outcome \in {"built", "unbuilt"} : BuildReturns(v, u, outcome)
    BY <1>4, <2>5 DEF BuildReturns
  <2>6. CASE Heartbeat(v, u)
    BY <1>1, <2>6 DEF Heartbeat
  <2>7. CASE \E j \in Jobs : ClaimJob(v, u, j)
    BY <1>5, <2>7
  <2> QED BY <1>6, <2>1, <2>2, <2>3, <2>4, <2>5, <2>6, <2>7 DEF SlotStep
<1>7. CASE \E v \in Workers : StartWorker(v) \/ StopSignal(v) \/ Crash(v)
  BY <1>1, <1>2, <1>7 DEF StopSignal, Crash
<1>8. CASE \E j \in Jobs : Submit(j) \/ LeaseExpires(j) \/ BackoffElapses(j)
  BY <1>1, <1>8 DEF Submit, LeaseExpires, BackoffElapses
<1> QED BY <1>1, <1>6, <1>7, <1>8 DEF Next, vars

\* A loop that runs after a step has a living process after it.
LEMMA RunningLoopsLive ==
  ASSUME TypeOK, SlotInv, [Next]_vars
  PROVE  \A w \in Workers, s \in Slots : slot'[w][s].pc # "off" => Alive(w)'
<1> SUFFICES ASSUME NEW w \in Workers, NEW s \in Slots, slot'[w][s].pc # "off"
             PROVE  Alive(w)'
  OBVIOUS
<1> USE DEF TypeOK, Alive
<1>1. CASE UNCHANGED <<life, slot>>
  BY <1>1 DEF SlotInv
<1>2. ASSUME NEW v \in Workers, StartWorker(v) \/ StopSignal(v) \/ ProcessExits(v)
      PROVE  Alive(w)'
  BY <1>2 DEF StartWorker, StopSignal, SlotInv
<1>3. ASSUME NEW v \in Workers, NEW u \in Slots, NEW state,
             slot[v][u].pc # "off", SetSlot(v, u, state), UNCHANGED life
      PROVE  Alive(w)'
  BY <1>3 DEF SlotInv
<1>4. ASSUME NEW v \in Workers, NEW u \in Slots, SlotStep(v, u) PROVE Alive(w)'
  <2> HIDE DEF SetSlot, Idle, ProcessExits, TypeOK, Alive
  <2>1. CASE PollOrEnd(v, u) \/ ClaimNothing(v, u) \/ BuildThrows(v, u) \/ Complete(v, u)
             \/ CompleteThrows(v, u) \/ RetryOrFail(v, u)
    BY <1>3, <2>1 DEF PollOrEnd, ClaimNothing, BuildThrows, Complete, CompleteThrows, RetryOrFail
  <2>2. CASE \E outcome \in {"built", "unbuilt"} : BuildReturns(v, u, outcome)
    BY <1>3, <2>2 DEF BuildReturns
  <2>3. CASE \E j \in Jobs : ClaimJob(v, u, j)
    BY <1>3, <2>3 DEF ClaimJob
  <2>4. CASE ClaimThrows(v, u) \/ RetryThrows(v, u)
    BY <1>2, <2>4 DEF ClaimThrows, RetryThrows
  <2>5. CASE Heartbeat(v, u)
    BY <1>1, <2>5 DEF Heartbeat
  <2> QED BY <1>4, <2>1, <2>2, <2>3, <2>4, <2>5 DEF SlotStep
<1>5. CASE \E v \in Workers : StartWorker(v) \/ StopSignal(v) \/ Crash(v)
  BY <1>2, <1>5 DEF Crash
<1>6. CASE \E j \in Jobs : Submit(j) \/ LeaseExpires(j) \/ BackoffElapses(j)
  BY <1>1, <1>6 DEF Submit, LeaseExpires, BackoffElapses
<1> QED BY <1>1, <1>4, <1>5, <1>6 DEF Next, vars

-----------------------------------------------------------------------------
(***************************************************************************)
(* The inductive invariant.                                                *)
(***************************************************************************)
\* A worker_id in the table is that of a process that has been started.
OwnersStarted ==
  \A j \in Jobs, w \in Workers : OwnsRunning(w, j) => life[w] # "unborn"

\* A job that was never inserted was never attempted.
UntriedBeforeSubmit == \A j \in Jobs : job[j].status = "absent" => job[j].attempts = 0

IInv == /\ TypeOK
        /\ SlotInv
        /\ TablesAgree
        /\ SourceKeptUntilDone
        /\ UntriedBeforeSubmit
        /\ AttemptsAreUnique
        /\ OwnersStarted
        /\ NoForgottenJob

\* The inductive invariant holds at first.
LEMMA InvInit == Init => IInv
<1> SUFFICES ASSUME Init PROVE IInv
  OBVIOUS
<1>1. TypeOK
  BY TypeInit
<1>2. \A j \in Jobs : /\ job[j].status = "absent" /\ ~job[j].source /\ submission[j] = "absent"
                      /\ job[j].attempts = 0
  BY DEF Init
<1>3. \A w \in Workers, s \in Slots : slot[w][s].pc = "off"
  BY DEF Init
<1>4. SlotInv /\ AttemptsAreUnique
  BY <1>3 DEF SlotInv, AttemptsAreUnique, Holds
<1>5. TablesAgree /\ SourceKeptUntilDone /\ UntriedBeforeSubmit /\ OwnersStarted /\ NoForgottenJob
  BY <1>2 DEF TablesAgree, UntriedBeforeSubmit, SourceKeptUntilDone, OwnersStarted, NoForgottenJob, OwnsRunning
<1> QED BY <1>1, <1>4, <1>5 DEF IInv

\* After a claim exactly the claiming loop holds the new attempt.
LEMMA ClaimGivesAttempt ==
  ASSUME TypeOK, NEW w \in Workers, NEW s \in Slots, NEW j \in Jobs, ClaimJob(w, s, j)
  PROVE  /\ slot[w][s].pc = "claiming"
         /\ slot'[w][s].job = j /\ slot'[w][s].attempt = job[j].attempts + 1
         /\ slot'[w][s].pc = "building"
         /\ job'[j].attempts = job[j].attempts + 1
         /\ job'[j].owner = w /\ job'[j].status = "running"
         /\ job[j].attempts \in Nat
<1>1. job[j] \in JobRow /\ AfterRelease[j] = Released(job[j]) /\ AfterRelease \in [Jobs -> JobRow]
  BY ReleasedTable DEF TypeOK, AfterRelease
<1>2. AfterRelease[j].attempts = job[j].attempts
  BY <1>1, ReleasedRow
<1>3. job' = [AfterRelease EXCEPT ![j] = Claimed(AfterRelease[j], w)]
  BY DEF ClaimJob
<1>4. job'[j] = Claimed(AfterRelease[j], w)
  BY <1>1, <1>3
<1>5. AfterRelease[j] \in JobRow
  BY <1>1
<1>6. job[j].attempts \in Nat
  BY <1>1, MaxAttemptsAssumption DEF JobRow
<1>7. slot'[w][s] = [pc |-> "building", job |-> j, attempt |-> AfterRelease[j].attempts + 1]
  BY DEF ClaimJob, TypeOK
<1>8. /\ job'[j].attempts = AfterRelease[j].attempts + 1
      /\ job'[j].owner = w /\ job'[j].status = "running"
  BY <1>4, <1>5 DEF Claimed, JobRow
<1> QED BY <1>2, <1>6, <1>7, <1>8 DEF ClaimJob

\* The attempts of a job never go down.
LEMMA AttemptsGrow ==
  ASSUME TypeOK, RowSteps
  PROVE  \A j \in Jobs : job[j].attempts \in Nat /\ job'[j].attempts \in Nat
                          /\ job[j].attempts <= job'[j].attempts
<1> SUFFICES ASSUME NEW j \in Jobs
             PROVE  job[j].attempts \in Nat /\ job'[j].attempts \in Nat
                    /\ job[j].attempts <= job'[j].attempts
  OBVIOUS
<1>1. job[j].attempts \in Nat
  BY MaxAttemptsAssumption DEF TypeOK, JobRow
<1>2. job'[j].attempts = job[j].attempts \/ job'[j].attempts = job[j].attempts + 1
  BY DEF RowSteps, RowStep, Inserted, Touched, Lapsed, Leased, Ended, PutBack
<1> QED BY <1>1, <1>2

\* Only loops of living workers hold jobs, and never a later attempt than the job's.
LEMMA SlotInvStep ==
  ASSUME TypeOK, SlotInv, [Next]_vars
  PROVE  SlotInv'
<1> SUFFICES ASSUME NEW w \in Workers, NEW s \in Slots
             PROVE  /\ slot'[w][s].pc # "off" => Alive(w)'
                    /\ slot'[w][s].pc \in HoldingPcs =>
                         /\ slot'[w][s].job \in Jobs
                         /\ slot'[w][s].attempt \in 1..job'[slot'[w][s].job].attempts
  BY DEF SlotInv
<1>1. slot'[w][s].pc # "off" => Alive(w)'
  BY RunningLoopsLive
<1>2. RowSteps
  BY EveryStepIsARowStep
<1>3. ASSUME SameHold(w, s)
      PROVE  /\ slot'[w][s].job \in Jobs
             /\ slot'[w][s].attempt \in 1..job'[slot'[w][s].job].attempts
  <2>1. slot[w][s].job \in Jobs /\ slot[w][s].attempt \in 1..job[slot[w][s].job].attempts
    BY <1>3 DEF SlotInv, SameHold
  <2>2. slot'[w][s].job = slot[w][s].job /\ slot'[w][s].attempt = slot[w][s].attempt
    BY <1>3 DEF SameHold
  <2> QED BY <1>2, <2>1, <2>2, AttemptsGrow
<1>4. ASSUME NEW j \in Jobs, ClaimJob(w, s, j)
      PROVE  /\ slot'[w][s].job \in Jobs
             /\ slot'[w][s].attempt \in 1..job'[slot'[w][s].job].attempts
  BY <1>4, ClaimGivesAttempt
<1> QED BY <1>1, <1>3, <1>4, HoldsByClaim

\* Each of the row steps keeps the two tables, and the source, in agreement.
LEMMA TablesStep ==
  ASSUME TypeOK, TablesAgree, SourceKeptUntilDone, RowSteps
  PROVE  TablesAgree' /\ SourceKeptUntilDone' /\ (UntriedBeforeSubmit => UntriedBeforeSubmit')
<1>2. UntriedBeforeSubmit => UntriedBeforeSubmit'
  BY DEF UntriedBeforeSubmit, RowSteps, RowStep, Inserted, Touched, Lapsed, Leased, Ended, PutBack
<1>1. ASSUME NEW j \in Jobs
      PROVE  /\ job'[j].status = "absent"    <=> submission'[j] = "absent"
             /\ job'[j].status = "succeeded" <=> submission'[j] = "built"
             /\ job'[j].status = "failed"    <=> submission'[j] = "failed"
             /\ job'[j].status = "running"    => submission'[j] = "building"
             /\ job'[j].source <=> job'[j].status \in OpenStatus
  BY DEF TablesAgree, SourceKeptUntilDone, RowSteps, RowStep,
         Inserted, Touched, Lapsed, Leased, Ended, PutBack
<1> QED BY <1>1, <1>2 DEF TablesAgree, SourceKeptUntilDone

\* A claim takes an attempt number that no loop holds.
LEMMA UniqueStep ==
  ASSUME TypeOK, SlotInv, AttemptsAreUnique, [Next]_vars
  PROVE  AttemptsAreUnique'
<1> SUFFICES ASSUME NEW w1 \in Workers, NEW w2 \in Workers, NEW s1 \in Slots, NEW s2 \in Slots,
                    NEW j \in Jobs, Holds(w1, s1, j)', Holds(w2, s2, j)',
                    slot'[w1][s1].attempt = slot'[w2][s2].attempt,
                    ~(w1 = w2 /\ s1 = s2)
             PROVE  FALSE
  BY DEF AttemptsAreUnique
<1>1. \A w \in Workers, s \in Slots :
         Holds(w, s, j)' => SameHold(w, s) \/ ClaimJob(w, s, j)
  <2>1. ASSUME NEW w \in Workers, NEW s \in Slots, NEW i \in Jobs, ClaimJob(w, s, i), Holds(w, s, j)'
        PROVE  i = j
    BY <2>1, ClaimGivesAttempt DEF Holds
  <2> QED BY <2>1, HoldsByClaim DEF Holds
<1>2. ASSUME NEW w \in Workers, NEW s \in Slots, NEW v \in Workers, NEW u \in Slots,
             SameHold(w, s), Holds(w, s, j)', ClaimJob(v, u, j)
      PROVE  slot'[w][s].attempt # slot'[v][u].attempt
  <2>1. slot[w][s].attempt \in 1..job[j].attempts
    BY <1>2 DEF SlotInv, SameHold, Holds
  <2>2. slot'[v][u].attempt = job[j].attempts + 1 /\ job[j].attempts \in Nat
    BY <1>2, ClaimGivesAttempt
  <2> QED BY <1>2, <2>1, <2>2 DEF SameHold
<1>3. CASE SameHold(w1, s1) /\ SameHold(w2, s2)
  <2>1. Holds(w1, s1, j) /\ Holds(w2, s2, j)
    BY <1>3 DEF SameHold, Holds
  <2>2. slot[w1][s1].attempt = slot[w2][s2].attempt
    BY <1>3 DEF SameHold
  <2> QED BY <2>1, <2>2 DEF AttemptsAreUnique
<1>4. CASE ClaimJob(w1, s1, j) /\ ClaimJob(w2, s2, j)
  <2>1. slot'[w1][s1] # slot[w1][s1] /\ slot'[w2][s2] # slot[w2][s2]
    BY <1>4, ClaimGivesAttempt
  <2>2. slot'[w2][s2] = slot[w2][s2]
    BY <1>4 DEF ClaimJob, TypeOK
  <2> QED BY <2>1, <2>2
<1> QED BY <1>1, <1>2, <1>3, <1>4

\* A job is running under w after a step only if it was before, in the same
\* attempt, or a loop of w has claimed it.
LEMMA RunsByClaim ==
  ASSUME TypeOK, SlotInv, [Next]_vars, NEW w \in Workers, NEW j \in Jobs, OwnsRunning(w, j)'
  PROVE  \/ OwnsRunning(w, j) /\ job'[j].attempts = job[j].attempts
         \/ \E s \in Slots : ClaimJob(w, s, j)
<1> DEFINE Goal == \/ OwnsRunning(w, j) /\ job'[j].attempts = job[j].attempts
                   \/ \E s \in Slots : ClaimJob(w, s, j)
<1>1. RowStep(job[j], job'[j], submission[j], submission'[j])
  BY EveryStepIsARowStep DEF RowSteps
<1>2. CASE job'[j] = job[j] \/ Touched(job[j], job'[j], submission[j], submission'[j])
  BY <1>2 DEF OwnsRunning, Touched
<1>3. CASE Leased(job[j], job'[j], submission'[j])
  <2>1. job'[j].attempts # job[j].attempts
    BY <1>3, MaxAttemptsAssumption DEF Leased, TypeOK, JobRow
  <2>2. ASSUME NEW v \in Workers, NEW u \in Slots, NEW i \in Jobs, ClaimJob(v, u, i) PROVE Goal
    <3>1. CASE i = j
      BY <2>2, <3>1, ClaimGivesAttempt DEF OwnsRunning
    <3>2. CASE i # j
      <4>1. job'[j] = AfterRelease[j] /\ AfterRelease[j] = Released(job[j])
        BY <2>2, <3>2 DEF ClaimJob, AfterRelease
      <4>2. Released(job[j]).attempts = job[j].attempts
        BY ReleasedRow DEF TypeOK
      <4> QED BY <2>1, <4>1, <4>2
    <3> QED BY <3>1, <3>2
  <2>3. ASSUME NEW v \in Workers, NEW u \in Slots, ClaimNothing(v, u) PROVE FALSE
    <3>1. job'[j] = Released(job[j])
      BY <2>3 DEF ClaimNothing, AfterRelease
    <3> QED BY <2>1, <3>1, ReleasedRow DEF TypeOK
  <2>4. ASSUME NEW i, NEW r, r.attempts = job[i].attempts, job' = [job EXCEPT ![i] = r] PROVE FALSE
    BY <2>1, <2>4 DEF TypeOK
  <2>5. ASSUME NEW i \in Jobs, Submit(i) \/ LeaseExpires(i) \/ BackoffElapses(i) PROVE FALSE
    <3>1. job[i] \in JobRow
      BY DEF TypeOK
    <3>2. /\ [job[i] EXCEPT !.status = "queued", !.ready = TRUE, !.source = TRUE].attempts = job[i].attempts
          /\ [job[i] EXCEPT !.lease = "expired"].attempts = job[i].attempts
          /\ [job[i] EXCEPT !.ready = TRUE].attempts = job[i].attempts
      BY <3>1 DEF JobRow
    <3> QED BY <2>4, <2>5, <3>2 DEF Submit, LeaseExpires, BackoffElapses
  <2>6. ASSUME NEW v \in Workers, NEW u \in Slots, SlotStep(v, u), slot[v][u].pc \in HoldingPcs
        PROVE  FALSE
    <3> DEFINE i == slot[v][u].job
    <3>1. i \in Jobs /\ job[i] \in JobRow
      BY <2>6 DEF SlotInv, TypeOK
    <3>2. /\ Finished(job[i], "succeeded").attempts = job[i].attempts
          /\ Finished(job[i], "failed").attempts = job[i].attempts
          /\ Requeued(job[i]).attempts = job[i].attempts
          /\ [job[i] EXCEPT !.lease = "live"].attempts = job[i].attempts
      BY <3>1 DEF Finished, Requeued, JobRow
    <3>3. job' # job
      BY <2>1
    <3>4. CASE CompleteTxn(v, u) \/ RetryTxn(v, u) \/ Heartbeat(v, u)
      BY <2>4, <3>2, <3>3, <3>4 DEF CompleteTxn, RetryTxn, Heartbeat
    <3> QED BY <2>6, <3>3, <3>4
            DEF SlotStep, PollOrEnd, ClaimNothing, ClaimJob, ClaimThrows, BuildReturns, BuildThrows,
                Complete, CompleteThrows, RetryOrFail, RetryThrows
  <2>7. ASSUME NEW v \in Workers, NEW u \in Slots, SlotStep(v, u), slot[v][u].pc \notin HoldingPcs
        PROVE  Goal
    <3> HIDE DEF Goal
    <3>1. job' # job
      BY <2>1
    <3> QED BY <2>2, <2>3, <2>7, <3>1
            DEF SlotStep, PollOrEnd, ClaimThrows, BuildReturns, BuildThrows, Heartbeat,
                Complete, CompleteThrows, RetryOrFail, RetryThrows
  <2>8. job' # job
    BY <2>1
  <2> QED BY <2>5, <2>6, <2>7, <2>8 DEF Next, StartWorker, StopSignal, Crash, vars
<1> QED BY <1>1, <1>2, <1>3 DEF RowStep, Inserted, Lapsed, Ended, PutBack, OwnsRunning

\* A loop lets go of a job that still runs under its worker only if the worker dies.
LEMMA HeldWhileRunning ==
  ASSUME TypeOK, SlotInv, [Next]_vars,
         NEW w \in Workers, NEW s \in Slots, NEW j \in Jobs,
         Holds(w, s, j), OwnsRunning(w, j), OwnsRunning(w, j)', Alive(w)'
  PROVE  SameHold(w, s)
<1> USE DEF TypeOK
<1>0. slot[w][s] \in SlotState /\ slot[w][s].pc \in HoldingPcs /\ slot[w][s].job = j
  BY DEF Holds
<1>1. CASE slot'[w][s] = slot[w][s]
  BY <1>0, <1>1 DEF SameHold
<1>2. ASSUME NEW v \in Workers, ProcessExits(v) PROVE SameHold(w, s)
  <2>1. v # w
    BY <1>2 DEF Alive
  <2> QED BY <1>1, <1>2, <2>1
<1>3. ASSUME NEW v \in Workers, StartWorker(v) PROVE SameHold(w, s)
  <2>1. v # w
    BY <1>0, <1>3 DEF StartWorker, SlotInv, Alive
  <2> QED BY <1>1, <1>3, <2>1 DEF StartWorker
<1>4. ASSUME NEW v \in Workers, NEW u \in Slots, NEW state, SetSlot(v, u, state),
             ~(v = w /\ u = s)
      PROVE  SameHold(w, s)
  BY <1>1, <1>4
<1>5. ASSUME NEW pc \in HoldingPcs, SetSlot(w, s, [slot[w][s] EXCEPT !.pc = pc])
      PROVE  SameHold(w, s)
  BY <1>0, <1>5 DEF SameHold, SlotState
<1>6. ~CompleteTxn(w, s)
  <2>1. job[j] \in JobRow
    OBVIOUS
  <2>2. ASSUME NEW status \in DoneStatus PROVE Finished(job[j], status).status # "running"
    BY <2>1, <2>2 DEF Finished, JobRow
  <2>3. SUFFICES ASSUME CompleteTxn(w, s) PROVE FALSE
    OBVIOUS
  <2>4. \E status \in DoneStatus : job' = [job EXCEPT ![j] = Finished(job[j], status)]
    BY <1>0, <2>3 DEF CompleteTxn
  <2> QED BY <2>2, <2>4 DEF OwnsRunning
<1>7. ~RetryTxn(w, s)
  <2>1. job[j] \in JobRow
    OBVIOUS
  <2>2. Finished(job[j], "failed").status # "running" /\ Requeued(job[j]).status # "running"
    BY <2>1 DEF Finished, Requeued, JobRow
  <2>3. SUFFICES ASSUME RetryTxn(w, s) PROVE FALSE
    OBVIOUS
  <2>4. \/ job' = [job EXCEPT ![j] = Finished(job[j], "failed")]
        \/ job' = [job EXCEPT ![j] = Requeued(job[j])]
    BY <1>0, <2>3 DEF RetryTxn
  <2> QED BY <2>2, <2>4 DEF OwnsRunning
<1>8. ASSUME NEW v \in Workers, NEW u \in Slots, SlotStep(v, u) PROVE SameHold(w, s)
  <2> HIDE DEF SetSlot, ProcessExits, TypeOK
  <2>1. CASE v = w /\ u = s
    BY <1>0, <1>1, <1>2, <1>5, <1>6, <1>7, <1>8, <2>1
       DEF SlotStep, PollOrEnd, ClaimNothing, ClaimJob, ClaimThrows, BuildReturns, BuildThrows,
           Heartbeat, Complete, CompleteThrows, RetryOrFail, RetryThrows
  <2>2. CASE ~(v = w /\ u = s)
    BY <1>1, <1>2, <1>4, <1>8, <2>2
       DEF SlotStep, PollOrEnd, ClaimNothing, ClaimJob, ClaimThrows, BuildReturns, BuildThrows,
           Heartbeat, Complete, CompleteThrows, RetryOrFail, RetryThrows
  <2> QED BY <2>1, <2>2
<1>9. CASE \E v \in Workers : StartWorker(v) \/ StopSignal(v) \/ Crash(v)
  BY <1>1, <1>2, <1>3, <1>9 DEF StopSignal, Crash
<1>10. CASE \E i \in Jobs : Submit(i) \/ LeaseExpires(i) \/ BackoffElapses(i)
  BY <1>1, <1>10 DEF Submit, LeaseExpires, BackoffElapses
<1> QED BY <1>1, <1>8, <1>9, <1>10 DEF Next, vars

\* A process's life changes only by a start, a signal or an exit.
LEMMA LifeSteps ==
  ASSUME [Next]_vars
  PROVE  life' = life \/ \E v \in Workers : StartWorker(v) \/ StopSignal(v) \/ ProcessExits(v)
<1> HIDE DEF ProcessExits, SetSlot, Idle
<1>1. ASSUME NEW v \in Workers, NEW u \in Slots, SlotStep(v, u)
      PROVE  life' = life \/ ProcessExits(v)
  BY <1>1 DEF SlotStep, PollOrEnd, ClaimNothing, ClaimJob, ClaimThrows, BuildReturns, BuildThrows,
              Heartbeat, Complete, CompleteThrows, RetryOrFail, RetryThrows
<1>2. ASSUME NEW v \in Workers, Crash(v) PROVE ProcessExits(v)
  BY <1>2 DEF Crash
<1> QED BY <1>1, <1>2 DEF Next, vars, Submit, LeaseExpires, BackoffElapses

\* A worker that has started never becomes unborn again.
LEMMA StartedStaysStarted ==
  ASSUME TypeOK, [Next]_vars, NEW w \in Workers, life[w] # "unborn"
  PROVE  life'[w] # "unborn"
<1> USE DEF TypeOK
<1>1. ASSUME NEW v \in Workers, StartWorker(v) \/ StopSignal(v) \/ ProcessExits(v)
      PROVE  life'[w] # "unborn"
  BY <1>1 DEF StartWorker, StopSignal
<1> QED BY <1>1, LifeSteps

\* A job's owner is a worker that has started.
LEMMA OwnersStep ==
  ASSUME IInv, [Next]_vars
  PROVE  OwnersStarted' /\ NoForgottenJob'
<1> USE DEF IInv
<1> SUFFICES ASSUME NEW j \in Jobs, NEW w \in Workers, OwnsRunning(w, j)'
             PROVE  /\ life'[w] # "unborn"
                    /\ Alive(w)' => \E s \in Slots : /\ Holds(w, s, j)'
                                                     /\ slot'[w][s].attempt = job'[j].attempts
  BY DEF OwnersStarted, NoForgottenJob
<1>1. CASE OwnsRunning(w, j) /\ job'[j].attempts = job[j].attempts
  <2>1. life[w] # "unborn" /\ life'[w] # "unborn"
    BY <1>1, StartedStaysStarted DEF OwnersStarted
  <2>2. ASSUME Alive(w)' PROVE Alive(w)
    <3>1. life[w] \in {"up", "stopping", "gone"} /\ life'[w] \in {"up", "stopping"}
      BY <2>1, <2>2 DEF Alive, TypeOK
    <3>2. ASSUME NEW v \in Workers, life[w] = "gone",
                 StartWorker(v) \/ StopSignal(v) \/ ProcessExits(v) \/ life' = life
          PROVE FALSE
      BY <3>1, <3>2 DEF StartWorker, StopSignal, TypeOK
    <3>3. CASE life[w] = "gone"
      BY <3>2, <3>3, LifeSteps
    <3> QED BY <3>1, <3>3 DEF Alive
  <2>3. ASSUME Alive(w)'
        PROVE  \E s \in Slots : Holds(w, s, j)' /\ slot'[w][s].attempt = job'[j].attempts
    <3>1. PICK s \in Slots : Holds(w, s, j) /\ slot[w][s].attempt = job[j].attempts
      BY <1>1, <2>2, <2>3 DEF NoForgottenJob
    <3>2. SameHold(w, s)
      BY <1>1, <2>3, <3>1, HeldWhileRunning
    <3> QED BY <1>1, <3>1, <3>2 DEF SameHold, Holds
  <2> QED BY <2>1, <2>3
<1>2. ASSUME NEW s \in Slots, ClaimJob(w, s, j)
      PROVE  /\ life'[w] # "unborn"
             /\ Holds(w, s, j)' /\ slot'[w][s].attempt = job'[j].attempts
  <2>1. Alive(w)
    BY <1>2 DEF SlotInv, ClaimJob
  <2>2. life'[w] # "unborn"
    BY <2>1, StartedStaysStarted DEF Alive
  <2> QED BY <1>2, <2>2, ClaimGivesAttempt DEF Holds
<1> QED BY <1>1, <1>2, RunsByClaim

\* Every step keeps the inductive invariant.
LEMMA InvStep == IInv /\ [Next]_vars => IInv'
<1> SUFFICES ASSUME IInv, [Next]_vars PROVE IInv'
  OBVIOUS
<1>1. TypeOK'
  BY TypeStep DEF IInv
<1>2. SlotInv'
  BY SlotInvStep DEF IInv
<1>3. TablesAgree' /\ SourceKeptUntilDone' /\ UntriedBeforeSubmit'
  BY EveryStepIsARowStep, TablesStep DEF IInv
<1>4. AttemptsAreUnique'
  BY UniqueStep DEF IInv
<1>5. OwnersStarted' /\ NoForgottenJob'
  BY OwnersStep
<1> QED BY <1>1, <1>2, <1>3, <1>4, <1>5 DEF IInv

\* The inductive invariant holds in every reachable state.
LEMMA Invariance == Spec => []IInv
BY InvInit, InvStep, PTL DEF Spec

-----------------------------------------------------------------------------
(***************************************************************************)
(* What the invariant gives.                                               *)
(***************************************************************************)
\* The submission a team polls and the job behind it always tell one story.
THEOREM TablesAlwaysAgree == Spec => []TablesAgree
BY Invariance, PTL DEF IInv

\* Source code is there for every attempt and gone with the last.
THEOREM SourceAlwaysKeptUntilDone == Spec => []SourceKeptUntilDone
BY Invariance, PTL DEF IInv

\* No two loops ever build the same attempt of the same job.
THEOREM NoAttemptTwice == Spec => []AttemptsAreUnique
BY Invariance, PTL DEF IInv

\* A running job of a living worker is held by one of its loops.
THEOREM NoJobForgotten == Spec => []NoForgottenJob
BY Invariance, PTL DEF IInv

\* claimNext() never throws because of the row it picks.
THEOREM NothingPoisonsTheWorkers == Spec => []NoPoisonedJob
<1>1. IInv => NoPoisonedJob
  <2> SUFFICES ASSUME IInv, NEW j \in Jobs, Claimable(AfterRelease[j])
               PROVE  job[j].source /\ submission[j] \in {"queued", "building"}
    BY DEF NoPoisonedJob
  <2>1. job[j].status \in OpenStatus
    BY DEF AfterRelease, Released, Claimable
  <2> QED BY <2>1 DEF IInv, TypeOK, SubmissionStatus, TablesAgree, SourceKeptUntilDone
<1> QED BY <1>1, Invariance, PTL

\* A verdict is final.
THEOREM VerdictsAreFinal == Spec => VerdictIsFinal
<1> DEFINE Keeps == \A j \in Jobs : job[j].status \in DoneStatus =>
                      job'[j] = job[j] /\ submission'[j] = submission[j]
<1>1. IInv /\ [Next]_vars => Keeps
  BY EveryStepIsARowStep
     DEF IInv, RowSteps, RowStep, Inserted, Touched, Lapsed, Leased, Ended, PutBack
<1>2. Spec => [][Keeps]_vars
  BY <1>1, Invariance, PTL DEF Spec
<1> QED BY <1>2 DEF VerdictIsFinal

\* A running job is put back by the lapse of its lease, or by the error of a loop whose
\* own attempt was not the last.
LEMMA RequeuedBy ==
  ASSUME TypeOK, SlotInv, [Next]_vars,
         NEW j \in Jobs, job[j].status = "running", job'[j].status = "queued"
  PROVE  \/ job[j].lease = "expired"
         \/ \E w \in Workers, s \in Slots :
              /\ Holds(w, s, j) /\ slot[w][s].pc = "throwing" /\ OwnsRunning(w, j)
              /\ ~(slot[w][s].attempt >= MaxAttempts)
<1> DEFINE Goal == \/ job[j].lease = "expired"
                   \/ \E w \in Workers, s \in Slots :
                        /\ Holds(w, s, j) /\ slot[w][s].pc = "throwing" /\ OwnsRunning(w, j)
                        /\ ~(slot[w][s].attempt >= MaxAttempts)
<1> USE DEF TypeOK
<1>0. job[j] \in JobRow /\ job' # job
  OBVIOUS
<1>1. ASSUME NEW i \in Jobs, NEW r, job' = [job EXCEPT ![i] = r], r.status # "queued" PROVE FALSE
  BY <1>1
<1>2. ASSUME NEW i \in Jobs, Submit(i) \/ LeaseExpires(i) \/ BackoffElapses(i) PROVE FALSE
  <2>1. job[i] \in JobRow
    OBVIOUS
  <2>2. i # j
    BY <1>2, <2>1, <1>0 DEF Submit, LeaseExpires, BackoffElapses, JobRow
  <2> QED BY <1>2, <2>2 DEF Submit, LeaseExpires, BackoffElapses
<1>3. ASSUME job'[j] = AfterRelease[j] PROVE job[j].lease = "expired"
  BY <1>3 DEF AfterRelease, Released
<1>4. ASSUME NEW w \in Workers, NEW s \in Slots, NEW i \in Jobs, ClaimJob(w, s, i)
      PROVE  job[j].lease = "expired"
  <2>1. i # j
    BY <1>4, ClaimGivesAttempt
  <2> QED BY <1>3, <1>4, <2>1 DEF ClaimJob, AfterRelease
<1>5. ASSUME NEW w \in Workers, NEW s \in Slots, slot[w][s].pc \in HoldingPcs,
             \/ CompleteTxn(w, s) \/ Heartbeat(w, s)
             \/ slot[w][s].pc = "throwing" /\ RetryTxn(w, s)
      PROVE  Goal
  <2> DEFINE i == slot[w][s].job
  <2>1. i \in Jobs /\ job[i] \in JobRow
    BY <1>5 DEF SlotInv
  <2>2. OwnsRunning(w, i)
    BY <1>0, <1>5 DEF CompleteTxn, RetryTxn, Heartbeat
  <2>3. /\ Finished(job[i], "succeeded").status = "succeeded"
        /\ Finished(job[i], "failed").status = "failed"
        /\ [job[i] EXCEPT !.lease = "live"].status = job[i].status
    BY <2>1 DEF Finished, JobRow
  <2>4. /\ slot[w][s].pc = "throwing" /\ ~(slot[w][s].attempt >= MaxAttempts)
        /\ job' = [job EXCEPT ![i] = Requeued(job[i])]
    BY <1>1, <1>5, <2>1, <2>2, <2>3 DEF CompleteTxn, RetryTxn, Heartbeat, OwnsRunning
  <2>5. i = j
    BY <2>4
  <2> QED BY <1>5, <2>2, <2>4, <2>5 DEF Holds
<1>6. ASSUME NEW w \in Workers, NEW s \in Slots, SlotStep(w, s) PROVE Goal
  <2> HIDE DEF Goal, SetSlot, ProcessExits
  <2>1. CASE ClaimNothing(w, s)
    BY <1>3, <2>1 DEF ClaimNothing, Goal
  <2>2. CASE \E i \in Jobs : ClaimJob(w, s, i)
    BY <1>4, <2>2 DEF Goal
  <2> QED BY <1>0, <1>5, <1>6, <2>1, <2>2
          DEF SlotStep, PollOrEnd, ClaimThrows, BuildReturns, BuildThrows, Heartbeat,
              Complete, CompleteThrows, RetryOrFail, RetryThrows
<1>7. ASSUME NEW w \in Workers, StartWorker(w) \/ StopSignal(w) \/ Crash(w) PROVE FALSE
  BY <1>0, <1>7 DEF StartWorker, StopSignal, Crash
<1> QED BY <1>0, <1>2, <1>6, <1>7 DEF Next, vars

\* For any number of slots, workers, jobs and attempts: an error of the last attempt
\* settles its job.
THEOREM LastErrorsSettle == Spec => ExhaustedByLapseOrStaleError
<1> DEFINE Excused == \A j \in Jobs : ~Exhausted(j) /\ Exhausted(j)' =>
                        job[j].lease = "expired" \/ StaleErrorOf(j)
<1>1. IInv /\ [Next]_vars => Excused
  <2> SUFFICES ASSUME IInv, [Next]_vars, NEW j \in Jobs, ~Exhausted(j), Exhausted(j)'
               PROVE  job[j].lease = "expired" \/ StaleErrorOf(j)
    OBVIOUS
  <2>1. RowStep(job[j], job'[j], submission[j], submission'[j])
    BY EveryStepIsARowStep DEF IInv, RowSteps
  <2>2. job[j].status = "running" /\ job[j].attempts = MaxAttempts
    BY <2>1, MaxAttemptsAssumption
       DEF Exhausted, IInv, UntriedBeforeSubmit, RowStep, Inserted, Touched, Lapsed, Leased, Ended, PutBack
  <2>3. ASSUME NEW w \in Workers, NEW s \in Slots,
               Holds(w, s, j), slot[w][s].pc = "throwing", OwnsRunning(w, j),
               ~(slot[w][s].attempt >= MaxAttempts)
        PROVE  StaleErrorOf(j)
    <3>1. slot[w][s].attempt < job[j].attempts
      BY <2>2, <2>3, MaxAttemptsAssumption DEF IInv, TypeOK, SlotState
    <3> QED BY <2>3, <3>1 DEF StaleErrorOf
  <2> QED BY <2>2, <2>3, RequeuedBy DEF Exhausted, IInv
<1>2. Spec => [][Excused]_vars
  BY <1>1, Invariance, PTL DEF Spec
<1> QED BY <1>2 DEF ExhaustedByLapseOrStaleError

-----------------------------------------------------------------------------
(***************************************************************************)
(* BuildQueue implements SubmissionLifecycle.                              *)
(***************************************************************************)
VisiblySame(i) == job'[i].attempts = job[i].attempts /\ submission'[i] = submission[i]

\* A step shows a change of at most one submission to the teams.
LEMMA OneVisibleChange ==
  ASSUME TypeOK, SlotInv, [Next]_vars
  PROVE  (\A i \in Jobs : VisiblySame(i)) \/ \E j \in Jobs : \A i \in Jobs \ {j} : VisiblySame(i)
<1> DEFINE Goal == (\A i \in Jobs : VisiblySame(i))
                   \/ \E j \in Jobs : \A i \in Jobs \ {j} : VisiblySame(i)
<1>1. ASSUME UNCHANGED <<job, submission>> PROVE Goal
  BY <1>1 DEF VisiblySame
<1>2. ASSUME NEW j \in Jobs, NEW r, NEW t, job' = [job EXCEPT ![j] = r],
             submission' = [submission EXCEPT ![j] = t] \/ submission' = submission
      PROVE  Goal
  BY <1>2 DEF VisiblySame, TypeOK
<1>3. ASSUME NEW w \in Workers, NEW s \in Slots, ClaimNothing(w, s) PROVE Goal
  BY <1>3, ReleasedRow DEF ClaimNothing, AfterRelease, VisiblySame, TypeOK
<1>4. ASSUME NEW w \in Workers, NEW s \in Slots, NEW j \in Jobs, ClaimJob(w, s, j) PROVE Goal
  <2>1. ASSUME NEW i \in Jobs \ {j} PROVE VisiblySame(i)
    BY <1>4, ReleasedRow DEF ClaimJob, AfterRelease, VisiblySame, TypeOK
  <2> QED BY <2>1
<1>5. ASSUME NEW w \in Workers, NEW s \in Slots, slot[w][s].pc \in HoldingPcs,
             CompleteTxn(w, s) \/ RetryTxn(w, s)
      PROVE  Goal
  <2> HIDE DEF Goal
  <2>1. slot[w][s].job \in Jobs
    BY <1>5 DEF SlotInv
  <2> QED BY <1>1, <1>2, <1>5, <2>1 DEF CompleteTxn, RetryTxn
<1>6. ASSUME NEW w \in Workers, NEW s \in Slots, SlotStep(w, s) PROVE Goal
  <2> HIDE DEF Goal, SetSlot, ProcessExits
  <2>1. CASE Heartbeat(w, s)
    <3>1. slot[w][s].job \in Jobs
      BY <2>1 DEF SlotInv, Heartbeat
    <3> QED BY <1>2, <2>1, <3>1 DEF Heartbeat
  <2> QED BY <1>1, <1>3, <1>4, <1>5, <1>6, <2>1
          DEF SlotStep, PollOrEnd, ClaimThrows, BuildReturns, BuildThrows,
              Complete, CompleteThrows, RetryOrFail, RetryThrows
<1>7. ASSUME NEW w \in Workers, StartWorker(w) \/ StopSignal(w) \/ Crash(w) PROVE Goal
  BY <1>1, <1>7 DEF StartWorker, StopSignal, Crash
<1>8. ASSUME NEW i \in Jobs, Submit(i) \/ LeaseExpires(i) \/ BackoffElapses(i) PROVE Goal
  <2> HIDE DEF Goal
  <2> QED BY <1>2, <1>8 DEF Submit, LeaseExpires, BackoffElapses
<1> QED BY <1>1, <1>6, <1>7, <1>8 DEF Next, vars

Starts == [j \in Jobs |-> job[j].attempts]

\* Initial states map to initial states.
LEMMA LifecycleInit == Init => Lifecycle!LifeInit
BY DEF Init, Lifecycle!LifeInit

\* Every step maps to a step of the lifecycle or to a stutter.
LEMMA LifecycleStep ==
  ASSUME IInv, IInv', [Next]_vars
  PROVE  [Lifecycle!LifeNext]_(Lifecycle!lifeVars)
<1> USE DEF IInv
<1> DEFINE Same == submission' = submission /\ Starts' = Starts
<1>1. RowSteps
  BY EveryStepIsARowStep
<1>2. submission \in [Jobs -> SubmissionStatus] /\ submission' \in [Jobs -> SubmissionStatus]
  BY DEF TypeOK
<1>3. CASE \A i \in Jobs : VisiblySame(i)
  <2>1. submission' = submission
    BY <1>2, <1>3 DEF VisiblySame
  <2>2. Starts' = Starts
    BY <1>3 DEF VisiblySame, Starts
  <2> QED BY <2>1, <2>2 DEF Lifecycle!lifeVars, Starts
<1>4. ASSUME NEW j \in Jobs, \A i \in Jobs \ {j} : VisiblySame(i)
      PROVE  [Lifecycle!LifeNext]_(Lifecycle!lifeVars)
  <2>1. submission' = [submission EXCEPT ![j] = submission'[j]]
    BY <1>2, <1>4 DEF VisiblySame
  <2>2. ASSUME job'[j].attempts = job[j].attempts PROVE Starts' = Starts
    BY <1>4, <2>2 DEF VisiblySame, Starts
  <2>3. ASSUME job'[j].attempts = job[j].attempts + 1
        PROVE  Starts' = [Starts EXCEPT ![j] = @ + 1]
    BY <1>4, <2>3 DEF VisiblySame, Starts
  <2>4. CASE Inserted(job[j], job'[j], submission'[j])
    <3>1. submission[j] = "absent" /\ submission' = [submission EXCEPT ![j] = "queued"] /\ Starts' = Starts
      BY <2>1, <2>2, <2>4 DEF Inserted, TablesAgree
    <3>2. Lifecycle!Accept(j)
      BY <3>1 DEF Lifecycle!Accept, Starts
    <3> QED BY <3>2 DEF Lifecycle!LifeNext
  <2>5. CASE Leased(job[j], job'[j], submission'[j])
    <3>1. submission[j] \in {"queued", "building"}
      BY <1>2, <2>5 DEF Leased, TablesAgree, SubmissionStatus
    <3>2. /\ submission' = [submission EXCEPT ![j] = "building"]
          /\ Starts' = [Starts EXCEPT ![j] = @ + 1]
          /\ Starts[j] < MaxAttempts
      BY <2>1, <2>3, <2>5 DEF Leased, Starts
    <3>3. Lifecycle!Begin(j)
      BY <3>1, <3>2 DEF Lifecycle!Begin, Lifecycle!Open, Starts
    <3> QED BY <3>3 DEF Lifecycle!LifeNext
  <2>6. CASE Ended(job[j], job'[j], submission'[j])
    <3>1. /\ submission[j] = "building" /\ submission'[j] \in {"built", "failed"}
          /\ submission' = [submission EXCEPT ![j] = submission'[j]] /\ Starts' = Starts
      BY <2>1, <2>2, <2>6 DEF Ended, TablesAgree
    <3>2. Lifecycle!Settle(j, submission'[j])
      BY <3>1 DEF Lifecycle!Settle, Starts
    <3> QED BY <3>1, <3>2 DEF Lifecycle!LifeNext, Lifecycle!Settled
  <2>7. CASE PutBack(job[j], job'[j], submission'[j])
    <3>1. /\ submission[j] = "building"
          /\ submission' = [submission EXCEPT ![j] = "queued"] /\ Starts' = Starts
      BY <2>1, <2>2, <2>7 DEF PutBack, TablesAgree
    <3>2. Lifecycle!PutBack(j)
      BY <3>1 DEF Lifecycle!PutBack, Starts
    <3> QED BY <3>2 DEF Lifecycle!LifeNext
  <2>8. CASE \/ job'[j] = job[j] /\ submission'[j] = submission[j]
             \/ Touched(job[j], job'[j], submission[j], submission'[j])
             \/ Lapsed(job[j], job'[j], submission[j], submission'[j])
    <3>1. VisiblySame(j)
      BY <2>8 DEF VisiblySame, Touched, Lapsed
    <3> QED BY <1>3, <1>4, <3>1
  <2> QED BY <1>1, <2>4, <2>5, <2>6, <2>7, <2>8 DEF RowSteps, RowStep
<1> QED BY <1>3, <1>4, OneVisibleChange

\* Through the submissions API the queue, its leases and its crashes look like
\* SubmissionLifecycle.
THEOREM QueueImplementsLifecycle == Spec => ImplementsLifecycle
<1>1. IInv /\ IInv' /\ [Next]_vars => [Lifecycle!LifeNext]_(Lifecycle!lifeVars)
  BY LifecycleStep
<1> QED BY <1>1, LifecycleInit, Invariance, PTL DEF Spec, ImplementsLifecycle, Lifecycle!LifeSpec
=============================================================================
