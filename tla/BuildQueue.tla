----------------------------- MODULE BuildQueue -----------------------------
(***************************************************************************)
(* The durable build queue: POST /submissions inserts a submission and its *)
(* job in one transaction; build workers lease jobs from                   *)
(* submission_build_jobs, build them, and settle or retry them.            *)
(*                                                                         *)
(* Every transaction of services/build-queue.ts is one step: its row locks *)
(* (UPDATE, FOR UPDATE SKIP LOCKED) make the transactions on one job run   *)
(* one after another, and each UPDATE re-evaluates its WHERE once it holds *)
(* the lock.  Between two transactions anything may happen: leases lapse,  *)
(* other slots and workers run, processes die.                             *)
(*                                                                         *)
(* A worker is one run of the build-worker process: it draws a fresh       *)
(* randomUUID() as its worker_id, which ALL of its concurrency slots share.*)
(***************************************************************************)
EXTENDS Integers, FiniteSets

CONSTANTS Jobs,          \* jobs, one per submission (submission_id is UNIQUE)
          Workers,       \* build-worker processes that are ever started
          Slots,         \* the workerLoop() instances of one process
          MaxAttempts,   \* BUILD_JOB_MAX_ATTEMPTS, copied into each job
          NoJob,         \* a slot's job when it holds none
          NoWorker       \* worker_id IS NULL

\* positiveInteger() turns every other setting into the default of 3.
ASSUME MaxAttemptsAssumption == MaxAttempts \in Nat \ {0}
ASSUME NoJobAssumption    == NoJob \notin Jobs
ASSUME NoWorkerAssumption == NoWorker \notin Workers

VARIABLES
  job,          \* submission_build_jobs, one row per job
  submission,   \* submissions.status of the job's submission
  life,         \* each worker process: unborn, up, stopping (SIGTERM), gone
  slot          \* each workerLoop(): where it is, and its local BuildJob

vars == <<job, submission, life, slot>>

(***************************************************************************)
(* Types.  ready stands for available_at <= now, lease for lease_expires_at*)
(* against now, source for source_code IS NOT NULL.  "built", "unbuilt":   *)
(* the build has returned a result and complete() is next; "throwing": an  *)
(* exception was caught and retryOrFail() is next.                         *)
(***************************************************************************)
OpenStatus == {"queued", "running"}
DoneStatus == {"succeeded", "failed"}

JobRow == [status   : {"absent"} \cup OpenStatus \cup DoneStatus,
           attempts : 0..MaxAttempts,
           ready    : BOOLEAN,
           lease    : {"none", "live", "expired"},
           owner    : Workers \cup {NoWorker},
           source   : BOOLEAN]

HoldingPcs == {"building", "built", "unbuilt", "throwing"}

SlotState == [pc      : {"off", "loop", "claiming"} \cup HoldingPcs,
              job     : Jobs \cup {NoJob},
              attempt : 0..MaxAttempts]

SubmissionStatus == {"absent", "queued", "building", "built", "failed"}

Idle(pc) == [pc |-> pc, job |-> NoJob, attempt |-> 0]

Alive(w) == life[w] \in {"up", "stopping"}

Init ==
  /\ job = [j \in Jobs |-> [status |-> "absent", attempts |-> 0, ready |-> FALSE,
                            lease |-> "none", owner |-> NoWorker, source |-> FALSE]]
  /\ submission = [j \in Jobs |-> "absent"]
  /\ life = [w \in Workers |-> "unborn"]
  /\ slot = [w \in Workers |-> [s \in Slots |-> Idle("off")]]

SetSlot(w, s, state) == slot' = [slot EXCEPT ![w] = [@ EXCEPT ![s] = state]]

-----------------------------------------------------------------------------
(***************************************************************************)
(* The API and the clock.                                                  *)
(***************************************************************************)
Submit(j) ==
  /\ job[j].status = "absent"
  /\ job' = [job EXCEPT ![j] = [@ EXCEPT !.status = "queued", !.ready = TRUE,
                                         !.source = TRUE]]
  /\ submission' = [submission EXCEPT ![j] = "queued"]
  /\ UNCHANGED <<life, slot>>

\* Heartbeats can fail or come late, so a lease may lapse under a live owner.
LeaseExpires(j) ==
  /\ job[j].status = "running" /\ job[j].lease = "live"
  /\ job' = [job EXCEPT ![j] = [@ EXCEPT !.lease = "expired"]]
  /\ UNCHANGED <<submission, life, slot>>

\* The retry delay of retryDelaySeconds() has passed.
BackoffElapses(j) ==
  /\ job[j].status = "queued" /\ ~job[j].ready
  /\ job' = [job EXCEPT ![j] = [@ EXCEPT !.ready = TRUE]]
  /\ UNCHANGED <<submission, life, slot>>

-----------------------------------------------------------------------------
(***************************************************************************)
(* The worker process.                                                     *)
(***************************************************************************)
StartWorker(w) ==
  /\ life[w] = "unborn"
  /\ life' = [life EXCEPT ![w] = "up"]
  /\ slot' = [slot EXCEPT ![w] = [s \in Slots |-> Idle("loop")]]
  /\ UNCHANGED <<job, submission>>

\* SIGTERM and SIGINT only clear acceptingJobs.
StopSignal(w) ==
  /\ life[w] = "up"
  /\ life' = [life EXCEPT ![w] = "stopping"]
  /\ UNCHANGED <<job, submission, slot>>

\* The process is gone with all its slots; its worker_id is never used again.
ProcessExits(w) ==
  /\ life' = [life EXCEPT ![w] = "gone"]
  /\ slot' = [slot EXCEPT ![w] = [s \in Slots |-> Idle("off")]]

\* SIGKILL at the end of the grace period, an OOM kill, a lost node.
Crash(w) ==
  /\ Alive(w)
  /\ ProcessExits(w)
  /\ UNCHANGED <<job, submission>>

\* while (acceptingJobs): the test is made before each claim, and a claim
\* already under way when the signal comes is not called back.
PollOrEnd(w, s) ==
  /\ slot[w][s].pc = "loop"
  /\ SetSlot(w, s, Idle(IF life[w] = "up" THEN "claiming" ELSE "off"))
  /\ UNCHANGED <<job, submission, life>>

-----------------------------------------------------------------------------
(***************************************************************************)
(* claimNext(): one transaction releases every lapsed lease, whatever the  *)
(* job's attempts, and claims one ready job with attempts left.  The code  *)
(* takes the one that has been available longest; which one it takes makes *)
(* no difference to safety, and for liveness the order is what justifies   *)
(* the fairness of ClaimJob for each job (see Fairness).                   *)
(***************************************************************************)
\* Mutant of Released: a lapsed lease is only released with attempts left.
ReleasedWithAttemptsLeft(row) ==
  IF row.status = "running" /\ row.lease = "expired" /\ row.attempts < MaxAttempts
  THEN [row EXCEPT !.status = "queued", !.owner = NoWorker,
                   !.lease = "none", !.ready = TRUE]
  ELSE row

Released(row) ==
  IF row.status = "running" /\ row.lease = "expired"
  THEN [row EXCEPT !.status = "queued", !.owner = NoWorker,
                   !.lease = "none", !.ready = TRUE]
  ELSE row

AfterRelease == [j \in Jobs |-> Released(job[j])]

\* Mutant of Claimable: attempt_count < max_attempts is forgotten.
ClaimableForever(row) == row.status = "queued" /\ row.ready

Claimable(row) == row.status = "queued" /\ row.ready /\ row.attempts < MaxAttempts

\* Mutant of Claimed: a reclaimed lease is not counted as an attempt.
ClaimedUncounted(row, w) ==
  [row EXCEPT !.status = "running", !.owner = w, !.lease = "live",
              !.attempts = IF @ = 0 THEN 1 ELSE @]

Claimed(row, w) == [row EXCEPT !.status = "running", !.owner = w,
                               !.attempts = @ + 1, !.lease = "live"]

OtherClaims(w, s) ==
  {c \in Workers \X Slots : c # <<w, s>> /\ slot[c[1]][c[2]].pc = "claiming"}

\* SKIP LOCKED: each of the other claims under way may have locked one ready job,
\* which is passed over even if that claim is rolled back later.
ClaimNothing(w, s) ==
  /\ slot[w][s].pc = "claiming"
  /\ Cardinality({j \in Jobs : Claimable(AfterRelease[j])}) <= Cardinality(OtherClaims(w, s))
  /\ job' = AfterRelease
  /\ SetSlot(w, s, Idle("loop"))
  /\ UNCHANGED <<submission, life>>

ClaimJob(w, s, j) ==
  LET row == AfterRelease[j] IN
  /\ slot[w][s].pc = "claiming"
  /\ Claimable(row)
  /\ submission[j] \in {"queued", "building"} /\ row.source
  /\ job' = [AfterRelease EXCEPT ![j] = Claimed(row, w)]
  /\ submission' = [submission EXCEPT ![j] = "building"]
  /\ SetSlot(w, s, [pc |-> "building", job |-> j, attempt |-> row.attempts + 1])
  /\ UNCHANGED life

\* claimNext() rolls back and throws: on a database error, and also on a claimed
\* row whose submission or source is unavailable.  Nothing catches it before
\* startWorker().catch, which exits the process.  (Had the COMMIT been carried
\* out and only its answer been lost, this is ClaimJob followed by Crash.)
ClaimThrows(w, s) ==
  /\ slot[w][s].pc = "claiming"
  /\ ProcessExits(w)
  /\ UNCHANGED <<job, submission>>

-----------------------------------------------------------------------------
(***************************************************************************)
(* One leased job.                                                         *)
(***************************************************************************)
\* A build that ran to its end: result.success tells the image from the log.
BuildReturns(w, s, outcome) ==
  /\ slot[w][s].pc = "building"
  /\ SetSlot(w, s, [slot[w][s] EXCEPT !.pc = outcome])
  /\ UNCHANGED <<job, submission, life>>

\* The sandbox threw: the cluster's API failed, or the build's wait timed out.
BuildThrows(w, s) ==
  /\ slot[w][s].pc = "building"
  /\ SetSlot(w, s, [slot[w][s] EXCEPT !.pc = "throwing"])
  /\ UNCHANGED <<job, submission, life>>

\* WHERE id = $1 AND worker_id = $2 AND status = 'running'
OwnsRunning(w, j) == job[j].status = "running" /\ job[j].owner = w

\* The interval timer of a slot that holds the job.
Heartbeat(w, s) ==
  LET j == slot[w][s].job IN
  /\ slot[w][s].pc \in HoldingPcs
  /\ OwnsRunning(w, j)
  /\ job' = [job EXCEPT ![j] = [@ EXCEPT !.lease = "live"]]
  /\ UNCHANGED <<submission, life, slot>>

\* Mutant of Finished: the source survives the job.
FinishedKeepingSource(row, status) ==
  [row EXCEPT !.status = status, !.owner = NoWorker, !.lease = "none"]

Finished(row, status) == [row EXCEPT !.status = status, !.source = FALSE,
                                     !.owner = NoWorker, !.lease = "none"]

\* Mutant of CompleteTxn: the job is found by its id alone.
CompleteTxnUnfenced(w, s) ==
  LET j == slot[w][s].job
      success == slot[w][s].pc = "built" IN
  /\ job' = [job EXCEPT ![j] = Finished(@, IF success THEN "succeeded" ELSE "failed")]
  /\ submission' = [submission EXCEPT ![j] = IF success THEN "built" ELSE "failed"]

\* The transaction of complete(), on the job and then on its submission.
CompleteTxn(w, s) ==
  LET j == slot[w][s].job
      success == slot[w][s].pc = "built" IN
  IF OwnsRunning(w, j)
  THEN /\ job' = [job EXCEPT ![j] = Finished(@, IF success THEN "succeeded" ELSE "failed")]
       /\ submission' = [submission EXCEPT ![j] = IF success THEN "built" ELSE "failed"]
  ELSE UNCHANGED <<job, submission>>

Complete(w, s) ==
  /\ slot[w][s].pc \in {"built", "unbuilt"}
  /\ CompleteTxn(w, s)
  /\ SetSlot(w, s, Idle("loop"))
  /\ UNCHANGED life

\* Mutant of CompleteThrows: the error is logged and the loop goes on.
CompleteThrowsSwallowed(w, s) ==
  /\ slot[w][s].pc \in {"built", "unbuilt"}
  /\ CompleteTxn(w, s) \/ UNCHANGED <<job, submission>>
  /\ SetSlot(w, s, Idle("loop"))
  /\ UNCHANGED life

\* complete() throws inside the same try as the build: its transaction was
\* rolled back, or it was committed and the answer was lost.
CompleteThrows(w, s) ==
  /\ slot[w][s].pc \in {"built", "unbuilt"}
  /\ CompleteTxn(w, s) \/ UNCHANGED <<job, submission>>
  /\ SetSlot(w, s, [slot[w][s] EXCEPT !.pc = "throwing"])
  /\ UNCHANGED life

\* Mutant of Requeued: the source is erased for a retry too.
RequeuedWithoutSource(row) ==
  [row EXCEPT !.status = "queued", !.owner = NoWorker, !.lease = "none",
              !.ready = FALSE, !.source = FALSE]

Requeued(row) == [row EXCEPT !.status = "queued", !.owner = NoWorker,
                             !.lease = "none", !.ready = FALSE]

\* Mutants of RetryTxn: the submission always goes back to the queue; the last
\* attempt is not seen as the last; the job is found by its id alone.
RetryTxnAlwaysQueued(w, s) ==
  LET j == slot[w][s].job
      terminal == slot[w][s].attempt >= MaxAttempts IN
  IF OwnsRunning(w, j)
  THEN /\ job' = [job EXCEPT ![j] = IF terminal THEN Finished(@, "failed") ELSE Requeued(@)]
       /\ submission' = [submission EXCEPT ![j] = "queued"]
  ELSE UNCHANGED <<job, submission>>

RetryTxnOffByOne(w, s) ==
  LET j == slot[w][s].job
      terminal == slot[w][s].attempt > MaxAttempts IN
  IF OwnsRunning(w, j)
  THEN /\ job' = [job EXCEPT ![j] = IF terminal THEN Finished(@, "failed") ELSE Requeued(@)]
       /\ submission' = [submission EXCEPT ![j] = IF terminal THEN "failed" ELSE "queued"]
  ELSE UNCHANGED <<job, submission>>

RetryTxnUnfenced(w, s) ==
  LET j == slot[w][s].job
      terminal == slot[w][s].attempt >= MaxAttempts IN
  /\ job' = [job EXCEPT ![j] = IF terminal THEN Finished(@, "failed") ELSE Requeued(@)]
  /\ submission' = [submission EXCEPT ![j] = IF terminal THEN "failed" ELSE "queued"]

\* The transaction of retryOrFail(): the SLOT's copy of the attempt decides.
RetryTxn(w, s) ==
  LET j == slot[w][s].job
      terminal == slot[w][s].attempt >= MaxAttempts IN
  IF OwnsRunning(w, j)
  THEN /\ job' = [job EXCEPT ![j] = IF terminal THEN Finished(@, "failed") ELSE Requeued(@)]
       /\ submission' = [submission EXCEPT ![j] = IF terminal THEN "failed" ELSE "queued"]
  ELSE UNCHANGED <<job, submission>>

RetryOrFail(w, s) ==
  /\ slot[w][s].pc = "throwing"
  /\ RetryTxn(w, s)
  /\ SetSlot(w, s, Idle("loop"))
  /\ UNCHANGED life

\* retryOrFail() throws, before or after its commit: nothing catches it.
RetryThrows(w, s) ==
  /\ slot[w][s].pc = "throwing"
  /\ RetryTxn(w, s) \/ UNCHANGED <<job, submission>>
  /\ ProcessExits(w)

-----------------------------------------------------------------------------
SlotStep(w, s) ==
  \/ PollOrEnd(w, s)
  \/ ClaimNothing(w, s)
  \/ \E j \in Jobs : ClaimJob(w, s, j)
  \/ ClaimThrows(w, s)
  \/ \E outcome \in {"built", "unbuilt"} : BuildReturns(w, s, outcome)
  \/ BuildThrows(w, s)
  \/ Heartbeat(w, s)
  \/ Complete(w, s)
  \/ CompleteThrows(w, s)
  \/ RetryOrFail(w, s)
  \/ RetryThrows(w, s)

Next ==
  \/ \E j \in Jobs : Submit(j) \/ LeaseExpires(j) \/ BackoffElapses(j)
  \/ \E w \in Workers : StartWorker(w) \/ StopSignal(w) \/ Crash(w)
  \/ \E w \in Workers, s \in Slots : SlotStep(w, s)

Spec == Init /\ [][Next]_vars

(***************************************************************************)
(* Fairness.  A slot's loop goes on as long as its process lives; a build  *)
(* ends (5 minute limits in both backends); a delay and the lease of a     *)
(* dead owner run out with the clock, while a lease with a heartbeat need  *)
(* never do.  Claims take the job that became available first, and a job   *)
(* that waits is overtaken only by those that became available before it:  *)
(* a job that is claimable time and again is claimed.  Starts, crashes,    *)
(* signals and errors are never owed to anybody.                           *)
(***************************************************************************)
Fairness ==
  /\ \A w \in Workers, s \in Slots :
       /\ WF_vars(PollOrEnd(w, s))
       /\ WF_vars(ClaimNothing(w, s) \/ \E j \in Jobs : ClaimJob(w, s, j))
       /\ WF_vars(BuildThrows(w, s) \/ \E outcome \in {"built", "unbuilt"} :
                                        BuildReturns(w, s, outcome))
       /\ WF_vars(Complete(w, s) \/ CompleteThrows(w, s))
       /\ WF_vars(RetryOrFail(w, s) \/ RetryThrows(w, s))
  /\ \A j \in Jobs :
       /\ WF_vars(BackoffElapses(j))
       /\ WF_vars(LeaseExpires(j) /\ \A w \in Workers : Alive(w) => job[j].owner # w)
       /\ SF_vars(\E w \in Workers, s \in Slots : ClaimJob(w, s, j))

FairSpec == Spec /\ Fairness

-----------------------------------------------------------------------------
(***************************************************************************)
(* Properties.                                                             *)
(***************************************************************************)
\* Every row, slot and process keeps its type; attempts never pass the limit
\* that the CHECK constraints and claimNext()'s WHERE give them.
TypeOK ==
  /\ job \in [Jobs -> JobRow]
  /\ submission \in [Jobs -> SubmissionStatus]
  /\ life \in [Workers -> {"unborn", "up", "stopping", "gone"}]
  /\ slot \in [Workers -> [Slots -> SlotState]]

\* The two tables tell the same story between any two transactions, whatever
\* died in the middle of one: a submission is settled exactly when its job is,
\* with the same verdict, is building while its job runs, and a job that waits
\* for a worker never shows a settled submission.
TablesAgree ==
  \A j \in Jobs :
    /\ job[j].status = "absent"    <=> submission[j] = "absent"
    /\ job[j].status = "succeeded" <=> submission[j] = "built"
    /\ job[j].status = "failed"    <=> submission[j] = "failed"
    /\ job[j].status = "running"    => submission[j] = "building"

\* The row that claimNext() picks always has its source and an open submission.
\* Otherwise its throw would end the whole process (build-worker.ts:51-54), the
\* rollback would leave the row claimable, and each restarted worker would die
\* on it again.
NoPoisonedJob ==
  \A j \in Jobs : Claimable(AfterRelease[j]) =>
    job[j].source /\ submission[j] \in {"queued", "building"}

\* The source is erased when, and only when, the job is finished: an attempt can
\* always be repeated until then, and a finished job keeps no contestant code.
SourceKeptUntilDone ==
  \A j \in Jobs : job[j].source <=> job[j].status \in OpenStatus

Holds(w, s, j) == slot[w][s].pc \in HoldingPcs /\ slot[w][s].job = j

\* No attempt is ever built twice: two loops that work on the same job, of one
\* process or of two, do so under different attempt numbers.
AttemptsAreUnique ==
  \A w1, w2 \in Workers : \A s1, s2 \in Slots : \A j \in Jobs :
    (Holds(w1, s1, j) /\ Holds(w2, s2, j)
       /\ slot[w1][s1].attempt = slot[w2][s2].attempt) => w1 = w2 /\ s1 = s2

\* A running job whose owner lives is really being worked on: some loop of its
\* owner holds the current attempt, so a heartbeat that keeps the lease alive
\* never keeps a job that nobody builds.
NoForgottenJob ==
  \A j \in Jobs, w \in Workers :
    OwnsRunning(w, j) /\ Alive(w) =>
      \E s \in Slots : Holds(w, s, j) /\ slot[w][s].attempt = job[j].attempts

\* A finished job and its submission never change again: no late complete(),
\* retryOrFail(), heartbeat or lease release reopens or reverses a verdict.
VerdictIsFinal ==
  [][\A j \in Jobs : job[j].status \in DoneStatus =>
       job'[j] = job[j] /\ submission'[j] = submission[j]]_vars

\* A job that has used all its attempts while it waits: claimNext() skips it for
\* ever, and nothing else looks at it.
Exhausted(j) == job[j].status = "queued" /\ job[j].attempts = MaxAttempts

\* A loop of the process that owns the running job is about to report an error of an
\* EARLIER attempt.  The slots of a process share its worker_id, so the WHERE of
\* retryOrFail() lets it through once a sibling has reclaimed the job.
StaleErrorOf(j) ==
  \E w \in Workers, s \in Slots :
    /\ Holds(w, s, j) /\ slot[w][s].pc = "throwing" /\ OwnsRunning(w, j)
    /\ slot[w][s].attempt < job[j].attempts

\* An error of the LAST attempt never leaves the job waiting for an attempt that nobody
\* will make: only a lease that lapsed does, or the late error of an earlier attempt that
\* a sibling slot took over (build-queue.ts:131, 146, 154).
ExhaustedByLapseOrStaleError ==
  [][\A j \in Jobs : ~Exhausted(j) /\ Exhausted(j)' =>
       job[j].lease = "expired" \/ StaleErrorOf(j)]_vars

\* The queue seen through the submissions API implements SubmissionLifecycle:
\* releases, heartbeats and stale answers are invisible to the team that polls.
Lifecycle == INSTANCE SubmissionLifecycle WITH
  Submissions <- Jobs, state <- submission,
  starts <- [j \in Jobs |-> job[j].attempts]

ImplementsLifecycle == Lifecycle!LifeSpec

WorkerRemains == <>[](\E w \in Workers : life[w] = "up")

\* As long as a worker remains, a submission ends up built, failed or exhausted,
\* through any number of crashes, lapsed leases and lost answers on the way.
EverySubmissionLeavesTheQueue ==
  WorkerRemains =>
    \A j \in Jobs : (submission[j] # "absent") ~>
                    (submission[j] \in {"built", "failed"} \/ Exhausted(j))

\* What build-queue.ts:56-57 says ("makes worker crashes recoverable"): as long
\* as a worker remains, every submission is settled in the end.
EverySubmissionSettles ==
  WorkerRemains =>
    \A j \in Jobs : (submission[j] # "absent") ~> (submission[j] \in {"built", "failed"})

=============================================================================
