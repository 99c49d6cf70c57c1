# A formal model of the Benchmarking Engine

This directory holds TLA+ models of the Benchmarking Engine, the TLC configurations that
check them on small instances, and proofs, checked by TLAPS, of the theorems that hold for
every instance.  Every definition is written from the source under `src/`; the entry `map`
of `PROJECT.json` names the lines each one stands for.

* [1. The system](#1-the-system)
* [2. The modules](#2-the-modules)
* [3. The runs](#3-the-runs)
* [4. The theorems](#4-the-theorems)
* [5. What the models found](#5-what-the-models-found)
* [6. What is not modelled](#6-what-is-not-modelled)
* [7. The plan](#7-the-plan)
* [8. How to run it](#8-how-to-run-it)

## 1. The system

Teams submit the source code of a matching engine.  The platform builds it into an image,
runs the image in a sandbox, lets a fleet of bots fire orders at it, aggregates the
telemetry and ranks the teams.

```
 dashboard ──HTTP──▶ core orchestrator ──row──▶ submission_build_jobs ◀──lease── build workers
     ▲                 │   ▲    │ start/stop                                        │ build
     │ WebSocket       │   │    ▼                                                   ▼
     │          /start │   │  sandbox (Docker, Kubernetes) ◀──────────────── image registry
     │                 ▼   │
     │             bot fleet ──orders──▶ contestant
     │                 │   │
     │   telemetry-stream  │ POST /benchmark/complete
     │                 ▼   │
     └──────── telemetry ingester ──▶ benchmark_runs, leaderboard (Redis)
```

### 1.1 Inventory

| Component | State it keeps | Operations | What makes it hard | What makes it correct |
|---|---|---|---|---|
| **Build queue** (`services/build-queue.ts`, the transaction of `POST /submissions` in `index.ts`) | two tables: `submission_build_jobs` (status, attempt_count, available_at, lease_expires_at, worker_id, source_code) and `submissions` (status) | submit, claimNext, heartbeat, complete, retryOrFail | leases lapse under live owners; transactions fail before or after their commit; attempts overlap | the tables agree, verdicts are final, attempts are bounded and never built twice, no submission is forgotten |
| **Build worker** (`build-worker.ts`) | `acceptingJobs`; one local BuildJob per slot; one worker_id for all slots | workerLoop, heartbeat timer, SIGTERM/SIGINT, exit on an uncaught error | crashes at any point; two slots share the id that fences stale attempts | a leased job is really being worked on; no row kills workers |
| **Benchmark orchestration** (`index.ts` 400-530, 600-680) | `activeContainers` and timers in memory; hash `run:active:<id>` and set `runs:active` in Redis; `benchmark_runs` in Postgres; a container | start (nine awaits), complete, safety timer, cleanupRun | three kinds of callers of cleanupRun overlap at every await; a crash loses map and timers; each call can fail with or without its effect | the first verdict stands; a settled run holds nothing; a container always has somebody to remove it |
| **Sandbox backends** (`services/sandbox.ts`, `services/kubernetes-sandbox.ts`) | containers; or Jobs, ConfigMaps, Pods and Services in a cluster | build, startRun, stopRun, findRunId | partial creation; names that two attempts share | a run is found by its label as long as it exists |
| **Bot fleet** (`bot-fleet/cmd/main.go`) | `activeRuns` (run id to cancel function) under a mutex; per test its workers and sentOrders | /start, /stop (one or all), the workers' loop, duration, run_complete | goroutines; cancel functions are called outside of the mutex; entries are removed by run id | every test ends; run_complete carries the exact number of orders |
| **Telemetry ingester** (`telemetry-ingester/src/index.ts`) | `runs`: per run counters and samples in memory; the group's offsets in Kafka | eachMessage, finalize, the tick of every second, notifyCompletion | flushes overlap and are overtaken by orders; rebalances; crashes between finalize's awaits; swallowed errors | each order is in the counts of one window, and in the percentiles of one unless a flush was under way; the verdict says what was lost; every load is reported |
| **Leaderboard** (ingester 56, `config/index.ts` 238-259, `index.ts` 191-194, 249-251, 292, 550-595) | the sorted set `leaderboard` in Redis | rank a final score, rebuild at startup, the zero scores of signup, `/contestants` and login, read | read-then-write by several processes; a write nobody waits for; Redis may lose its data | the score is the best of the completed runs; a start lists every team again |
| **Identity** (`index.ts` 83-306) | `users` and `teams` in MongoDB with unique indexes; signed tokens | signup, login, contestants, authentication | two documents without a transaction, written by concurrent requests; lost answers; a migration at every start | one team per name, one user per team, an account's team exists, tokens are good |
| **Dashboard** (`dashboard/src/App.tsx`) | React state, localStorage | login, submit, poll, start, WebSocket view | nothing is cancelled: polls overlap, answers come late, sockets outlive their run and session | it shows the state of the run it was asked for; a disabled button waits for something that will come |
| **Mock contestant** (`mock-contestant/main.go`) | an order map under a mutex | create, cancel, health | - | a test double |
| **Schema, configuration, deployment** (`config/index.ts` 1-137, `docker-compose*.yml`, `iac-deployment/`, Dockerfiles) | - | idempotent DDL, checks at startup | - | - |

### 1.2 How the components interact

* `POST /submissions` commits a submission and its job together; from then on the two tables
  are the only thing the API and the workers share.  Workers never talk to each other: the
  row locks of Postgres, `WHERE worker_id = $2 AND status = 'running'` and the lease do it.
* `POST /benchmark/start` takes a built submission, acquires sandbox, keys and row one after
  the other, then hands the run to the bot fleet with `POST /start`.  The fleet never answers
  again: it writes orders and a last `run_complete` record to Kafka.
* The ingester consumes the topic, writes metrics into the run's row every second, and at
  `run_complete` tells the orchestrator the verdict with `POST /benchmark/complete`.  If that
  never comes, the orchestrator's own timer settles the run.
* The dashboard learns of all this by polling, every two seconds, and from the ingester's WebSocket,
  which sends every run's ticks to every client.
* Failure is everywhere a call is awaited.  The code has no distributed transactions: what
  ties the components together is that verdicts are written once
  (`CASE WHEN status = 'running'`), that stale attempts are fenced by `WHERE` clauses, and
  that records are redelivered.

The hazards this leaves, each at its line, are the list `hazards` of `PROJECT.json`; the
properties of section 3 were chosen from it.

## 2. The modules

| Module | What it is |
|---|---|
| `SubmissionLifecycle` | abstract specification: what a team that polls `GET /submissions/:id` is promised |
| `BuildQueue` | the job and submission tables, the worker processes and their slots; implements `SubmissionLifecycle` |
| `BuildQueue_proofs` | nine theorems about `BuildQueue` |
| `RunLifecycle` | abstract specification: what a client that polls `GET /benchmark/:runId`, and the bots, are promised of a run |
| `BenchmarkRun` | the life of one run in the orchestrator: start handler, cleanups, timer, crash; implements `RunLifecycle` |
| `BenchmarkRun_proofs` | eight theorems about `BenchmarkRun` |
| `TelemetryIngester` | replicas of the ingester, the partition they share, one run's statistics and verdict |
| `TelemetryIngester_proofs` | five theorems about `TelemetryIngester` |
| `BotFleet` | the fleet's map of active runs, its tests and their workers |
| `BotFleet_proofs` | four theorems about `BotFleet` |
| `Dashboard` | one browser tab: session, build and run with their polls, the telemetry socket, answers in flight |
| `Dashboard_proofs` | three theorems about `Dashboard` |
| `Leaderboard` | one team's score in Redis and everything that writes it |
| `Leaderboard_proofs` | two theorems about `Leaderboard` |
| `Identity` | users and teams in MongoDB, signup, registration, login, and the migration at startup |
| `Identity_proofs` | two theorems about `Identity` |
| `KubernetesSandbox` | the requests to the cluster of one submission's build attempts, or of one run |
| `KubernetesSandbox_proofs` | three theorems about `KubernetesSandbox` |
| `MCBuildQueue`, `MCBenchmarkRun`, `MCTelemetryIngester`, `MCBotFleet`, `MCDashboard`, `MCLeaderboard`, `MCIdentity`, `MCKubernetesSandbox` | instances for TLC: symmetry sets, scenarios, scores |

In every module a step is the code between two awaits (or, in Go, between two operations
other goroutines can see), together with the effect of the call that was awaited.  A
transaction is one step.  A call that ends with an error may have had its effect or not, and
both are allowed.  Definitions named as mutants in their comments are plausible bugs: they are
used by no specification, and `PROJECT.json` names, for each property, one of them that the
property catches.

### 2.1 BuildQueue

| State | In the code |
|---|---|
| `job[j].status`, `.attempts`, `.owner`, `.source` | `status`, `attempt_count`, `worker_id`, `source_code IS NOT NULL` of the row |
| `job[j].ready`, `.lease` | `available_at <= now`; `lease_expires_at` NULL, in the future or in the past |
| `submission[j]` | `submissions.status` |
| `life[w]` | a worker process: not started, up, after SIGTERM, gone |
| `slot[w][s]` | one `workerLoop()`: where it is, and its local BuildJob with the attempt it read |

Time is abstracted: a lease of the job lapses and a back-off elapses at any moment.  A lease
may lapse under a live owner, because heartbeats fail and are only logged
(`build-worker.ts:20`).  A worker is one run of the process; a replacement is another member of
`Workers`, since `worker_id` is a fresh uuid.  `claimNext()` is one action with two outcomes
(`ClaimNothing`, `ClaimJob`), each with the release of all lapsed leases that the transaction
does first.  `FOR UPDATE SKIP LOCKED` makes a claim pass over what other claims have locked, so it may find
nothing although a job is ready (`OtherClaims`).  Which ready job is claimed is left open: the code takes the oldest, which matters
for fairness only (section 3.3).  Exceptions follow the code's `try`: an error of the build or of
`complete()` leads to `retryOrFail()`, an error of `claimNext()` or `retryOrFail()` leaves
`workerLoop()` and ends the process with all its slots.

### 2.2 BenchmarkRun

| State | In the code |
|---|---|
| `start` | which await the start handler is at |
| `timer` | the `setTimeout` of the safety cleanup: not set, armed, fired, or lost with the process |
| `tracked` | `activeContainers.has(runId)` |
| `sandbox` | the container, or pod and service: none, up, removed |
| `hash`, `listed` | `run:active:<id>` (without or with expiry), membership in `runs:active` |
| `row`, `load` | `benchmark_runs.status`; the stress test: off, on, done |
| `cleanup[c]` | each call of `cleanupRun()`: its await, and its finalStatus |
| `server` | the process: up or not, and how often it has crashed |

One run stands for all, because every key, label, map entry and row is named by the run's
uuid.  The calls of `cleanupRun()` are the one after a rejected trigger, the one of the catch block,
the timer's, and one per `POST /benchmark/complete`; two of the latter stand for a redelivered
`run_complete`.  Each behaviour chooses one of `Scenarios`, the set `Faulty` of cleanup's calls that may
fail in it, so that a property can say what it needs ("as long as Redis answers"); the start handler's
awaits may always fail.
An error of `findRunId()` is treated as the code does: logged for a completion call, caught
after a rejected trigger, and otherwise an unhandled rejection, on which Node ends the process.

### 2.3 TelemetryIngester

| State | In the code |
|---|---|
| `sent`, `logged`, `over`, `ended` | the fleet's `sentOrders`; the orders that reached the partition; the end of the load; `run_complete` reached it |
| `group`, `pos` | who owns the partition, the committed offset; each replica's offset |
| `pc` | what a replica's `eachMessage` awaits |
| `stats` | the run's entry of the map `runs`: `totalOrders`, `windowTotal`, `copy`, the latencies the flush of `finalize()` works on; and (history) the sum of the windows broadcast so far, the orders whose latency was in a broadcast (`heard`), and those counted while a tick awaited its UPDATE (`during`) |
| `due` | `stats.totalOrders` of the entry `finalize()` holds after it has deleted it from the map |
| `tick` | a tick's UPDATE in flight: the numbers it was called with and the latencies it copied before; whether its entry is still in the map |
| `row`, `told` | `total_orders_sent`; the verdicts posted to the orchestrator |
| `scenario` | which calls may fail, how many orders are sent and how often the partition moves in this behaviour |

The topic has one partition (`docker-compose.yml:38`) and records of a run are consumed in
order; the fleet writes asynchronously, so a record may be lost before it gets there.  An error of
`eachMessage` is swallowed and the record counts as consumed.  Commits are automatic: the
committed offset is any place the replica has passed, at any time.  A replica that loses the
partition keeps its map, its ticks, and whatever it is awaiting.  `flush()` copies `windowLatencies` before it awaits
the UPDATE (line 47) and reads `windowTotal` and `windowSuccess`, and clears all three, after it (54-55): `StartTick` and
`StartFinalize` take the copy, `Reported` is what the answer does with it.

### 2.4 BotFleet

| State | In the code |
|---|---|
| `active` | `activeRuns`: run id to test |
| `run`, `phase` | per call of `runStressTest()`: its run id, and whether it waits for its duration, for its workers, or closes |
| `ctx` | its context: live, taken out of the map and about to be cancelled, cancelled |
| `worker` | per worker: at the select, with an order under way, with an order published but not counted, gone |
| `published`, `counted`, `expected` | records written, `sentOrders`, `expected_orders` of run_complete |

`cancelRun()` and `cancelAllRuns()` are two steps, because the cancel function is called after the
mutex is released.  The `select` of a worker may choose the ticker although the context is
cancelled.

### 2.5 Dashboard

| State | In the code |
|---|---|
| `page` | the states of `App()`: user, submissionId, isBuilding, activeRunId, isTesting; `wsRef`; the runs whose points are in chartData; `pollsAs`, the user the build poll's closure captured |
| `sockets` | WebSockets that are open, by the run whose id their `onmessage` compares with |
| `inFlight` | answers that are on their way; a bag, since nothing orders them |
| `subs`, `runs` | what the orchestrator has stored |

A request's effect on the server and the answer it computes are one step, the answer's arrival is
another.  React's effects run with the render: `Effect` says when the interval of `checkBuildStatus()`
is set anew (its dependencies are `isBuilding` and `submissionId`, not `user`).  The status line, logs,
standings and the countdown are display.

### 2.6 Leaderboard

| State | In the code |
|---|---|
| `board` | the team's score in the sorted set |
| `row[r]` | status and score of a run (from avg_tps, success_rate and p90 of the row) |
| `flush[r]` | the final flush of a run: which of its two calls it is at, and what `zScore` said |
| `rebuild` | the orchestrator's start: up, or which await of the rebuild it is at |
| `team`, `member`, `adding` | whether the team has a document in `teams`; whether somebody can log in for it; the `zAdd` of signup or `/contestants` on its way |

A team's member is read and written apart from other teams', so one team stands for all.  The ingester
ranks `toFixed(2)` of the score and the rebuild the unrounded one, so a score is counted in thirds of the
last digit.

### 2.7 Identity

`users` and `teams` are sets of documents, `request[q]` is where a call of signup or `/contestants` is,
`start` is where `initializeMongoSchema()` is, with the accounts it has still to migrate.  Requests only run once
the process listens, and the code starts one orchestrator (`replicas: 1`).  The initial states have any accounts
of an earlier release (no team id), with or without a team of the name.  The histories `wentWrong` record which of the two
leftovers a crash, a failed `deleteOne` or a lost answer may have caused.

### 2.8 KubernetesSandbox

`resource` says of the Job, ConfigMap, Pod and Service whether the name is free, taken, or taken by something that is being
deleted (a Job or a Pod may stay for a while; the code does not wait).  `attempt[a]` is one call of `buildSubmissionImage()`: its next request, its
verdict, and the deletions of its `finally` block that are on their way: `Promise.all` returns at the
first error and leaves the other deletion in flight, so it can hit a later attempt's resource.  `job` is the Job's status.  The cluster is
external: a Job begins when its ConfigMap is there, ends with a result, is failed by the cluster whatever the source is
(`JobFails`: `activeDeadlineSeconds`; or, with `backoffLimit: 0`, a registry that refuses the base image or the push, an eviction, an out-of-memory
kill), or is removed after its TTL.  `starter`
and `stop` are `startRun()` and the calls of `stopRun()`.  A behaviour is about a build or about a run (`subject`), whose names differ.

### 2.9 Notes on the properties

* `worker_id` does not fence the slots of one process from each other.  With `BUILD_WORKER_CONCURRENCY` of two
  (the default, and what both deployments set) a slot whose lease lapsed can see the job reclaimed by its sibling: both then pass
  `WHERE worker_id = $2`, and a late answer of the old attempt settles, retries or keeps alive the
  new one.  The code promises no such fence anywhere, so no property demands one; what holds nevertheless, with any
  number of slots, is checked and proved: `TablesAgree`, `VerdictIsFinal`, `AttemptsAreUnique`, `NoForgottenJob`, the refinement, and
  `ExhaustedByLapseOrStaleError`.
* `ExhaustedByLapseOrStaleError` says of all slots what a test says of one
  (`core-orchestrator/test/build-queue.test.js:157-167`, "a final infrastructure failure clears source and marks the submission failed").  It names
  the two ways in which the last attempt is used up without a verdict: a lease that lapsed, and the error of an *earlier* attempt that is
  reported while a sibling slot builds the last one.  `retryOrFail()` decides by the stale attempt count (`build-queue.ts:146`) and its `WHERE`
  lets it through (154), so the job is put back to `queued` with its source and no attempts left.  This second way contradicts the test's title
  and is reached in the run `build_queue`: without `StaleErrorOf` the property is violated there.
* `EverySubmissionLeavesTheQueue` counts an exhausted job (queued, no attempts left) as having
  left the queue, since it is never claimed again; that this can happen is the first finding.
* `SettledMeansReleased` and `KeysOutliveSandbox` name the faults they exclude.  With Redis
  failing, a run is settled although its keys stay; with `stopRun()` failing, cleanup goes on and
  drops the keys of a container that still runs: the code logs both and means to.
* `VerdictMatchesCount` and `NoTickAfterVerdict` are about a partition that stays with one
  replica (`moves = 0`).  After a rebalance the new owner starts from the committed offset with an
  empty map: orders are counted twice or not at all, and a second verdict may be reported.
* `EveryLoadIsReported` assumes that nothing but the fleet's writes of orders fails:
  `eachMessage` swallows errors, and a failed lookup, UPDATE or POST loses the report.  The
  orchestrator's timer is what settles such a run (`EveryRunEnds`).
* `StoppableUntilReused` and `EveryTestEnds` are about run ids that are used once, as the
  orchestrator uses them; the fleet's `/start` accepts a reused id
  once the first test was stopped, and then the older test's deferred `unregisterRun()` (`main.go:187-194`) deletes the
  newer test's entry, whose duration cancels nothing any more; the orchestrator's fresh uuids never get there.
* `BusyFlags` is about a page nobody has logged out of, and its last two conjuncts about the first submission
  and the first run.  A logout, or a 404 'Team not found' (which logs out and returns before any flag is
  cleared, `App.tsx:326-330`), leaves `isBuilding` or `isTesting` up with nothing that would clear it but a reload; and
  the upload's answer may come after the next login and give that session a submission of another team, whose
  polls are refused.  From the second upload on, the build poll starts at once with the submission before (its id
  is kept until the answer), whose `built` ends the wait; likewise a late poll of the run before.
* `ChartMatchesRun` is about chartData: a start clears the chart but not `liveMetrics`, so the figures of the run
  before stand under the new id until its first tick.
* `ReportedOnce` is about what a broadcast counts (`tps`, `success_rate`).  Of the percentiles less holds: an order counted
  between the copy of `windowLatencies` and the answer of the UPDATE is cleared without having been in any, and two flushes that overlap
  broadcast the same latencies twice.  The repository's README describes sliding windows of latency (66-68) and does not except these; `LatenciesHeard`
  says that nothing else goes wrong: `during` has the orders that may be missing, and what the next flush would copy has been in no broadcast.
* `BoardIsBestCompleted` is what the repository's README says of the leaderboard (71 and 139) and is violated, for two reasons that one
  trace shows together: `zScore` and `zAdd` are two calls, so the better of two overlapping flushes may be overwritten by the other; and a run is ranked
  before it is known whether it failed.  A third way, the zero of signup or `/contestants` arriving late and without NX over a first result, is in the model as well.
* `ListedAgain` is about the step that ends a rebuild.  Its exception `MetAnother` is a member that is not what the rebuild's `zScore` saw: if
  it was lost in between, and the score seen was no lower than the rebuild's, nothing is written and the team is missing.
* `AccountsAgree` has two: `team kept`, a team whose signup died or whose clean-up failed, which makes its name
  unusable (signup answers 409 for a team without a user, and so it does for a team registered by
  `/contestants`); and `user kept`, an account whose insertion was carried out although the call threw, and whose team was deleted.
* `BuildIsHonest` shows that overlapping attempts can cost a build its ConfigMap or its Job but never produce a
  false `succeeded`, and that a source that compiles is failed for good only when the cluster failed its Job. `waitForBuild()` makes a verdict of any
  `status.failed` (`kubernetes-sandbox.ts:120-123`), so a registry that is away for a moment during the push is final, although the queue's own test expects "registry temporarily unavailable" to be
  requeued (`core-orchestrator/test/build-queue.test.js:144-155`); only errors that are thrown get there. A Job without its ConfigMap waits until
  `activeDeadlineSeconds`, which is as long as the worker's own timeout, so that this can be a final verdict for a good source.
* `NothingLeft` lists how a Service is left without a pod: startRun dies in between, its first `POST` throws
  after it was carried out (it is outside the `try`), the deletion in its catch block fails, or a `stopRun()` lost the
  Service's deletion but not the pod's. `findRunId()` looks for pods, so no later cleanup finds it.

## 3. The runs

### 3.1 What each run checks

| Run | Configuration | Bounds | Distinct states | Checks |
|---|---|---|---|---|
| `build_queue` | `MCBuildQueue.cfg` | 2 jobs, 2 workers, 2 slots each, 2 attempts | 445 000 (up to symmetry) | types, `TablesAgree`, `NoPoisonedJob`, `SourceKeptUntilDone`, `AttemptsAreUnique`, `NoForgottenJob`, `ExhaustedByLapseOrStaleError`, and that the queue implements `SubmissionLifecycle` (in which verdicts are final) |
| `build_queue_one_slot` | `MCBuildQueueOneSlot.cfg` | 2 jobs, 2 workers, 1 slot, 3 attempts | 129 000 | under fairness `EverySubmissionLeavesTheQueue` |
| `build_queue_settles` | `MCBuildQueueSettles.cfg` | 1 job, 2 workers, 1 slot, 2 attempts | - | violated: `EverySubmissionSettles` |
| `benchmark_run` | `MCBenchmarkRun.cfg` | 2 completions, 2 crashes, scenarios: any or some of the faults | 169 000 | types, `CompletedOnlyAfterLoad`, `VerdictIsFinal`, `SettledMeansReleased`, `KeysOutliveSandbox`, `SomebodyWillStop`, that the run implements `RunLifecycle`, and under fairness `EveryRunEnds` |
| `benchmark_run_active_set` | `MCBenchmarkRunActiveSet.cfg` | 1 completion, no faults, 1 crash | - | violated: `ActiveSetIsCleared` |
| `telemetry_ingester` | `MCTelemetryIngester.cfg` | 2 replicas; 2 orders, every fault, 1 move; or 1 order, lost writes, 2 moves | 527 000 | types, `VerdictMatchesCount`, `ReportedOnce`, `LatenciesHeard`, `NoTickAfterVerdict`, and under fairness `EveryLoadIsReported` |
| `bot_fleet` | `MCBotFleet.cfg` | 2 run ids, 2 tests, 2 workers each | 53 000 | types, `ExpectedIsPublished`, `EntryIsLive`, `StoppableUntilReused`, and under fairness `EveryTestEnds` |
| `dashboard` | `MCDashboard.cfg` | 1 team, 2 submissions, 2 runs, 2 requests in flight | 293 000 | types, `ChartMatchesRun`, `BusyFlags`, and under fairness `ButtonsComeBack` |
| `leaderboard` | `MCLeaderboard.cfg` | 2 runs, 3 scores, 1 restart, 1 loss of data | 347 000 | types, `ListedAgain` |
| `leaderboard_completed` | `MCLeaderboardCompleted.cfg` | as above, without restart, loss of data and failing calls | - | violated: `BoardIsBestCompleted` |
| `identity` | `MCIdentity.cfg` | 3 signups, 1 registration, 2 handles, 2 names, 2 crashes | 454 000 (up to symmetry) | types and unique keys, `AccountsAgree` |
| `kubernetes_sandbox` | `MCKubernetesSandbox.cfg` | 3 attempts, at most 2 at a time; 1 run, 2 cleanups | 2 650 000 (up to symmetry) | types, `BuildIsHonest`, `NothingLeft` |

Every configuration turns the check for deadlocks off, because every one of the systems may
rightly stop: the workers were all signalled, the run is settled, the load is over.  That they do
not stop too early is what the liveness properties are for.  Runs with symmetry check safety only.

### 3.2 The bounds, and why they are enough

* *BuildQueue.*  Two processes of two slots are the smallest instance in which a stale attempt can
  meet a new one of the same process and of another process; two jobs let a slot go on to other
  work while its old job is reclaimed.  Two attempts are the fewest with a retry.  The liveness run has one slot per process,
  as symmetry cannot be used with liveness and two would have too many states, and the code's default of three attempts; what two slots add
  (a stale answer taken for the current attempt) is checked for safety only, in `build_queue`.  Crashes are bounded by the number of processes.  The theorems of
  section 4 have no bounds.
* *BenchmarkRun.*  Two completion calls and the timer give three cleanups that overlap after the load,
  and the failing start adds two before it.  Two crashes let a cleanup be cut short twice.  The scenarios
  (`AnyOrSome`) let every call fail, only those that leave Redis and `stopRun()` alone, or only Redis.
* *TelemetryIngester.*  Two orders are an order before and one during a flush,
  or one counted and one lost.  A scenario's `moves` bounds rebalances and crashes together; two moves, with one order, let a
  report be handed on twice.  At most one of a
  replica's ticks is in flight, beside the flush of finalize: a bound, as the code starts one per
  second whether or not the last was answered.
* *BotFleet.*  `MaxOrders` bounds the orders of a test; as every worker may have one more under way at
  the bound, a test of two workers sends up to three.
* *Dashboard.*  Two submissions and two runs are the fewest with a stale answer; two requests in flight let one
  overtake another.  One team suffices for logouts: the model tells a new session of the same team from the old one by what the page forgets.
* *Leaderboard.*  Two runs let flushes overlap in every order with each other, the rebuild and a redelivery; the three
  scores round to nothing, down and up.
* *Identity.*  Three signups and a registration for two handles and two names meet in each pair of indexes,
  with a third to see what they left; two crashes cut a migration short twice.
* *KubernetesSandbox.*  Three attempts are the code's default of `max_attempts`; `MaxLive` allows two at once, as a
  third needs two lapsed leases of five minutes' builds; a clean attempt after two that overlapped is among the behaviours.

### 3.3 Fairness

* *BuildQueue.*  Weak fairness of each slot's own steps: JavaScript's event loop runs on, and builds end
  (Docker's `exec` and `waitForBuild` both have limits of five minutes).  Weak fairness of the clock for
  back-offs, and for the lease of a job *whose owner is dead*; a live owner's lease need never lapse.
  Strong fairness of claiming each job: `ORDER BY available_at, id` takes the oldest ready job, so a job
  that is claimable again and again is overtaken only by those that were ready before it.  Nothing is
  assumed of submissions, starts, signals, crashes or errors; `EverySubmissionLeavesTheQueue` says itself
  that it needs a worker that remains.
* *BenchmarkRun.*  Weak fairness of the start handler once begun, of an armed timer, of each cleanup
  and of the restart (a Kubernetes Deployment restarts its pods).  Neither the end of the load nor a
  completion call is owed: the properties must hold if the fleet and the ingester die.
* *TelemetryIngester.*  Weak fairness of consuming, of the answer to a tick, of restart and of assignment
  (the group's coordinator gives the partition to a live member).  Commits are owed to nobody.
* *BotFleet.*  Weak fairness of each test's and each cancellation's steps, and of an order under way
  (the client gives up after five seconds).  Strong fairness of a worker's exit: Go's `select` chooses
  among ready cases at random, so a context that is done is noticed in the end.
* *Dashboard.*  Weak fairness of answers (`fetch()` settles, and the final one among them is not overtaken for ever) and strong fairness of the two polls, which intervals
  repeat every two seconds; nothing is assumed of the user, of uploads and starts being answered well, or of
  builds and runs being settled: `ButtonsComeBack` begins where they are.

## 4. The theorems

All theorems are about the specifications without fairness, for every value of the constants that
satisfies the named assumptions in the modules (`MaxAttempts` is a positive integer, as
`positiveInteger()` makes it; `NoJob`, `NoWorker`,
`NoTest`, `NoRun` and the names of cleanup calls are not members of the sets they are added to; `Workers` is finite; `Scenarios` name known
faults; `MaxCrashes` and `MaxOrders` are natural numbers; scores have a highest one, as doubles have).

### 4.1 BuildQueue_proofs

`TypeOK` is inductive.  For the rest, the inductive invariant is

    IInv == TypeOK /\ SlotInv /\ TablesAgree /\ SourceKeptUntilDone /\ UntriedBeforeSubmit
            /\ AttemptsAreUnique /\ OwnersStarted /\ NoForgottenJob

`TablesAgree` and `SourceKeptUntilDone` are nearly inductive alone; `AttemptsAreUnique` is not: it
needs that no loop holds an attempt its job has not counted yet (`SlotInv`), so that a claim's
number is new.  `NoForgottenJob` needs that the owner of a row has started (`OwnersStarted`):
otherwise starting a worker could make a forgotten job's owner alive.

The argument has two halves.  *Rows*: `EveryStepIsARowStep` shows that every step changes every job and
its submission in one of seven ways (inserted, touched, lapsed, leased, ended, put back, or not at
all); the invariants of the tables, the finality of verdicts and the refinement follow from that
alone.  *Loops*: `HoldsByClaim` shows that a loop holds an attempt after a step only if it held it
before or has just claimed it, and `RunsByClaim` that a row is running under an owner only if it was
before or was just claimed; uniqueness follows.  `LastErrorsSettle` uses both: only a release or `retryOrFail()`
puts a row back, and the latter, with the last attempt's own number, ends it.

| Theorem | States |
|---|---|
| `TypeCorrect` | `TypeOK`, including that attempts never pass the limit |
| `TablesAlwaysAgree` | `TablesAgree` |
| `SourceAlwaysKeptUntilDone` | `SourceKeptUntilDone` |
| `NoAttemptTwice` | `AttemptsAreUnique` |
| `NoJobForgotten` | `NoForgottenJob` |
| `NothingPoisonsTheWorkers` | `NoPoisonedJob` |
| `VerdictsAreFinal` | `VerdictIsFinal` |
| `LastErrorsSettle` | `ExhaustedByLapseOrStaleError`, for any number of slots |
| `QueueImplementsLifecycle` | `ImplementsLifecycle`: every step is a step of `SubmissionLifecycle` or a stutter |

### 4.2 BenchmarkRun_proofs

    IInv == TypeOK /\ NothingAcquiredLate /\ LoadHasRow /\ CompletedCallsAfterLoad
            /\ CompletedOnlyAfterLoad /\ KeysOutliveSandbox /\ ReadyForLoad
            /\ CleanupProgress /\ SettledMeansReleased /\ SomebodyWillStop

The central fact is `NothingAcquiredLate`: while the start handler still acquires (before the trigger) no
cleanup has begun, and once one has begun the run is not tracked again.  Hence what a cleanup has given
back is never taken again, which makes `CleanupProgress` (a cleanup past DEL has no hash, past SREM no
entry) and with it `SettledMeansReleased` inductive.  `CompletedCallsAfterLoad` is the strengthening for
`CompletedOnlyAfterLoad`: a cleanup *on its way* with the verdict completed began after the load.
Each step is first classified (`Steps`: it acquires, enters a cleanup, proceeds in one, kills the
process, or happens outside), and each conjunct has a lemma with one step per class.

The refinement of `RunLifecycle` maps `shown` to the row, `holds` to what is up, tracked, set or listed
(`Held`), and `loose` to what the faults of the behaviour allow to stay (`MayStay`).  Entering and
proceeding in a cleanup, an expiry and a crash give back; the one step that changes a row in a cleanup
is `Settle`, for which `KeysOutliveSandbox` and `CleanupProgress` say that nothing is left, each under
its own fault.  That bots are sent at a sandbox that is up, and for a run no cleanup has reached, is
`ReadyForLoad`.

| Theorem | States |
|---|---|
| `TypeCorrect` | `TypeOK` |
| `CompletedRunsWereLoaded` | `CompletedOnlyAfterLoad` |
| `LoadAlwaysHasRow` | `LoadHasRow`: the load is only on for a run with a row |
| `KeysAlwaysOutliveSandbox` | `KeysOutliveSandbox` |
| `SettledIsReleased` | `SettledMeansReleased` |
| `SomebodyAlwaysStops` | `SomebodyWillStop` |
| `VerdictStands` | `VerdictIsFinal` |
| `RunImplementsLifecycle` | `ImplementsRunLifecycle`: every step is a step of `RunLifecycle` or a stutter |

### 4.3 BotFleet_proofs

    IInv == Types /\ StartedTests /\ Balance /\ EntryIsLive /\ StoppableUntilReused

The map and the contexts are proved about apart from the counters.  `StartedTests` says that a test has a
run id from its start on and that nobody cancels one before: with it, `EntryIsLive` gives that taking
entries out dooms no test that keeps one (`TakeOutKeeps`: a test has one run id, so at most one entry),
and `StoppableUntilReused` that another test's deferred `unregisterRun()` deletes another key.  `Balance`
says that a test has published as many orders as it has counted and one for each worker in between, and
that the workers are gone once `run_complete` is written; at that point the two numbers are equal.  The
bound on the counters in `TypeOK` follows from `Balance` as well, so the induction itself only needs
`Types`, which has no bound.  The workers may be any finite set.

| Theorem | States |
|---|---|
| `TypeCorrect` | `TypeOK` |
| `CountIsExact` | `ExpectedIsPublished` |
| `EntriesAreLive` | `EntryIsLive` |
| `RunsAreStoppable` | `StoppableUntilReused` |

### 4.4 Leaderboard_proofs

    IInv == TypeOK /\ RowsHoldScores /\ (\A r : Pending(flush[r])) /\ Pending(rebuild)

`Pending` says what a flush and the rebuild hold between `zScore` and `zAdd`: a score, and something the board can have held, never the placeholder of
one that is idle.  `ListedAgain` follows for the one step that ends a rebuild of a team that exists (`AddLists`): with an empty
board or a lower score before it, the rebuild writes; where it does not, what it saw was a score no lower, which is there still unless somebody lost
or wrote it since.  `Best()` is a CHOOSE: that it is the greatest
(`BestIs`) needs a greatest to exist, which for two scores is a case distinction and for the scores of the
completed runs follows from `RowsHoldScores` and the bound on scores, because the numbers below a bound have
no endless descent (`HighestExists`).

| Theorem | States |
|---|---|
| `TypeCorrect` | `TypeOK` |
| `TeamsAreListedAgain` | `ListedAgain` |

### 4.5 TelemetryIngester_proofs

    IInv == TypeOK /\ LogGrows /\ Awaiting /\ Places /\ ReportedOnce /\ Steady /\ VerdictMatchesCount

`ReportedOnce` holds through rebalances and crashes, and is inductive with `Awaiting`, which says what
`eachMessage` awaits: from the flush of `finalize()` on it handles `run_complete`, and the entry is in the map until it
is forgotten.  The other two properties are about a partition that has not moved (`Steady`):
replicas that were never given it are idle and empty (`OthersIdle`); the total is less than the position, and at
most what is logged, which is at most what was sent (`CountIsPassed`, `LogGrows`); and after the report
the owner stands behind the end of the log, with the load over (`NothingAfterReport`).  Hence a verdict `completed` needs
as many orders as were announced, and nothing can start a second entry.

`LatenciesHeard` has a second invariant, `LatInv`, proved on top of the first: what has been heard, with `during`, reaches from the first order to the last
one reported and not beyond (`HeardSoFar`), and a copy that a live tick or `finalize()` works on, with what was counted during the tick, covers the rest
(`Covers`).  The latencies of the window are the orders from `reported + 1` to `total`, which is `ReportedOnce`.

| Theorem | States |
|---|---|
| `TypeCorrect` | `TypeOK` |
| `CountsAddUp` | `ReportedOnce` |
| `LatenciesAreHeard` | `LatenciesHeard` |
| `VerdictsMatch` | `VerdictMatchesCount` |
| `ReportedIsForgotten` | `NoTickAfterVerdict` |

### 4.6 Identity_proofs

    IInv == TypeOK /\ RequestsTyped /\ ServedWhenUp /\ MigrationCovers /\ IdsNameTeams
            /\ HandsAreDistinct /\ AccountsAgree

What makes `AccountsAgree` inductive is what a signup holds between its two insertions.  `HandsAreDistinct`:
the ids in hand are different, no account has one of them already (unless the insertion was carried out and
threw, which is the leftover `user kept`), and the team in hand is there, so that neither the insertion of the user nor
the deletion of the team can touch another account.  `IdsNameTeams` ties an id to one name, which the migration
needs because it finds its team by name.  `MigrationCovers` says that the migration's list is all the accounts without
a team id, through crashes between the upsert and the update, and `ServedWhenUp` that nobody logs in or signs up
meanwhile.

| Theorem | States |
|---|---|
| `TypeCorrect` | `TypeOK`, with the unique indexes |
| `AccountsAlwaysAgree` | `AccountsAgree` |

### 4.7 KubernetesSandbox_proofs

    IInv == TypeOK /\ BuildInv /\ RunInv
    BuildInv == SentAtEnd /\ JobTells /\ OverlapsAreExcused /\ UnhinderedFinds /\ BuildIsHonest /\ BuildsClean
    RunInv   == StopsComeLate /\ PodIsGone /\ ServiceIsClaimed

A build and a run share nothing (`BuildUntouched`, `RunUntouched`), so each half has its own lemmas.
*Builds.*  `JobTells`: a Job that succeeded is of a good source whose image is pushed, and one that
failed for a good source was cut off by the cluster, as all who wait for it know; a verdict is read from it.  `UnhinderedFinds` says what
an attempt without an excuse finds at each request, and rests on `OverlapsAreExcused`: attempts that are there together
know it.  `AttemptMoves` shows once, for every request, that an attempt that goes on keeps all of this.  *Runs.*  `ServiceIsClaimed`:
a Service of a run that is not being started any more goes with its pod, by which `findRunId()` finds it, or its
deletion is under way, or `litter` names it.

| Theorem | States |
|---|---|
| `TypeCorrect` | `TypeOK` |
| `BuildsAreHonest` | `BuildIsHonest` |
| `NothingStays` | `NothingLeft` |

### 4.8 Dashboard_proofs

    IInv == TypeOK /\ AnswersTell /\ PageKnows /\ OneStream /\ OwnSession /\ BuildAwaited /\ RunAwaited

`ChartMatchesRun` follows from `OneStream`: there is one socket at most, that of the last run that was started, and
it is closed when another one opens, also if the run it was opened for is of a session that is over.  For
`BusyFlags`: what an answer in flight says is so and remains so (`AnswersTell`: a final status is final), everything in
flight before the first logout is of the one session (`OwnSession`), and until there is a first submission the one upload
in flight is all there is, exactly as long as the button is disabled; afterwards polls are about it alone, so none can
end its wait too soon (`BuildAwaited`, and `RunAwaited` for runs).  The bag of answers is
reasoned about by what a request adds and an answer takes (`SendsAdds`, `ArrivesTakes`).  That it holds at most `MaxInFlight` answers is
the guard that bounds the model and no part of `TypeOK`: a bag's cardinality is defined by recursion.

| Theorem | States |
|---|---|
| `TypeCorrect` | `TypeOK` |
| `ChartIsOfTheRun` | `ChartMatchesRun` |
| `FlagsAreRight` | `BusyFlags` |

### 4.9 What is only model-checked

Every invariant and every action property of the passing runs is a theorem.  What remains to TLC is liveness (`EverySubmissionLeavesTheQueue`,
`EveryRunEnds`, `EveryLoadIsReported`, `EveryTestEnds`, `ButtonsComeBack`): temporal reasoning
with fairness and ENABLED is out of the prover's reach.

## 5. What the models found

| Finding | Where | Run |
|---|---|---|
| A crash, or a lapsed lease, during the *last* attempt strands the submission: the job is released to `queued` with `attempt_count = max_attempts`, which the claim skips for ever; the team sees `building`. The comment at `build-queue.ts:56-57` promises that crashes are recoverable. | `build-queue.ts:58-71` | `build_queue_settles` |
| `runs:active` "tracks active benchmark run IDs" (`README.md:140-141`), but after a crash of the orchestrator, without a completion call, nothing takes the id out. | `index.ts:670-675` | `benchmark_run_active_set` |
| The leaderboard's score is "each team's best" (`README.md:71`) and the "best completed run score" (`README.md:139`), but two flushes that overlap can leave the lower of their scores, and the ingester ranks a run before it decides that it failed. | ingester `index.ts:56, 68` | `leaderboard_completed` |

Section 2.9 has the behaviours the properties name as their exceptions.  Three of those disagree with the repository's documents or tests as well: latencies
that are in no window, or in two (`README.md:66-68`), a passing failure of the registry that is final on Kubernetes
(`build-queue.test.js:144-155`), and a last attempt put back by a sibling's stale error (`build-queue.test.js:157-167`).

## 6. What is not modelled

* *Data*: build logs, image tags, languages, percentiles, rates, order contents, passwords and the normalisation of names.  No
  property is about them.
* *The Docker build*: it is an outcome in `BuildQueue`; a Docker container is one resource in `BenchmarkRun`, which
  is also where the order of the start and cleanup around a sandbox is.
* *Late effects*: a database call or a request of a process that has died takes effect before the death or not at all.
* *Kafka's finer points*: `fromBeginning: false` for a group without offsets, duplicates from the
  producer's own retries, and more than one partition (the Compose file creates one; with more, the
  `LeastBytes` balancer would spread a run's records over replicas).
* *GET /leaderboard* changes nothing: it shows the score of `Leaderboard` beside the metrics of the best completed run.
* *The dashboard's display*: forms, standings, countdown, logs and status lines.
* *Mock contestant*: a test double; the models let a contestant answer in any way.  *Schema and configuration
  checks*, *deployment manifests*: idempotent or declarative, see section 1.1.
* *Several runs at once*: every key is per run, so runs do not interfere in `BenchmarkRun` and
  `TelemetryIngester`; a team's entry in the leaderboard, where they do, is `Leaderboard`.

## 7. The plan

Done, in this order: `BuildQueue` with `SubmissionLifecycle` and its theorems; `BenchmarkRun` and its
theorems; `TelemetryIngester`; `BotFleet` and its theorems; `Leaderboard` and its theorems; `Dashboard`,
`Identity` and `KubernetesSandbox`; the theorems about `TelemetryIngester`, `Identity`, `KubernetesSandbox` and
`Dashboard`; `RunLifecycle`, implemented by `BenchmarkRun`.  Next:

1. The safety halves of the liveness properties: that whoever waits is waited for by a step that is possible.

## 8. How to run it

    tlc -config MCBuildQueue.cfg MCBuildQueue.tla      # and so on, see section 3.1
    tlapm BuildQueue_proofs.tla
    tlapm BenchmarkRun_proofs.tla
    tlapm BotFleet_proofs.tla
    tlapm Leaderboard_proofs.tla
    tlapm TelemetryIngester_proofs.tla
    tlapm Identity_proofs.tla
    tlapm KubernetesSandbox_proofs.tla
    tlapm Dashboard_proofs.tla

Each run takes at most about three minutes on a laptop, each proof module a few minutes.
