---------------------------- MODULE BenchmarkRun ----------------------------
(***************************************************************************)
(* The life of one benchmark run in the core orchestrator: POST            *)
(* /benchmark/start acquires a sandbox, Redis keys and a row, triggers the *)
(* bot fleet and arms a timer; cleanupRun() gives everything back.  It is  *)
(* called by the failing start handler, by the timer and by each           *)
(* POST /benchmark/complete, concurrently, and never awaits another call.  *)
(*                                                                         *)
(* Every key, label, map entry and row of a run is named by its fresh      *)
(* uuid, so runs share no state and one run stands for all.  A step is the *)
(* code between two awaits with the effect of the call it awaited.  A call *)
(* that is answered by an error may have had its effect or not.            *)
(***************************************************************************)
EXTENDS Integers

CONSTANTS Hooks,        \* calls of POST /benchmark/complete for this run
          Scenarios,    \* sets of calls of cleanupRun() that may fail
          MaxCrashes    \* bound on the orchestrator's crashes

\* "find": listing containers; "stop": stopping or removing one;
\* "redis": any Redis command; "db": the final UPDATE.
Fallible == {"find", "stop", "redis", "db"}

ASSUME ScenarioAssumption == Scenarios \subseteq SUBSET Fallible
ASSUME CrashAssumption  == MaxCrashes \in Nat
ASSUME HooksAssumption  == Hooks \cap {"reject", "abort", "timer"} = {}

VARIABLES
  start,     \* where the start handler is
  timer,     \* the setTimeout of the safety cleanup
  tracked,   \* activeContainers has the run (memory of the process)
  sandbox,   \* the contestant's container, or pod and service
  hash,      \* run:active:<id>, without or with its expiry
  listed,    \* the run is in runs:active
  row,       \* benchmark_runs.status
  load,      \* the bot fleet's stress test
  cleanup,   \* each call of cleanupRun(): where it is, and its finalStatus
  server     \* the orchestrator process: up or not, crashes so far, and the calls
             \* that may fail in this behaviour

runVars == <<start, timer, tracked, sandbox, hash, listed, row, load, cleanup, server>>

\* The call after a rejected trigger, the one of the catch block, the timer's
\* and one per completion call.
Calls == {"reject", "abort", "timer"} \cup Hooks

Verdicts == {"completed", "failed"}

\* What the body of a completion call may say.
Reported == Verdicts \cup {"unknown"}

\* The awaits of the start handler up to the trigger's answer.
Acquiring == {"sandbox", "health", "hash", "expire", "list", "insert", "trigger"}

StartPcs == Acquiring \cup {"idle", "rejected", "aborting", "over"}

Busy == {"hash", "find", "stop", "del", "rem", "clear", "row"}

Init ==
  /\ start = "idle" /\ timer = "unset" /\ tracked = FALSE
  /\ sandbox = "none" /\ hash = "none" /\ listed = FALSE
  /\ row = "none" /\ load = "off"
  /\ cleanup = [c \in Calls |-> [pc |-> "new", verdict |-> "failed"]]
  /\ \E faulty \in Scenarios : server = [up |-> TRUE, crashes |-> 0, faulty |-> faulty]

Faulty == server.faulty

resources == <<tracked, sandbox, hash, listed, row>>

-----------------------------------------------------------------------------
(***************************************************************************)
(* POST /benchmark/start.  Parameters are valid and the submission is      *)
(* built: every other request returns before anything is acquired.         *)
(***************************************************************************)
At(pc) == server.up /\ start = pc

BeginStart ==
  /\ At("idle")
  /\ start' = "sandbox"
  /\ UNCHANGED <<timer, resources, load, cleanup, server>>

\* SandboxService.startRun() has created the container; it has not returned yet.
SandboxCreated ==
  /\ At("sandbox") /\ sandbox = "none"
  /\ sandbox' = "up"
  /\ UNCHANGED <<start, timer, tracked, hash, listed, row, load, cleanup, server>>

SandboxReturns ==
  /\ At("sandbox") /\ sandbox = "up"
  /\ tracked' = TRUE
  /\ start' = "health"
  /\ UNCHANGED <<timer, sandbox, hash, listed, row, load, cleanup, server>>

Healthy ==
  /\ At("health")
  /\ start' = "hash"
  /\ UNCHANGED <<timer, resources, load, cleanup, server>>

SetHash ==
  /\ At("hash")
  /\ hash' = "forever"
  /\ start' = "expire"
  /\ UNCHANGED <<timer, tracked, sandbox, listed, row, load, cleanup, server>>

SetExpiry ==
  /\ At("expire")
  /\ hash' = IF hash = "forever" THEN "expiring" ELSE hash
  /\ start' = "list"
  /\ UNCHANGED <<timer, tracked, sandbox, listed, row, load, cleanup, server>>

\* Mutant of AddToActiveSet: the load is triggered before the row is inserted.
AddToActiveSetThenTrigger ==
  /\ At("list")
  /\ listed' = TRUE
  /\ start' = "trigger"
  /\ UNCHANGED <<timer, tracked, sandbox, hash, row, load, cleanup, server>>

AddToActiveSet ==
  /\ At("list")
  /\ listed' = TRUE
  /\ start' = "insert"
  /\ UNCHANGED <<timer, tracked, sandbox, hash, row, load, cleanup, server>>

InsertRow ==
  /\ At("insert")
  /\ row' = "running"
  /\ start' = "trigger"
  /\ UNCHANGED <<timer, tracked, sandbox, hash, listed, load, cleanup, server>>

\* The bot fleet starts the load; its answer is on its way.
TriggerReceived ==
  /\ At("trigger") /\ load = "off"
  /\ load' = "on"
  /\ UNCHANGED <<start, timer, resources, cleanup, server>>

\* Mutant of TriggerAccepted: there is no safety timer.
TriggerAcceptedUntimed ==
  /\ At("trigger") /\ load # "off"
  /\ start' = "over"
  /\ UNCHANGED <<timer, resources, load, cleanup, server>>

\* It has answered 202: the timer is armed in the same turn.
TriggerAccepted ==
  /\ At("trigger") /\ load # "off"
  /\ timer' = "armed"
  /\ start' = "over"
  /\ UNCHANGED <<resources, load, cleanup, server>>

\* It answers with an error: cleanupRun() is awaited inside the try block.
TriggerRejected ==
  /\ At("trigger") /\ load = "off"
  /\ start' = "rejected"
  /\ UNCHANGED <<timer, resources, load, cleanup, server>>

\* An awaited call throws, with or without its effect: the catch block follows.
StartThrows ==
  /\ server.up
  /\ start \in Acquiring
  /\ hash' \in IF start = "hash" THEN {hash, "forever"} ELSE {hash}
  /\ listed' \in IF start = "list" THEN {listed, TRUE} ELSE {listed}
  /\ row' \in IF start = "insert" THEN {row, "running"} ELSE {row}
  /\ start' = "aborting"
  /\ UNCHANGED <<timer, tracked, sandbox, load, cleanup, server>>

-----------------------------------------------------------------------------
(***************************************************************************)
(* cleanupRun(runId, triggerSource, finalStatus).                          *)
(***************************************************************************)
Goto(c, pc) == cleanup' = [cleanup EXCEPT ![c] = [@ EXCEPT !.pc = pc]]

\* Mutant of Enter: the container is looked up in the process's memory only.
EnterMapOnly(c, verdict) ==
  /\ server.up
  /\ cleanup[c].pc = "new"
  /\ cleanup' = [cleanup EXCEPT ![c] =
                   [pc |-> IF tracked THEN "stop" ELSE "clear", verdict |-> verdict]]
  /\ tracked' = FALSE

\* The map is read, and its entry deleted, in the caller's turn.
Enter(c, verdict) ==
  /\ server.up
  /\ cleanup[c].pc = "new"
  /\ cleanup' = [cleanup EXCEPT ![c] =
                   [pc |-> IF tracked THEN "stop" ELSE "hash", verdict |-> verdict]]
  /\ tracked' = FALSE

RejectCleanup ==
  /\ start = "rejected"
  /\ Enter("reject", "failed")
  /\ UNCHANGED <<start, timer, sandbox, hash, listed, row, load, server>>

\* Whether the awaited cleanup returned or threw, the catch block is next.
RejectThrows ==
  /\ At("rejected") /\ cleanup["reject"].pc = "done"
  /\ start' = "aborting"
  /\ UNCHANGED <<timer, resources, load, cleanup, server>>

\* Mutants of AbortCleanup: the status is left to its default; the handler only
\* answers 500.
AbortCleanupAsCompleted ==
  /\ start = "aborting"
  /\ Enter("abort", "completed")
  /\ start' = "over"
  /\ UNCHANGED <<timer, sandbox, hash, listed, row, load, server>>

AbortWithoutCleanup ==
  /\ At("aborting")
  /\ start' = "over"
  /\ UNCHANGED <<timer, resources, load, cleanup, server>>

AbortCleanup ==
  /\ start = "aborting"
  /\ Enter("abort", "failed")
  /\ start' = "over"
  /\ UNCHANGED <<timer, sandbox, hash, listed, row, load, server>>

\* cleanupRun(runId, 'timeout'): finalStatus takes its default, 'completed'.
TimerFires ==
  /\ timer = "armed"
  /\ timer' = "fired"
  /\ Enter("timer", "completed")
  /\ UNCHANGED <<start, sandbox, hash, listed, row, load, server>>

\* Mutant of FinalStatus: the body's status goes to the database as it is.
RawStatus(status) == status

\* status === 'failed' ? 'failed' : 'completed'
FinalStatus(status) == IF status = "failed" THEN "failed" ELSE "completed"

\* The ingester reports the end of the load, perhaps more than once (the topic
\* is redelivered after a rebalance) and not always with the same status.
CompletionArrives(h, status) ==
  /\ load = "done"
  /\ Enter(h, FinalStatus(status))
  /\ UNCHANGED <<start, timer, sandbox, hash, listed, row, load, server>>

\* hGetAll(): the hash names the container, or the search goes on.
ReadHash(c) ==
  /\ server.up /\ cleanup[c].pc = "hash"
  /\ IF hash # "none"
     THEN \/ tracked' = FALSE /\ Goto(c, "stop")
          \/ "redis" \in Faulty /\ UNCHANGED tracked /\ Goto(c, "find")
     ELSE UNCHANGED tracked /\ Goto(c, "find")
  /\ UNCHANGED <<start, timer, sandbox, hash, listed, row, load, server>>

FindContainer(c) ==
  /\ server.up /\ cleanup[c].pc = "find"
  /\ IF sandbox = "up" THEN tracked' = FALSE /\ Goto(c, "stop")
                       ELSE UNCHANGED tracked /\ Goto(c, "clear")
  /\ UNCHANGED <<start, timer, sandbox, hash, listed, row, load, server>>

\* stopRun(): a container that is gone already is no error, another error is
\* swallowed.
StopContainer(c) ==
  /\ server.up /\ cleanup[c].pc = "stop"
  /\ sandbox' = "removed" \/ ("stop" \in Faulty /\ UNCHANGED sandbox)
  /\ Goto(c, "del")
  /\ UNCHANGED <<start, timer, tracked, hash, listed, row, load, server>>

\* Mutant of DelHash: the run stays in runs:active.
DelHashOnly(c) ==
  /\ server.up /\ cleanup[c].pc = "del"
  /\ hash' \in {"none"} \cup (IF "redis" \in Faulty THEN {hash} ELSE {})
  /\ Goto(c, "row")
  /\ UNCHANGED <<start, timer, tracked, sandbox, listed, row, load, server>>

\* An error of DEL skips SREM.
DelHash(c) ==
  /\ server.up /\ cleanup[c].pc = "del"
  /\ \/ hash' = "none" /\ Goto(c, "rem")
     \/ "redis" \in Faulty /\ hash' \in {hash, "none"} /\ Goto(c, "row")
  /\ UNCHANGED <<start, timer, tracked, sandbox, listed, row, load, server>>

RemoveFromActiveSet(c) ==
  /\ server.up /\ cleanup[c].pc = "rem"
  /\ listed' = FALSE \/ ("redis" \in Faulty /\ UNCHANGED listed)
  /\ Goto(c, "row")
  /\ UNCHANGED <<start, timer, tracked, sandbox, hash, row, load, server>>

\* There is no container: both keys are dropped at once, errors ignored.
ClearKeys(c) ==
  /\ server.up /\ cleanup[c].pc = "clear"
  /\ hash' = "none" \/ ("redis" \in Faulty /\ UNCHANGED hash)
  /\ listed' = FALSE \/ ("redis" \in Faulty /\ UNCHANGED listed)
  /\ Goto(c, "row")
  /\ UNCHANGED <<start, timer, tracked, sandbox, row, load, server>>

\* Mutant of Settled: the last cleanup to finish decides.
SettledByLast(old, verdict) == IF old = "none" THEN old ELSE verdict

\* CASE WHEN status = 'running' THEN $2 ELSE status END
Settled(old, verdict) == IF old = "running" THEN verdict ELSE old

UpdateRow(c) ==
  /\ server.up /\ cleanup[c].pc = "row"
  /\ row' = Settled(row, cleanup[c].verdict) \/ ("db" \in Faulty /\ UNCHANGED row)
  /\ Goto(c, "done")
  /\ UNCHANGED <<start, timer, tracked, sandbox, hash, listed, load, server>>

-----------------------------------------------------------------------------
(***************************************************************************)
(* The process.                                                            *)
(***************************************************************************)
\* Handlers, timers and cleanups in flight are gone with the process's memory.
Dies ==
  /\ server.crashes < MaxCrashes
  /\ server' = [server EXCEPT !.up = FALSE, !.crashes = @ + 1]
  /\ start' = IF start = "idle" THEN "idle" ELSE "over"
  /\ timer' = IF timer = "armed" THEN "lost" ELSE timer
  /\ tracked' = FALSE
  /\ cleanup' = [c \in Calls |->
                   IF cleanup[c].pc \in Busy THEN [cleanup[c] EXCEPT !.pc = "done"]
                                             ELSE cleanup[c]]
  /\ UNCHANGED <<sandbox, hash, listed, row, load>>

Crash == server.up /\ Dies

\* findRunId() is the one call of cleanupRun() outside a try: its error reaches
\* the caller.  /benchmark/complete logs it, the awaited call of the rejected
\* start is caught; in the timer and in the catch block nothing handles the
\* rejected promise, which ends the process.
FindThrows(c) ==
  /\ server.up /\ cleanup[c].pc = "find" /\ "find" \in Faulty
  /\ IF c \in {"timer", "abort"}
     THEN Dies
     ELSE /\ Goto(c, "done")
          /\ UNCHANGED <<start, timer, resources, load, server>>

\* initConnections() looks at no run.
Restart ==
  /\ ~server.up
  /\ server' = [server EXCEPT !.up = TRUE]
  /\ UNCHANGED <<start, timer, resources, load, cleanup>>

(***************************************************************************)
(* The bot fleet and Redis.                                                *)
(***************************************************************************)
LoadEnds ==
  /\ load = "on"
  /\ load' = "done"
  /\ UNCHANGED <<start, timer, resources, cleanup, server>>

HashExpires ==
  /\ hash = "expiring"
  /\ hash' = "none"
  /\ UNCHANGED <<start, timer, tracked, sandbox, listed, row, load, cleanup, server>>

-----------------------------------------------------------------------------
StartStep ==
  \/ BeginStart \/ SandboxCreated \/ SandboxReturns \/ Healthy
  \/ SetHash \/ SetExpiry \/ AddToActiveSet \/ InsertRow
  \/ TriggerReceived \/ TriggerAccepted \/ TriggerRejected \/ StartThrows
  \/ RejectCleanup \/ RejectThrows \/ AbortCleanup

CleanupStep(c) ==
  \/ ReadHash(c) \/ FindContainer(c) \/ FindThrows(c) \/ StopContainer(c)
  \/ DelHash(c) \/ RemoveFromActiveSet(c) \/ ClearKeys(c) \/ UpdateRow(c)

Next ==
  \/ StartStep
  \/ TimerFires
  \/ \E h \in Hooks, status \in Reported : CompletionArrives(h, status)
  \/ \E c \in Calls : CleanupStep(c)
  \/ Crash \/ Restart
  \/ LoadEnds \/ HashExpires

Spec == Init /\ [][Next]_runVars

\* Awaited calls are answered (each has a timeout or a connection that breaks),
\* timers fire and a crashed orchestrator is restarted.  Nothing owes the run the
\* end of its load or a completion call.
Fairness ==
  /\ WF_runVars(start # "idle" /\ StartStep)
  /\ WF_runVars(TimerFires)
  /\ \A c \in Calls : WF_runVars(CleanupStep(c))
  /\ WF_runVars(Restart)

FairSpec == Spec /\ Fairness

-----------------------------------------------------------------------------
(***************************************************************************)
(* Properties.                                                             *)
(***************************************************************************)
\* Every variable keeps its type.
TypeOK ==
  /\ start \in StartPcs
  /\ timer \in {"unset", "armed", "fired", "lost"}
  /\ tracked \in BOOLEAN
  /\ sandbox \in {"none", "up", "removed"}
  /\ hash \in {"none", "forever", "expiring"}
  /\ listed \in BOOLEAN
  /\ row \in {"none", "running"} \cup Verdicts
  /\ load \in {"off", "on", "done"}
  /\ cleanup \in [Calls -> [pc : {"new", "done"} \cup Busy, verdict : Verdicts]]
  /\ server \in [up : BOOLEAN, crashes : 0..MaxCrashes, faulty : Scenarios]

\* The first verdict stands: whichever of the timer, the completion calls and the
\* failing start come later, a settled run keeps its status.
VerdictIsFinal == [][(row \in Verdicts) => (row' = row)]_runVars

\* A run whose load was never started is never reported as completed, although
\* completed is what cleanupRun() writes unless it is told otherwise.
CompletedOnlyAfterLoad == (row = "completed") => (load # "off")

\* The row is settled last: as long as containers can be stopped and Redis
\* answers, a run that polls as completed or failed has no container and no Redis
\* key any more, also when the orchestrator died in the middle of a cleanup and
\* another one ended it, and however the cleanups overlap.
SettledMeansReleased ==
  {"stop", "redis"} \cap Faulty = {} /\ row \in Verdicts =>
    sandbox # "up" /\ hash = "none" /\ ~listed /\ ~tracked

\* No cleanup drops the keys that lead to a container that still runs.
KeysOutliveSandbox ==
  "stop" \notin Faulty =>
    \A c \in Calls : cleanup[c].pc \in {"del", "rem", "clear", "row"} => sandbox # "up"

\* As long as the process does not die and containers can be found and stopped, a
\* container is never without somebody who is going to stop it: the start handler
\* that may still fail, an armed timer, or a cleanup on its way there.
SomebodyWillStop ==
  server.crashes = 0 /\ {"find", "stop"} \cap Faulty = {} /\ sandbox = "up" =>
    \/ start # "over"
    \/ timer = "armed"
    \/ \E c \in Calls : cleanup[c].pc \in {"hash", "find", "stop"}

\* What the run holds, and what of it may outlive the verdict: a container that cannot
\* be stopped, keys that Redis does not drop.
Held ==
  {x \in {"sandbox", "entry", "hash", "listed"} :
     \/ x = "sandbox" /\ sandbox = "up"
     \/ x = "entry" /\ tracked
     \/ x = "hash" /\ hash # "none"
     \/ x = "listed" /\ listed}

MayStay ==
  {x \in {"sandbox", "hash", "listed"} : (IF x = "sandbox" THEN "stop" ELSE "redis") \in Faulty}

Lifecycle == INSTANCE RunLifecycle WITH shown <- row, holds <- Held, loose <- MayStay

\* POST /benchmark/start and cleanupRun() implement RunLifecycle, whatever fails, overlaps
\* and crashes: bots are sent once, at a sandbox that is up and for a run that is shown as
\* running, and the row is settled once, after everything the run held was given back.
ImplementsRunLifecycle == Lifecycle!LifeSpec

\* In a process that does not die, every container is removed in the end and every
\* run that has a row is settled, with or without a completion call, if nothing but
\* Redis fails.
EveryRunEnds ==
  /\ sandbox = "up" /\ Faulty \subseteq {"redis"} ~> sandbox = "removed" \/ server.crashes > 0
  /\ row = "running" /\ Faulty \subseteq {"redis"} ~> row \in Verdicts \/ server.crashes > 0

\* README.md:140-141: runs:active "Tracks active benchmark run IDs".  An id that
\* was added is taken out in the end.
ActiveSetIsCleared == listed ~> ~listed

=============================================================================
