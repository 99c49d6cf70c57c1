------------------------------ MODULE BotFleet ------------------------------
(***************************************************************************)
(* The bot fleet (bot-fleet/cmd/main.go): POST /start spawns a stress test *)
(* whose workers fire orders at the contestant until its context is        *)
(* cancelled, by /stop or by its own duration.  activeRuns maps a run id   *)
(* to the cancel function of its test; it is read and changed under a      *)
(* mutex, the cancel function is called after it.  A test ends with a      *)
(* run_complete record that carries the number of orders it sent.          *)
(*                                                                         *)
(* Which order a worker sends, and to whom, is abstracted.                 *)
(***************************************************************************)
EXTENDS Integers, FiniteSets

CONSTANTS Runs,        \* benchmark run ids
          Tests,       \* calls of runStressTest(), one per accepted /start
          NoTest,      \* no entry in activeRuns
          NoRun,       \* the run of a test that was not started
          Workers,     \* the goroutines of a test (its concurrency)
          MaxOrders    \* bound: a worker sends no order once a test published so many

ASSUME OrdersAssumption == MaxOrders \in Nat
ASSUME WorkersAssumption == IsFiniteSet(Workers)
ASSUME NothingAssumption == NoTest \notin Tests /\ NoRun \notin Runs

VARIABLES
  active,      \* activeRuns
  run,         \* per test: its run id
  phase,       \* per test: where runStressTest() is
  ctx,         \* per test: its context; doomed: cancel() is about to be called
  worker,      \* per test and worker: where its loop is
  published,   \* per test: orders handed to the Kafka writer
  counted,     \* per test: sentOrders
  expected     \* per test: expected_orders of its run_complete, -1 before

fleetVars == <<active, run, phase, ctx, worker, published, counted, expected>>

orders == <<published, counted, expected>>

Init ==
  /\ active = [id \in Runs |-> NoTest]
  /\ run = [t \in Tests |-> NoRun]
  /\ phase = [t \in Tests |-> "new"]
  /\ ctx = [t \in Tests |-> "live"]
  /\ worker = [t \in Tests |-> [w \in Workers |-> "select"]]
  /\ published = [t \in Tests |-> 0]
  /\ counted = [t \in Tests |-> 0]
  /\ expected = [t \in Tests |-> -1]

Enter(t, place) == phase' = [phase EXCEPT ![t] = place]

-----------------------------------------------------------------------------
(***************************************************************************)
(* /start and /stop.                                                       *)
(***************************************************************************)
\* An id that is active is refused with 409, and nothing changes.
Start(t, id) ==
  /\ phase[t] = "new" /\ active[id] = NoTest
  /\ active' = [active EXCEPT ![id] = t]
  /\ run' = [run EXCEPT ![t] = id]
  /\ Enter(t, "timing")
  /\ UNCHANGED <<ctx, worker, orders>>

\* Mutants of TakeOut: the entries leave the map uncancelled; they stay in it.
TakeOutUncancelled(ids) ==
  /\ active' = [id \in Runs |-> IF id \in ids THEN NoTest ELSE active[id]]
  /\ UNCHANGED ctx

TakeOutNothing(ids) ==
  /\ ctx' = [t \in Tests |-> IF \E id \in ids : active[id] = t THEN "doomed" ELSE ctx[t]]
  /\ UNCHANGED active

\* cancelRun() and cancelAllRuns(), up to the unlocking of the mutex: the entries
\* leave the map, their cancel functions are called next.
TakeOut(ids) ==
  /\ active' = [id \in Runs |-> IF id \in ids THEN NoTest ELSE active[id]]
  /\ ctx' = [t \in Tests |-> IF \E id \in ids : active[id] = t THEN "doomed" ELSE ctx[t]]

Stop(id) ==
  /\ active[id] # NoTest
  /\ TakeOut({id})
  /\ UNCHANGED <<run, phase, worker, orders>>

StopAll ==
  /\ \E id \in Runs : active[id] # NoTest
  /\ TakeOut(Runs)
  /\ UNCHANGED <<run, phase, worker, orders>>

Cancel(t) ==
  /\ ctx[t] = "doomed"
  /\ ctx' = [ctx EXCEPT ![t] = "cancelled"]
  /\ UNCHANGED <<active, run, phase, worker, orders>>

-----------------------------------------------------------------------------
(***************************************************************************)
(* The workers of a test.                                                  *)
(***************************************************************************)
Running(t) == phase[t] # "new"

Move(t, w, place) == worker' = [worker EXCEPT ![t][w] = place]

\* The ticker's case.  It may also be taken when the context is cancelled: select
\* chooses among the cases that are ready.
SendOrder(t, w) ==
  /\ Running(t) /\ worker[t][w] = "select" /\ published[t] < MaxOrders
  /\ Move(t, w, "sending")
  /\ UNCHANGED <<active, run, phase, ctx, orders>>

\* Mutant of Publish: a failed write is published again by the worker.
PublishAgain(t, w) ==
  /\ worker[t][w] = "sending"
  /\ published' = [published EXCEPT ![t] = @ + 1]
  /\ Move(t, w, "sent") \/ UNCHANGED worker
  /\ UNCHANGED <<active, run, phase, ctx, counted, expected>>

\* The contestant has answered, or the client gave up: the record is published.
Publish(t, w) ==
  /\ worker[t][w] = "sending"
  /\ published' = [published EXCEPT ![t] = @ + 1]
  /\ Move(t, w, "sent")
  /\ UNCHANGED <<active, run, phase, ctx, counted, expected>>

CountOrder(t, w) ==
  /\ worker[t][w] = "sent"
  /\ counted' = [counted EXCEPT ![t] = @ + 1]
  /\ Move(t, w, "select")
  /\ UNCHANGED <<active, run, phase, ctx, published, expected>>

WorkerExits(t, w) ==
  /\ Running(t) /\ worker[t][w] = "select" /\ ctx[t] = "cancelled"
  /\ Move(t, w, "exited")
  /\ UNCHANGED <<active, run, phase, ctx, orders>>

-----------------------------------------------------------------------------
(***************************************************************************)
(* runStressTest().                                                        *)
(***************************************************************************)
\* The duration is over: cancelRun() is called with the run id.
DurationElapses(t) ==
  /\ phase[t] = "timing"
  /\ TakeOut({run[t]})
  /\ Enter(t, "draining")
  /\ UNCHANGED <<run, worker, orders>>

AbortedEarly(t) ==
  /\ phase[t] = "timing" /\ ctx[t] = "cancelled"
  /\ Enter(t, "draining")
  /\ UNCHANGED <<active, run, ctx, worker, orders>>

\* Mutant of PublishComplete: the workers are not waited for.
PublishCompleteEarly(t) ==
  /\ phase[t] = "draining"
  /\ expected' = [expected EXCEPT ![t] = counted[t]]
  /\ Enter(t, "closing")
  /\ UNCHANGED <<active, run, ctx, worker, published, counted>>

\* wg.Wait() returns: run_complete is published.
PublishComplete(t) ==
  /\ phase[t] = "draining"
  /\ \A w \in Workers : worker[t][w] = "exited"
  /\ expected' = [expected EXCEPT ![t] = counted[t]]
  /\ Enter(t, "closing")
  /\ UNCHANGED <<active, run, ctx, worker, published, counted>>

\* Mutant of Unregister: every run is unregistered.
UnregisterAll(t) ==
  /\ phase[t] = "closing"
  /\ active' = [id \in Runs |-> NoTest]
  /\ Enter(t, "done")
  /\ UNCHANGED <<run, ctx, worker, orders>>

\* The writer is closed, and the deferred unregisterRun() deletes the entry of the
\* run id, whichever test it belongs to.
Unregister(t) ==
  /\ phase[t] = "closing"
  /\ active' = [active EXCEPT ![run[t]] = NoTest]
  /\ Enter(t, "done")
  /\ UNCHANGED <<run, ctx, worker, orders>>

-----------------------------------------------------------------------------
WorkerStep(t, w) ==
  SendOrder(t, w) \/ Publish(t, w) \/ CountOrder(t, w) \/ WorkerExits(t, w)

TestStep(t) ==
  DurationElapses(t) \/ AbortedEarly(t) \/ PublishComplete(t) \/ Unregister(t)

Next ==
  \/ \E t \in Tests, id \in Runs : Start(t, id)
  \/ \E id \in Runs : Stop(id)
  \/ StopAll
  \/ \E t \in Tests : Cancel(t) \/ TestStep(t)
  \/ \E t \in Tests, w \in Workers : WorkerStep(t, w)

Spec == Init /\ [][Next]_fleetVars

\* Goroutines run on, the duration elapses, the contestant answers or the client's
\* timeout of 5 s ends the request; select does not pass over a ready case forever.
Fairness ==
  \A t \in Tests :
    /\ WF_fleetVars(Cancel(t))
    /\ WF_fleetVars(TestStep(t))
    /\ \A w \in Workers : /\ WF_fleetVars(Publish(t, w) \/ CountOrder(t, w))
                          /\ SF_fleetVars(WorkerExits(t, w))

FairSpec == Spec /\ Fairness

-----------------------------------------------------------------------------
(***************************************************************************)
(* Properties.                                                             *)
(***************************************************************************)
\* At the bound every worker may have one more order in flight.
Count == 0..(MaxOrders + Cardinality(Workers))

\* Every variable keeps its type.
TypeOK ==
  /\ active \in [Runs -> Tests \cup {NoTest}]
  /\ run \in [Tests -> Runs \cup {NoRun}]
  /\ phase \in [Tests -> {"new", "timing", "draining", "closing", "done"}]
  /\ ctx \in [Tests -> {"live", "doomed", "cancelled"}]
  /\ worker \in [Tests -> [Workers -> {"select", "sending", "sent", "exited"}]]
  /\ published \in [Tests -> Count]
  /\ counted \in [Tests -> Count]
  /\ expected \in [Tests -> Count \cup {-1}]

\* run_complete is the test's last record and its expected_orders is the number of
\* orders that were published before it: the ingester can tell a lost one.
ExpectedIsPublished ==
  \A t \in Tests : expected[t] # -1 => expected[t] = published[t]

\* An entry of the map is a test of that run which nobody has stopped and whose
\* duration is not over: /stop and the check of /start mean the right thing.
EntryIsLive ==
  \A id \in Runs : active[id] # NoTest =>
    run[active[id]] = id /\ phase[active[id]] = "timing" /\ ctx[active[id]] = "live"

\* The run id of the test was started more than once.
Reused(t) == \E u \in Tests \ {t} : run[u] = run[t]

\* A test whose run id is not used again can be stopped until it is stopped.
StoppableUntilReused ==
  \A t \in Tests : phase[t] = "timing" /\ ctx[t] = "live" /\ ~Reused(t) => active[run[t]] = t

\* And it ends, whether its duration or /stop comes first.
EveryTestEnds ==
  \A t \in Tests : (phase[t] = "timing") ~> (phase[t] = "done" \/ Reused(t))
=============================================================================
