--------------------------- MODULE BotFleet_proofs ---------------------------
(***************************************************************************)
(* Theorems about BotFleet, for any run ids, any number of tests and any   *)
(* finite number of workers.                                               *)
(***************************************************************************)
EXTENDS BotFleet, FiniteSetTheorems, TLAPS

USE DEF orders

\* The variables' types, without the bounds on the counters.
Types ==
  /\ active \in [Runs -> Tests \cup {NoTest}]
  /\ run \in [Tests -> Runs \cup {NoRun}]
  /\ phase \in [Tests -> {"new", "timing", "draining", "closing", "done"}]
  /\ ctx \in [Tests -> {"live", "doomed", "cancelled"}]
  /\ worker \in [Tests -> [Workers -> {"select", "sending", "sent", "exited"}]]
  /\ published \in [Tests -> Nat]
  /\ counted \in [Tests -> Nat]
  /\ expected \in [Tests -> Nat \cup {-1}]

\* A test has a run id exactly when it has been started, and nobody stops it before.
StartedTests ==
  \A t \in Tests :
    /\ phase[t] = "new" => run[t] = NoRun /\ ctx[t] = "live"
    /\ phase[t] # "new" => run[t] \in Runs

At(t, place) == {w \in Workers : worker[t][w] = place}

\* An order is published first and counted next, so the counters differ by the
\* workers in between; and no worker is left when run_complete is written.
Balanced(t) ==
  /\ published[t] = counted[t] + Cardinality(At(t, "sent"))
  /\ published[t] + Cardinality(At(t, "sending")) <= MaxOrders + Cardinality(Workers)
  /\ phase[t] \in {"closing", "done"} => \A w \in Workers : worker[t][w] = "exited"
  /\ expected[t] # -1 => phase[t] \in {"closing", "done"} /\ expected[t] = counted[t]

Balance == \A t \in Tests : Balanced(t)

IInv == Types /\ StartedTests /\ Balance /\ EntryIsLive /\ StoppableUntilReused

-----------------------------------------------------------------------------
\* The initial state satisfies every part of the invariant.
LEMMA InvInit == Init => IInv
<1> SUFFICES ASSUME Init PROVE IInv
  OBVIOUS
<1>1. Types
  BY DEF Init, Types
<1>2. StartedTests /\ EntryIsLive /\ StoppableUntilReused
  <2>1. \A t \in Tests : phase[t] = "new" /\ run[t] = NoRun /\ ctx[t] = "live"
    BY DEF Init
  <2>2. \A id \in Runs : active[id] = NoTest
    BY DEF Init
  <2>3. StartedTests /\ StoppableUntilReused
    BY <2>1 DEF StartedTests, StoppableUntilReused
  <2>4. EntryIsLive
    BY <2>2 DEF EntryIsLive
  <2> QED BY <2>3, <2>4
<1>3. ASSUME NEW t \in Tests
      PROVE  At(t, "sent") = {} /\ At(t, "sending") = {}
  BY DEF Init, At
<1>4. Cardinality(Workers) \in Nat
  BY WorkersAssumption, FS_CardinalityType
<1>5. Cardinality({}) = 0
  BY FS_EmptySet
<1>6. Balance
  <2>1. ASSUME NEW t \in Tests
        PROVE  /\ published[t] = 0 /\ counted[t] = 0 /\ expected[t] = -1
               /\ phase[t] = "new"
    BY DEF Init
  <2>2. Cardinality({}) <= MaxOrders + Cardinality(Workers)
    BY <1>4, <1>5, OrdersAssumption
  <2> QED BY <1>3, <1>5, <2>1, <2>2 DEF Balance, Balanced
<1> QED BY <1>1, <1>2, <1>6 DEF IInv

\* Every action keeps the types, whatever the counters have come to.
LEMMA TypesStep == Types /\ StartedTests /\ [Next]_fleetVars => Types'
<1> SUFFICES ASSUME Types, StartedTests, [Next]_fleetVars PROVE Types'
  OBVIOUS
<1> USE DEF Types
<1>1. ASSUME NEW t \in Tests, NEW id \in Runs, Start(t, id) PROVE Types'
  BY <1>1 DEF Start, Enter
<1>2. ASSUME NEW id \in Runs, Stop(id) PROVE Types'
  BY <1>2 DEF Stop, TakeOut
<1>3. CASE StopAll
  BY <1>3 DEF StopAll, TakeOut
<1>4. ASSUME NEW t \in Tests, Cancel(t) PROVE Types'
  BY <1>4 DEF Cancel
<1>5. ASSUME NEW t \in Tests, TestStep(t) PROVE Types'
  <2>1. CASE DurationElapses(t)
    BY <2>1 DEF DurationElapses, TakeOut, Enter
  <2>2. CASE AbortedEarly(t)
    BY <2>2 DEF AbortedEarly, Enter
  <2>3. CASE PublishComplete(t)
    BY <2>3 DEF PublishComplete, Enter
  <2>4. CASE Unregister(t)
    BY <2>4 DEF Unregister, Enter, StartedTests
  <2> QED BY <1>5, <2>1, <2>2, <2>3, <2>4 DEF TestStep
<1>6. ASSUME NEW t \in Tests, NEW w \in Workers, WorkerStep(t, w) PROVE Types'
  <2>1. CASE SendOrder(t, w)
    BY <2>1 DEF SendOrder, Move
  <2>2. CASE Publish(t, w)
    BY <2>2 DEF Publish, Move
  <2>3. CASE CountOrder(t, w)
    BY <2>3 DEF CountOrder, Move
  <2>4. CASE WorkerExits(t, w)
    BY <2>4 DEF WorkerExits, Move
  <2> QED BY <1>6, <2>1, <2>2, <2>3, <2>4 DEF WorkerStep
<1>7. CASE UNCHANGED fleetVars
  BY <1>7 DEF fleetVars
<1> QED BY <1>1, <1>2, <1>3, <1>4, <1>5, <1>6, <1>7 DEF Next

\* Stopping takes entries out of the map and dooms exactly their tests, so the
\* entries that stay belong to tests that live on.
LEMMA TakeOutKeeps ==
  ASSUME Types, EntryIsLive, NEW ids \in SUBSET Runs, TakeOut(ids)
  PROVE  /\ \A id \in Runs : active'[id] = IF id \in ids THEN NoTest ELSE active[id]
         /\ \A t \in Tests : \/ ctx'[t] = ctx[t]
                             \/ ctx'[t] = "doomed" /\ \E id \in ids : active[id] = t
         /\ \A id \in Runs : active'[id] # NoTest => ctx'[active'[id]] = "live"
<1>1. /\ \A id \in Runs : active'[id] = IF id \in ids THEN NoTest ELSE active[id]
      /\ \A t \in Tests : ctx'[t] = IF \E id \in ids : active[id] = t THEN "doomed" ELSE ctx[t]
  BY DEF TakeOut
<1>2. ASSUME NEW id \in Runs, active'[id] # NoTest
      PROVE  ctx'[active'[id]] = "live"
  <2>1. id \notin ids /\ active'[id] = active[id] /\ active[id] \in Tests
    BY <1>1, <1>2 DEF Types
  <2>2. run[active[id]] = id /\ ctx[active[id]] = "live"
    BY <1>2, <2>1 DEF EntryIsLive
  <2>3. ASSUME NEW other \in ids PROVE active[other] # active[id]
    <3> SUFFICES ASSUME active[other] = active[id] PROVE FALSE
      OBVIOUS
    <3>1. run[active[other]] = other
      BY <1>2, <2>1 DEF EntryIsLive
    <3> QED BY <2>1, <2>2, <2>3, <3>1
  <2> QED BY <1>1, <2>1, <2>2, <2>3
<1>3. ASSUME NEW t \in Tests
      PROVE  ctx'[t] = ctx[t] \/ (ctx'[t] = "doomed" /\ \E id \in ids : active[id] = t)
  BY <1>1
<1> QED BY <1>1, <1>2, <1>3

\* Every action keeps a started test's id and an unstarted test's context.
LEMMA StartedStep ==
  Types /\ StartedTests /\ EntryIsLive /\ [Next]_fleetVars => StartedTests'
<1> SUFFICES ASSUME Types, StartedTests, EntryIsLive, [Next]_fleetVars PROVE StartedTests'
  OBVIOUS
<1> USE DEF Types, StartedTests
<1>1. ASSUME NEW t \in Tests, NEW id \in Runs, Start(t, id) PROVE StartedTests'
  BY <1>1 DEF Start, Enter
<1>2. ASSUME NEW ids \in SUBSET Runs, TakeOut(ids),
             NEW t \in Tests, phase[t] = "new"
      PROVE  ctx'[t] = "live"
  <2>1. ASSUME NEW id \in ids PROVE active[id] # t
    BY <1>2, <2>1, NothingAssumption DEF EntryIsLive
  <2> QED BY <1>2, <2>1, TakeOutKeeps
<1>3. ASSUME NEW id \in Runs, Stop(id) PROVE StartedTests'
  BY <1>2, <1>3 DEF Stop
<1>4. CASE StopAll
  BY <1>2, <1>4 DEF StopAll
<1>5. ASSUME NEW t \in Tests, Cancel(t) PROVE StartedTests'
  BY <1>5 DEF Cancel
<1>6. ASSUME NEW t \in Tests, TestStep(t) PROVE StartedTests'
  <2>1. CASE DurationElapses(t)
    <3>1. run[t] \in Runs /\ TakeOut({run[t]}) /\ UNCHANGED run
      BY <2>1 DEF DurationElapses
    <3>2. \A u \in Tests : phase'[u] = IF u = t THEN "draining" ELSE phase[u]
      BY <2>1 DEF DurationElapses, Enter
    <3>3. \A u \in Tests : phase[u] = "new" => ctx'[u] = "live"
      BY <1>2, <3>1
    <3> QED BY <2>1, <3>1, <3>2, <3>3 DEF DurationElapses
  <2>2. CASE AbortedEarly(t)
    BY <2>2 DEF AbortedEarly, Enter
  <2>3. CASE PublishComplete(t)
    BY <2>3 DEF PublishComplete, Enter
  <2>4. CASE Unregister(t)
    BY <2>4 DEF Unregister, Enter
  <2> QED BY <1>6, <2>1, <2>2, <2>3, <2>4 DEF TestStep
<1>7. ASSUME NEW t \in Tests, NEW w \in Workers, WorkerStep(t, w) PROVE StartedTests'
  BY <1>7 DEF WorkerStep, SendOrder, Publish, CountOrder, WorkerExits
<1>8. CASE UNCHANGED fleetVars
  BY <1>8 DEF fleetVars
<1> QED BY <1>1, <1>3, <1>4, <1>5, <1>6, <1>7, <1>8 DEF Next

-----------------------------------------------------------------------------
\* Every action keeps the entries of the map on tests that can still be stopped.
LEMMA EntriesStep ==
  Types /\ StartedTests /\ EntryIsLive /\ [Next]_fleetVars => EntryIsLive'
<1> SUFFICES ASSUME Types, StartedTests, EntryIsLive, [Next]_fleetVars,
                    NEW id \in Runs, active'[id] # NoTest
             PROVE  /\ run'[active'[id]] = id
                    /\ phase'[active'[id]] = "timing" /\ ctx'[active'[id]] = "live"
  BY DEF EntryIsLive
<1> DEFINE Kept == /\ run'[active'[id]] = id
                   /\ phase'[active'[id]] = "timing" /\ ctx'[active'[id]] = "live"
<1>1. ASSUME active'[id] = active[id]
      PROVE  /\ active[id] \in Tests /\ run[active[id]] = id
             /\ phase[active[id]] = "timing" /\ ctx[active[id]] = "live"
  BY <1>1 DEF Types, EntryIsLive
<1>2. ASSUME NEW t \in Tests, NEW started \in Runs, Start(t, started) PROVE Kept
  <2>1. CASE id = started
    BY <1>2, <2>1 DEF Start, Enter, Types, StartedTests
  <2>2. CASE id # started
    <3>1. active'[id] = active[id]
      BY <1>2, <2>2 DEF Start, Types
    <3>2. active[id] # t
      BY <1>1, <1>2, <3>1 DEF Start
    <3> QED BY <1>1, <1>2, <3>1, <3>2 DEF Start, Enter, Types
  <2> QED BY <2>1, <2>2
<1>3. ASSUME NEW ids \in SUBSET Runs, TakeOut(ids)
      PROVE  id \notin ids /\ active'[id] = active[id] /\ ctx'[active'[id]] = "live"
  BY <1>3, TakeOutKeeps
<1>4. ASSUME NEW stopped \in Runs, Stop(stopped) PROVE Kept
  BY <1>1, <1>3, <1>4 DEF Stop
<1>5. CASE StopAll
  BY <1>1, <1>3, <1>5 DEF StopAll
<1>6. ASSUME NEW t \in Tests, Cancel(t) PROVE Kept
  <2>1. active'[id] = active[id] /\ active[id] # t
    BY <1>1, <1>6 DEF Cancel
  <2> QED BY <1>1, <1>6, <2>1 DEF Cancel, Types
<1>7. ASSUME NEW t \in Tests, TestStep(t) PROVE Kept
  <2>1. CASE DurationElapses(t)
    <3>1. run[t] \in Runs
      BY <2>1 DEF DurationElapses, StartedTests
    <3>2. id # run[t] /\ active'[id] = active[id] /\ ctx'[active'[id]] = "live"
      BY <1>3, <2>1, <3>1 DEF DurationElapses
    <3>3. active[id] # t
      BY <1>1, <3>2
    <3> QED BY <1>1, <2>1, <3>2, <3>3 DEF DurationElapses, Enter, Types
  <2>2. CASE AbortedEarly(t)
    BY <1>1, <2>2 DEF AbortedEarly, Enter, Types
  <2>3. CASE PublishComplete(t)
    BY <1>1, <2>3 DEF PublishComplete, Enter, Types
  <2>4. CASE Unregister(t)
    <3>1. active'[id] = active[id]
      BY <2>4 DEF Unregister, Types
    <3>2. active[id] # t
      BY <1>1, <2>4, <3>1 DEF Unregister
    <3> QED BY <1>1, <2>4, <3>1, <3>2 DEF Unregister, Enter, Types
  <2> QED BY <1>7, <2>1, <2>2, <2>3, <2>4 DEF TestStep
<1>8. ASSUME NEW t \in Tests, NEW w \in Workers, WorkerStep(t, w) PROVE Kept
  BY <1>1, <1>8 DEF WorkerStep, SendOrder, Publish, CountOrder, WorkerExits
<1>9. CASE UNCHANGED fleetVars
  BY <1>1, <1>9 DEF fleetVars
<1> QED BY <1>2, <1>4, <1>5, <1>6, <1>7, <1>8, <1>9 DEF Next

\* Every action keeps a live test stoppable, unless its run id is started again.
LEMMA StoppableStep ==
  /\ Types /\ StartedTests /\ EntryIsLive /\ StoppableUntilReused
  /\ [Next]_fleetVars
  => StoppableUntilReused'
<1> SUFFICES ASSUME Types, StartedTests, EntryIsLive, StoppableUntilReused, [Next]_fleetVars,
                    NEW u \in Tests,
                    phase'[u] = "timing", ctx'[u] = "live",
                    \A v \in Tests \ {u} : run'[v] # run'[u]
             PROVE  active'[run'[u]] = u
  BY DEF StoppableUntilReused, Reused
<1>1. ASSUME phase[u] = "timing", ctx[u] = "live", run' = run
      PROVE  active[run[u]] = u /\ run[u] \in Runs
  BY <1>1 DEF StoppableUntilReused, Reused, StartedTests
<1>2. ASSUME NEW t \in Tests, NEW id \in Runs, Start(t, id) PROVE active'[run'[u]] = u
  <2>1. CASE u = t
    BY <1>2, <2>1 DEF Start, Types
  <2>2. CASE u # t
    <3>1. /\ phase[u] = "timing" /\ ctx[u] = "live" /\ run[u] \in Runs
          /\ run'[u] = run[u] /\ run[u] # id /\ run[t] = NoRun
      BY <1>2, <2>2 DEF Start, Enter, Types, StartedTests
    <3>2. \A v \in Tests \ {u} : run[v] # run[u]
      BY <1>2, <3>1, NothingAssumption DEF Start, Types
    <3>3. active[run[u]] = u
      BY <3>1, <3>2 DEF StoppableUntilReused, Reused
    <3> QED BY <1>2, <3>1, <3>3 DEF Start, Types
  <2> QED BY <2>1, <2>2
<1>3. ASSUME NEW ids \in SUBSET Runs, TakeOut(ids), run' = run, phase[u] = "timing"
      PROVE  active'[run'[u]] = u
  <2>1. ctx[u] = "live" /\ \A id \in ids : active[id] # u
    BY <1>3 DEF TakeOut
  <2>2. active[run[u]] = u /\ run[u] \in Runs
    BY <1>1, <1>3, <2>1
  <2> QED BY <1>3, <2>1, <2>2 DEF TakeOut
<1>4. ASSUME NEW id \in Runs, Stop(id) PROVE active'[run'[u]] = u
  BY <1>3, <1>4 DEF Stop
<1>5. CASE StopAll
  BY <1>3, <1>5 DEF StopAll
<1>6. ASSUME NEW t \in Tests, Cancel(t) PROVE active'[run'[u]] = u
  BY <1>1, <1>6 DEF Cancel, Types
<1>7. ASSUME NEW t \in Tests, TestStep(t) PROVE active'[run'[u]] = u
  <2>1. CASE DurationElapses(t)
    BY <1>3, <2>1 DEF DurationElapses, Enter, Types, StartedTests
  <2>2. CASE AbortedEarly(t)
    BY <1>1, <2>2 DEF AbortedEarly, Enter, Types
  <2>3. CASE PublishComplete(t)
    BY <1>1, <2>3 DEF PublishComplete, Enter, Types
  <2>4. CASE Unregister(t)
    <3>1. u # t /\ phase[u] = "timing" /\ ctx[u] = "live" /\ run' = run
      BY <2>4 DEF Unregister, Enter, Types
    <3>2. active[run[u]] = u /\ run[u] \in Runs /\ run[u] # run[t]
      BY <1>1, <3>1
    <3> QED BY <2>4, <3>1, <3>2 DEF Unregister, Types
  <2> QED BY <1>7, <2>1, <2>2, <2>3, <2>4 DEF TestStep
<1>8. ASSUME NEW t \in Tests, NEW w \in Workers, WorkerStep(t, w) PROVE active'[run'[u]] = u
  BY <1>1, <1>8 DEF WorkerStep, SendOrder, Publish, CountOrder, WorkerExits
<1>9. CASE UNCHANGED fleetVars
  BY <1>1, <1>9 DEF fleetVars
<1> QED BY <1>2, <1>4, <1>5, <1>6, <1>7, <1>8, <1>9 DEF Next

-----------------------------------------------------------------------------
\* The workers at a place are finitely many, and not more than there are.
LEMMA AtFinite ==
  ASSUME NEW t \in Tests, NEW place
  PROVE  /\ IsFiniteSet(At(t, place))
         /\ Cardinality(At(t, place)) \in Nat /\ Cardinality(Workers) \in Nat
         /\ Cardinality(At(t, place)) <= Cardinality(Workers)
<1>1. At(t, place) \subseteq Workers
  BY DEF At
<1> QED BY <1>1, WorkersAssumption, FS_Subset, FS_CardinalityType

\* The numbers of workers at two places when one of them goes from one to the other.
LEMMA MoveCounts ==
  ASSUME Types, NEW t \in Tests, NEW w \in Workers, NEW from, NEW to,
         from # to, worker[t][w] = from, Move(t, w, to)
  PROVE  /\ Cardinality(At(t, from)') = Cardinality(At(t, from)) - 1
         /\ Cardinality(At(t, to)') = Cardinality(At(t, to)) + 1
         /\ \A place : place # from /\ place # to => At(t, place)' = At(t, place)
         /\ \A u \in Tests \ {t} : worker'[u] = worker[u]
         /\ \A v \in Workers \ {w} : worker'[t][v] = worker[t][v]
<1>1. /\ \A u \in Tests \ {t} : worker'[u] = worker[u]
      /\ \A v \in Workers : worker'[t][v] = IF v = w THEN to ELSE worker[t][v]
  BY DEF Move, Types
<1>2. At(t, from)' = At(t, from) \ {w} /\ w \in At(t, from)
  BY <1>1 DEF At
<1>3. At(t, to)' = At(t, to) \cup {w} /\ w \notin At(t, to)
  BY <1>1 DEF At
<1>4. ASSUME NEW place, place # from, place # to
      PROVE  At(t, place)' = At(t, place)
  BY <1>1, <1>4 DEF At
<1>5. Cardinality(At(t, from)') = Cardinality(At(t, from)) - 1
  BY <1>2, AtFinite, FS_RemoveElement
<1>6. Cardinality(At(t, to)') = Cardinality(At(t, to)) + 1
  BY <1>3, AtFinite, FS_AddElement
<1> QED BY <1>1, <1>4, <1>5, <1>6

\* A test whose workers and counters a step leaves alone stays balanced, unless the
\* step takes it past the wait for its workers.
LEMMA BalancedKept ==
  ASSUME NEW t \in Tests, Balanced(t),
         worker'[t] = worker[t], published'[t] = published[t],
         counted'[t] = counted[t], expected'[t] = expected[t],
         phase'[t] \in {"closing", "done"} <=> phase[t] \in {"closing", "done"}
  PROVE  Balanced(t)'
<1>1. \A place : At(t, place)' = At(t, place)
  BY DEF At
<1> QED BY <1>1 DEF Balanced

\* Every action keeps the counters of a test equal up to its workers in between.
LEMMA BalanceStep == Types /\ Balance /\ [Next]_fleetVars => Balance'
<1> SUFFICES ASSUME Types, Balance, [Next]_fleetVars, NEW u \in Tests PROVE Balanced(u)'
  BY DEF Balance
<1> USE DEF Types
<1>1. Balanced(u)
  BY DEF Balance
<1>2. ASSUME UNCHANGED worker, UNCHANGED orders,
             phase'[u] \in {"closing", "done"} <=> phase[u] \in {"closing", "done"}
      PROVE  Balanced(u)'
  BY <1>1, <1>2, BalancedKept
<1>3. ASSUME NEW t \in Tests, NEW id \in Runs, Start(t, id) PROVE Balanced(u)'
  BY <1>2, <1>3 DEF Start, Enter
<1>4. ASSUME NEW id \in Runs, Stop(id) PROVE Balanced(u)'
  BY <1>2, <1>4 DEF Stop
<1>5. CASE StopAll
  BY <1>2, <1>5 DEF StopAll
<1>6. ASSUME NEW t \in Tests, Cancel(t) PROVE Balanced(u)'
  BY <1>2, <1>6 DEF Cancel
<1>7. ASSUME NEW t \in Tests, TestStep(t) PROVE Balanced(u)'
  <2>1. CASE DurationElapses(t)
    BY <1>2, <2>1 DEF DurationElapses, Enter
  <2>2. CASE AbortedEarly(t)
    BY <1>2, <2>2 DEF AbortedEarly, Enter
  <2>3. CASE PublishComplete(t)
    <3>1. CASE u = t
      <4>1. \A place : At(u, place)' = At(u, place)
        BY <2>3 DEF PublishComplete, At
      <4>2. /\ phase'[u] = "closing" /\ expected'[u] = counted[u]
            /\ \A w \in Workers : worker'[u][w] = "exited"
            /\ UNCHANGED <<published, counted>>
        BY <2>3, <3>1 DEF PublishComplete, Enter
      <4> QED BY <1>1, <4>1, <4>2 DEF Balanced
    <3>2. CASE u # t
      BY <1>1, <2>3, <3>2, BalancedKept DEF PublishComplete, Enter
    <3> QED BY <3>1, <3>2
  <2>4. CASE Unregister(t)
    BY <1>2, <2>4 DEF Unregister, Enter
  <2> QED BY <1>7, <2>1, <2>2, <2>3, <2>4 DEF TestStep
<1>8. ASSUME NEW t \in Tests, NEW w \in Workers, WorkerStep(t, w) PROVE Balanced(u)'
  <2>1. CASE u # t
    BY <1>1, <1>8, <2>1, BalancedKept
       DEF WorkerStep, SendOrder, Publish, CountOrder, WorkerExits, Move
  <2>2. CASE u = t
    <3>1. worker[u][w] # "exited" /\ UNCHANGED <<phase, expected>>
      BY <1>8, <2>2 DEF WorkerStep, SendOrder, Publish, CountOrder, WorkerExits
    <3>2. phase[u] \notin {"closing", "done"} /\ expected[u] = -1
      BY <1>1, <3>1 DEF Balanced
    <3> SUFFICES
          /\ published'[u] = counted'[u] + Cardinality(At(u, "sent")')
          /\ published'[u] + Cardinality(At(u, "sending")') <= MaxOrders + Cardinality(Workers)
      BY <3>1, <3>2 DEF Balanced
    <3>3. /\ published[u] = counted[u] + Cardinality(At(u, "sent"))
          /\ published[u] + Cardinality(At(u, "sending")) <= MaxOrders + Cardinality(Workers)
          /\ published[u] \in Nat /\ counted[u] \in Nat
      BY <1>1 DEF Balanced
    <3>4. Cardinality(At(u, "sent")) \in Nat /\ Cardinality(At(u, "sending")) \in Nat
      BY AtFinite
    <3>5. Cardinality(Workers) \in Nat
      BY AtFinite
    <3>6. CASE SendOrder(u, w)
      <4>1. /\ At(u, "sent")' = At(u, "sent")
            /\ Cardinality(At(u, "sending")') = Cardinality(At(u, "sending")) + 1
        BY <3>6, MoveCounts DEF SendOrder
      <4>2. published[u] < MaxOrders /\ UNCHANGED <<published, counted>>
        BY <3>6 DEF SendOrder
      <4>3. Cardinality(At(u, "sending")') <= Cardinality(Workers)
        <5>1. At(u, "sending")' \subseteq Workers
          BY DEF At
        <5> QED BY <5>1, WorkersAssumption, FS_Subset
      <4>4. Cardinality(At(u, "sending")') \in Nat
        BY <3>4, <4>1
      <4> QED BY <3>3, <3>5, <4>1, <4>2, <4>3, <4>4, OrdersAssumption
    <3>7. CASE Publish(u, w)
      <4>1. /\ Cardinality(At(u, "sent")') = Cardinality(At(u, "sent")) + 1
            /\ Cardinality(At(u, "sending")') = Cardinality(At(u, "sending")) - 1
        BY <3>7, MoveCounts DEF Publish
      <4>2. published'[u] = published[u] + 1 /\ counted'[u] = counted[u]
        BY <3>7 DEF Publish
      <4> QED BY <3>3, <3>4, <3>5, <4>1, <4>2, OrdersAssumption, SMTT(30)
    <3>8. CASE CountOrder(u, w)
      <4>1. /\ Cardinality(At(u, "sent")') = Cardinality(At(u, "sent")) - 1
            /\ At(u, "sending")' = At(u, "sending")
        <5>1. worker[u][w] = "sent" /\ Move(u, w, "select")
          BY <3>8 DEF CountOrder
        <5>2. Cardinality(At(u, "sent")') = Cardinality(At(u, "sent")) - 1
          BY <5>1, MoveCounts
        <5>3. At(u, "sending")' = At(u, "sending")
          BY <5>1 DEF Move, At
        <5> QED BY <5>2, <5>3
      <4>2. published'[u] = published[u] /\ counted'[u] = counted[u] + 1
        BY <3>8 DEF CountOrder
      <4> QED BY <3>3, <3>4, <3>5, <4>1, <4>2, OrdersAssumption
    <3>9. CASE WorkerExits(u, w)
      <4>1. At(u, "sent")' = At(u, "sent") /\ At(u, "sending")' = At(u, "sending")
        BY <3>9 DEF WorkerExits, Move, At
      <4> QED BY <3>3, <3>9, <4>1 DEF WorkerExits
    <3> QED BY <1>8, <2>2, <3>6, <3>7, <3>8, <3>9 DEF WorkerStep
  <2> QED BY <2>1, <2>2
<1>9. CASE UNCHANGED fleetVars
  BY <1>2, <1>9 DEF fleetVars
<1> QED BY <1>3, <1>4, <1>5, <1>6, <1>7, <1>8, <1>9 DEF Next

-----------------------------------------------------------------------------
\* IInv is an inductive invariant of the bot fleet.
LEMMA Inductive == Spec => []IInv
<1>1. IInv /\ [Next]_fleetVars => IInv'
  BY TypesStep, StartedStep, EntriesStep, StoppableStep, BalanceStep DEF IInv
<1> QED BY InvInit, <1>1, PTL DEF Spec

\* With the counters balanced, they keep within the bound that TypeOK gives them.
LEMMA InvTypes == IInv => TypeOK
<1> SUFFICES ASSUME IInv PROVE TypeOK
  OBVIOUS
<1>1. Types /\ Balance
  BY DEF IInv
<1>2. ASSUME NEW t \in Tests
      PROVE  /\ published[t] \in Count /\ counted[t] \in Count
             /\ expected[t] \in Count \cup {-1}
  <2>1. Balanced(t)
    BY <1>1 DEF Balance
  <2>2. /\ Cardinality(At(t, "sent")) \in Nat /\ Cardinality(At(t, "sending")) \in Nat
        /\ Cardinality(Workers) \in Nat
    BY AtFinite
  <2>3. published[t] \in Nat /\ counted[t] \in Nat
    BY <1>1 DEF Types
  <2>4. published[t] \in Count /\ counted[t] \in Count
    BY <2>1, <2>2, <2>3, OrdersAssumption DEF Balanced, Count
  <2> QED BY <2>1, <2>4 DEF Balanced
<1> QED BY <1>1, <1>2 DEF Types, TypeOK

\* Every variable of the bot fleet keeps its type; no test publishes more orders than
\* the bound and one per worker.
THEOREM TypeCorrect == Spec => []TypeOK
<1> QED BY Inductive, InvTypes, PTL

\* The expected_orders of a run_complete record is the number of orders published,
\* whatever the workers were doing when the test was stopped.
THEOREM CountIsExact == Spec => []ExpectedIsPublished
<1>1. IInv => ExpectedIsPublished
  <2> SUFFICES ASSUME IInv, NEW t \in Tests, expected[t] # -1
               PROVE  expected[t] = published[t]
    BY DEF ExpectedIsPublished
  <2>1. Balanced(t) /\ counted[t] \in Nat
    BY DEF IInv, Balance, Types
  <2>2. expected[t] = counted[t] /\ \A w \in Workers : worker[t][w] = "exited"
    BY <2>1 DEF Balanced
  <2>3. At(t, "sent") = {}
    BY <2>2 DEF At
  <2>4. Cardinality(At(t, "sent")) = 0
    BY <2>3, FS_EmptySet
  <2>5. published[t] = counted[t] + Cardinality(At(t, "sent"))
    BY <2>1 DEF Balanced
  <2> QED BY <2>1, <2>2, <2>4, <2>5
<1> QED BY Inductive, <1>1, PTL

\* Every entry of activeRuns is a test of that run that can still be stopped.
THEOREM EntriesAreLive == Spec => []EntryIsLive
<1>1. IInv => EntryIsLive
  BY DEF IInv
<1> QED BY Inductive, <1>1, PTL

\* A test whose run id was started once stays in activeRuns until somebody takes it
\* out, for any number of other tests that end meanwhile.
THEOREM RunsAreStoppable == Spec => []StoppableUntilReused
<1>1. IInv => StoppableUntilReused
  BY DEF IInv
<1> QED BY Inductive, <1>1, PTL

=============================================================================
