------------------------- MODULE TelemetryIngester -------------------------
(***************************************************************************)
(* The telemetry ingester: replicas of one consumer group read the run's   *)
(* records from the one partition of telemetry-stream, one at a time, and  *)
(* keep the run's statistics in memory.  Once per second a tick writes     *)
(* them to the row and broadcasts a window; run_complete makes finalize()  *)
(* write, broadcast, rank and forget them and tell the orchestrator.       *)
(*                                                                         *)
(* All of this is keyed by run id, so one run stands for all.  A record is *)
(* its place in the log: orders 1..logged, then run_complete.  A step is   *)
(* the code between two awaits with the effect of the call it awaited; an  *)
(* answer that is an error may have had its effect or not.                 *)
(***************************************************************************)
EXTENDS Integers

CONSTANTS Replicas,     \* the ingester's processes
          NoReplica,    \* nobody owns the partition
          Scenarios     \* what may happen: the calls that may fail, and bounds on
                        \* the orders the bot fleet sends and on rebalances and crashes

\* "broker": the fleet's asynchronous writes; "lookup": the team name in Redis and
\* Postgres; "db": UPDATE benchmark_runs; "redis": the leaderboard; "hook": the
\* orchestrator.
Fallible == {"broker", "lookup", "db", "redis", "hook"}

ASSUME ScenarioAssumption ==
  Scenarios \subseteq [faulty : SUBSET Fallible, orders : Nat, moves : Nat]
ASSUME NobodyAssumption == NoReplica \notin Replicas

VARIABLES
  sent,      \* the bot fleet's sentOrders
  logged,    \* orders that reached the partition
  over,      \* the load is over: run_complete was written
  ended,     \* run_complete reached the partition
  scenario,  \* the one of this behaviour
  group,     \* [owner, committed]: the consumer group
  moves,     \* rebalances and crashes so far
  pc,        \* per replica: what eachMessage awaits, or "idle", "down"
  pos,       \* per replica: the place of its current or next record
  stats,     \* per replica: the run's entry of the map runs
  due,       \* per replica: totalOrders of the run finalize() has forgotten
  tick,      \* per replica: a tick's UPDATE in flight
  row,       \* benchmark_runs.total_orders_sent
  told       \* what the orchestrator was told

log      == <<sent, logged, over, ended, scenario>>
ingestVars == <<log, group, moves, pc, pos, stats, due, tick, row, told>>

\* The orders an entry counts are 1..total.  window: those since the last broadcast.
\* reported: what the broadcast counts have summed up to.  heard: the orders whose
\* latency is in the percentiles of a broadcast.  during: those counted while a tick
\* awaited its UPDATE.  copy: the latencies that finalize()'s flush() works on.
Stats   == [total : Nat, window : Nat, reported : Nat,
            heard : SUBSET Nat, during : SUBSET Nat, copy : SUBSET Nat]
NoStats == [total |-> -1, window |-> 0, reported |-> 0, heard |-> {}, during |-> {}, copy |-> {}]
Empty   == [NoStats EXCEPT !.total = 0]

\* live: the tick's entry is still the one in the map.  copy: the latencies its flush()
\* works on.
Tick   == [total : Nat, copy : SUBSET Nat, live : BOOLEAN]
NoTick == [total |-> -1, copy |-> {}, live |-> FALSE]

Verdict == [status : {"completed", "failed"}, total : Nat]

Init ==
  /\ sent = 0 /\ logged = 0 /\ over = FALSE /\ ended = FALSE
  /\ scenario \in Scenarios
  /\ group = [owner |-> NoReplica, committed |-> 1]
  /\ moves = 0
  /\ pc = [r \in Replicas |-> "idle"]
  /\ pos = [r \in Replicas |-> 1]
  /\ stats = [r \in Replicas |-> NoStats]
  /\ due = [r \in Replicas |-> 0]
  /\ tick = [r \in Replicas |-> NoTick]
  /\ row = 0 /\ told = {}

-----------------------------------------------------------------------------
(***************************************************************************)
(* What the bot fleet writes.  Its writer is asynchronous: an order counts *)
(* as sent before the broker has it.                                       *)
(***************************************************************************)
PublishOrder ==
  /\ ~over /\ sent < scenario.orders
  /\ sent' = sent + 1
  /\ logged' = logged + 1 \/ ("broker" \in scenario.faulty /\ logged' = logged)
  /\ UNCHANGED <<over, ended, scenario, group, moves, pc, pos, stats, due, tick, row, told>>

PublishComplete ==
  /\ ~over
  /\ over' = TRUE
  /\ ended' = TRUE \/ ("broker" \in scenario.faulty /\ ended' = FALSE)
  /\ UNCHANGED <<sent, logged, scenario, group, moves, pc, pos, stats, due, tick, row, told>>

-----------------------------------------------------------------------------
(***************************************************************************)
(* eachMessage.  An error is logged, and the record counts as consumed.    *)
(***************************************************************************)
IsOrder(r)    == pos[r] <= logged
IsComplete(r) == ended /\ pos[r] = logged + 1

Consumes(r) == pc[r] = "idle" /\ group.owner = r

Goto(r, place) == pc' = [pc EXCEPT ![r] = place]

\* eachMessage returns; the consumer goes on to the next record.
Consumed(r) == Goto(r, "idle") /\ pos' = [pos EXCEPT ![r] = @ + 1]

\* An order is counted, while the tick t awaits its UPDATE or does not.
Counted(s, t) ==
  [s EXCEPT !.total = @ + 1, !.window = @ + 1,
            !.during = IF t.live THEN @ \cup {s.total + 1} ELSE @]

\* windowLatencies has as many elements as windowTotal says.
Latencies(s) == (s.total - s.window + 1)..s.total

\* The UPDATE is answered.  The broadcast has the counts of the window as it is now and
\* the percentiles of the latencies that were copied before the UPDATE; then all of the
\* window is reset.
Reported(s, copy) == [s EXCEPT !.window = 0, !.reported = @ + s.window, !.heard = @ \cup copy]

\* getRun() finds the run in the map: the record is counted in the same turn.
CountOrder(r) ==
  /\ Consumes(r) /\ IsOrder(r) /\ stats[r] # NoStats
  /\ stats' = [stats EXCEPT ![r] = Counted(@, tick[r])]
  /\ Consumed(r)
  /\ UNCHANGED <<log, group, moves, due, tick, row, told>>

\* It does not: the team's name is asked of Redis, then of Postgres.
StartLookup(r) ==
  /\ Consumes(r) /\ stats[r] = NoStats
  /\ IsOrder(r) \/ IsComplete(r)
  /\ Goto(r, "lookup")
  /\ UNCHANGED <<log, group, moves, pos, stats, due, tick, row, told>>

LookupReturns(r) ==
  /\ pc[r] = "lookup"
  /\ \/ /\ IsOrder(r)
        /\ stats' = [stats EXCEPT ![r] = Counted(Empty, NoTick)]
        /\ Consumed(r)
     \/ /\ ~IsOrder(r)
        /\ stats' = [stats EXCEPT ![r] = Empty]
        /\ Goto(r, "update") /\ UNCHANGED pos
  /\ UNCHANGED <<log, group, moves, due, tick, row, told>>

LookupThrows(r) ==
  /\ pc[r] = "lookup" /\ "lookup" \in scenario.faulty
  /\ Consumed(r)
  /\ UNCHANGED <<log, group, moves, stats, due, tick, row, told>>

\* Mutant of StartFinalize: a run that is not in the map is flushed all the same.
StartFinalizeUnknown(r) ==
  /\ Consumes(r) /\ IsComplete(r)
  /\ stats' = [stats EXCEPT ![r].copy = Latencies(stats[r])]
  /\ Goto(r, "update")
  /\ UNCHANGED <<log, group, moves, pos, due, tick, row, told>>

\* finalize() of a known run: flush(stats, true) copies the window's latencies and
\* issues its UPDATE.
StartFinalize(r) ==
  /\ Consumes(r) /\ IsComplete(r) /\ stats[r] # NoStats
  /\ stats' = [stats EXCEPT ![r].copy = Latencies(stats[r])]
  /\ Goto(r, "update")
  /\ UNCHANGED <<log, group, moves, pos, due, tick, row, told>>

\* Mutant of Forget: the run stays in the map.
ForgetNothing(r) ==
  /\ due' = [due EXCEPT ![r] = stats[r].total]
  /\ stats' = [stats EXCEPT ![r] = Reported(@, @.copy)]
  /\ UNCHANGED tick

\* runs.delete().  A tick in flight keeps the entry it was called with.
Forget(r) ==
  /\ due' = [due EXCEPT ![r] = stats[r].total]
  /\ stats' = [stats EXCEPT ![r] = NoStats]
  /\ tick' = [tick EXCEPT ![r] = [@ EXCEPT !.live = FALSE]]

\* The final UPDATE is answered.  A score above zero goes to the leaderboard, and
\* only a run with orders has one.
UpdateReturns(r) ==
  /\ pc[r] = "update"
  /\ row' = stats[r].total
  /\ \/ /\ stats[r].total > 0
        /\ stats' = [stats EXCEPT ![r] = Reported(@, @.copy)]
        /\ Goto(r, "rank") /\ UNCHANGED <<due, tick>>
     \/ Forget(r) /\ Goto(r, "notify")
  /\ UNCHANGED <<log, group, moves, pos, told>>

UpdateThrows(r) ==
  /\ pc[r] = "update" /\ "db" \in scenario.faulty
  /\ row' \in {row, stats[r].total}
  /\ Consumed(r)
  /\ UNCHANGED <<log, group, moves, stats, due, tick, told>>

\* zScore() and zAdd(), see Leaderboard.
RankReturns(r) ==
  /\ pc[r] = "rank"
  /\ Forget(r)
  /\ Goto(r, "notify")
  /\ UNCHANGED <<log, group, moves, pos, row, told>>

RankThrows(r) ==
  /\ pc[r] = "rank" /\ "redis" \in scenario.faulty
  /\ Consumed(r)
  /\ UNCHANGED <<log, group, moves, stats, due, tick, row, told>>

\* Mutant of StatusOf: orders that are missing are not looked for.
StatusOfAny(total, expected) == IF total = 0 THEN "failed" ELSE "completed"

\* totalOrders === 0 || (expectedOrders > 0 && totalOrders < expectedOrders)
StatusOf(total, expected) ==
  IF total = 0 \/ (expected > 0 /\ total < expected) THEN "failed" ELSE "completed"

Answer(r) == [status |-> StatusOf(due[r], sent), total |-> due[r]]

NotifyReturns(r) ==
  /\ pc[r] = "notify"
  /\ told' = told \cup {Answer(r)}
  /\ Consumed(r)
  /\ UNCHANGED <<log, group, moves, stats, due, tick, row>>

NotifyThrows(r) ==
  /\ pc[r] = "notify" /\ "hook" \in scenario.faulty
  /\ told' \in {told, told \cup {Answer(r)}}
  /\ Consumed(r)
  /\ UNCHANGED <<log, group, moves, stats, due, tick, row>>

-----------------------------------------------------------------------------
(***************************************************************************)
(* The tick of every second: flush() of each entry of the map.  At most    *)
(* one of a replica's ticks is in flight (a bound), beside the flush of    *)
(* finalize().                                                             *)
(***************************************************************************)
\* Mutant of StartTick: the window is reset when it is copied, and not when the UPDATE is
\* answered.
StartTickResetting(r) ==
  /\ pc[r] # "down" /\ stats[r] # NoStats /\ tick[r] = NoTick
  /\ tick' = [tick EXCEPT ![r] = [total |-> stats[r].total, copy |-> Latencies(stats[r]),
                                  live |-> TRUE]]
  /\ stats' = [stats EXCEPT ![r].window = 0]
  /\ UNCHANGED <<log, group, moves, pc, pos, due, row, told>>

\* flush() copies the window's latencies, and issues its UPDATE.
StartTick(r) ==
  /\ pc[r] # "down" /\ stats[r] # NoStats /\ tick[r] = NoTick
  /\ tick' = [tick EXCEPT ![r] = [total |-> stats[r].total, copy |-> Latencies(stats[r]),
                                  live |-> TRUE]]
  /\ UNCHANGED <<log, group, moves, pc, pos, stats, due, row, told>>

TickReturns(r) ==
  /\ tick[r] # NoTick
  /\ row' = tick[r].total
  /\ stats' = IF tick[r].live THEN [stats EXCEPT ![r] = Reported(@, tick[r].copy)] ELSE stats
  /\ tick' = [tick EXCEPT ![r] = NoTick]
  /\ UNCHANGED <<log, group, moves, pc, pos, due, told>>

\* Mutant of TickThrows: the window is reset in a finally block.
TickThrowsResetting(r) ==
  /\ tick[r] # NoTick /\ "db" \in scenario.faulty
  /\ row' \in {row, tick[r].total}
  /\ stats' = IF tick[r].live THEN [stats EXCEPT ![r].window = 0] ELSE stats
  /\ tick' = [tick EXCEPT ![r] = NoTick]
  /\ UNCHANGED <<log, group, moves, pc, pos, due, told>>

\* Without a broadcast the window is not reset: the next one has its orders too.
TickThrows(r) ==
  /\ tick[r] # NoTick /\ "db" \in scenario.faulty
  /\ row' \in {row, tick[r].total}
  /\ tick' = [tick EXCEPT ![r] = NoTick]
  /\ UNCHANGED <<log, group, moves, pc, pos, stats, due, told>>

-----------------------------------------------------------------------------
(***************************************************************************)
(* The consumer group (kafkajs, automatic commits).                        *)
(***************************************************************************)
\* Mutant of Commit: the record being handled is committed with the others.
CommitEarly(r) ==
  /\ group.owner = r
  /\ group' = [group EXCEPT !.committed =
                 IF pc[r] = "idle" THEN pos[r] ELSE pos[r] + 1]
  /\ UNCHANGED <<log, moves, pc, pos, stats, due, tick, row, told>>

\* The place of every record before pos is committed, sooner or later.
Commit(r) ==
  /\ group.owner = r
  /\ group' = [group EXCEPT !.committed = pos[r]]
  /\ UNCHANGED <<log, moves, pc, pos, stats, due, tick, row, told>>

\* A replica that has joined starts at the committed place.
Assign(r) ==
  /\ group.owner = NoReplica /\ pc[r] = "idle"
  /\ group' = [group EXCEPT !.owner = r]
  /\ pos' = [pos EXCEPT ![r] = group.committed]
  /\ UNCHANGED <<log, moves, pc, stats, due, tick, row, told>>

\* A rebalance, or a session that timed out while eachMessage was awaiting: what
\* the replica awaits goes on, and its map and its ticks too.
Revoke(r) ==
  /\ group.owner = r /\ moves < scenario.moves
  /\ group' = [group EXCEPT !.owner = NoReplica]
  /\ moves' = moves + 1
  /\ UNCHANGED <<log, pc, pos, stats, due, tick, row, told>>

Crash(r) ==
  /\ pc[r] # "down" /\ moves < scenario.moves
  /\ moves' = moves + 1
  /\ group' = [group EXCEPT !.owner = IF @ = r THEN NoReplica ELSE @]
  /\ Goto(r, "down")
  /\ stats' = [stats EXCEPT ![r] = NoStats]
  /\ tick' = [tick EXCEPT ![r] = NoTick]
  /\ UNCHANGED <<log, pos, due, row, told>>

Restart(r) ==
  /\ pc[r] = "down"
  /\ Goto(r, "idle")
  /\ UNCHANGED <<log, group, moves, pos, stats, due, tick, row, told>>

-----------------------------------------------------------------------------
Consume(r) ==
  \/ CountOrder(r) \/ StartLookup(r) \/ LookupReturns(r) \/ LookupThrows(r)
  \/ StartFinalize(r) \/ UpdateReturns(r) \/ UpdateThrows(r)
  \/ RankReturns(r) \/ RankThrows(r) \/ NotifyReturns(r) \/ NotifyThrows(r)

Ticking(r) == StartTick(r) \/ TickReturns(r) \/ TickThrows(r)

Grouping(r) == Commit(r) \/ Assign(r) \/ Revoke(r) \/ Crash(r) \/ Restart(r)

Next ==
  \/ PublishOrder \/ PublishComplete
  \/ \E r \in Replicas : Consume(r) \/ Ticking(r) \/ Grouping(r)

Spec == Init /\ [][Next]_ingestVars

\* Awaited calls are answered, a crashed replica is restarted, and the partition
\* is given to a replica that can take it.  Nothing makes a commit happen.
Fairness ==
  \A r \in Replicas : /\ WF_ingestVars(Consume(r))
                      /\ WF_ingestVars(TickReturns(r))
                      /\ WF_ingestVars(Restart(r))
                      /\ WF_ingestVars(Assign(r))

FairSpec == Spec /\ Fairness

-----------------------------------------------------------------------------
(***************************************************************************)
(* Properties.                                                             *)
(***************************************************************************)
\* Every variable keeps its type.
TypeOK ==
  /\ sent \in 0..scenario.orders /\ logged \in 0..scenario.orders
  /\ over \in BOOLEAN /\ ended \in BOOLEAN /\ scenario \in Scenarios
  /\ group \in [owner : Replicas \cup {NoReplica}, committed : Nat]
  /\ moves \in 0..scenario.moves
  /\ pc \in [Replicas -> {"idle", "lookup", "update", "rank", "notify", "down"}]
  /\ pos \in [Replicas -> Nat]
  /\ stats \in [Replicas -> Stats \cup {NoStats}]
  /\ due \in [Replicas -> Nat]
  /\ tick \in [Replicas -> Tick \cup {NoTick}]
  /\ row \in Nat
  /\ told \subseteq Verdict

\* While the partition stays with one replica, completed is only reported of a run
\* all of whose orders reached the partition and were counted, and failed only of
\* one that lost an order on the way or had none.
VerdictMatchesCount ==
  moves = 0 =>
    \A v \in told :
      IF v.status = "completed" THEN v.total = sent /\ logged = sent
                                ELSE v.total < sent \/ sent = 0

\* The counts of a run's broadcasts (tps and success_rate, read after the UPDATE) sum up
\* to what was counted, less the window that is open: flushes overlap, are overtaken by
\* orders and fail, and no order is in the counts of two broadcasts or of none.
ReportedOnce ==
  \A r \in Replicas :
    stats[r] # NoStats => stats[r].reported + stats[r].window = stats[r].total

\* The percentiles of the broadcasts (p50, p90, p99, of the latencies copied before the
\* UPDATE): however flushes overlap and fail, the latency of an order that was counted
\* while no tick awaited its UPDATE is in one of them or in the open window; and what the
\* next flush would copy is in none of them yet, so that only flushes that overlap ever
\* broadcast a latency twice.
LatenciesHeard ==
  \A r \in Replicas :
    LET s == stats[r] IN
    s # NoStats => /\ (1..s.total) \ s.during \subseteq s.heard \cup Latencies(s)
                   /\ s.heard \cap Latencies(s) = {}

\* While the partition stays with one replica, a run that was reported is
\* forgotten for good: no tick starts that would overwrite its row.
NoTickAfterVerdict ==
  moves = 0 /\ told # {} => \A r \in Replicas : stats[r] = NoStats

\* If nothing but the writes of orders fails, every run_complete that reaches the
\* partition is reported, through crashes and rebalances.
EveryLoadIsReported == ended /\ scenario.faulty \subseteq {"broker"} ~> told # {}

=============================================================================
