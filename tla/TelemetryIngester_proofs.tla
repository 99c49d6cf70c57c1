---------------------- MODULE TelemetryIngester_proofs ----------------------
(***************************************************************************)
(* Proofs about TelemetryIngester: types, that the counts of the           *)
(* broadcasts add up and which latencies their percentiles have, and, for  *)
(* a partition that does not move, that the verdict fits the orders and    *)
(* that nothing is written after it.                                       *)
(***************************************************************************)
EXTENDS TelemetryIngester, TLAPS

-----------------------------------------------------------------------------
(***************************************************************************)
(* The entry of a run.                                                     *)
(***************************************************************************)
LEMMA StatsAreSome ==
  ASSUME NEW s \in Stats \cup {NoStats}
  PROVE  s # NoStats <=> s \in Stats
  BY DEF Stats, NoStats

LEMMA CountedIs ==
  ASSUME NEW s \in Stats, NEW t \in Tick \cup {NoTick}
  PROVE  /\ Counted(s, t) \in Stats
         /\ Counted(s, t).total = s.total + 1
         /\ Counted(s, t).window = s.window + 1
         /\ Counted(s, t).reported = s.reported
         /\ Counted(s, t).heard = s.heard
         /\ Counted(s, t).during = IF t.live THEN s.during \cup {s.total + 1} ELSE s.during
<1>1. s.total + 1 \in Nat /\ s.window + 1 \in Nat
  BY DEF Stats
<1>2. (IF t.live THEN s.during \cup {s.total + 1} ELSE s.during) \in SUBSET Nat
  BY <1>1 DEF Stats
<1>3. Counted(s, t) =
        [s EXCEPT !.total = s.total + 1, !.window = s.window + 1,
                  !.during = IF t.live THEN s.during \cup {s.total + 1} ELSE s.during]
  BY DEF Counted
<1> DEFINE d == IF t.live THEN s.during \cup {s.total + 1} ELSE s.during
<1>4. d \in SUBSET Nat /\ Counted(s, t) = [s EXCEPT !.total = s.total + 1,
                                            !.window = s.window + 1, !.during = d]
  BY <1>2, <1>3
<1> HIDE DEF d
<1>5. /\ Counted(s, t) \in Stats
      /\ Counted(s, t).total = s.total + 1 /\ Counted(s, t).window = s.window + 1
      /\ Counted(s, t).during = d
      /\ Counted(s, t).reported = s.reported /\ Counted(s, t).heard = s.heard
  <2>1. LET c == [s EXCEPT !.total = s.total + 1, !.window = s.window + 1, !.during = d] IN
        /\ c \in Stats
        /\ c.total = s.total + 1 /\ c.window = s.window + 1 /\ c.during = d
        /\ c.reported = s.reported /\ c.heard = s.heard
    <3>1. s.total + 1 \in Nat /\ s.window + 1 \in Nat /\ d \in SUBSET Nat
      BY <1>1, <1>4
    <3> QED
      BY <3>1 DEF Stats
  <2> QED
    BY <1>4, <2>1
<1> QED
  BY <1>5 DEF d

LEMMA ReportedIs ==
  ASSUME NEW s \in Stats, NEW copy \in SUBSET Nat
  PROVE  /\ Reported(s, copy) \in Stats
         /\ Reported(s, copy).total = s.total
         /\ Reported(s, copy).window = 0
         /\ Reported(s, copy).reported = s.reported + s.window
         /\ Reported(s, copy).heard = s.heard \cup copy
         /\ Reported(s, copy).during = s.during
         /\ Reported(s, copy).copy = s.copy
<1>1. s.reported + s.window \in Nat /\ s.heard \cup copy \in SUBSET Nat
  <2>1. s.reported \in Nat /\ s.window \in Nat /\ s.heard \in SUBSET Nat
    BY DEF Stats
  <2>2. s.heard \cup copy \in SUBSET Nat
    BY <2>1, Zenon
  <2> QED
    BY <2>1, <2>2
<1>2. ASSUME NEW n \in Nat, NEW h \in SUBSET Nat
      PROVE  LET c == [s EXCEPT !.window = 0, !.reported = n, !.heard = h] IN
             /\ c \in Stats
             /\ c.window = 0 /\ c.reported = n /\ c.heard = h
             /\ c.total = s.total /\ c.during = s.during /\ c.copy = s.copy
  BY <1>2 DEF Stats
<1>3. Reported(s, copy) =
        [s EXCEPT !.window = 0, !.reported = s.reported + s.window, !.heard = s.heard \cup copy]
  BY DEF Reported
<1>4. LET c == [s EXCEPT !.window = 0, !.reported = s.reported + s.window,
                          !.heard = s.heard \cup copy] IN
      /\ c \in Stats
      /\ c.window = 0 /\ c.reported = s.reported + s.window /\ c.heard = s.heard \cup copy
      /\ c.total = s.total /\ c.during = s.during /\ c.copy = s.copy
  BY <1>1, <1>2, Zenon
<1> QED
  BY <1>3, <1>4, Zenon

LEMMA EmptyIs ==
  /\ Empty \in Stats /\ Empty.total = 0 /\ Empty.window = 0 /\ Empty.reported = 0
  /\ Empty.heard = {} /\ Empty.during = {} /\ Empty.copy = {}
  BY DEF Stats, Empty, NoStats

LEMMA CountedEmptyIs ==
  /\ Counted(Empty, NoTick) \in Stats /\ Counted(Empty, NoTick) # NoStats
  /\ Counted(Empty, NoTick).total = 1 /\ Counted(Empty, NoTick).window = 1
  /\ Counted(Empty, NoTick).reported = 0
<1>1. NoTick \in Tick \cup {NoTick} /\ ~NoTick.live
  BY DEF NoTick
<1>2. /\ Counted(Empty, NoTick) \in Stats
      /\ Counted(Empty, NoTick).total = 0 + 1 /\ Counted(Empty, NoTick).window = 0 + 1
      /\ Counted(Empty, NoTick).reported = 0
  BY <1>1, EmptyIs, CountedIs
<1> QED
  BY <1>2, StatsAreSome

\* Once the counts add up, the open window begins after what was reported.
LEMMA LatenciesAre ==
  ASSUME NEW s \in Stats, s.reported + s.window = s.total
  PROVE  Latencies(s) \in SUBSET Nat /\ Latencies(s) = (s.reported + 1)..s.total
<1>1. s.total \in Nat /\ s.window \in Nat /\ s.reported \in Nat
  BY DEF Stats
<1>2. s.total - s.window = s.reported
  BY <1>1
<1> QED
  BY <1>1, <1>2 DEF Latencies

LEMMA TickIsSome ==
  ASSUME NEW t \in Tick \cup {NoTick}
  PROVE  t # NoTick <=> t \in Tick
  BY DEF Tick, NoTick

LEMMA NoTickStays == [NoTick EXCEPT !.live = FALSE] = NoTick
<1>1. NoTick \in [total : Int, copy : SUBSET Nat, live : BOOLEAN] /\ NoTick.live = FALSE
  BY DEF NoTick
<1>2. \A t \in [total : Int, copy : SUBSET Nat, live : BOOLEAN] : t.live = FALSE => [t EXCEPT !.live = FALSE] = t
  OBVIOUS
<1> QED
  BY <1>1, <1>2

\* Each replica's part of the type.
LEMMA ReplicaTypes ==
  ASSUME TypeOK, NEW r \in Replicas
  PROVE  /\ stats[r] \in Stats \cup {NoStats}
         /\ tick[r] \in Tick \cup {NoTick}
         /\ pos[r] \in Nat /\ due[r] \in Nat
  BY DEF TypeOK

LEMMA StatusIsAStatus ==
  ASSUME NEW total, NEW expected
  PROVE  StatusOf(total, expected) \in {"completed", "failed"}
  BY DEF StatusOf

-----------------------------------------------------------------------------
(***************************************************************************)
(* The invariant.                                                          *)
(***************************************************************************)
\* Orders reach the partition at most once, and run_complete ends the load.
LogGrows == logged <= sent /\ (ended => over)

\* What eachMessage awaits, and for which record: run_complete is being handled from
\* the flush on, and the entry is in the map until it is forgotten.
Awaiting ==
  \A r \in Replicas :
    /\ pc[r] = "lookup" => stats[r] = NoStats /\ (IsOrder(r) \/ IsComplete(r))
    /\ pc[r] \in {"update", "rank", "notify"} => IsComplete(r)
    /\ pc[r] \in {"update", "rank"} => stats[r] # NoStats
    /\ pc[r] = "notify" => stats[r] = NoStats
    /\ tick[r].live => stats[r] # NoStats

\* The log's places are counted from one.
Places == group.committed > 0 /\ \A r \in Replicas : pos[r] > 0

\* A replica that was never given the partition has done nothing.
OthersIdle ==
  /\ group.owner = NoReplica => told = {}
  /\ \A r \in Replicas : group.owner # r => pc[r] = "idle" /\ stats[r] = NoStats

\* No order is counted twice: those counted are among those passed, and among those logged.
CountIsPassed ==
  \A r \in Replicas :
    /\ stats[r] # NoStats => stats[r].total < pos[r] /\ stats[r].total <= logged
    /\ pc[r] = "notify" => due[r] <= logged

\* After the report the owner has nothing left to read.
NothingAfterReport ==
  told # {} =>
    /\ over
    /\ \A r \in Replicas :
         /\ stats[r] = NoStats
         /\ group.owner = r => pc[r] = "idle" /\ pos[r] > logged + 1

\* While the partition has not moved.
Steady == moves = 0 => OthersIdle /\ CountIsPassed /\ NothingAfterReport

IInv ==
  /\ TypeOK /\ LogGrows /\ Awaiting /\ Places /\ ReportedOnce
  /\ Steady /\ VerdictMatchesCount

-----------------------------------------------------------------------------
(***************************************************************************)
(* The log.                                                                *)
(***************************************************************************)
\* A run whose load is not over has no verdict, and nobody handles its end.
LEMMA BeforeTheEnd ==
  ASSUME IInv, ~over
  PROVE  /\ ~ended
         /\ \A r \in Replicas : pc[r] \notin {"update", "rank", "notify"}
         /\ moves = 0 => told = {}
  BY DEF IInv, LogGrows, Awaiting, IsComplete, Steady, NothingAfterReport

LEMMA PublishOrderKeeps ==
  ASSUME IInv, PublishOrder
  PROVE  IInv'
<1> USE DEF PublishOrder
<1>1. /\ sent' = sent + 1 /\ sent < scenario.orders
      /\ logged' \in {logged, logged + 1}
      /\ UNCHANGED <<over, ended, scenario, group, moves, pc, pos, stats, due, tick, row, told>>
      /\ ~over
  OBVIOUS
<1>2. /\ scenario \in [faulty : SUBSET Fallible, orders : Nat, moves : Nat]
      /\ sent \in Nat /\ logged \in Nat /\ logged <= sent
  BY ScenarioAssumption DEF IInv, TypeOK, LogGrows
<1>3. TypeOK'
  BY <1>1, <1>2 DEF IInv, TypeOK
<1>4. LogGrows'
  BY <1>1, <1>2 DEF IInv, LogGrows
<1>5. Awaiting'
  <2> SUFFICES ASSUME NEW r \in Replicas
               PROVE  /\ pc[r] = "lookup" => stats[r] = NoStats /\ (IsOrder(r) \/ IsComplete(r))'
                      /\ pc[r] \notin {"update", "rank", "notify"}
    BY <1>1 DEF IInv, Awaiting
  <2>1. pc[r] \notin {"update", "rank", "notify"} /\ ~ended
    BY <1>1, BeforeTheEnd
  <2>2. ASSUME pc[r] = "lookup"
        PROVE  stats[r] = NoStats /\ IsOrder(r)'
    <3>1. stats[r] = NoStats /\ pos[r] <= logged
      BY <2>1, <2>2 DEF IInv, Awaiting, IsOrder, IsComplete
    <3> QED
      BY <1>1, <1>2, <3>1, ReplicaTypes DEF IInv, IsOrder
  <2> QED
    BY <2>1, <2>2
<1>6. Places' /\ ReportedOnce'
  BY <1>1 DEF IInv, Places, ReportedOnce
<1>7. Steady' /\ VerdictMatchesCount'
  <2> SUFFICES ASSUME moves = 0
               PROVE  OthersIdle' /\ CountIsPassed' /\ NothingAfterReport' /\ told' = {}
    BY <1>1 DEF Steady, VerdictMatchesCount
  <2>1. told = {} /\ OthersIdle /\ CountIsPassed
    BY <1>1, BeforeTheEnd DEF IInv, Steady
  <2>2. OthersIdle' /\ NothingAfterReport'
    BY <1>1, <2>1 DEF OthersIdle, NothingAfterReport
  <2>3. CountIsPassed'
    <3> SUFFICES ASSUME NEW r \in Replicas
                 PROVE  /\ stats[r] # NoStats => stats[r].total < pos[r] /\ stats[r].total <= logged'
                        /\ pc[r] # "notify"
      BY <1>1 DEF CountIsPassed
    <3>1. pc[r] # "notify"
      BY <1>1, BeforeTheEnd
    <3>2. ASSUME stats[r] # NoStats
          PROVE  stats[r].total < pos[r] /\ stats[r].total <= logged'
      <4>1. stats[r].total \in Nat
        BY <3>2, ReplicaTypes DEF IInv, Stats
      <4> QED
        BY <1>1, <1>2, <2>1, <3>2, <4>1 DEF CountIsPassed
    <3> QED
      BY <3>1, <3>2
  <2> QED
    BY <1>1, <2>1, <2>2, <2>3
<1> QED
  BY <1>3, <1>4, <1>5, <1>6, <1>7 DEF IInv

LEMMA PublishCompleteKeeps ==
  ASSUME IInv, PublishComplete
  PROVE  IInv'
<1>1. /\ over' = TRUE /\ ended' \in BOOLEAN /\ ~over
      /\ UNCHANGED <<sent, logged, scenario, group, moves, pc, pos, stats, due, tick, row, told>>
  BY DEF PublishComplete
<1>2. TypeOK' /\ LogGrows' /\ Places' /\ ReportedOnce'
  BY <1>1 DEF IInv, TypeOK, LogGrows, Places, ReportedOnce
<1>3. Awaiting'
  <2>1. \A r \in Replicas : /\ pc[r] \notin {"update", "rank", "notify"}
                            /\ ~ended
    BY <1>1, BeforeTheEnd
  <2> QED
    BY <1>1, <2>1 DEF IInv, Awaiting, IsOrder, IsComplete
<1>4. Steady' /\ VerdictMatchesCount'
  <2>1. moves = 0 => told = {}
    BY <1>1, BeforeTheEnd
  <2> QED
    BY <1>1, <2>1 DEF IInv, Steady, OthersIdle, CountIsPassed, NothingAfterReport, VerdictMatchesCount
<1> QED
  BY <1>2, <1>3, <1>4 DEF IInv

-----------------------------------------------------------------------------
(***************************************************************************)
(* eachMessage of an order, and the lookup.                                *)
(***************************************************************************)
\* What a step that leaves the log and the verdicts alone keeps anyway.
LEMMA LogUntouched ==
  ASSUME IInv, UNCHANGED <<log, moves, told>>
  PROVE  LogGrows' /\ VerdictMatchesCount'
  BY DEF IInv, LogGrows, VerdictMatchesCount, log

\* Only the owner works, as long as the partition has not moved.
LEMMA OnlyOwnerWorks ==
  ASSUME IInv, moves = 0, NEW r \in Replicas, pc[r] # "idle" \/ stats[r] # NoStats
  PROVE  group.owner = r
  BY DEF IInv, Steady, OthersIdle

\* An owner that has something to read or to do has not reported.
LEMMA BusyHasNotReported ==
  ASSUME IInv, moves = 0, NEW r \in Replicas, group.owner = r,
         pc[r] # "idle" \/ IsOrder(r) \/ IsComplete(r)
  PROVE  told = {}
<1> SUFFICES ASSUME told # {}
             PROVE  FALSE
  OBVIOUS
<1>1. pc[r] = "idle" /\ pos[r] > logged + 1
  BY DEF IInv, Steady, NothingAfterReport
<1>2. pos[r] \in Nat /\ logged \in Nat
  BY ScenarioAssumption DEF IInv, TypeOK
<1> QED
  BY <1>1, <1>2 DEF IsOrder, IsComplete

LEMMA CountOrderKeeps ==
  ASSUME IInv, NEW r \in Replicas, CountOrder(r)
  PROVE  IInv'
<1>1. /\ pc' = [pc EXCEPT ![r] = "idle"] /\ pc[r] = "idle" /\ group.owner = r
      /\ pos' = [pos EXCEPT ![r] = pos[r] + 1]
      /\ stats' = [stats EXCEPT ![r] = Counted(stats[r], tick[r])]
      /\ IsOrder(r) /\ stats[r] \in Stats /\ tick[r] \in Tick \cup {NoTick}
      /\ UNCHANGED <<log, group, moves, due, tick, row, told>>
  <2>1. stats[r] \in Stats /\ tick[r] \in Tick \cup {NoTick}
    BY StatsAreSome, ReplicaTypes DEF CountOrder, IInv
  <2> QED
    BY <2>1 DEF CountOrder, Consumes, Consumed, Goto
<1>2. Counted(stats[r], tick[r]) \in Stats /\ Counted(stats[r], tick[r]) # NoStats
  BY <1>1, CountedIs, StatsAreSome
<1>3. TypeOK'
  BY <1>1, <1>2 DEF IInv, TypeOK, log
<1>4. Awaiting'
  BY <1>1, <1>2 DEF IInv, TypeOK, Awaiting, IsOrder, IsComplete, log
<1>5. Places'
  BY <1>1 DEF IInv, TypeOK, Places
<1>6. ReportedOnce'
  <2> SUFFICES ASSUME NEW q \in Replicas, stats'[q] # NoStats
               PROVE  stats'[q].reported + stats'[q].window = stats'[q].total
    BY DEF ReportedOnce
  <2>1. CASE q = r
    <3>1. stats[r] # NoStats /\ stats'[r] = Counted(stats[r], tick[r])
      BY <1>1, StatsAreSome DEF IInv, TypeOK
    <3>2. /\ Counted(stats[r], tick[r]).total = stats[r].total + 1
          /\ Counted(stats[r], tick[r]).window = stats[r].window + 1
          /\ Counted(stats[r], tick[r]).reported = stats[r].reported
      BY <1>1, CountedIs
    <3>3. /\ stats[r].total \in Nat /\ stats[r].window \in Nat /\ stats[r].reported \in Nat
          /\ stats[r].reported + stats[r].window = stats[r].total
      BY <1>1, <3>1 DEF IInv, ReportedOnce, Stats
    <3> QED
      BY <2>1, <3>1, <3>2, <3>3
  <2>2. CASE q # r
    BY <1>1, <2>2 DEF IInv, TypeOK, ReportedOnce
  <2> QED
    BY <2>1, <2>2
<1>7. Steady'
  <2> SUFFICES ASSUME moves = 0
               PROVE  OthersIdle' /\ CountIsPassed' /\ NothingAfterReport'
    BY <1>1 DEF Steady
  <2>1. told = {}
    BY <1>1, BusyHasNotReported
  <2>2. OthersIdle' /\ NothingAfterReport'
    BY <1>1, <2>1 DEF IInv, TypeOK, Steady, OthersIdle, NothingAfterReport
  <2>3. CountIsPassed'
    <3>1. stats[r].total \in Nat /\ stats[r].total < pos[r] /\ pos[r] <= logged
      BY <1>1, StatsAreSome DEF IInv, Steady, CountIsPassed, IsOrder, Stats
    <3>2. Counted(stats[r], tick[r]).total = stats[r].total + 1
      BY <1>1, CountedIs
    <3>3. pos[r] \in Nat /\ logged \in Nat
      BY ScenarioAssumption DEF IInv, TypeOK
    <3>4. stats'[r].total < pos'[r] /\ stats'[r].total <= logged
      BY <1>1, <3>1, <3>2, <3>3 DEF IInv, TypeOK
    <3> QED
      BY <1>1, <3>4 DEF IInv, TypeOK, Steady, CountIsPassed, log
  <2> QED
    BY <2>2, <2>3
<1> QED
  BY <1>1, <1>3, <1>4, <1>5, <1>6, <1>7, LogUntouched DEF IInv

LEMMA StartLookupKeeps ==
  ASSUME IInv, NEW r \in Replicas, StartLookup(r)
  PROVE  IInv'
<1>1. /\ pc' = [pc EXCEPT ![r] = "lookup"] /\ pc[r] = "idle" /\ group.owner = r
      /\ IsOrder(r) \/ IsComplete(r)
      /\ stats[r] = NoStats
      /\ UNCHANGED <<log, group, moves, pos, stats, due, tick, row, told>>
  BY DEF StartLookup, Consumes, Goto
<1>2. TypeOK' /\ Places' /\ ReportedOnce'
  BY <1>1 DEF IInv, TypeOK, Places, ReportedOnce, log
<1>3. Awaiting'
  BY <1>1 DEF IInv, TypeOK, Awaiting, IsOrder, IsComplete, log
<1>4. Steady'
  <2> SUFFICES ASSUME moves = 0
               PROVE  OthersIdle' /\ CountIsPassed' /\ NothingAfterReport'
    BY <1>1 DEF Steady
  <2>1. told = {}
    BY <1>1, BusyHasNotReported
  <2> QED
    BY <1>1, <2>1 DEF IInv, TypeOK, Steady, OthersIdle, CountIsPassed, NothingAfterReport, log
<1> QED
  BY <1>1, <1>2, <1>3, <1>4, LogUntouched DEF IInv

LEMMA LookupReturnsKeeps ==
  ASSUME IInv, NEW r \in Replicas, LookupReturns(r)
  PROVE  IInv'
<1>1. /\ pc[r] = "lookup" /\ stats[r] = NoStats
      /\ IsOrder(r) \/ IsComplete(r)
      /\ UNCHANGED <<log, group, moves, due, tick, row, told>>
  BY DEF LookupReturns, IInv, Awaiting
<1>2. moves = 0 => group.owner = r /\ told = {}
  BY <1>1, OnlyOwnerWorks, BusyHasNotReported
<1>3. PICK s \in {Counted(Empty, NoTick), Empty} : stats' = [stats EXCEPT ![r] = s]
  BY DEF LookupReturns
<1>4. /\ s \in Stats /\ s # NoStats
      /\ s.reported + s.window = s.total
      /\ Counted(Empty, NoTick).total = 1 /\ Empty.total = 0
  BY EmptyIs, CountedEmptyIs, StatsAreSome
<1>5. ReportedOnce'
  BY <1>3, <1>4 DEF IInv, TypeOK, ReportedOnce
<1>6. CASE IsOrder(r)
  <2>1. /\ pc' = [pc EXCEPT ![r] = "idle"]
        /\ pos' = [pos EXCEPT ![r] = pos[r] + 1]
        /\ stats' = [stats EXCEPT ![r] = Counted(Empty, NoTick)]
    BY <1>6 DEF LookupReturns, Consumed, Goto
  <2>2. Counted(Empty, NoTick) \in Stats /\ Counted(Empty, NoTick) # NoStats
    BY CountedEmptyIs
  <2>3. TypeOK' /\ Places'
    BY <1>1, <2>1, <2>2 DEF IInv, TypeOK, Places, log
  <2>4. Awaiting'
    BY <1>1, <2>1, <2>2 DEF IInv, TypeOK, Awaiting, IsOrder, IsComplete, log
  <2>5. Steady'
    <3> SUFFICES ASSUME moves = 0
                 PROVE  OthersIdle' /\ CountIsPassed' /\ NothingAfterReport'
      BY <1>1 DEF Steady
    <3>1. OthersIdle' /\ NothingAfterReport'
      BY <1>1, <1>2, <2>1 DEF IInv, TypeOK, Steady, OthersIdle, NothingAfterReport
    <3>2. pos[r] \in Nat /\ pos[r] > 0 /\ logged \in Nat /\ pos[r] <= logged
      BY <1>6, ScenarioAssumption DEF IInv, TypeOK, Places, IsOrder
    <3>3. stats'[r].total < pos'[r] /\ stats'[r].total <= logged
      <4>1. stats'[r].total = 1 /\ pos'[r] = pos[r] + 1
        BY <1>4, <2>1 DEF IInv, TypeOK
      <4> QED
        BY <3>2, <4>1
    <3>4. CountIsPassed'
      BY <1>1, <2>1, <3>3 DEF IInv, TypeOK, Steady, CountIsPassed, log
    <3> QED
      BY <3>1, <3>4
  <2> QED
    BY <1>1, <1>5, <2>3, <2>4, <2>5, LogUntouched DEF IInv
<1>7. CASE ~IsOrder(r)
  <2>1. /\ pc' = [pc EXCEPT ![r] = "update"]
        /\ pos' = pos
        /\ stats' = [stats EXCEPT ![r] = Empty]
        /\ IsComplete(r)
    BY <1>1, <1>7 DEF LookupReturns, Goto
  <2>2. Empty \in Stats /\ Empty # NoStats
    BY EmptyIs, StatsAreSome
  <2>3. TypeOK' /\ Places'
    BY <1>1, <2>1, <2>2 DEF IInv, TypeOK, Places, log
  <2>4. Awaiting'
    BY <1>1, <2>1, <2>2 DEF IInv, TypeOK, Awaiting, IsOrder, IsComplete, log
  <2>5. Steady'
    <3> SUFFICES ASSUME moves = 0
                 PROVE  OthersIdle' /\ CountIsPassed' /\ NothingAfterReport'
      BY <1>1 DEF Steady
    <3>1. OthersIdle' /\ NothingAfterReport'
      BY <1>1, <1>2, <2>1 DEF IInv, TypeOK, Steady, OthersIdle, NothingAfterReport
    <3>2. pos[r] \in Nat /\ pos[r] > 0 /\ logged \in Nat
      BY ScenarioAssumption DEF IInv, TypeOK, Places
    <3>3. stats'[r].total < pos'[r] /\ stats'[r].total <= logged
      BY <1>4, <2>1, <3>2 DEF IInv, TypeOK
    <3>4. CountIsPassed'
      BY <1>1, <2>1, <3>3 DEF IInv, TypeOK, Steady, CountIsPassed, log
    <3> QED
      BY <3>1, <3>4
  <2> QED
    BY <1>1, <1>5, <2>3, <2>4, <2>5, LogUntouched DEF IInv
<1> QED
  BY <1>6, <1>7

-----------------------------------------------------------------------------
(***************************************************************************)
(* eachMessage of run_complete, and records that are given up.             *)
(***************************************************************************)
\* A record is done with, and nothing but the row and the verdicts has changed.
LEMMA ConsumedKeeps ==
  ASSUME IInv, NEW r \in Replicas, pc[r] \in {"lookup", "update", "rank", "notify"},
         Consumed(r), row' \in Nat, told' \subseteq Verdict,
         UNCHANGED <<log, group, moves, stats, due, tick>>,
         moves = 0 => NothingAfterReport',
         VerdictMatchesCount'
  PROVE  IInv'
<1>1. /\ pc' = [pc EXCEPT ![r] = "idle"]
      /\ pos' = [pos EXCEPT ![r] = pos[r] + 1]
  BY DEF Consumed, Goto
<1>2. TypeOK' /\ Places' /\ LogGrows' /\ ReportedOnce'
  BY <1>1 DEF IInv, TypeOK, Places, LogGrows, ReportedOnce, log
<1>3. Awaiting'
  BY <1>1 DEF IInv, TypeOK, Awaiting, IsOrder, IsComplete, log
<1>4. Steady'
  <2> SUFFICES ASSUME moves = 0
               PROVE  OthersIdle' /\ CountIsPassed'
    BY DEF Steady
  <2>1. OthersIdle'
    BY <1>1, OnlyOwnerWorks, NobodyAssumption DEF IInv, TypeOK, Steady, OthersIdle
  <2>2. CountIsPassed'
    <3> SUFFICES ASSUME NEW q \in Replicas
                 PROVE  /\ stats[q] # NoStats => stats[q].total < pos'[q] /\ stats[q].total <= logged
                        /\ pc'[q] = "notify" => due[q] <= logged
      BY DEF CountIsPassed, log
    <3>1. pc'[q] = "notify" => due[q] <= logged
      BY <1>1 DEF IInv, TypeOK, Steady, CountIsPassed
    <3>2. ASSUME stats[q] # NoStats
          PROVE  stats[q].total < pos'[q] /\ stats[q].total <= logged
      <4>1. stats[q].total \in Nat /\ pos[q] \in Nat /\ pos'[q] \in {pos[q], pos[q] + 1}
        BY <1>1, <3>2, ReplicaTypes DEF IInv, TypeOK, Stats
      <4>2. stats[q].total < pos[q] /\ stats[q].total <= logged
        BY <3>2 DEF IInv, Steady, CountIsPassed
      <4> QED
        BY <4>1, <4>2
    <3> QED
      BY <3>1, <3>2
  <2> QED
    BY <2>1, <2>2
<1> QED
  BY <1>2, <1>3, <1>4 DEF IInv

LEMMA ThrowsKeeps ==
  ASSUME IInv, NEW r \in Replicas, LookupThrows(r) \/ UpdateThrows(r) \/ RankThrows(r)
  PROVE  IInv'
<1>1. /\ pc[r] \in {"lookup", "update", "rank"} /\ Consumed(r)
      /\ UNCHANGED <<log, group, moves, stats, due, tick, told>>
  BY DEF LookupThrows, UpdateThrows, RankThrows
<1>2. row' \in Nat
  <2>1. CASE UpdateThrows(r)
    <3>1. stats[r].total \in Nat
      BY <2>1, ReplicaTypes DEF UpdateThrows, IInv, Awaiting, Stats
    <3> QED
      BY <2>1, <3>1 DEF UpdateThrows, IInv, TypeOK
  <2> QED
    BY <2>1 DEF LookupThrows, RankThrows, IInv, TypeOK
<1>3. moves = 0 => told = {}
  BY <1>1, OnlyOwnerWorks, BusyHasNotReported
<1>4. VerdictMatchesCount' /\ told' \subseteq Verdict
  BY <1>1, LogUntouched DEF IInv, TypeOK
<1> QED
  BY <1>1, <1>2, <1>3, <1>4, ConsumedKeeps DEF NothingAfterReport

LEMMA StartFinalizeKeeps ==
  ASSUME IInv, NEW r \in Replicas, StartFinalize(r)
  PROVE  IInv'
<1>1. /\ pc' = [pc EXCEPT ![r] = "update"] /\ pc[r] = "idle" /\ group.owner = r
      /\ IsComplete(r) /\ stats[r] \in Stats
      /\ stats' = [stats EXCEPT ![r] = [stats[r] EXCEPT !.copy = Latencies(stats[r])]]
      /\ UNCHANGED <<log, group, moves, pos, due, tick, row, told>>
  BY ReplicaTypes, StatsAreSome DEF StartFinalize, Consumes, Goto, IInv
<1>2. /\ stats' \in [Replicas -> Stats \cup {NoStats}]
      /\ ReportedOnce'
      /\ \A q \in Replicas : /\ stats'[q] = NoStats <=> stats[q] = NoStats
                             /\ stats'[q].total = stats[q].total
  <2> DEFINE s == [stats[r] EXCEPT !.copy = Latencies(stats[r])]
  <2>1. stats[r].reported + stats[r].window = stats[r].total
    BY <1>1, StatsAreSome DEF IInv, ReportedOnce
  <2>2. /\ s \in Stats /\ s.total = stats[r].total
        /\ s.window = stats[r].window /\ s.reported = stats[r].reported
    BY <1>1, <2>1, LatenciesAre DEF Stats
  <2>3. s # NoStats /\ stats[r] # NoStats
    BY <1>1, <2>2, StatsAreSome
  <2> QED
    BY <1>1, <2>1, <2>2, <2>3 DEF IInv, TypeOK, ReportedOnce
<1>3. TypeOK' /\ Places'
  BY <1>1, <1>2 DEF IInv, TypeOK, Places, log
<1>4. Awaiting'
  BY <1>1, <1>2, StatsAreSome DEF IInv, TypeOK, Awaiting, IsOrder, IsComplete, log
<1>5. Steady'
  <2> SUFFICES ASSUME moves = 0
               PROVE  OthersIdle' /\ CountIsPassed' /\ NothingAfterReport'
    BY <1>1 DEF Steady
  <2>1. told = {}
    BY <1>1, BusyHasNotReported
  <2> QED
    BY <1>1, <1>2, <2>1 DEF IInv, TypeOK, Steady, OthersIdle, CountIsPassed, NothingAfterReport, log
<1> QED
  BY <1>1, <1>2, <1>3, <1>4, <1>5, LogUntouched DEF IInv

\* The entry leaves the map, and finalize() keeps its count, which is of orders that
\* were logged.
LEMMA ForgetKeeps ==
  ASSUME IInv, NEW r \in Replicas, pc[r] \in {"update", "rank"},
         Forget(r), Goto(r, "notify"), row' \in Nat,
         UNCHANGED <<log, group, moves, pos, told>>
  PROVE  IInv'
<1>1. /\ due' = [due EXCEPT ![r] = stats[r].total]
      /\ stats' = [stats EXCEPT ![r] = NoStats]
      /\ tick' = [tick EXCEPT ![r] = [tick[r] EXCEPT !.live = FALSE]]
      /\ pc' = [pc EXCEPT ![r] = "notify"]
  BY DEF Forget, Goto
<1>2. /\ stats[r] # NoStats /\ stats[r].total \in Nat
      /\ IsComplete(r)
  BY ReplicaTypes DEF IInv, Awaiting, Stats
<1>3. [tick[r] EXCEPT !.live = FALSE] \in Tick \cup {NoTick}
  <2>1. CASE tick[r] \in Tick
    BY <2>1 DEF Tick
  <2>2. CASE tick[r] = NoTick
    BY <2>2, NoTickStays
  <2> QED
    BY <2>1, <2>2, ReplicaTypes DEF IInv
<1>4. TypeOK'
  BY <1>1, <1>2, <1>3 DEF IInv, TypeOK, log
<1>5. Places' /\ ReportedOnce'
  BY <1>1 DEF IInv, TypeOK, Places, ReportedOnce
<1>6. Awaiting'
  <2>1. tick'[r].live = FALSE
    BY <1>1, ReplicaTypes DEF IInv, TypeOK, Tick, NoTick
  <2> QED
    BY <1>1, <1>2, <2>1 DEF IInv, TypeOK, Awaiting, IsOrder, IsComplete, log
<1>7. Steady'
  <2> SUFFICES ASSUME moves = 0
               PROVE  OthersIdle' /\ CountIsPassed' /\ NothingAfterReport'
    BY DEF Steady
  <2>1. told = {} /\ group.owner = r
    BY OnlyOwnerWorks, BusyHasNotReported
  <2>2. OthersIdle' /\ NothingAfterReport'
    BY <1>1, <2>1 DEF IInv, TypeOK, Steady, OthersIdle, NothingAfterReport
  <2>3. CountIsPassed'
    BY <1>1, <1>2 DEF IInv, TypeOK, Steady, CountIsPassed, log
  <2> QED
    BY <2>2, <2>3
<1> QED
  BY <1>4, <1>5, <1>6, <1>7, LogUntouched DEF IInv

\* A window is reported: the counts stay what they are.
LEMMA ReportKeeps ==
  ASSUME IInv, NEW r \in Replicas, stats[r] # NoStats, NEW copy \in SUBSET Nat,
         stats' = [stats EXCEPT ![r] = Reported(stats[r], copy)],
         UNCHANGED <<log, group, moves, pos, due, told>>
  PROVE  /\ stats' \in [Replicas -> Stats \cup {NoStats}]
         /\ ReportedOnce'
         /\ \A q \in Replicas : /\ stats'[q] = NoStats <=> stats[q] = NoStats
                                /\ stats'[q].total = stats[q].total
<1>1. stats[r] \in Stats
  BY ReplicaTypes, StatsAreSome DEF IInv
<1>2. /\ Reported(stats[r], copy) \in Stats /\ Reported(stats[r], copy) # NoStats
      /\ Reported(stats[r], copy).total = stats[r].total
  BY <1>1, ReportedIs, StatsAreSome
<1>3. stats' \in [Replicas -> Stats \cup {NoStats}]
  BY <1>2 DEF IInv, TypeOK
<1>4. ASSUME NEW q \in Replicas
      PROVE  /\ stats'[q] = NoStats <=> stats[q] = NoStats
             /\ stats'[q].total = stats[q].total
  BY <1>2 DEF IInv, TypeOK
<1>5. ASSUME NEW q \in Replicas, stats'[q] # NoStats
      PROVE  stats'[q].reported + stats'[q].window = stats'[q].total
  <2>1. CASE q = r
    <3>1. stats'[r] = Reported(stats[r], copy)
      BY DEF IInv, TypeOK
    <3> QED
      BY <1>1, <2>1, <3>1, ReportedIs DEF IInv, ReportedOnce, Stats
  <2>2. CASE q # r
    BY <1>5, <2>2 DEF IInv, TypeOK, ReportedOnce
  <2> QED
    BY <2>1, <2>2
<1> QED
  BY <1>3, <1>4, <1>5 DEF ReportedOnce

LEMMA UpdateReturnsKeeps ==
  ASSUME IInv, NEW r \in Replicas, UpdateReturns(r)
  PROVE  IInv'
<1>1. /\ pc[r] = "update" /\ stats[r] # NoStats
      /\ UNCHANGED <<log, group, moves, pos, told>>
  BY DEF UpdateReturns, IInv, Awaiting
<1>2. row' \in Nat
  BY <1>1, ReplicaTypes DEF UpdateReturns, IInv, Stats
<1>3. CASE Forget(r) /\ Goto(r, "notify")
  BY <1>1, <1>2, <1>3, ForgetKeeps
<1>4. CASE /\ stats' = [stats EXCEPT ![r] = Reported(stats[r], stats[r].copy)]
           /\ Goto(r, "rank")
           /\ UNCHANGED <<due, tick>>
  <2>1. pc' = [pc EXCEPT ![r] = "rank"]
    BY <1>4 DEF Goto
  <2>2. /\ stats' \in [Replicas -> Stats \cup {NoStats}]
        /\ ReportedOnce'
        /\ \A q \in Replicas : /\ stats'[q] = NoStats <=> stats[q] = NoStats
                               /\ stats'[q].total = stats[q].total
    <3>1. stats[r].copy \in SUBSET Nat
      BY <1>1, ReplicaTypes, StatsAreSome DEF IInv, Stats
    <3> QED
      BY <1>1, <1>4, <3>1, ReportKeeps
  <2>3. TypeOK' /\ Places'
    BY <1>1, <1>2, <1>4, <2>1, <2>2 DEF IInv, TypeOK, Places, log
  <2>4. Awaiting'
    BY <1>1, <1>4, <2>1, <2>2 DEF IInv, TypeOK, Awaiting, IsOrder, IsComplete, log
  <2>5. Steady'
    <3> SUFFICES ASSUME moves = 0
                 PROVE  OthersIdle' /\ CountIsPassed' /\ NothingAfterReport'
      BY <1>1 DEF Steady
    <3>1. told = {} /\ group.owner = r
      BY <1>1, OnlyOwnerWorks, BusyHasNotReported
    <3>2. OthersIdle' /\ NothingAfterReport'
      BY <1>1, <2>1, <2>2, <3>1 DEF IInv, TypeOK, Steady, OthersIdle, NothingAfterReport
    <3>3. CountIsPassed'
      BY <1>1, <1>4, <2>1, <2>2 DEF IInv, TypeOK, Steady, CountIsPassed, log
    <3> QED
      BY <3>2, <3>3
  <2> QED
    BY <1>1, <2>2, <2>3, <2>4, <2>5, LogUntouched DEF IInv
<1> QED
  BY <1>3, <1>4 DEF UpdateReturns

LEMMA RankReturnsKeeps ==
  ASSUME IInv, NEW r \in Replicas, RankReturns(r)
  PROVE  IInv'
<1>1. pc[r] = "rank" /\ row' \in Nat
  BY DEF RankReturns, IInv, TypeOK
<1> QED
  BY <1>1, ForgetKeeps DEF RankReturns

\* The verdict on a count of logged orders, once no more are sent.
LEMMA AnswerMatches ==
  ASSUME IInv, NEW r \in Replicas, pc[r] = "notify", moves = 0
  PROVE  IF Answer(r).status = "completed" THEN Answer(r).total = sent /\ logged = sent
                                           ELSE Answer(r).total < sent \/ sent = 0
<1>1. /\ due[r] \in Nat /\ due[r] <= logged
      /\ logged \in Nat /\ sent \in Nat /\ logged <= sent
  BY ScenarioAssumption DEF IInv, TypeOK, LogGrows, Steady, CountIsPassed
<1>2. /\ Answer(r).total = due[r]
      /\ Answer(r).status = StatusOf(due[r], sent)
  BY DEF Answer
<1>3. CASE due[r] = 0 \/ due[r] < sent
  <2>1. StatusOf(due[r], sent) = "failed"
    BY <1>1, <1>3 DEF StatusOf
  <2> QED
    BY <1>1, <1>2, <1>3, <2>1
<1>4. CASE ~(due[r] = 0 \/ due[r] < sent)
  <2>1. StatusOf(due[r], sent) = "completed"
    BY <1>1, <1>4 DEF StatusOf
  <2>2. due[r] = sent /\ logged = sent
    BY <1>1, <1>4
  <2> QED
    BY <1>2, <2>1, <2>2
<1> QED
  BY <1>3, <1>4

LEMMA NotifyKeeps ==
  ASSUME IInv, NEW r \in Replicas, NotifyReturns(r) \/ NotifyThrows(r)
  PROVE  IInv'
<1>1. /\ pc[r] = "notify" /\ Consumed(r)
      /\ told' = told \/ told' = told \cup {Answer(r)}
      /\ UNCHANGED <<log, group, moves, stats, due, tick, row>>
  BY DEF NotifyReturns, NotifyThrows
<1>2. Answer(r) \in Verdict
  BY StatusIsAStatus, ReplicaTypes DEF IInv, Answer, Verdict
<1>3. told' \subseteq Verdict /\ row' \in Nat
  BY <1>1, <1>2 DEF IInv, TypeOK
<1>4. VerdictMatchesCount'
  <2> SUFFICES ASSUME moves = 0, NEW v \in told'
               PROVE  IF v.status = "completed" THEN v.total = sent /\ logged = sent
                                                ELSE v.total < sent \/ sent = 0
    BY <1>1 DEF VerdictMatchesCount, log
  <2>1. CASE v \in told
    BY <2>1 DEF IInv, VerdictMatchesCount
  <2>2. CASE v = Answer(r)
    BY <1>1, <2>2, AnswerMatches
  <2> QED
    BY <1>1, <2>1, <2>2
<1>5. ASSUME moves = 0
      PROVE  NothingAfterReport'
  <2>1. group.owner = r /\ stats[r] = NoStats /\ IsComplete(r)
    BY <1>1, <1>5, OnlyOwnerWorks DEF IInv, Awaiting
  <2>2. over /\ \A q \in Replicas : stats[q] = NoStats
    BY <1>5, <2>1 DEF IInv, LogGrows, IsComplete, Steady, OthersIdle
  <2>3. pc'[r] = "idle" /\ pos'[r] > logged + 1
    <3>1. pos[r] = logged + 1 /\ pos[r] \in Nat /\ logged \in Nat
      BY <2>1, ScenarioAssumption DEF IInv, TypeOK, IsComplete
    <3>2. pc'[r] = "idle" /\ pos'[r] = pos[r] + 1
      BY <1>1 DEF IInv, TypeOK, Consumed, Goto
    <3> QED
      BY <3>1, <3>2
  <2> QED
    BY <1>1, <2>1, <2>2, <2>3 DEF NothingAfterReport, log
<1> QED
  BY <1>1, <1>3, <1>4, <1>5, ConsumedKeeps

-----------------------------------------------------------------------------
(***************************************************************************)
(* The tick.                                                               *)
(***************************************************************************)
LEMMA StartTickKeeps ==
  ASSUME IInv, NEW r \in Replicas, StartTick(r)
  PROVE  IInv'
<1>1. /\ tick' = [tick EXCEPT ![r] = [total |-> stats[r].total,
                                      copy |-> Latencies(stats[r]), live |-> TRUE]]
      /\ stats[r] \in Stats /\ stats[r] # NoStats
      /\ UNCHANGED <<log, group, moves, pc, pos, stats, due, row, told>>
  BY ReplicaTypes, StatsAreSome DEF StartTick, IInv
<1>2. [total |-> stats[r].total, copy |-> Latencies(stats[r]), live |-> TRUE] \in Tick
  <2>1. stats[r].reported + stats[r].window = stats[r].total
    BY <1>1 DEF IInv, ReportedOnce
  <2> QED
    BY <1>1, <2>1, LatenciesAre DEF Stats, Tick
<1>3. TypeOK'
  BY <1>1, <1>2 DEF IInv, TypeOK, log
<1>4. Places' /\ ReportedOnce' /\ Steady'
  BY <1>1 DEF IInv, Places, ReportedOnce, Steady, OthersIdle, CountIsPassed,
              NothingAfterReport, log
<1>5. Awaiting'
  BY <1>1 DEF IInv, TypeOK, Awaiting, IsOrder, IsComplete, log
<1> QED
  BY <1>1, <1>3, <1>4, <1>5, LogUntouched DEF IInv

LEMMA TickEndsKeeps ==
  ASSUME IInv, NEW r \in Replicas, TickReturns(r) \/ TickThrows(r)
  PROVE  IInv'
<1>1. /\ tick[r] \in Tick
      /\ tick' = [tick EXCEPT ![r] = NoTick]
      /\ row' \in {row, tick[r].total}
      /\ UNCHANGED <<log, group, moves, pc, pos, due, told>>
  BY ReplicaTypes, TickIsSome DEF TickReturns, TickThrows, IInv
<1>2. row' \in Nat
  BY <1>1 DEF IInv, TypeOK, Tick
<1>3. \/ stats' = stats
      \/ /\ stats' = [stats EXCEPT ![r] = Reported(stats[r], tick[r].copy)]
         /\ stats[r] # NoStats
  BY DEF TickReturns, TickThrows, IInv, Awaiting
<1>4. /\ stats' \in [Replicas -> Stats \cup {NoStats}]
      /\ ReportedOnce'
      /\ \A q \in Replicas : /\ stats'[q] = NoStats <=> stats[q] = NoStats
                             /\ stats'[q].total = stats[q].total
  <2>1. CASE stats' = stats
    BY <2>1 DEF IInv, TypeOK, ReportedOnce
  <2>2. CASE stats[r] # NoStats /\ stats' = [stats EXCEPT ![r] = Reported(stats[r], tick[r].copy)]
    <3>1. tick[r].copy \in SUBSET Nat
      BY <1>1 DEF Tick
    <3> QED
      BY <1>1, <2>2, <3>1, ReportKeeps
  <2> QED
    BY <1>3, <2>1, <2>2
<1>5. TypeOK'
  BY <1>1, <1>2, <1>4 DEF IInv, TypeOK, log
<1>6. Places' /\ Steady'
  BY <1>1, <1>4 DEF IInv, Places, Steady, OthersIdle, CountIsPassed, NothingAfterReport, log
<1>7. Awaiting'
  <2>1. tick'[r].live = FALSE /\ \A q \in Replicas : q # r => tick'[q] = tick[q]
    BY <1>1 DEF IInv, TypeOK, NoTick
  <2> QED
    BY <1>1, <1>4, <2>1 DEF IInv, Awaiting, IsOrder, IsComplete, log
<1> QED
  BY <1>1, <1>4, <1>5, <1>6, <1>7, LogUntouched DEF IInv

-----------------------------------------------------------------------------
(***************************************************************************)
(* The consumer group.                                                     *)
(***************************************************************************)
LEMMA CommitKeeps ==
  ASSUME IInv, NEW r \in Replicas, Commit(r)
  PROVE  IInv'
<1>1. /\ group' = [group EXCEPT !.committed = pos[r]]
      /\ UNCHANGED <<log, moves, pc, pos, stats, due, tick, row, told>>
  BY DEF Commit
<1>2. /\ group'.owner = group.owner /\ group'.committed = pos[r]
      /\ group' \in [owner : Replicas \cup {NoReplica}, committed : Nat]
  BY <1>1 DEF IInv, TypeOK
<1>3. TypeOK' /\ Places' /\ ReportedOnce' /\ Awaiting'
  BY <1>1, <1>2 DEF IInv, TypeOK, Places, ReportedOnce, Awaiting, IsOrder, IsComplete, log
<1>4. Steady'
  BY <1>1, <1>2 DEF IInv, Steady, OthersIdle, CountIsPassed, NothingAfterReport, log
<1> QED
  BY <1>1, <1>3, <1>4, LogUntouched DEF IInv

LEMMA AssignKeeps ==
  ASSUME IInv, NEW r \in Replicas, Assign(r)
  PROVE  IInv'
<1>1. /\ group.owner = NoReplica /\ pc[r] = "idle"
      /\ group' = [group EXCEPT !.owner = r]
      /\ pos' = [pos EXCEPT ![r] = group.committed]
      /\ UNCHANGED <<log, moves, pc, stats, due, tick, row, told>>
  BY DEF Assign
<1>2. /\ group'.owner = r /\ group'.committed = group.committed
      /\ group' \in [owner : Replicas \cup {NoReplica}, committed : Nat]
  BY <1>1 DEF IInv, TypeOK
<1>3. TypeOK' /\ Places' /\ ReportedOnce'
  BY <1>1, <1>2 DEF IInv, TypeOK, Places, ReportedOnce, log
<1>4. Awaiting'
  BY <1>1 DEF IInv, TypeOK, Awaiting, IsOrder, IsComplete, log
<1>5. Steady'
  <2> SUFFICES ASSUME moves = 0
               PROVE  OthersIdle' /\ CountIsPassed' /\ NothingAfterReport'
    BY <1>1 DEF Steady
  <2>1. told = {} /\ \A q \in Replicas : pc[q] = "idle" /\ stats[q] = NoStats
    BY <1>1, NobodyAssumption DEF IInv, Steady, OthersIdle
  <2> QED
    BY <1>1, <2>1 DEF OthersIdle, CountIsPassed, NothingAfterReport
<1> QED
  BY <1>1, <1>3, <1>4, <1>5, LogUntouched DEF IInv

\* From the first move on nothing is promised of the verdicts.
LEMMA MoveKeeps ==
  ASSUME IInv, NEW r \in Replicas, Revoke(r) \/ Crash(r)
  PROVE  IInv'
<1>1. /\ moves < scenario.moves /\ moves' = moves + 1
      /\ UNCHANGED <<log, pos, due, row, told>>
  BY DEF Revoke, Crash
<1>2. moves' # 0 /\ moves' \in 0..scenario.moves
  BY <1>1, ScenarioAssumption DEF IInv, TypeOK
<1>3. /\ group' \in [owner : Replicas \cup {NoReplica}, committed : Nat]
      /\ group'.committed = group.committed
  BY DEF Revoke, Crash, IInv, TypeOK
<1>4. TypeOK' /\ ReportedOnce' /\ Awaiting'
  <2>1. CASE Revoke(r)
    <3>1. UNCHANGED <<pc, stats, tick>>
      BY <2>1 DEF Revoke
    <3> QED
      BY <1>1, <1>2, <1>3, <3>1
         DEF IInv, TypeOK, ReportedOnce, Awaiting, IsOrder, IsComplete, log
  <2>2. CASE Crash(r)
    <3>1. /\ pc' = [pc EXCEPT ![r] = "down"]
          /\ stats' = [stats EXCEPT ![r] = NoStats]
          /\ tick' = [tick EXCEPT ![r] = NoTick]
      BY <2>2 DEF Crash, Goto
    <3> QED
      BY <1>1, <1>2, <1>3, <3>1
         DEF IInv, TypeOK, ReportedOnce, Awaiting, IsOrder, IsComplete, log, NoTick
  <2> QED
    BY <2>1, <2>2
<1>5. LogGrows' /\ Places' /\ Steady' /\ VerdictMatchesCount'
  BY <1>1, <1>2, <1>3 DEF IInv, LogGrows, Places, Steady, VerdictMatchesCount, log
<1> QED
  BY <1>4, <1>5 DEF IInv

LEMMA RestartKeeps ==
  ASSUME IInv, NEW r \in Replicas, Restart(r)
  PROVE  IInv'
<1>1. /\ pc[r] = "down" /\ pc' = [pc EXCEPT ![r] = "idle"]
      /\ UNCHANGED <<log, group, moves, pos, stats, due, tick, row, told>>
  BY DEF Restart, Goto
<1>2. TypeOK' /\ Places' /\ ReportedOnce' /\ Awaiting'
  BY <1>1 DEF IInv, TypeOK, Places, ReportedOnce, Awaiting, IsOrder, IsComplete, log
<1>3. Steady'
  BY <1>1 DEF IInv, TypeOK, Steady, OthersIdle, CountIsPassed, NothingAfterReport, log
<1> QED
  BY <1>1, <1>2, <1>3, LogUntouched DEF IInv

-----------------------------------------------------------------------------
(***************************************************************************)
(* The latencies.  With counts that add up, the open window of an entry is *)
(* what follows 1..reported: the broadcasts have heard those and no others,*)
(* but for what was counted during a tick; and what a flush has copied     *)
(* covers the open window until it is reported.                            *)
(***************************************************************************)
HeardSoFar(s) ==
  /\ \A o \in s.heard : o \in 1..s.reported
  /\ \A o \in 1..s.reported : o \in s.heard \/ o \in s.during

Covers(s, copy) ==
  /\ \A o \in copy : o \in 1..s.total
  /\ \A o \in (s.reported + 1)..s.total : o \in copy \/ o \in s.during

LatInv ==
  \A r \in Replicas : stats[r] # NoStats =>
    /\ HeardSoFar(stats[r])
    /\ tick[r].live => Covers(stats[r], tick[r].copy)
    /\ pc[r] = "update" => Covers(stats[r], stats[r].copy)

LEMMA LatInvSuffices ==
  ASSUME IInv, LatInv
  PROVE  LatenciesHeard
<1> SUFFICES ASSUME NEW r \in Replicas, stats[r] # NoStats
             PROVE  /\ (1..stats[r].total) \ stats[r].during \subseteq
                          stats[r].heard \cup Latencies(stats[r])
                    /\ stats[r].heard \cap Latencies(stats[r]) = {}
  BY DEF LatenciesHeard
<1>1. /\ stats[r] \in Stats
      /\ stats[r].reported + stats[r].window = stats[r].total
  BY ReplicaTypes, StatsAreSome DEF IInv, ReportedOnce
<1>2. Latencies(stats[r]) = (stats[r].reported + 1)..stats[r].total
  BY <1>1, LatenciesAre
<1>3. HeardSoFar(stats[r])
  BY DEF LatInv
<1>4. stats[r].total \in Nat /\ stats[r].reported \in Nat
  BY <1>1 DEF Stats
<1>5. ASSUME NEW o \in 1..stats[r].total, o \notin stats[r].during
      PROVE  o \in stats[r].heard \/ o \in Latencies(stats[r])
  <2>1. CASE o <= stats[r].reported
    BY <1>3, <1>4, <1>5, <2>1 DEF HeardSoFar
  <2>2. CASE ~(o <= stats[r].reported)
    BY <1>2, <1>4, <2>2
  <2> QED
    BY <2>1, <2>2
<1>6. ASSUME NEW o \in stats[r].heard
      PROVE  o \notin Latencies(stats[r])
  BY <1>2, <1>3, <1>4, <1>6 DEF HeardSoFar
<1> QED
  BY <1>5, <1>6

\* What is copied now covers the open window.
LEMMA LatenciesCover ==
  ASSUME NEW s \in Stats, s.reported + s.window = s.total
  PROVE  Covers(s, Latencies(s))
<1>1. s.total \in Nat /\ s.reported \in Nat
  BY DEF Stats
<1> QED
  BY <1>1, LatenciesAre DEF Covers

\* An order is counted.
LEMMA CountedHeard ==
  ASSUME NEW s \in Stats, NEW t \in Tick \cup {NoTick}, HeardSoFar(s)
  PROVE  /\ HeardSoFar(Counted(s, t))
         /\ t.live /\ Covers(s, t.copy) => Covers(Counted(s, t), t.copy)
<1> DEFINE c == Counted(s, t)
<1>1. /\ c.total = s.total + 1 /\ c.reported = s.reported /\ c.heard = s.heard
      /\ c.during = IF t.live THEN s.during \cup {s.total + 1} ELSE s.during
  BY CountedIs
<1>2. s.total \in Nat /\ s.reported \in Nat
  BY DEF Stats
<1> HIDE DEF c
<1>3. \A o \in s.during : o \in c.during
  BY <1>1
<1>4. HeardSoFar(c)
  BY <1>1, <1>3 DEF HeardSoFar
<1>5. ASSUME t.live, Covers(s, t.copy)
      PROVE  Covers(c, t.copy)
  <2>1. s.total + 1 \in c.during
    BY <1>1, <1>5
  <2>2. \A o \in t.copy : o \in 1..c.total
    BY <1>1, <1>2, <1>5 DEF Covers
  <2>3. ASSUME NEW o \in (c.reported + 1)..c.total
        PROVE  o \in t.copy \/ o \in c.during
    <3>1. o = s.total + 1 \/ o \in (s.reported + 1)..s.total
      BY <1>1, <1>2
    <3> QED
      BY <1>3, <1>5, <2>1, <3>1 DEF Covers
  <2> QED
    BY <2>2, <2>3 DEF Covers
<1> QED
  BY <1>4, <1>5 DEF c

\* A flush is reported; another one may be under way.
LEMMA ReportedHeard ==
  ASSUME NEW s \in Stats, s.reported + s.window = s.total, NEW copy \in SUBSET Nat,
         HeardSoFar(s), Covers(s, copy)
  PROVE  /\ HeardSoFar(Reported(s, copy))
         /\ \A other : Covers(s, other) => Covers(Reported(s, copy), other)
<1> DEFINE c == Reported(s, copy)
<1>1. /\ c.total = s.total /\ c.reported = s.total /\ c.heard = s.heard \cup copy
      /\ c.during = s.during
  BY ReportedIs
<1>2. s.total \in Nat /\ s.reported \in Nat /\ s.window \in Nat /\ s.reported <= s.total
  BY DEF Stats
<1> HIDE DEF c
<1>3. ASSUME NEW o \in c.heard
      PROVE  o \in 1..c.reported
  <2>1. o \in s.heard \/ o \in copy
    BY <1>1, <1>3
  <2>2. o \in 1..s.reported \/ o \in 1..s.total
    BY <2>1 DEF HeardSoFar, Covers
  <2> QED
    BY <1>1, <1>2, <2>2
<1>4. ASSUME NEW o \in 1..c.reported
      PROVE  o \in c.heard \/ o \in c.during
  <2>1. o \in 1..s.reported \/ o \in (s.reported + 1)..s.total
    BY <1>1, <1>2
  <2> QED
    BY <1>1, <2>1 DEF HeardSoFar, Covers
<1>5. ASSUME NEW other, Covers(s, other)
      PROVE  Covers(c, other)
  BY <1>1, <1>2, <1>5 DEF Covers
<1> QED
  BY <1>3, <1>4, <1>5 DEF HeardSoFar, c

\* The steps that leave the entries and the ticks alone, and begin no flush.
LEMMA LatUntouched ==
  ASSUME LatInv, UNCHANGED <<stats, tick>>,
         \A r \in Replicas : pc'[r] = "update" => pc[r] = "update"
  PROVE  LatInv'
  BY DEF LatInv

\* One replica's entry or tick changes.
LEMMA LatOfOne ==
  ASSUME LatInv, NEW r \in Replicas,
         \A q \in Replicas : q # r =>
           stats'[q] = stats[q] /\ tick'[q] = tick[q] /\ pc'[q] = pc[q],
         stats'[r] # NoStats =>
           /\ HeardSoFar(stats'[r])
           /\ tick'[r].live => Covers(stats'[r], tick'[r].copy)
           /\ pc'[r] = "update" => Covers(stats'[r], stats'[r].copy)
  PROVE  LatInv'
<1> SUFFICES ASSUME NEW q \in Replicas, stats'[q] # NoStats
             PROVE  /\ HeardSoFar(stats'[q])
                    /\ tick'[q].live => Covers(stats'[q], tick'[q].copy)
                    /\ pc'[q] = "update" => Covers(stats'[q], stats'[q].copy)
  BY DEF LatInv
<1>1. CASE q = r
  BY <1>1
<1>2. CASE q # r
  BY <1>2 DEF LatInv
<1> QED
  BY <1>1, <1>2

\* An entry's counts, for the lemmas above.
LEMMA EntryAddsUp ==
  ASSUME IInv, LatInv, NEW r \in Replicas, stats[r] # NoStats
  PROVE  /\ stats[r] \in Stats /\ stats[r].reported + stats[r].window = stats[r].total
         /\ HeardSoFar(stats[r])
  BY ReplicaTypes, StatsAreSome DEF IInv, ReportedOnce, LatInv

\* A flush is reported, by finalize() or by a tick that is over with it.
LEMMA ReportKeepsLat ==
  ASSUME IInv, LatInv, NEW r \in Replicas, stats[r] # NoStats,
         NEW copy \in SUBSET Nat, Covers(stats[r], copy),
         stats' = [stats EXCEPT ![r] = Reported(stats[r], copy)],
         \A q \in Replicas : q # r => tick'[q] = tick[q] /\ pc'[q] = pc[q],
         tick'[r].live => tick[r].live /\ tick'[r].copy = tick[r].copy,
         pc'[r] = "update" => pc[r] = "update"
  PROVE  LatInv'
<1>1. /\ stats[r] \in Stats /\ stats[r].reported + stats[r].window = stats[r].total
      /\ HeardSoFar(stats[r])
  BY EntryAddsUp
<1>2. /\ HeardSoFar(Reported(stats[r], copy))
      /\ \A other : Covers(stats[r], other) => Covers(Reported(stats[r], copy), other)
      /\ Reported(stats[r], copy).copy = stats[r].copy
  BY <1>1, ReportedHeard, ReportedIs
<1>3. /\ stats'[r] = Reported(stats[r], copy)
      /\ \A q \in Replicas : q # r => stats'[q] = stats[q]
  BY DEF IInv, TypeOK
<1>4. tick'[r].live => Covers(stats'[r], tick'[r].copy)
  BY <1>2, <1>3 DEF LatInv
<1>5. pc'[r] = "update" => Covers(stats'[r], stats'[r].copy)
  BY <1>2, <1>3 DEF LatInv
<1> QED
  BY <1>2, <1>3, <1>4, <1>5, LatOfOne

LEMMA CountKeepsLat ==
  ASSUME IInv, LatInv, NEW r \in Replicas, CountOrder(r) \/ LookupReturns(r)
  PROVE  LatInv'
<1>1. /\ pc' = [pc EXCEPT ![r] = IF IsOrder(r) THEN "idle" ELSE "update"]
      /\ UNCHANGED tick
  BY DEF CountOrder, LookupReturns, Consumed, Goto
<1>2. \A q \in Replicas : q # r => pc'[q] = pc[q] /\ tick'[q] = tick[q]
  BY <1>1 DEF IInv, TypeOK
<1>3. CASE CountOrder(r)
  <2>1. /\ stats[r] # NoStats /\ pc'[r] = "idle"
        /\ stats'[r] = Counted(stats[r], tick[r])
        /\ \A q \in Replicas : q # r => stats'[q] = stats[q]
    BY <1>1, <1>3 DEF CountOrder, IInv, TypeOK
  <2>2. /\ HeardSoFar(Counted(stats[r], tick[r]))
        /\ tick[r].live => Covers(Counted(stats[r], tick[r]), tick[r].copy)
    BY <2>1, EntryAddsUp, CountedHeard, ReplicaTypes DEF IInv, LatInv
  <2> QED
    BY <1>1, <1>2, <2>1, <2>2, LatOfOne
<1>4. CASE LookupReturns(r)
  <2>1. ~tick[r].live
    BY <1>4 DEF LookupReturns, IInv, Awaiting
  <2>2. \A q \in Replicas : q # r => stats'[q] = stats[q]
    BY <1>4 DEF LookupReturns, IInv, TypeOK
  <2>3. /\ HeardSoFar(Empty) /\ Covers(Empty, Empty.copy)
        /\ HeardSoFar(Counted(Empty, NoTick))
    <3>1. HeardSoFar(Empty) /\ Covers(Empty, Empty.copy)
      BY EmptyIs DEF HeardSoFar, Covers
    <3> QED
      BY <3>1, EmptyIs, CountedHeard
  <2>4. \/ stats'[r] = Empty
        \/ stats'[r] = Counted(Empty, NoTick) /\ pc'[r] # "update"
    BY <1>4 DEF LookupReturns, Consumed, Goto, IInv, TypeOK
  <2> QED
    BY <1>1, <1>2, <2>1, <2>2, <2>3, <2>4, LatOfOne
<1> QED
  BY <1>3, <1>4

\* A flush copies the open window.
LEMMA StartsKeepLat ==
  ASSUME IInv, LatInv, NEW r \in Replicas, StartFinalize(r) \/ StartTick(r)
  PROVE  LatInv'
<1>1. /\ stats[r] \in Stats /\ stats[r].reported + stats[r].window = stats[r].total
      /\ HeardSoFar(stats[r]) /\ stats[r] # NoStats
  BY EntryAddsUp DEF StartFinalize, StartTick
<1>2. Covers(stats[r], Latencies(stats[r]))
  BY <1>1, LatenciesCover
<1>3. CASE StartFinalize(r)
  <2>1. /\ stats' = [stats EXCEPT ![r] = [stats[r] EXCEPT !.copy = Latencies(stats[r])]]
        /\ pc' = [pc EXCEPT ![r] = "update"] /\ UNCHANGED tick
    BY <1>3 DEF StartFinalize, Goto
  <2>2. /\ stats'[r].total = stats[r].total /\ stats'[r].reported = stats[r].reported
        /\ stats'[r].heard = stats[r].heard /\ stats'[r].during = stats[r].during
        /\ stats'[r].copy = Latencies(stats[r])
    BY <1>1, <2>1 DEF IInv, TypeOK, Stats
  <2>3. /\ HeardSoFar(stats'[r])
        /\ \A copy : Covers(stats[r], copy) => Covers(stats'[r], copy)
    BY <1>1, <2>2 DEF HeardSoFar, Covers
  <2>4. \A q \in Replicas : q # r => stats'[q] = stats[q] /\ tick'[q] = tick[q] /\ pc'[q] = pc[q]
    BY <2>1 DEF IInv, TypeOK
  <2>5. tick[r].live => Covers(stats[r], tick[r].copy)
    BY <1>1 DEF LatInv
  <2> QED
    BY <1>2, <2>1, <2>2, <2>3, <2>4, <2>5, LatOfOne
<1>4. CASE StartTick(r)
  <2>1. /\ tick'[r].live /\ tick'[r].copy = Latencies(stats[r])
        /\ UNCHANGED <<stats, pc>>
        /\ \A q \in Replicas : q # r => tick'[q] = tick[q]
    BY <1>4 DEF StartTick, IInv, TypeOK
  <2>2. pc[r] = "update" => Covers(stats[r], stats[r].copy)
    BY <1>1 DEF LatInv
  <2> QED
    BY <1>1, <1>2, <2>1, <2>2, LatOfOne
<1> QED
  BY <1>3, <1>4

LEMMA FlushesKeepLat ==
  ASSUME IInv, LatInv, NEW r \in Replicas,
         UpdateReturns(r) \/ RankReturns(r) \/ TickReturns(r) \/ TickThrows(r)
  PROVE  LatInv'
<1>1. CASE Forget(r) /\ Goto(r, "notify")
  <2>1. /\ stats'[r] = NoStats
        /\ \A q \in Replicas : q # r => stats'[q] = stats[q] /\ tick'[q] = tick[q] /\ pc'[q] = pc[q]
    BY <1>1 DEF Forget, Goto, IInv, TypeOK
  <2> QED
    BY <2>1, LatOfOne
<1>2. CASE /\ stats' = [stats EXCEPT ![r] = Reported(stats[r], stats[r].copy)]
           /\ pc[r] = "update" /\ Goto(r, "rank") /\ UNCHANGED tick
  <2>1. /\ stats[r] # NoStats /\ stats[r].copy \in SUBSET Nat
        /\ Covers(stats[r], stats[r].copy)
    BY <1>2, EntryAddsUp DEF IInv, Awaiting, LatInv, Stats
  <2>2. pc'[r] = "rank" /\ \A q \in Replicas : q # r => pc'[q] = pc[q]
    BY <1>2 DEF Goto, IInv, TypeOK
  <2> QED
    BY <1>2, <2>1, <2>2, ReportKeepsLat
<1>3. CASE TickReturns(r) \/ TickThrows(r)
  <2>1. /\ tick'[r] = NoTick /\ ~NoTick.live
        /\ UNCHANGED pc
        /\ \A q \in Replicas : q # r => tick'[q] = tick[q]
    BY <1>3 DEF TickReturns, TickThrows, IInv, TypeOK, NoTick
  <2>2. CASE stats' = stats
    <3>1. ASSUME stats[r] # NoStats
          PROVE  /\ HeardSoFar(stats[r])
                 /\ pc[r] = "update" => Covers(stats[r], stats[r].copy)
      BY <3>1 DEF LatInv
    <3> QED
      BY <2>1, <2>2, <3>1, LatOfOne
  <2>3. CASE tick[r].live /\ stats' = [stats EXCEPT ![r] = Reported(stats[r], tick[r].copy)]
    <3>1. stats[r] # NoStats /\ tick[r].copy \in SUBSET Nat
      BY <1>3, <2>3, ReplicaTypes, TickIsSome DEF TickReturns, TickThrows, IInv, Awaiting, Tick
    <3>2. Covers(stats[r], tick[r].copy)
      BY <2>3, <3>1 DEF LatInv
    <3> QED
      BY <2>1, <2>3, <3>1, <3>2, ReportKeepsLat
  <2> QED
    BY <1>3, <2>2, <2>3 DEF TickReturns, TickThrows
<1> QED
  BY <1>1, <1>2, <1>3 DEF UpdateReturns, RankReturns

LEMMA NextLatInv == IInv /\ LatInv /\ [Next]_ingestVars => LatInv'
<1> SUFFICES ASSUME IInv, LatInv, [Next]_ingestVars
             PROVE  LatInv'
  OBVIOUS
<1>1. CASE PublishOrder \/ PublishComplete \/ UNCHANGED ingestVars
  BY <1>1, LatUntouched DEF PublishOrder, PublishComplete, ingestVars
<1>2. ASSUME NEW r \in Replicas, Consume(r)
      PROVE  LatInv'
  <2>1. CASE \/ StartLookup(r) \/ LookupThrows(r) \/ UpdateThrows(r) \/ RankThrows(r)
             \/ NotifyReturns(r) \/ NotifyThrows(r)
    <3>1. /\ UNCHANGED <<stats, tick>>
          /\ \E place \in {"lookup", "idle"} : pc' = [pc EXCEPT ![r] = place]
      BY <2>1 DEF StartLookup, LookupThrows, UpdateThrows, RankThrows, NotifyReturns,
                  NotifyThrows, Consumed, Goto
    <3>2. \A q \in Replicas : pc'[q] = "update" => pc[q] = "update"
      BY <3>1 DEF IInv, TypeOK
    <3> QED
      BY <3>1, <3>2, LatUntouched
  <2> QED
    BY <1>2, <2>1, CountKeepsLat, StartsKeepLat, FlushesKeepLat DEF Consume
<1>3. ASSUME NEW r \in Replicas, Ticking(r)
      PROVE  LatInv'
  BY <1>3, StartsKeepLat, FlushesKeepLat DEF Ticking
<1>4. ASSUME NEW r \in Replicas, Grouping(r)
      PROVE  LatInv'
  <2>1. CASE Commit(r) \/ Assign(r) \/ Revoke(r)
    BY <2>1, LatUntouched DEF Commit, Assign, Revoke
  <2>2. CASE Restart(r)
    <3>1. UNCHANGED <<stats, tick>> /\ pc' = [pc EXCEPT ![r] = "idle"]
      BY <2>2 DEF Restart, Goto
    <3>2. \A q \in Replicas : pc'[q] = "update" => pc[q] = "update"
      BY <3>1 DEF IInv, TypeOK
    <3> QED
      BY <3>1, <3>2, LatUntouched
  <2>3. CASE Crash(r)
    <3>1. /\ stats'[r] = NoStats
          /\ \A q \in Replicas : q # r => stats'[q] = stats[q] /\ tick'[q] = tick[q] /\ pc'[q] = pc[q]
      BY <2>3 DEF Crash, Goto, IInv, TypeOK
    <3> QED
      BY <3>1, LatOfOne
  <2> QED
    BY <1>4, <2>1, <2>2, <2>3 DEF Grouping
<1> QED
  BY <1>1, <1>2, <1>3, <1>4 DEF Next

-----------------------------------------------------------------------------
(***************************************************************************)
(* The theorems.                                                           *)
(***************************************************************************)
LEMMA InitIInv == Init => IInv
<1> SUFFICES ASSUME Init
             PROVE  IInv
  OBVIOUS
<1>1. 0 \in 0..scenario.orders /\ 0 \in 0..scenario.moves
  BY ScenarioAssumption DEF Init
<1>2. TypeOK
  BY <1>1 DEF Init, TypeOK
<1>3. LogGrows /\ Awaiting /\ Places /\ ReportedOnce /\ VerdictMatchesCount
  BY DEF Init, LogGrows, Awaiting, Places, ReportedOnce, VerdictMatchesCount, NoTick
<1>4. Steady
  BY DEF Init, Steady, OthersIdle, CountIsPassed, NothingAfterReport
<1> QED
  BY <1>2, <1>3, <1>4 DEF IInv

LEMMA NextIInv == IInv /\ [Next]_ingestVars => IInv'
<1> SUFFICES ASSUME IInv, [Next]_ingestVars
             PROVE  IInv'
  OBVIOUS
<1>1. CASE PublishOrder \/ PublishComplete
  BY <1>1, PublishOrderKeeps, PublishCompleteKeeps
<1>2. ASSUME NEW r \in Replicas, Consume(r)
      PROVE  IInv'
  BY <1>2, CountOrderKeeps, StartLookupKeeps, LookupReturnsKeeps, ThrowsKeeps, StartFinalizeKeeps,
     UpdateReturnsKeeps, RankReturnsKeeps, NotifyKeeps DEF Consume
<1>3. ASSUME NEW r \in Replicas, Ticking(r)
      PROVE  IInv'
  BY <1>3, StartTickKeeps, TickEndsKeeps DEF Ticking
<1>4. ASSUME NEW r \in Replicas, Grouping(r)
      PROVE  IInv'
  BY <1>4, CommitKeeps, AssignKeeps, MoveKeeps, RestartKeeps DEF Grouping
<1>5. CASE UNCHANGED ingestVars
  BY <1>5 DEF ingestVars, log, IInv, TypeOK, LogGrows, Awaiting, Places, ReportedOnce, Steady,
     OthersIdle, CountIsPassed, NothingAfterReport, VerdictMatchesCount, IsOrder, IsComplete
<1> QED
  BY <1>1, <1>2, <1>3, <1>4, <1>5 DEF Next

\* The invariant holds in every state the replicas of the ingester reach.
THEOREM Invariance == Spec => []IInv
<1>1. Init => IInv
  BY InitIInv
<1>2. IInv /\ [Next]_ingestVars => IInv'
  BY NextIInv
<1> QED
  BY <1>1, <1>2, PTL DEF Spec

\* Every variable keeps its type, for any replicas and any scenarios: finalize() never
\* flushes an entry that is not in the map.
THEOREM TypeCorrect == Spec => []TypeOK
<1>1. IInv => TypeOK
  BY DEF IInv
<1> QED
  BY <1>1, Invariance, PTL

\* The counts of the broadcasts add up to what was counted, whatever flushes overlap and
\* fail, through rebalances and crashes.
THEOREM CountsAddUp == Spec => []ReportedOnce
<1>1. IInv => ReportedOnce
  BY DEF IInv
<1> QED
  BY <1>1, Invariance, PTL

\* For any number of orders and replicas: the latency of an order that was counted while
\* no tick awaited its UPDATE is in the percentiles of a broadcast or in the open window,
\* and nothing in the open window has been broadcast.
THEOREM LatenciesAreHeard == Spec => []LatenciesHeard
<1>1. Init => LatInv
  BY DEF Init, LatInv, NoTick
<1>2. IInv /\ LatInv /\ [Next]_ingestVars => LatInv'
  BY NextLatInv
<1>3. IInv /\ LatInv => LatenciesHeard
  BY LatInvSuffices
<1> QED
  BY <1>1, <1>2, <1>3, Invariance, PTL DEF Spec

\* While the partition stays with one replica, the verdict fits what was sent, logged
\* and counted, for any number of orders.
THEOREM VerdictsMatch == Spec => []VerdictMatchesCount
<1>1. IInv => VerdictMatchesCount
  BY DEF IInv
<1> QED
  BY <1>1, Invariance, PTL

\* While the partition stays with one replica, a reported run is forgotten for good.
THEOREM ReportedIsForgotten == Spec => []NoTickAfterVerdict
<1>1. IInv => NoTickAfterVerdict
  BY DEF IInv, Steady, NothingAfterReport, NoTickAfterVerdict
<1> QED
  BY <1>1, Invariance, PTL

=============================================================================
