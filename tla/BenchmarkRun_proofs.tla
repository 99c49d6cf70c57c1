------------------------- MODULE BenchmarkRun_proofs -------------------------
(***************************************************************************)
(* Theorems about BenchmarkRun, for any number of completion calls, any    *)
(* faults and any number of crashes.                                       *)
(***************************************************************************)
EXTENDS BenchmarkRun, TLAPS

USE DEF At, resources, Verdicts, Acquiring, Busy, StartPcs

\* The start handler's awaits before the load is triggered.
Preparing == Acquiring \ {"trigger"}

CallPcs == {"new", "done"} \cup Busy

CallState == [pc : CallPcs, verdict : Verdicts]

\* No cleanup runs before the load is triggered, so nothing is
\* acquired after a cleanup has begun.
NothingAcquiredLate ==
  /\ start \in {"idle"} \cup Preparing =>
       /\ \A c \in Calls : cleanup[c].pc = "new"
       /\ timer = "unset" /\ load = "off" /\ row = "none"
  /\ start = "rejected" => load = "off"
  /\ (\E c \in Calls : cleanup[c].pc # "new") => ~tracked
  /\ start \in {"trigger", "rejected"} => row # "none"
  /\ start = "idle" => ~tracked /\ row = "none"

\* The bot fleet never works for a run without a row: whatever telemetry it sends,
\* the ingester finds the run's team even when the Redis hash has expired.
LoadHasRow == (load # "off") => (row # "none")

\* A cleanup that will write completed began after the load.
CompletedCallsAfterLoad ==
  /\ timer = "armed" => load # "off"
  /\ \A c \in Calls : cleanup[c].pc \in Busy /\ cleanup[c].verdict = "completed" => load # "off"

\* The bots are sent at a sandbox that is up, for a run that no cleanup has reached.
ReadyForLoad ==
  /\ start \in Preparing \ {"sandbox"} => sandbox = "up"
  /\ start = "trigger" /\ load = "off" =>
       sandbox = "up" /\ row = "running" /\ \A c \in Calls : cleanup[c].pc = "new"

\* How far a cleanup has got with the keys, if Redis answers.
CleanupProgress ==
  "redis" \notin Faulty =>
    \A c \in Calls :
      /\ cleanup[c].pc \in {"rem", "row"} => hash = "none"
      /\ cleanup[c].pc = "row" => ~listed

IInv == /\ TypeOK
        /\ NothingAcquiredLate
        /\ LoadHasRow
        /\ CompletedCallsAfterLoad
        /\ CompletedOnlyAfterLoad
        /\ KeysOutliveSandbox
        /\ ReadyForLoad
        /\ CleanupProgress
        /\ SettledMeansReleased
        /\ SomebodyWillStop

-----------------------------------------------------------------------------
(***************************************************************************)
(* What the steps do to the calls of cleanupRun().                         *)
(***************************************************************************)
\* Call c, and no other, is now at pc, with this verdict.
Moved(c, pc, verdict) ==
  /\ cleanup' \in [Calls -> CallState]
  /\ cleanup'[c].pc = pc
  /\ cleanup'[c].verdict = verdict
  /\ \A d \in Calls : d # c => cleanup'[d] = cleanup[d]

\* A record keeps its type when its pc changes.
LEMMA PcUpdate ==
  ASSUME NEW r \in CallState, NEW pc \in CallPcs
  PROVE  /\ [r EXCEPT !.pc = pc] \in CallState
         /\ [r EXCEPT !.pc = pc].pc = pc
         /\ [r EXCEPT !.pc = pc].verdict = r.verdict
BY DEF CallState

\* The call that enters is new, and the verdict it brings is remembered.
LEMMA NewCall ==
  ASSUME NEW pc \in CallPcs, NEW verdict \in Verdicts
  PROVE  /\ [pc |-> pc, verdict |-> verdict] \in CallState
         /\ [pc |-> pc, verdict |-> verdict].pc = pc
         /\ [pc |-> pc, verdict |-> verdict].verdict = verdict
BY DEF CallState

\* The type of cleanup, with its record's fields named.
LEMMA CallTypes == TypeOK => cleanup \in [Calls -> CallState]
BY DEF TypeOK, CallState, CallPcs

LEMMA GotoMoves ==
  ASSUME cleanup \in [Calls -> CallState],
         NEW c \in Calls, NEW pc \in CallPcs, Goto(c, pc)
  PROVE  Moved(c, pc, cleanup[c].verdict)
<1> DEFINE new == [cleanup[c] EXCEPT !.pc = pc]
<1>1. cleanup[c] \in CallState
  OBVIOUS
<1>2. /\ new \in CallState
      /\ new.pc = pc
      /\ new.verdict = cleanup[c].verdict
  BY <1>1, PcUpdate
<1>3. cleanup' = [cleanup EXCEPT ![c] = new]
  BY DEF Goto
<1> HIDE DEF new
<1> QED BY <1>2, <1>3 DEF Moved

\* Entering cleanupRun() moves a new call to its first await.
LEMMA EnterMoves ==
  ASSUME cleanup \in [Calls -> CallState],
         NEW c \in Calls, NEW verdict \in Verdicts, Enter(c, verdict)
  PROVE  /\ server.up
         /\ cleanup[c].pc = "new"
         /\ tracked' = FALSE
         /\ Moved(c, IF tracked THEN "stop" ELSE "hash", verdict)
<1> DEFINE pc == IF tracked THEN "stop" ELSE "hash"
           new == [pc |-> pc, verdict |-> verdict]
<1>1. pc \in CallPcs
  BY DEF CallPcs
<1> HIDE DEF pc
<1>2. /\ new \in CallState
      /\ new.pc = pc
      /\ new.verdict = verdict
  BY <1>1, NewCall
<1>3. cleanup' = [cleanup EXCEPT ![c] = new]
  BY DEF Enter, pc
<1> HIDE DEF new
<1>4. Moved(c, pc, verdict)
  BY <1>2, <1>3 DEF Moved
<1> QED BY <1>4 DEF Enter, pc

\* The death of the process ends every call in flight.
LEMMA DiesEnds ==
  ASSUME cleanup \in [Calls -> CallState], Dies
  PROVE  /\ cleanup' \in [Calls -> CallState]
         /\ \A c \in Calls : /\ cleanup'[c].pc \in {"new", "done"}
                             /\ cleanup'[c].pc = "new" <=> cleanup[c].pc = "new"
<1>1. cleanup' = [c \in Calls |-> IF cleanup[c].pc \in Busy
                                  THEN [cleanup[c] EXCEPT !.pc = "done"] ELSE cleanup[c]]
  BY DEF Dies
<1>2. SUFFICES ASSUME NEW c \in Calls
               PROVE  /\ cleanup'[c] \in CallState
                      /\ cleanup'[c].pc \in {"new", "done"}
                      /\ cleanup'[c].pc = "new" <=> cleanup[c].pc = "new"
  <2> DEFINE now(c) == IF cleanup[c].pc \in Busy
                       THEN [cleanup[c] EXCEPT !.pc = "done"] ELSE cleanup[c]
  <2>1. \A c \in Calls : cleanup'[c] = now(c)
    BY <1>1
  <2>2. cleanup' = [c \in Calls |-> cleanup'[c]]
    BY <1>1
  <2> HIDE DEF now
  <2> QED BY <2>1, <2>2
<1>3. cleanup[c] \in CallState
  OBVIOUS
<1>4. cleanup[c].pc \in CallPcs
  BY <1>3 DEF CallState
<1>5. CASE cleanup[c].pc \in Busy
  <2>1. cleanup'[c] = [cleanup[c] EXCEPT !.pc = "done"]
    BY <1>1, <1>5
  <2>2. "done" \in CallPcs
    BY DEF CallPcs
  <2> QED BY <1>3, <1>5, <2>1, <2>2, PcUpdate
<1>6. CASE cleanup[c].pc \notin Busy
  <2>1. cleanup'[c] = cleanup[c]
    BY <1>1, <1>6
  <2> QED BY <1>3, <1>4, <1>6, <2>1 DEF CallPcs
<1> QED BY <1>5, <1>6

-----------------------------------------------------------------------------
(***************************************************************************)
(* Types.                                                                  *)
(***************************************************************************)
\* The steps of the start handler that call no cleanup.
Acquire == \/ BeginStart \/ SandboxCreated \/ SandboxReturns \/ Healthy
           \/ SetHash \/ SetExpiry \/ AddToActiveSet \/ InsertRow
           \/ TriggerReceived \/ TriggerAccepted \/ TriggerRejected \/ StartThrows \/ RejectThrows

\* The steps of nobody in particular.
Outside == Restart \/ LoadEnds \/ HashExpires

\* The steps inside a cleanup, with the place each goes to.
Proceeds(c) ==
  \/ ReadHash(c) \/ FindContainer(c) \/ StopContainer(c)
  \/ DelHash(c) \/ RemoveFromActiveSet(c) \/ ClearKeys(c) \/ UpdateRow(c)
  \/ FindThrows(c) /\ ~Dies

\* A step of Next is one of the kinds of steps that follow.
LEMMA NextSplits ==
  ASSUME [Next]_runVars
  PROVE  \/ Acquire
         \/ RejectCleanup \/ AbortCleanup \/ TimerFires
         \/ \E h \in Hooks, status \in Reported : CompletionArrives(h, status)
         \/ \E c \in Calls : Proceeds(c)
         \/ Dies
         \/ Outside
         \/ UNCHANGED runVars
BY DEF Next, StartStep, Acquire, CleanupStep, Proceeds, FindThrows, Crash, Outside


\* The names of the calls, told apart from each other.
LEMMA CallNames == /\ {"reject", "abort", "timer"} \subseteq Calls
                   /\ Hooks \subseteq Calls
BY DEF Calls

\* Where each step of a cleanup goes.
LEMMA CallMoves ==
  ASSUME TypeOK, NEW c \in Calls, Proceeds(c)
  PROVE  \/ ReadHash(c) /\ hash # "none" /\ Moved(c, "stop", cleanup[c].verdict)
         \/ ReadHash(c) /\ Moved(c, "find", cleanup[c].verdict)
         \/ FindContainer(c) /\ sandbox = "up" /\ Moved(c, "stop", cleanup[c].verdict)
         \/ FindContainer(c) /\ sandbox # "up" /\ Moved(c, "clear", cleanup[c].verdict)
         \/ StopContainer(c) /\ Moved(c, "del", cleanup[c].verdict)
         \/ DelHash(c) /\ hash' = "none" /\ Moved(c, "rem", cleanup[c].verdict)
         \/ DelHash(c) /\ "redis" \in Faulty /\ Moved(c, "row", cleanup[c].verdict)
         \/ RemoveFromActiveSet(c) /\ Moved(c, "row", cleanup[c].verdict)
         \/ ClearKeys(c) /\ Moved(c, "row", cleanup[c].verdict)
         \/ UpdateRow(c) /\ Moved(c, "done", cleanup[c].verdict)
         \/ FindThrows(c) /\ ~Dies /\ Moved(c, "done", cleanup[c].verdict)
<1>1. cleanup \in [Calls -> CallState]
  BY CallTypes
<1>2. \A pc \in CallPcs : Goto(c, pc) => Moved(c, pc, cleanup[c].verdict)
  BY <1>1, GotoMoves
<1>3. {"find", "stop", "del", "rem", "clear", "row", "done"} \subseteq CallPcs
  BY DEF CallPcs
<1>4. CASE ReadHash(c)
  BY <1>2, <1>3, <1>4 DEF ReadHash
<1>5. CASE FindContainer(c)
  BY <1>2, <1>3, <1>5 DEF FindContainer
<1>6. CASE StopContainer(c)
  BY <1>2, <1>3, <1>6 DEF StopContainer
<1>7. CASE DelHash(c)
  BY <1>2, <1>3, <1>7 DEF DelHash
<1>8. CASE RemoveFromActiveSet(c) \/ ClearKeys(c) \/ UpdateRow(c)
  BY <1>2, <1>3, <1>8 DEF RemoveFromActiveSet, ClearKeys, UpdateRow
<1>9. CASE FindThrows(c) /\ ~Dies
  BY <1>2, <1>3, <1>9 DEF FindThrows
<1> QED BY <1>4, <1>5, <1>6, <1>7, <1>8, <1>9 DEF Proceeds

\* A call enters cleanupRun(), in one of four ways.
Enters(c, verdict) ==
  /\ server.up
  /\ cleanup[c].pc = "new"
  /\ tracked' = FALSE
  /\ Moved(c, IF tracked THEN "stop" ELSE "hash", verdict)
  /\ UNCHANGED <<sandbox, hash, listed, row, load, server>>

\* Each way into cleanupRun() starts one new call, under its own conditions.
LEMMA Entries ==
  ASSUME TypeOK
  PROVE  /\ RejectCleanup => /\ Enters("reject", "failed") /\ start = "rejected"
                             /\ UNCHANGED <<start, timer>>
         /\ AbortCleanup => /\ Enters("abort", "failed") /\ start = "aborting"
                            /\ start' = "over" /\ timer' = timer
         /\ TimerFires => /\ Enters("timer", "completed") /\ timer = "armed"
                          /\ timer' = "fired" /\ start' = start
         /\ \A h \in Hooks, status \in Reported :
              CompletionArrives(h, status) =>
                /\ \E verdict \in Verdicts : Enters(h, verdict)
                /\ load = "done" /\ UNCHANGED <<start, timer>>
<1>1. cleanup \in [Calls -> CallState]
  BY CallTypes
<1>2. ASSUME NEW c \in Calls, NEW verdict \in Verdicts, Enter(c, verdict),
             UNCHANGED <<sandbox, hash, listed, row, load, server>>
      PROVE  Enters(c, verdict)
  BY <1>1, <1>2, EnterMoves DEF Enters
<1>3. RejectCleanup => /\ Enters("reject", "failed") /\ start = "rejected"
                       /\ UNCHANGED <<start, timer>>
  BY <1>2, CallNames DEF RejectCleanup
<1>4. AbortCleanup => /\ Enters("abort", "failed") /\ start = "aborting"
                      /\ start' = "over" /\ timer' = timer
  BY <1>2, CallNames DEF AbortCleanup
<1>5. TimerFires => /\ Enters("timer", "completed") /\ timer = "armed"
                    /\ timer' = "fired" /\ start' = start
  BY <1>2, CallNames DEF TimerFires
<1>6. ASSUME NEW h \in Hooks, NEW status \in Reported, CompletionArrives(h, status)
      PROVE  /\ \E verdict \in Verdicts : Enters(h, verdict)
             /\ load = "done" /\ UNCHANGED <<start, timer>>
  <2>1. FinalStatus(status) \in Verdicts
    BY DEF FinalStatus
  <2>2. Enter(h, FinalStatus(status)) /\ UNCHANGED <<sandbox, hash, listed, row, load, server>>
    BY <1>6 DEF CompletionArrives
  <2>3. Enters(h, FinalStatus(status))
    BY <1>2, <2>1, <2>2, CallNames
  <2> QED BY <1>6, <2>1, <2>3 DEF CompletionArrives
<1> QED BY <1>3, <1>4, <1>5, <1>6

\* The initial state has the right types.
LEMMA TypeInit == Init => TypeOK
<1> SUFFICES ASSUME Init PROVE TypeOK
  OBVIOUS
<1>1. server \in [up : BOOLEAN, crashes : 0..MaxCrashes, faulty : Scenarios]
  BY CrashAssumption DEF Init
<1>2. cleanup \in [Calls -> [pc : {"new", "done"} \cup Busy, verdict : Verdicts]]
  BY DEF Init
<1> QED BY <1>1, <1>2 DEF Init, TypeOK

\* What happens to the process keeps its type.
LEMMA ServerStep ==
  ASSUME TypeOK
  PROVE  /\ Dies => server' \in [up : BOOLEAN, crashes : 0..MaxCrashes, faulty : Scenarios]
         /\ Restart => server' \in [up : BOOLEAN, crashes : 0..MaxCrashes, faulty : Scenarios]
         /\ Dies => server'.crashes # 0
         /\ Restart => server'.crashes = server.crashes
         /\ Dies \/ Restart => Faulty' = Faulty
<1>1. server \in [up : BOOLEAN, crashes : 0..MaxCrashes, faulty : Scenarios]
  BY DEF TypeOK
<1>2. Dies => /\ server' \in [up : BOOLEAN, crashes : 0..MaxCrashes, faulty : Scenarios]
              /\ server'.crashes # 0
              /\ Faulty' = Faulty
  <2> SUFFICES ASSUME Dies
               PROVE  /\ server' \in [up : BOOLEAN, crashes : 0..MaxCrashes, faulty : Scenarios]
                      /\ server'.crashes # 0
                      /\ Faulty' = Faulty
    OBVIOUS
  <2> DEFINE crashes == server.crashes + 1
  <2>1. crashes \in 0..MaxCrashes /\ crashes # 0
    BY <1>1, CrashAssumption DEF Dies
  <2>2. server' = [server EXCEPT !.up = FALSE, !.crashes = crashes]
    BY <1>1 DEF Dies
  <2> HIDE DEF crashes
  <2> QED BY <1>1, <2>1, <2>2 DEF Faulty
<1>3. Restart => /\ server' \in [up : BOOLEAN, crashes : 0..MaxCrashes, faulty : Scenarios]
                 /\ server'.crashes = server.crashes
                 /\ Faulty' = Faulty
  BY <1>1 DEF Restart, Faulty
<1> QED BY <1>2, <1>3

\* Every action of the start handler, of a cleanup and of the outside keeps the types.
LEMMA TypeStep == TypeOK /\ [Next]_runVars => TypeOK'
<1> SUFFICES ASSUME TypeOK, [Next]_runVars PROVE TypeOK'
  OBVIOUS
<1> DEFINE Rest == /\ start \in StartPcs
                   /\ timer \in {"unset", "armed", "fired", "lost"}
                   /\ sandbox \in {"none", "up", "removed"}
                   /\ hash \in {"none", "forever", "expiring"}
                   /\ row \in {"none", "running"} \cup Verdicts
                   /\ load \in {"off", "on", "done"}
           Booleans == tracked \in BOOLEAN /\ listed \in BOOLEAN
           Server == server \in [up : BOOLEAN, crashes : 0..MaxCrashes, faulty : Scenarios]
           Cleanup == cleanup \in [Calls -> CallState]
<1>1. Rest /\ Booleans /\ Server /\ Cleanup
  BY CallTypes DEF TypeOK
<1>2. Rest' /\ Booleans' /\ Server' /\ Cleanup' => TypeOK'
  BY DEF TypeOK, CallState, CallPcs
<1>3. CASE Acquire
  <2> USE DEF Acquire, BeginStart, SandboxCreated, SandboxReturns, Healthy, SetHash, SetExpiry,
      AddToActiveSet, InsertRow, TriggerReceived, TriggerAccepted, TriggerRejected, StartThrows, RejectThrows
  <2>1. UNCHANGED <<cleanup, server>>
    BY <1>3
  <2>2. Booleans'
    <3>1. CASE AddToActiveSet \/ SandboxReturns \/ StartThrows
      BY <1>1, <3>1, Zenon
    <3>2. CASE ~(AddToActiveSet \/ SandboxReturns \/ StartThrows)
      <4>1. UNCHANGED tracked
        BY <1>3, <3>2
      <4>2. UNCHANGED listed
        BY <1>3, <3>2
      <4> QED BY <1>1, <4>1, <4>2
    <3> QED BY <3>1, <3>2
  <2>3. start' \in StartPcs /\ timer' \in {timer, "armed"}
    BY <1>1, <1>3
  <2>4. sandbox' \in {sandbox, "up"} /\ hash' \in {hash, "forever", "expiring"}
    BY <1>3
  <2>5. row' \in {row, "running"} /\ load' \in {load, "on"}
    BY <1>3
  <2>6. Rest'
    BY <1>1, <2>3, <2>4, <2>5
  <2> HIDE DEF Acquire
  <2> QED BY <1>1, <1>2, <2>1, <2>2, <2>6
<1>4. ASSUME NEW c, NEW verdict, Enters(c, verdict),
             start' \in {start, "over"}, timer' \in {timer, "fired"}
      PROVE  TypeOK'
  <2>1. Cleanup' /\ Server'
    BY <1>1, <1>4 DEF Enters, Moved
  <2>2. Booleans'
    BY <1>1, <1>4, Zenon DEF Enters
  <2>3. Rest'
    BY <1>1, <1>4 DEF Enters
  <2> QED BY <1>2, <2>1, <2>2, <2>3
<1>5. ASSUME NEW c \in Calls, Proceeds(c) PROVE TypeOK'
  <2>1. Cleanup'
    BY <1>5, CallMoves DEF Moved
  <2>2. UNCHANGED <<start, timer, load, server>>
    BY <1>5 DEF Proceeds, ReadHash, FindContainer, FindThrows, StopContainer, DelHash,
       RemoveFromActiveSet, ClearKeys, UpdateRow
  <2>3. Rest'
    <3>1. row' \in {row} \cup Verdicts
      <4>1. cleanup[c].verdict \in Verdicts
        BY <1>1 DEF CallState
      <4> QED BY <1>5, <4>1 DEF Proceeds, ReadHash, FindContainer, FindThrows, StopContainer, DelHash,
                 RemoveFromActiveSet, ClearKeys, UpdateRow, Settled
    <3>2. sandbox' \in {sandbox, "removed"} /\ hash' \in {hash, "none"}
      BY <1>5 DEF Proceeds, ReadHash, FindContainer, FindThrows, StopContainer, DelHash,
         RemoveFromActiveSet, ClearKeys, UpdateRow
    <3> QED BY <1>1, <2>2, <3>1, <3>2
  <2>4. Booleans'
    BY <1>1, <1>5, Zenon DEF Proceeds, ReadHash, FindContainer, FindThrows, StopContainer, DelHash,
       RemoveFromActiveSet, ClearKeys, UpdateRow
  <2> QED BY <1>1, <1>2, <2>1, <2>2, <2>3, <2>4
<1>6. CASE Dies
  <2>1. Server' /\ Cleanup'
    BY <1>1, <1>6, DiesEnds, ServerStep
  <2>2. Rest' /\ Booleans'
    BY <1>1, <1>6 DEF Dies
  <2> QED BY <1>2, <2>1, <2>2
<1>7. CASE Outside
  BY <1>1, <1>2, <1>7, ServerStep DEF Outside, Restart, LoadEnds, HashExpires
<1>8. CASE UNCHANGED runVars
  BY <1>1, <1>2, <1>8 DEF runVars
<1>9. CASE RejectCleanup \/ AbortCleanup \/ TimerFires
  BY <1>4, <1>9, Entries
<1>10. CASE \E h \in Hooks, status \in Reported : CompletionArrives(h, status)
  BY <1>4, <1>10, Entries
<1> QED BY <1>3, <1>5, <1>6, <1>7, <1>8, <1>9, <1>10, NextSplits

-----------------------------------------------------------------------------
(***************************************************************************)
(* The inductive invariant, one lemma per conjunct.                        *)
(***************************************************************************)
\* Any step of the process: what the lemmas below distinguish.
EntryStep(c, verdict) ==
  /\ Enters(c, verdict)
  /\ \/ c = "reject" /\ verdict = "failed" /\ start = "rejected" /\ UNCHANGED <<start, timer>>
     \/ c = "abort" /\ verdict = "failed" /\ start = "aborting" /\ start' = "over" /\ timer' = timer
     \/ c = "timer" /\ verdict = "completed" /\ timer = "armed" /\ timer' = "fired" /\ start' = start
     \/ load = "done" /\ UNCHANGED <<start, timer>>

\* Every step acquires, enters a cleanup, lets one proceed, ends the process, or happens outside.
LEMMA Steps ==
  ASSUME TypeOK, [Next]_runVars
  PROVE  \/ Acquire
         \/ \E c \in Calls, verdict \in Verdicts : EntryStep(c, verdict)
         \/ \E c \in Calls : Proceeds(c)
         \/ Dies
         \/ Outside
         \/ UNCHANGED runVars
<1>1. ASSUME RejectCleanup \/ AbortCleanup \/ TimerFires
      PROVE  \E c \in Calls, verdict \in Verdicts : EntryStep(c, verdict)
  BY <1>1, Entries, CallNames DEF EntryStep
<1>2. ASSUME NEW h \in Hooks, NEW status \in Reported, CompletionArrives(h, status)
      PROVE  \E c \in Calls, verdict \in Verdicts : EntryStep(c, verdict)
  <2>1. PICK verdict \in Verdicts : Enters(h, verdict)
    BY <1>2, Entries
  <2>2. EntryStep(h, verdict)
    BY <1>2, <2>1, Entries DEF EntryStep
  <2> QED BY <2>2, CallNames
<1> QED BY <1>1, <1>2, NextSplits

\* What a step inside a cleanup leaves alone.
LEMMA ProceedsKeeps ==
  ASSUME NEW c, Proceeds(c)
  PROVE  /\ UNCHANGED <<start, timer, load, server>>
         /\ cleanup[c].pc \in Busy
         /\ tracked' = tracked \/ tracked' = FALSE
BY DEF Proceeds, ReadHash, FindContainer, FindThrows, StopContainer, DelHash, RemoveFromActiveSet,
   ClearKeys, UpdateRow

\* A cleanup that proceeds moves along its own awaits.
LEMMA ProceedsMoves ==
  ASSUME TypeOK, NEW c \in Calls, Proceeds(c)
  PROVE  \E pc \in CallPcs : Moved(c, pc, cleanup[c].verdict) /\ pc # "new"
BY CallMoves DEF CallPcs

\* What the steps of the start handler do.
LEMMA AcquireKeeps ==
  ASSUME Acquire
  PROVE  /\ UNCHANGED <<cleanup, server>>
         /\ start \in {"idle", "rejected"} \cup Acquiring
         /\ start' # "idle" /\ (start' # "over" \/ timer' = "armed")
         /\ start' \in Preparing => start \in {"idle"} \cup Preparing /\ UNCHANGED <<timer, load, row>>
         /\ start' = "trigger" => row' = "running" \/ (start = "trigger" /\ row' = row)
         /\ start' = "rejected" => start = "trigger" /\ load' = "off" /\ row' = row
         /\ row' = row \/ (row' = "running" /\ start = "insert")
         /\ tracked' = tracked \/ start = "sandbox"
         /\ load' = load \/ (load' = "on" /\ start = "trigger")
         /\ timer' = timer \/ load' # "off"
         /\ start \notin Preparing => UNCHANGED <<tracked, sandbox, hash, listed>>
BY DEF Preparing, Acquire, BeginStart, SandboxCreated, SandboxReturns, Healthy, SetHash, SetExpiry,
   AddToActiveSet, InsertRow, TriggerReceived, TriggerAccepted, TriggerRejected, StartThrows,
   RejectThrows

\* What happens outside touches no cleanup and acquires nothing.
LEMMA OutsideKeeps ==
  ASSUME TypeOK, Outside
  PROVE  /\ UNCHANGED <<start, timer, tracked, sandbox, listed, row, cleanup>>
         /\ hash' \in {hash, "none"}
         /\ load' = load \/ (load = "on" /\ load' = "done")
         /\ server'.crashes = server.crashes
BY ServerStep DEF Outside, Restart, LoadEnds, HashExpires

\* Which calls may fail is settled from the start.
LEMMA FaultsFixed ==
  ASSUME TypeOK, [Next]_runVars
  PROVE  Faulty' = Faulty
<1>1. CASE UNCHANGED server
  BY <1>1 DEF Faulty
<1>2. CASE Dies
  BY <1>2, ServerStep
<1>3. CASE Outside
  BY <1>3, <1>1, ServerStep DEF Outside, LoadEnds, HashExpires
<1>4. Acquire \/ (\E c \in Calls : Proceeds(c)) \/ UNCHANGED runVars => UNCHANGED server
  BY AcquireKeeps, ProceedsKeeps DEF runVars
<1>5. ASSUME NEW c, NEW verdict, EntryStep(c, verdict) PROVE UNCHANGED server
  BY <1>5 DEF EntryStep, Enters
<1> QED BY <1>1, <1>2, <1>3, <1>4, <1>5, Steps

\* No step acquires anything once a cleanup has begun.
LEMMA NothingLateStep ==
  ASSUME TypeOK, NothingAcquiredLate, [Next]_runVars
  PROVE  NothingAcquiredLate'
<1> USE DEF NothingAcquiredLate
<1>1. CASE Acquire
  BY <1>1, AcquireKeeps DEF Preparing
<1>2. ASSUME NEW c \in Calls, NEW verdict \in Verdicts, EntryStep(c, verdict)
      PROVE  NothingAcquiredLate'
  <2>1. start' \notin {"idle"} \cup Preparing
    BY <1>2 DEF EntryStep, Preparing
  <2>2. UNCHANGED <<row, load>> /\ tracked' = FALSE
    BY <1>2 DEF EntryStep, Enters
  <2>3. start' \in {"trigger", "rejected"} => start' = start
    BY <1>2 DEF EntryStep
  <2> QED BY <2>1, <2>2, <2>3
<1>3. ASSUME NEW c \in Calls, Proceeds(c) PROVE NothingAcquiredLate'
  <2>1. /\ UNCHANGED <<start, timer, load>>
        /\ cleanup[c].pc # "new"
        /\ tracked' = tracked \/ tracked' = FALSE
    BY <1>3, ProceedsKeeps
  <2>2. start \notin {"idle"} \cup Preparing /\ ~tracked
    BY <2>1
  <2>3. row # "none" => row' # "none"
    BY <1>3 DEF Proceeds, ReadHash, FindContainer, FindThrows, StopContainer, DelHash,
       RemoveFromActiveSet, ClearKeys, UpdateRow, Settled, TypeOK
  <2> QED BY <2>1, <2>2, <2>3
<1>4. CASE Dies
  <2>1. start' \in {"idle", "over"} /\ (start' = "idle" => start = "idle")
    BY <1>4 DEF Dies
  <2>2. \A c \in Calls : cleanup'[c].pc = "new" <=> cleanup[c].pc = "new"
    BY <1>4, DiesEnds, CallTypes
  <2>3. /\ UNCHANGED <<row, load>>
        /\ tracked' = FALSE
        /\ timer = "unset" => timer' = "unset"
    BY <1>4 DEF Dies
  <2> QED BY <2>1, <2>2, <2>3 DEF Preparing
<1>5. CASE Outside
  BY <1>5, OutsideKeeps
<1>6. CASE UNCHANGED runVars
  BY <1>6 DEF runVars
<1> QED BY <1>1, <1>2, <1>3, <1>4, <1>5, <1>6, Steps

\* The trigger comes after the INSERT, and no cleanup deletes a row.
LEMMA LoadHasRowStep ==
  ASSUME TypeOK, NothingAcquiredLate, LoadHasRow, [Next]_runVars
  PROVE  LoadHasRow'
<1> USE DEF LoadHasRow
<1>1. CASE Acquire
  BY <1>1, AcquireKeeps DEF NothingAcquiredLate
<1>2. ASSUME NEW c, NEW verdict, EntryStep(c, verdict) PROVE LoadHasRow'
  BY <1>2 DEF EntryStep, Enters
<1>3. ASSUME NEW c \in Calls, Proceeds(c) PROVE LoadHasRow'
  <2>1. row # "none" => row' # "none"
    BY <1>3 DEF Proceeds, ReadHash, FindContainer, FindThrows, StopContainer, DelHash,
       RemoveFromActiveSet, ClearKeys, UpdateRow, Settled, TypeOK
  <2> QED BY <1>3, <2>1, ProceedsKeeps
<1>4. CASE Dies \/ UNCHANGED runVars
  BY <1>4 DEF Dies, runVars
<1>5. CASE Outside
  BY <1>5, OutsideKeeps
<1> QED BY <1>1, <1>2, <1>3, <1>4, <1>5, Steps

\* The timer and the completion calls, which may write completed, come after the trigger.
LEMMA CallsAfterLoadStep ==
  ASSUME TypeOK, NothingAcquiredLate, CompletedCallsAfterLoad, [Next]_runVars
  PROVE  CompletedCallsAfterLoad'
<1> USE DEF CompletedCallsAfterLoad
<1>1. CASE Acquire
  BY <1>1, AcquireKeeps
<1>2. ASSUME NEW c \in Calls, NEW verdict \in Verdicts, EntryStep(c, verdict)
      PROVE  CompletedCallsAfterLoad'
  <2>1. /\ load' = load
        /\ cleanup'[c].verdict = verdict
        /\ \A d \in Calls : d # c => cleanup'[d] = cleanup[d]
    BY <1>2 DEF EntryStep, Enters, Moved
  <2>2. verdict = "completed" => load # "off"
    BY <1>2 DEF EntryStep
  <2>3. timer' \in {timer, "fired"}
    BY <1>2 DEF EntryStep
  <2> QED BY <2>1, <2>2, <2>3
<1>3. ASSUME NEW c \in Calls, Proceeds(c) PROVE CompletedCallsAfterLoad'
  <2>1. PICK pc \in CallPcs : Moved(c, pc, cleanup[c].verdict)
    BY <1>3, ProceedsMoves
  <2>2. UNCHANGED <<timer, load>> /\ cleanup[c].pc \in Busy
    BY <1>3, ProceedsKeeps
  <2> QED BY <2>1, <2>2 DEF Moved
<1>4. CASE Dies
  <2>1. \A c \in Calls : cleanup'[c].pc \in {"new", "done"}
    BY <1>4, DiesEnds, CallTypes
  <2>2. timer' # "armed"
    BY <1>4 DEF Dies
  <2> QED BY <2>1, <2>2
<1>5. CASE Outside
  BY <1>5, OutsideKeeps
<1>6. CASE UNCHANGED runVars
  BY <1>6 DEF runVars
<1> QED BY <1>1, <1>2, <1>3, <1>4, <1>5, <1>6, Steps

\* The row becomes completed only by such a call.
LEMMA CompletedStep ==
  ASSUME TypeOK, NothingAcquiredLate, CompletedCallsAfterLoad, CompletedOnlyAfterLoad, [Next]_runVars
  PROVE  CompletedOnlyAfterLoad'
<1> USE DEF CompletedOnlyAfterLoad
<1>1. CASE Acquire
  BY <1>1, AcquireKeeps
<1>2. ASSUME NEW c, NEW verdict, EntryStep(c, verdict) PROVE CompletedOnlyAfterLoad'
  BY <1>2 DEF EntryStep, Enters
<1>3. ASSUME NEW c \in Calls, Proceeds(c) PROVE CompletedOnlyAfterLoad'
  <2>1. load' = load /\ cleanup[c].pc \in Busy
    BY <1>3, ProceedsKeeps
  <2>2. row' \in {row, cleanup[c].verdict}
    BY <1>3 DEF Proceeds, ReadHash, FindContainer, FindThrows, StopContainer, DelHash,
       RemoveFromActiveSet, ClearKeys, UpdateRow, Settled
  <2> QED BY <2>1, <2>2 DEF CompletedCallsAfterLoad
<1>4. CASE Dies \/ UNCHANGED runVars
  BY <1>4 DEF Dies, runVars
<1>5. CASE Outside
  BY <1>5, OutsideKeeps
<1> QED BY <1>1, <1>2, <1>3, <1>4, <1>5, Steps

\* A container, its keys and its map entry are only acquired while no cleanup has
\* begun and no verdict stands.
LEMMA AcquiredEarly ==
  ASSUME NothingAcquiredLate, Acquire
  PROVE  \/ UNCHANGED <<tracked, sandbox, hash, listed>>
         \/ /\ \A c \in Calls : cleanup[c].pc = "new"
            /\ row \notin Verdicts /\ row' \notin Verdicts
<1>1. CASE start \in Preparing
  BY <1>1, AcquireKeeps DEF NothingAcquiredLate
<1>2. CASE start \notin Preparing
  BY <1>2, AcquireKeeps
<1> QED BY <1>1, <1>2

\* A cleanup passes stopRun(), or finds no container, before it drops the keys.
LEMMA KeysOutliveStep ==
  ASSUME TypeOK, NothingAcquiredLate, KeysOutliveSandbox, [Next]_runVars
  PROVE  KeysOutliveSandbox'
<1> SUFFICES ASSUME "stop" \notin Faulty, NEW d \in Calls, cleanup'[d].pc \in {"del", "rem", "clear", "row"}
             PROVE  sandbox' # "up"
  BY FaultsFixed DEF KeysOutliveSandbox
<1> USE DEF KeysOutliveSandbox
<1>1. CASE Acquire
  <2>1. UNCHANGED cleanup
    BY <1>1, AcquireKeeps
  <2> QED BY <1>1, <2>1, AcquiredEarly
<1>2. ASSUME NEW c \in Calls, NEW verdict \in Verdicts, EntryStep(c, verdict)
      PROVE  sandbox' # "up"
  <2>1. /\ sandbox' = sandbox
        /\ cleanup'[c].pc \in {"stop", "hash"}
        /\ d # c => cleanup'[d] = cleanup[d]
    BY <1>2 DEF EntryStep, Enters, Moved
  <2> QED BY <2>1
<1>3. ASSUME NEW c \in Calls, Proceeds(c) PROVE sandbox' # "up"
  <2>1. CASE d # c
    <3>1. cleanup'[d] = cleanup[d]
      BY <1>3, <2>1, ProceedsMoves DEF Moved
    <3>2. sandbox' \in {sandbox, "removed"}
      BY <1>3 DEF Proceeds, ReadHash, FindContainer, FindThrows, StopContainer, DelHash,
         RemoveFromActiveSet, ClearKeys, UpdateRow
    <3> QED BY <3>1, <3>2
  <2>2. CASE d = c
    <3> USE <2>2
    <3>1. CASE FindContainer(c)
      BY <1>3, <3>1, CallMoves DEF Moved, FindContainer, StopContainer, ReadHash, DelHash,
         RemoveFromActiveSet, ClearKeys, UpdateRow, FindThrows
    <3>2. CASE StopContainer(c)
      BY <3>2 DEF StopContainer
    <3>3. CASE DelHash(c) \/ RemoveFromActiveSet(c) \/ ClearKeys(c) \/ UpdateRow(c)
      BY <3>3 DEF DelHash, RemoveFromActiveSet, ClearKeys, UpdateRow
    <3>4. CASE ReadHash(c) \/ (FindThrows(c) /\ ~Dies)
      BY <1>3, <3>4, CallMoves DEF Moved, FindContainer, StopContainer, ReadHash, DelHash,
         RemoveFromActiveSet, ClearKeys, UpdateRow, FindThrows
    <3> QED BY <1>3, <3>1, <3>2, <3>3, <3>4 DEF Proceeds
  <2> QED BY <2>1, <2>2
<1>4. CASE Dies
  BY <1>4, DiesEnds, CallTypes
<1>5. CASE Outside
  BY <1>5, OutsideKeeps
<1>6. CASE UNCHANGED runVars
  BY <1>6 DEF runVars
<1> QED BY <1>1, <1>2, <1>3, <1>4, <1>5, <1>6, Steps

\* No step inside a cleanup adds a key.
LEMMA ProceedsDrops ==
  ASSUME NEW c, Proceeds(c)
  PROVE  /\ sandbox' = sandbox \/ sandbox' = "removed"
         /\ hash' = hash \/ hash' = "none"
         /\ listed' = listed \/ listed' = FALSE
         /\ row' # row => cleanup[c].pc = "row" /\ UNCHANGED <<tracked, sandbox, hash, listed>>
BY DEF Proceeds, ReadHash, FindContainer, FindThrows, StopContainer, DelHash, RemoveFromActiveSet,
   ClearKeys, UpdateRow

\* Nothing removes the sandbox, or settles the row, between its start and the trigger.
LEMMA ReadyStep ==
  ASSUME TypeOK, NothingAcquiredLate, CompletedCallsAfterLoad, ReadyForLoad, [Next]_runVars
  PROVE  ReadyForLoad'
<1> USE DEF ReadyForLoad
<1>1. CASE Acquire
  <2>1. CASE start \in {"idle"} \cup Preparing
    BY <1>1, <2>1 DEF NothingAcquiredLate, Preparing, Acquire, BeginStart, SandboxCreated,
       SandboxReturns, Healthy, SetHash, SetExpiry, AddToActiveSet, InsertRow, TriggerReceived,
       TriggerAccepted, TriggerRejected, StartThrows, RejectThrows
  <2>2. CASE start \notin {"idle"} \cup Preparing
    <3>1. start' \notin Preparing
      BY <1>1, <2>2, AcquireKeeps
    <3>2. ASSUME start' = "trigger" PROVE load' # "off" \/ UNCHANGED <<load, sandbox, row, start>>
      BY <1>1, <2>2, <3>2 DEF Preparing, Acquire, BeginStart, SandboxCreated,
         SandboxReturns, Healthy, SetHash, SetExpiry, AddToActiveSet, InsertRow, TriggerReceived,
         TriggerAccepted, TriggerRejected, StartThrows, RejectThrows
    <3> QED BY <1>1, <3>1, <3>2, AcquireKeeps
  <2> QED BY <2>1, <2>2
<1>2. ASSUME NEW c \in Calls, NEW verdict \in Verdicts, EntryStep(c, verdict)
      PROVE  ReadyForLoad'
  <2>1. start' \notin Preparing
    BY <1>2 DEF EntryStep, NothingAcquiredLate, CompletedCallsAfterLoad, Preparing
  <2>2. start' = "trigger" => load' # "off"
    BY <1>2 DEF EntryStep, Enters, CompletedCallsAfterLoad
  <2> QED BY <2>1, <2>2
<1>3. ASSUME NEW c \in Calls, Proceeds(c) PROVE ReadyForLoad'
  <2>1. UNCHANGED <<start, load>> /\ cleanup[c].pc # "new"
    BY <1>3, ProceedsKeeps
  <2> QED BY <2>1 DEF NothingAcquiredLate
<1>4. CASE Dies
  <2>1. start' \in {"idle", "over"}
    BY <1>4 DEF Dies
  <2> QED BY <2>1 DEF Preparing
<1>5. CASE Outside
  BY <1>5, OutsideKeeps
<1>6. CASE UNCHANGED runVars
  BY <1>6 DEF runVars
<1> QED BY <1>1, <1>2, <1>3, <1>4, <1>5, <1>6, Steps

\* A cleanup that is past DEL, or SREM, stays past it: nothing writes the keys again.
LEMMA ProgressStep ==
  ASSUME TypeOK, NothingAcquiredLate, CleanupProgress, [Next]_runVars
  PROVE  CleanupProgress'
<1> USE DEF CleanupProgress
<1> SUFFICES ASSUME "redis" \notin Faulty, NEW d \in Calls
             PROVE  /\ cleanup'[d].pc \in {"rem", "row"} => hash' = "none"
                    /\ cleanup'[d].pc = "row" => ~listed'
  BY FaultsFixed
<1> DEFINE Goal == /\ cleanup'[d].pc \in {"rem", "row"} => hash' = "none"
                   /\ cleanup'[d].pc = "row" => ~listed'
<1>1. CASE Acquire
  <2>1. UNCHANGED cleanup
    BY <1>1, AcquireKeeps
  <2> QED BY <1>1, <2>1, AcquiredEarly
<1>2. ASSUME NEW c \in Calls, NEW verdict \in Verdicts, EntryStep(c, verdict)
      PROVE  Goal
  <2>1. /\ hash' = hash /\ listed' = listed
        /\ cleanup'[c].pc \in {"stop", "hash"}
        /\ d # c => cleanup'[d] = cleanup[d]
    BY <1>2 DEF EntryStep, Enters, Moved
  <2> QED BY <2>1
<1>3. ASSUME NEW c \in Calls, Proceeds(c) PROVE Goal
  <2>1. CASE d # c
    <3>1. cleanup'[d] = cleanup[d]
      BY <1>3, <2>1, ProceedsMoves DEF Moved
    <3> QED BY <1>3, <3>1, ProceedsDrops
  <2>2. CASE d = c
    <3> USE <2>2
    <3>1. CASE DelHash(c)
      <4>1. hash' = "none" /\ cleanup'[c].pc = "rem"
        BY <1>3, <3>1, CallMoves DEF Moved, FindContainer, StopContainer, ReadHash, DelHash,
           RemoveFromActiveSet, ClearKeys, UpdateRow, FindThrows
      <4> QED BY <4>1
    <3>2. CASE RemoveFromActiveSet(c)
      BY <3>2 DEF RemoveFromActiveSet
    <3>3. CASE ClearKeys(c)
      BY <3>3 DEF ClearKeys
    <3>4. CASE ReadHash(c) \/ FindContainer(c) \/ StopContainer(c) \/ UpdateRow(c) \/ (FindThrows(c) /\ ~Dies)
      <4>1. cleanup'[c].pc \in {"stop", "find", "clear", "del", "done"}
        BY <1>3, <3>4, CallMoves DEF Moved, FindContainer, StopContainer, ReadHash, DelHash,
           RemoveFromActiveSet, ClearKeys, UpdateRow, FindThrows
      <4> QED BY <4>1
    <3> QED BY <1>3, <3>1, <3>2, <3>3, <3>4 DEF Proceeds
  <2> QED BY <2>1, <2>2
<1>4. CASE Dies
  BY <1>4, DiesEnds, CallTypes
<1>5. CASE Outside
  BY <1>5, OutsideKeeps
<1>6. CASE UNCHANGED runVars
  BY <1>6 DEF runVars
<1> QED BY <1>1, <1>2, <1>3, <1>4, <1>5, <1>6, Steps

\* The row is settled by a cleanup that has given everything back.
LEMMA ReleasedStep ==
  ASSUME TypeOK, NothingAcquiredLate, KeysOutliveSandbox, CleanupProgress,
         SettledMeansReleased, [Next]_runVars
  PROVE  SettledMeansReleased'
<1> USE DEF SettledMeansReleased
<1> SUFFICES ASSUME {"stop", "redis"} \cap Faulty = {}, row' \in Verdicts
             PROVE  sandbox' # "up" /\ hash' = "none" /\ ~listed' /\ ~tracked'
  BY FaultsFixed
<1> DEFINE Goal == sandbox' # "up" /\ hash' = "none" /\ ~listed' /\ ~tracked'
<1>1. CASE Acquire
  BY <1>1, AcquireKeeps, AcquiredEarly
<1>2. ASSUME NEW c, NEW verdict, EntryStep(c, verdict) PROVE Goal
  BY <1>2 DEF EntryStep, Enters
<1>3. ASSUME NEW c \in Calls, Proceeds(c) PROVE Goal
  <2>1. CASE row \in Verdicts
    BY <1>3, <2>1, ProceedsKeeps, ProceedsDrops
  <2>2. CASE row \notin Verdicts
    <3>1. cleanup[c].pc = "row" /\ UNCHANGED <<tracked, sandbox, hash, listed>>
      BY <1>3, <2>2, ProceedsDrops
    <3> QED BY <3>1 DEF KeysOutliveSandbox, CleanupProgress, NothingAcquiredLate
  <2> QED BY <2>1, <2>2
<1>4. CASE Dies
  BY <1>4 DEF Dies
<1>5. CASE Outside
  BY <1>5, OutsideKeeps
<1>6. CASE UNCHANGED runVars
  BY <1>6 DEF runVars
<1> QED BY <1>1, <1>2, <1>3, <1>4, <1>5, <1>6, Steps

\* Whoever gives up the duty to stop the container passes it on.
LEMMA SomebodyStep ==
  ASSUME TypeOK, NothingAcquiredLate, SomebodyWillStop, [Next]_runVars
  PROVE  SomebodyWillStop'
<1> USE DEF SomebodyWillStop
<1> DEFINE Stopping == \E c \in Calls : cleanup[c].pc \in {"hash", "find", "stop"}
           Goal == start' # "over" \/ timer' = "armed" \/ Stopping'
<1> SUFFICES ASSUME server'.crashes = 0, {"find", "stop"} \cap Faulty = {}, sandbox' = "up"
             PROVE  Goal
  BY FaultsFixed
<1>1. CASE Acquire
  BY <1>1, AcquireKeeps
<1>2. ASSUME NEW c \in Calls, NEW verdict \in Verdicts, EntryStep(c, verdict)
      PROVE  Goal
  <2>1. cleanup'[c].pc \in {"stop", "hash"}
    BY <1>2 DEF EntryStep, Enters, Moved
  <2> QED BY <2>1
<1>3. ASSUME NEW c \in Calls, Proceeds(c) PROVE Goal
  <2>1. UNCHANGED <<start, timer, server>>
    BY <1>3, ProceedsKeeps
  <2>2. sandbox = "up"
    BY <1>3, ProceedsDrops
  <2>3. start # "over" \/ timer = "armed" \/ Stopping
    BY <2>1, <2>2
  <2>4. CASE Stopping
    <3>1. PICK d \in Calls : cleanup[d].pc \in {"hash", "find", "stop"}
      BY <2>4
    <3>2. CASE d # c
      <4>1. cleanup'[d] = cleanup[d]
        BY <1>3, <3>2, ProceedsMoves DEF Moved
      <4> QED BY <3>1, <4>1
    <3>3. CASE d = c
      <4>1. ~StopContainer(c) /\ ~FindThrows(c)
        BY DEF StopContainer, FindThrows
      <4>2. cleanup'[c].pc \in {"find", "stop"}
        BY <1>3, <2>2, <3>1, <3>3, <4>1, CallMoves DEF Moved, ReadHash, FindContainer, DelHash,
           RemoveFromActiveSet, ClearKeys, UpdateRow
      <4> QED BY <4>2
    <3> QED BY <3>2, <3>3
  <2> HIDE DEF Stopping
  <2> QED BY <2>1, <2>3, <2>4
<1>4. CASE Dies
  BY <1>4, ServerStep
<1>5. CASE Outside
  BY <1>5, OutsideKeeps
<1>6. CASE UNCHANGED runVars
  BY <1>6 DEF runVars
<1> QED BY <1>1, <1>2, <1>3, <1>4, <1>5, <1>6, Steps

\* The inductive invariant holds at first.
LEMMA InvInit == Init => IInv
<1> SUFFICES ASSUME Init PROVE IInv
  OBVIOUS
<1>1. TypeOK
  BY TypeInit
<1>2. \A c \in Calls : cleanup[c].pc = "new"
  BY DEF Init
<1> QED BY <1>1, <1>2 DEF Init, IInv, NothingAcquiredLate, LoadHasRow, CompletedCallsAfterLoad,
           CompletedOnlyAfterLoad, KeysOutliveSandbox, ReadyForLoad, CleanupProgress,
           SettledMeansReleased, SomebodyWillStop, Preparing

\* Every step keeps the inductive invariant.
LEMMA InvStep == IInv /\ [Next]_runVars => IInv'
BY TypeStep, NothingLateStep, LoadHasRowStep, CallsAfterLoadStep, CompletedStep, KeysOutliveStep,
   ReadyStep, ProgressStep, ReleasedStep, SomebodyStep DEF IInv

\* The inductive invariant holds in every reachable state.
LEMMA Invariance == Spec => []IInv
BY InvInit, InvStep, PTL DEF Spec

-----------------------------------------------------------------------------
(***************************************************************************)
(* The theorems.                                                           *)
(***************************************************************************)
\* The variables keep their types (TypeOK): in particular a row is written with
\* no other status than the four that the table's readers know.
THEOREM TypeCorrect == Spec => []TypeOK
BY Invariance, PTL DEF IInv

\* cleanupRun()'s default status reaches the row only of runs whose load began.
THEOREM CompletedRunsWereLoaded == Spec => []CompletedOnlyAfterLoad
BY Invariance, PTL DEF IInv

\* The bot fleet never works for a run without a row.
THEOREM LoadAlwaysHasRow == Spec => []LoadHasRow
BY Invariance, PTL DEF IInv

\* However many cleanups overlap, none drops the keys of a running container.
THEOREM KeysAlwaysOutliveSandbox == Spec => []KeysOutliveSandbox
BY Invariance, PTL DEF IInv

\* A settled run has given everything back, if containers stop and Redis answers.
THEOREM SettledIsReleased == Spec => []SettledMeansReleased
BY Invariance, PTL DEF IInv

\* In a process that does not die, somebody is always going to stop the container.
THEOREM SomebodyAlwaysStops == Spec => []SomebodyWillStop
BY Invariance, PTL DEF IInv

\* The first verdict stands, whatever fails and whoever comes later.
THEOREM VerdictStands == Spec => VerdictIsFinal
<1>1. ASSUME IInv, [Next]_runVars, row \in Verdicts PROVE row' = row
  <2>1. start # "insert"
    BY <1>1 DEF IInv, NothingAcquiredLate, Preparing
  <2>2. CASE Acquire
    BY <2>1, <2>2, AcquireKeeps
  <2>3. ASSUME NEW c, NEW verdict, EntryStep(c, verdict) PROVE row' = row
    BY <2>3 DEF EntryStep, Enters
  <2>4. ASSUME NEW c \in Calls, Proceeds(c) PROVE row' = row
    BY <1>1, <2>4 DEF Proceeds, ReadHash, FindContainer, FindThrows, StopContainer, DelHash,
       RemoveFromActiveSet, ClearKeys, UpdateRow, Settled
  <2>5. CASE Dies \/ Outside \/ UNCHANGED runVars
    BY <2>5 DEF Dies, Outside, Restart, LoadEnds, HashExpires, runVars
  <2> QED BY <1>1, <2>2, <2>3, <2>4, <2>5, Steps DEF IInv
<1>2. IInv /\ [Next]_runVars => [(row \in Verdicts) => (row' = row)]_runVars
  BY <1>1
<1> QED BY <1>2, Invariance, PTL DEF Spec, VerdictIsFinal

-----------------------------------------------------------------------------
(***************************************************************************)
(* BenchmarkRun implements RunLifecycle.                                   *)
(***************************************************************************)
\* Initial states map to initial states.
LEMMA LifecycleInit == Init => Lifecycle!LifeInit
BY DEF Init, Held, MayStay, Lifecycle!LifeInit, Lifecycle!Resources

\* A step that acquires nothing and leaves the row and the bots alone gives back.
LEMMA GivesBack ==
  ASSUME sandbox' \in {sandbox, "removed"}, tracked' = tracked \/ tracked' = FALSE,
         hash' \in {hash, "none"}, listed' = listed \/ listed' = FALSE,
         UNCHANGED <<row, load, MayStay>>
  PROVE  Lifecycle!LifeNext
<1>1. Held' \subseteq Held
  BY DEF Held
<1> QED BY <1>1 DEF Lifecycle!LifeNext, Lifecycle!GiveBack

\* Which resources a run may leave behind is settled from the start.
LEMMA MayStayFixed ==
  ASSUME TypeOK, [Next]_runVars
  PROVE  MayStay' = MayStay
BY FaultsFixed DEF MayStay

\* The steps of the start handler acquire, show the run, send the bots, or are invisible.
LEMMA LifecycleAcquires ==
  ASSUME TypeOK, NothingAcquiredLate, ReadyForLoad, Acquire, UNCHANGED MayStay
  PROVE  Lifecycle!LifeNext
<1> USE DEF NothingAcquiredLate, Preparing
<1>1. ASSUME NEW x \in {"sandbox", "entry", "hash", "listed"}, row = "none",
             Held' = Held \cup {x}, UNCHANGED <<row, load>>
      PROVE  Lifecycle!LifeNext
  BY <1>1 DEF Lifecycle!LifeNext, Lifecycle!Acquire, Lifecycle!Resources
<1>2. ASSUME row = "none", row' = "running", UNCHANGED <<tracked, sandbox, hash, listed, load>>
      PROVE  Lifecycle!LifeNext
  <2>1. Held' = Held
    BY <1>2 DEF Held
  <2> QED BY <1>2, <2>1 DEF Lifecycle!LifeNext, Lifecycle!Admit
<1>3. CASE SandboxCreated
  <2>1. Held' = Held \cup {"sandbox"}
    BY <1>3 DEF SandboxCreated, Held
  <2> QED BY <1>1, <1>3, <2>1 DEF SandboxCreated
<1>4. CASE SandboxReturns
  <2>1. Held' = Held \cup {"entry"}
    BY <1>4 DEF SandboxReturns, Held
  <2> QED BY <1>1, <1>4, <2>1 DEF SandboxReturns
<1>5. CASE SetHash
  <2>1. Held' = Held \cup {"hash"}
    BY <1>5 DEF SetHash, Held
  <2> QED BY <1>1, <1>5, <2>1 DEF SetHash
<1>6. CASE AddToActiveSet
  <2>1. Held' = Held \cup {"listed"}
    BY <1>6 DEF AddToActiveSet, Held
  <2> QED BY <1>1, <1>6, <2>1 DEF AddToActiveSet
<1>7. CASE InsertRow
  BY <1>2, <1>7 DEF InsertRow
<1>8. CASE TriggerReceived
  <2>1. Held' = Held /\ "sandbox" \in Held
    BY <1>8 DEF TriggerReceived, Held, ReadyForLoad
  <2>2. Lifecycle!SendBots
    BY <1>8, <2>1 DEF TriggerReceived, ReadyForLoad, Lifecycle!SendBots
  <2> QED BY <2>2 DEF Lifecycle!LifeNext
<1>9. CASE BeginStart \/ Healthy \/ TriggerAccepted \/ TriggerRejected \/ RejectThrows
  BY <1>9, GivesBack DEF BeginStart, Healthy, TriggerAccepted, TriggerRejected, RejectThrows
<1>10. CASE SetExpiry
  <2>1. Held' = Held /\ UNCHANGED <<row, load>>
    BY <1>10 DEF SetExpiry, Held
  <2> QED BY <2>1 DEF Lifecycle!LifeNext, Lifecycle!GiveBack
<1>11. CASE StartThrows
  <2>1. CASE hash' # hash
    <3>1. start = "hash" /\ hash' = "forever" /\ listed' = listed
      BY <1>11, <2>1 DEF StartThrows
    <3>2. Held' = Held \cup {"hash"}
      BY <1>11, <3>1 DEF StartThrows, Held
    <3>3. row = "none" /\ UNCHANGED <<row, load>>
      BY <1>11, <3>1 DEF StartThrows
    <3> QED BY <1>1, <3>2, <3>3
  <2>2. CASE listed' # listed
    <3>1. start = "list" /\ listed' = TRUE /\ hash' = hash
      BY <1>11, <2>2 DEF StartThrows
    <3>2. Held' = Held \cup {"listed"}
      BY <1>11, <3>1 DEF StartThrows, Held
    <3>3. row = "none" /\ UNCHANGED <<row, load>>
      BY <1>11, <3>1 DEF StartThrows
    <3> QED BY <1>1, <3>2, <3>3
  <2>3. CASE row' # row
    <3>1. start = "insert" /\ row' = "running" /\ UNCHANGED <<hash, listed>>
      BY <1>11, <2>3 DEF StartThrows
    <3> QED BY <1>2, <1>11, <3>1 DEF StartThrows
  <2>4. CASE UNCHANGED <<hash, listed, row>>
    BY <1>11, <2>4, GivesBack DEF StartThrows
  <2> QED BY <2>1, <2>2, <2>3, <2>4
<1> QED BY <1>3, <1>4, <1>5, <1>6, <1>7, <1>8, <1>9, <1>10, <1>11 DEF Acquire

\* A cleanup gives back, and settles the row when nothing is left that it could have given back.
LEMMA LifecycleCleans ==
  ASSUME IInv, NEW c \in Calls, Proceeds(c), UNCHANGED MayStay
  PROVE  Lifecycle!LifeNext
<1> USE DEF IInv
<1>1. CASE row' = row
  BY <1>1, ProceedsKeeps, ProceedsDrops, GivesBack
<1>2. CASE row' # row
  <2>1. cleanup[c].pc = "row" /\ UNCHANGED <<tracked, sandbox, hash, listed, load>>
    BY <1>2, ProceedsKeeps, ProceedsDrops
  <2>2. /\ "stop" \notin Faulty => sandbox # "up"
        /\ "redis" \notin Faulty => hash = "none" /\ ~listed
        /\ ~tracked
    BY <2>1 DEF KeysOutliveSandbox, CleanupProgress, NothingAcquiredLate
  <2>3. Held \subseteq MayStay /\ Held' = Held
    BY <2>1, <2>2 DEF Held, MayStay
  <2>4. row = "running" /\ row' = cleanup[c].verdict
    BY <1>2 DEF Proceeds, ReadHash, FindContainer, FindThrows, StopContainer, DelHash,
       RemoveFromActiveSet, ClearKeys, UpdateRow, Settled
  <2>5. row' \in Verdicts /\ (row' = "completed" => load # "off")
    BY <2>1, <2>4, CallTypes DEF CompletedCallsAfterLoad, CallState
  <2>6. Lifecycle!Settle(row')
    BY <2>1, <2>3, <2>4, <2>5 DEF Lifecycle!Settle
  <2> QED BY <2>5, <2>6 DEF Lifecycle!LifeNext
<1> QED BY <1>1, <1>2

\* Every step maps to a step of the lifecycle or to a stutter.
LEMMA LifecycleStep ==
  ASSUME IInv, [Next]_runVars
  PROVE  [Lifecycle!LifeNext]_(Lifecycle!lifeVars)
<1> USE DEF IInv
<1>1. UNCHANGED MayStay
  BY MayStayFixed
<1>2. CASE Acquire
  BY <1>1, <1>2, LifecycleAcquires
<1>3. ASSUME NEW c, NEW verdict, EntryStep(c, verdict) PROVE Lifecycle!LifeNext
  BY <1>1, <1>3, GivesBack DEF EntryStep, Enters
<1>4. ASSUME NEW c \in Calls, Proceeds(c) PROVE Lifecycle!LifeNext
  BY <1>1, <1>4, LifecycleCleans
<1>5. CASE Dies
  BY <1>1, <1>5, GivesBack DEF Dies
<1>6. CASE Restart \/ HashExpires
  BY <1>1, <1>6, GivesBack DEF Restart, HashExpires
<1>7. CASE LoadEnds
  <2>1. Held' = Held
    BY <1>7 DEF LoadEnds, Held
  <2>2. Lifecycle!BotsEnd
    BY <1>1, <1>7, <2>1 DEF LoadEnds, Lifecycle!BotsEnd
  <2> QED BY <2>2 DEF Lifecycle!LifeNext
<1>8. CASE UNCHANGED runVars
  BY <1>1, <1>8, GivesBack DEF runVars
<1> QED BY <1>2, <1>3, <1>4, <1>5, <1>6, <1>7, <1>8, Steps DEF Outside

\* Whatever fails, overlaps and crashes, what the polling client, the bots and the
\* sandbox see of a run is RunLifecycle: cleanupRun() settles the row once, last, and
\* as completed only if the bots were sent.
THEOREM RunImplementsLifecycle == Spec => ImplementsRunLifecycle
<1>1. IInv /\ [Next]_runVars => [Lifecycle!LifeNext]_(Lifecycle!lifeVars)
  BY LifecycleStep
<1> QED BY <1>1, LifecycleInit, Invariance, PTL DEF Spec, ImplementsRunLifecycle, Lifecycle!LifeSpec

=============================================================================
