----------------------------- MODULE Dashboard -----------------------------
(***************************************************************************)
(* The dashboard of one browser tab: a session, a submission that is being *)
(* built, a run that is being tested, the socket its live metrics come     *)
(* from and the polls that tell when build and run are over.               *)
(*                                                                         *)
(* fetch() is asynchronous and nothing is ever cancelled: a request's      *)
(* effect on the server and the answer it computes are one step, the       *)
(* answer's arrival is another, and in between the user may log out, other *)
(* requests may be answered, and the page may have moved on to another     *)
(* submission or run.  What the page only displays (logs, the stream's     *)
(* status line, standings) is left out.                                    *)
(***************************************************************************)
EXTENDS Naturals, Sequences, Bags

CONSTANTS Teams,         \* teams that may log in; a team has one user
          NoTeam,        \* nobody is logged in
          MaxSubs,       \* bound on submissions
          MaxRuns,       \* bound on runs
          MaxInFlight    \* bound on requests in flight

ASSUME TeamAssumption  == NoTeam \notin Teams
ASSUME BoundAssumption == {MaxSubs, MaxRuns, MaxInFlight} \subseteq Nat

VARIABLES
  page,      \* the states and refs of App(); left: there was a logout (history)
  sockets,   \* runs whose WebSocket is open
  inFlight,  \* bag of the answers on their way to the page
  subs,      \* submissions, in the order of their ids
  runs       \* benchmark_runs, in the order they were created

dashVars == <<page, sockets, inFlight, subs, runs>>

\* An id of 0 is null.
Null   == 0
SubIds == 1..MaxSubs
RunIds == 1..MaxRuns

Final(status) == status \in {"built", "failed", "completed"}

\* An answer: of which request, about what, and what it says.
Answer == [of : {"upload", "build", "start", "run"}, id : 0..(MaxSubs + MaxRuns),
           says : {"ok", "gone", "error", "queued", "built", "running", "completed", "failed"}]

FreshPage ==
  [user |-> NoTeam, submissionId |-> Null, isBuilding |-> FALSE, pollsAs |-> NoTeam,
   activeRunId |-> Null, isTesting |-> FALSE, wsRef |-> Null, chart |-> {},
   left |-> FALSE]

Init ==
  /\ page = FreshPage
  /\ sockets = {}
  /\ inFlight = EmptyBag
  /\ subs = <<>> /\ runs = <<>>

-----------------------------------------------------------------------------
(***************************************************************************)
(* Requests and answers.                                                   *)
(***************************************************************************)
Sends(of, id, says) ==
  /\ BagCardinality(inFlight) < MaxInFlight
  /\ inFlight' = inFlight (+) SetToBag({[of |-> of, id |-> id, says |-> says]})

Arrives(a) ==
  /\ BagIn(a, inFlight)
  /\ inFlight' = inFlight (-) SetToBag({a})

Pending(of) == \E a \in BagToSet(inFlight) : a.of = of

\* The interval of checkBuildStatus() is set anew whenever isBuilding or
\* submissionId changes, and keeps the user of the render in which they did.
Effect(p) ==
  [p EXCEPT !.pollsAs = IF <<p.isBuilding, p.submissionId>>
                             = <<page.isBuilding, page.submissionId>>
                        THEN @ ELSE p.user]

Becomes(p) == page' = Effect(p)

-----------------------------------------------------------------------------
(***************************************************************************)
(* The session.                                                            *)
(***************************************************************************)
\* handleAuthSubmit() was answered with a session.
LogIn(t) ==
  /\ page.user = NoTeam
  /\ Becomes([page EXCEPT !.user = t])
  /\ UNCHANGED <<sockets, inFlight, subs, runs>>

\* Busy flags, socket and requests in flight survive a logout.
LoggedOut(p) ==
  [p EXCEPT !.user = NoTeam, !.submissionId = Null, !.activeRunId = Null, !.chart = {},
            !.left = TRUE]

LogOut ==
  /\ page.user # NoTeam
  /\ Becomes(LoggedOut(page))
  /\ UNCHANGED <<sockets, inFlight, subs, runs>>

\* The tab is loaded again: the session comes back from localStorage, everything
\* else is gone, and answers find nobody.
Reload ==
  /\ page' = [FreshPage EXCEPT !.user = page.user]
  /\ sockets' = {}
  /\ inFlight' = EmptyBag
  /\ UNCHANGED <<subs, runs>>

-----------------------------------------------------------------------------
(***************************************************************************)
(* Submission and build.                                                   *)
(***************************************************************************)
\* handleCompileSubmit(): the submission is stored or not, and the answer says so
\* unless it is lost; "gone" is 404 'Team not found', of an account that MongoDB
\* does not have any more.
Upload ==
  /\ page.user # NoTeam /\ ~page.isBuilding /\ ~page.isTesting
  /\ \/ /\ Len(subs) < MaxSubs
        /\ subs' = Append(subs, [team |-> page.user, status |-> "queued"])
        /\ \E says \in {"ok", "error"} : Sends("upload", Len(subs'), says)
     \/ /\ UNCHANGED subs
        /\ \E says \in {"gone", "error"} : Sends("upload", Null, says)
  /\ Becomes([page EXCEPT !.isBuilding = TRUE])
  /\ UNCHANGED <<sockets, runs>>

\* Mutant of UploadAnswered: an upload that failed leaves the button as it is.
UploadAnsweredBusy(a) ==
  /\ a.of = "upload" /\ Arrives(a)
  /\ Becomes(IF a.says = "gone" THEN LoggedOut(page)
             ELSE [page EXCEPT !.submissionId = IF a.says = "ok" THEN a.id ELSE @])
  /\ UNCHANGED <<sockets, subs, runs>>

\* The session may be another one by now.  isBuilding stays up after a logout.
UploadAnswered(a) ==
  /\ a.of = "upload" /\ Arrives(a)
  /\ Becomes(CASE a.says = "ok"    -> [page EXCEPT !.submissionId = a.id]
               [] a.says = "gone"  -> LoggedOut(page)
               [] a.says = "error" -> [page EXCEPT !.isBuilding = FALSE])
  /\ UNCHANGED <<sockets, subs, runs>>

\* One tick of the interval.  GET /submissions/:id shows a submission to its team;
\* a poll that is refused or lost changes nothing the page keeps.
PollBuild ==
  /\ page.isBuilding /\ page.submissionId # Null
  /\ LET s == page.submissionId IN
       page.pollsAs = subs[s].team /\ Sends("build", s, subs[s].status)
  /\ UNCHANGED <<page, sockets, subs, runs>>

\* checkBuildStatus(): which submission the answer is about does not matter.
BuildAnswered(a) ==
  /\ a.of = "build" /\ Arrives(a)
  /\ Becomes([page EXCEPT !.isBuilding = @ /\ ~Final(a.says)])
  /\ UNCHANGED <<sockets, subs, runs>>

\* The build queue and its worker.
BuildSettles(s) ==
  /\ subs[s].status = "queued"
  /\ \E status \in {"built", "failed"} : subs' = [subs EXCEPT ![s].status = status]
  /\ UNCHANGED <<page, sockets, inFlight, runs>>

-----------------------------------------------------------------------------
(***************************************************************************)
(* Test run.                                                               *)
(***************************************************************************)
\* handleStartBenchmark(): the run is started or not; the answer of a started one
\* may be lost.
StartBenchmark ==
  /\ page.user # NoTeam /\ page.submissionId # Null
  /\ ~page.isTesting /\ ~page.isBuilding
  /\ \/ /\ subs[page.submissionId] = [team |-> page.user, status |-> "built"]
        /\ Len(runs) < MaxRuns
        /\ runs' = Append(runs, [team |-> page.user, status |-> "running"])
        /\ \E says \in {"ok", "error"} : Sends("start", Len(runs'), says)
     \/ /\ UNCHANGED runs
        /\ Sends("start", Null, "error")
  /\ Becomes([page EXCEPT !.isTesting = TRUE])
  /\ UNCHANGED <<sockets, subs>>

\* Mutant of Connect: the socket of the run before is left open.
ConnectOnly(r) == sockets' = sockets \cup {r}

\* connectTelemetryWS() closes the socket of the run before.
Connect(r) == sockets' = (sockets \ {page.wsRef}) \cup {r}

\* Mutant of StartAnswered: res.ok is not looked at.
StartAnsweredUnchecked(a) ==
  /\ a.of = "start" /\ Arrives(a)
  /\ Becomes([page EXCEPT !.activeRunId = a.id, !.wsRef = a.id, !.chart = {}])
  /\ Connect(a.id)
  /\ UNCHANGED <<subs, runs>>

StartAnswered(a) ==
  /\ a.of = "start" /\ Arrives(a)
  /\ \/ /\ a.says = "ok"
        /\ Becomes([page EXCEPT !.activeRunId = a.id, !.wsRef = a.id, !.chart = {}])
        /\ Connect(a.id)
     \/ /\ a.says = "error"
        /\ Becomes([page EXCEPT !.isTesting = FALSE])
        /\ UNCHANGED sockets
  /\ UNCHANGED <<subs, runs>>

\* pollRun(), as long as there is a run and a user, also when the run is over.
PollRun ==
  /\ page.activeRunId # Null /\ page.user # NoTeam
  /\ LET r == page.activeRunId IN
       page.user = runs[r].team /\ Sends("run", r, runs[r].status)
  /\ UNCHANGED <<page, sockets, subs, runs>>

\* Mutant of RunAnswered: a failed run is not an end.
RunAnsweredUntilCompleted(a) ==
  /\ a.of = "run" /\ Arrives(a)
  /\ Becomes([page EXCEPT !.isTesting = @ /\ a.says # "completed"])
  /\ UNCHANGED <<sockets, subs, runs>>

RunAnswered(a) ==
  /\ a.of = "run" /\ Arrives(a)
  /\ Becomes([page EXCEPT !.isTesting = @ /\ ~Final(a.says)])
  /\ UNCHANGED <<sockets, subs, runs>>

\* The orchestrator's cleanup.
RunSettles(r) ==
  /\ runs[r].status = "running"
  /\ \E status \in {"completed", "failed"} : runs' = [runs EXCEPT ![r].status = status]
  /\ UNCHANGED <<page, sockets, inFlight, subs>>

-----------------------------------------------------------------------------
(***************************************************************************)
(* The stream.  The ingester broadcasts every run to every client.         *)
(***************************************************************************)
\* The ingester goes away; nobody connects again.
SocketDrops(r) ==
  /\ sockets' = sockets \ {r}
  /\ UNCHANGED <<page, inFlight, subs, runs>>

\* Mutant of Shows: every tick is shown.
ShowsAll(r, tick) == TRUE

\* data.run_id === runId, of the run the socket was opened for.
Shows(r, tick) == tick = r

\* A closed socket delivers nothing.
TickArrives(r, tick) ==
  /\ Shows(r, tick)
  /\ page' = [page EXCEPT !.chart = @ \cup {tick}]
  /\ UNCHANGED <<sockets, inFlight, subs, runs>>

-----------------------------------------------------------------------------
Answered(a) == UploadAnswered(a) \/ BuildAnswered(a) \/ StartAnswered(a) \/ RunAnswered(a)

Next ==
  \/ \E t \in Teams : LogIn(t)
  \/ LogOut \/ Reload
  \/ Upload \/ StartBenchmark
  \/ PollBuild \/ PollRun
  \/ \E a \in BagToSet(inFlight) : Answered(a)
  \/ \E s \in DOMAIN subs : BuildSettles(s)
  \/ \E r \in DOMAIN runs : RunSettles(r)
  \/ \E r \in sockets : SocketDrops(r)
  \/ \E r \in sockets, tick \in DOMAIN runs : TickArrives(r, tick)

Spec == Init /\ [][Next]_dashVars

\* Requests are answered; a poll gets through as long as it is repeated; an answer
\* that ends the waiting is not overtaken by others for ever.
Fairness ==
  /\ SF_dashVars(PollBuild) /\ SF_dashVars(PollRun)
  /\ WF_dashVars(\E a \in BagToSet(inFlight) : Answered(a))
  /\ WF_dashVars(\E a \in BagToSet(inFlight) : Final(a.says) /\ Answered(a))

FairSpec == Spec /\ Fairness

-----------------------------------------------------------------------------
(***************************************************************************)
(* Properties.                                                             *)
(***************************************************************************)
\* Every variable keeps its type.
TypeOK ==
  /\ page \in [user : Teams \cup {NoTeam}, submissionId : 0..MaxSubs, isBuilding : BOOLEAN,
               pollsAs : Teams \cup {NoTeam}, activeRunId : 0..MaxRuns, isTesting : BOOLEAN,
               wsRef : 0..MaxRuns, chart : SUBSET RunIds, left : BOOLEAN]
  /\ sockets \subseteq RunIds
  /\ IsABag(inFlight) /\ BagToSet(inFlight) \subseteq Answer
  /\ subs \in Seq([team : Teams, status : {"queued", "built", "failed"}])
  /\ runs \in Seq([team : Teams, status : {"running", "completed", "failed"}])

\* What the chart shows under a run's id is that run's: through logouts, sockets that
\* stay open, starts answered late and the broadcasts of every other run.
ChartMatchesRun == page.activeRunId # Null => page.chart \subseteq {page.activeRunId}

\* While nobody has logged out of the page, a disabled button waits for something
\* that is going to come: an upload or a start in flight, or a poll of a submission
\* or run of the session's team.  And it is not enabled too early: the first
\* submission is waited for until it is built or failed, the first run until it is
\* settled.  (From the second on an answer about the one before may end the wait.)
BusyFlags ==
  ~page.left =>
    /\ page.isBuilding => \/ Pending("upload")
                          \/ /\ page.submissionId # Null
                             /\ page.pollsAs = subs[page.submissionId].team
    /\ page.isTesting => \/ Pending("start")
                         \/ /\ page.activeRunId # Null
                            /\ page.user = runs[page.activeRunId].team
    /\ page.submissionId = 1 /\ subs[1].status = "queued" => page.isBuilding
    /\ page.activeRunId = 1 /\ runs[1].status = "running" => page.isTesting

\* The page waits for a submission that is built or failed, with its team's token.
BuildFollowed(s) ==
  /\ page.isBuilding /\ page.submissionId = s
  /\ Final(subs[s].status) /\ page.pollsAs = subs[s].team

\* The same for a run.
RunFollowed(r) ==
  /\ page.isTesting /\ page.activeRunId = r
  /\ Final(runs[r].status) /\ page.user = runs[r].team

\* However polls overlap and requests fail, the wait for a build or a run that is
\* over ends, after logouts as well if the session follows it again.
ButtonsComeBack ==
  /\ \A s \in SubIds : BuildFollowed(s) ~> ~BuildFollowed(s)
  /\ \A r \in RunIds : RunFollowed(r) ~> ~RunFollowed(r)
=============================================================================
