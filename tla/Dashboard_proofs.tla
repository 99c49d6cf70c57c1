------------------------- MODULE Dashboard_proofs -------------------------
(***************************************************************************)
(* Proofs about Dashboard: types, that the chart is of the run it is shown *)
(* under, and that until the first logout the buttons are disabled exactly *)
(* as long as there is something to wait for.                              *)
(***************************************************************************)
EXTENDS Dashboard, TLAPS

-----------------------------------------------------------------------------
(***************************************************************************)
(* The invariant.                                                          *)
(***************************************************************************)
\* What an answer says is so, and remains so.
Tells(a) ==
  /\ a.of = "upload" => a.says \in {"ok", "gone", "error"}
  /\ a.of = "start" => a.says \in {"ok", "error"}
  /\ a.of = "upload" /\ a.says = "ok" => a.id \in DOMAIN subs
  /\ a.of = "start" /\ a.says = "ok" => a.id \in DOMAIN runs
  /\ a.of = "build" => a.id \in DOMAIN subs /\ (Final(a.says) => Final(subs[a.id].status))
  /\ a.of = "run" => a.id \in DOMAIN runs /\ (Final(a.says) => Final(runs[a.id].status))

AnswersTell == \A a \in BagToSet(inFlight) : Tells(a)

\* The page is about submissions and runs there are.
PageKnows ==
  /\ Len(subs) <= MaxSubs /\ Len(runs) <= MaxRuns
  /\ page.submissionId \in {Null} \cup DOMAIN subs
  /\ page.activeRunId \in {Null} \cup DOMAIN runs

\* There is one socket at most, that of the last run that was started.
OneStream ==
  /\ sockets \subseteq {page.wsRef}
  /\ page.activeRunId # Null => page.activeRunId = page.wsRef /\ page.chart \subseteq {page.wsRef}

\* What was stored for the user is of the user's team.
OwnAnswer(a) ==
  /\ a.of = "upload" /\ a.says = "ok" => subs[a.id].team = page.user
  /\ a.of = "start" /\ a.says = "ok" => runs[a.id].team = page.user

\* Before the first logout, everything is of the one session.
OwnSession ==
  ~page.left =>
    /\ page.user = NoTeam => /\ BagToSet(inFlight) = {}
                             /\ page.submissionId = Null /\ page.activeRunId = Null
                             /\ ~page.isBuilding /\ ~page.isTesting
    /\ page.isBuilding => page.pollsAs = page.user
    /\ page.submissionId # Null => subs[page.submissionId].team = page.user
    /\ page.activeRunId # Null => runs[page.activeRunId].team = page.user
    /\ \A a \in BagToSet(inFlight) : OwnAnswer(a)

\* The answers to one kind of request are one.
Single(of) ==
  \A a, b \in BagToSet(inFlight) : a.of = of /\ b.of = of => a = b /\ inFlight[a] = 1

\* Before the first logout: no submission yet, or the first one and it is queued.
BuildAwaited ==
  ~page.left =>
    /\ page.submissionId = Null => /\ ~Pending("build") /\ Single("upload")
                                   /\ page.isBuilding <=> Pending("upload")
    /\ \A a \in BagToSet(inFlight) :
         a.of = "upload" /\ a.says = "ok" /\ a.id = 1 => page.submissionId = Null
    /\ page.submissionId = 1 =>
         /\ \A a \in BagToSet(inFlight) : a.of = "build" => a.id = 1
         /\ subs[1].status = "queued" => page.isBuilding /\ ~Pending("upload")

\* The same of the runs.
RunAwaited ==
  ~page.left =>
    /\ page.activeRunId = Null => /\ ~Pending("run") /\ Single("start")
                                  /\ page.isTesting <=> Pending("start")
    /\ \A a \in BagToSet(inFlight) :
         a.of = "start" /\ a.says = "ok" /\ a.id = 1 => page.activeRunId = Null
    /\ page.activeRunId = 1 =>
         /\ \A a \in BagToSet(inFlight) : a.of = "run" => a.id = 1
         /\ runs[1].status = "running" => page.isTesting /\ ~Pending("start")

IInv ==
  /\ TypeOK /\ AnswersTell /\ PageKnows /\ OneStream
  /\ OwnSession /\ BuildAwaited /\ RunAwaited

-----------------------------------------------------------------------------
(***************************************************************************)
(* What the operators of the model do.                                     *)
(***************************************************************************)
Pages == [user : Teams \cup {NoTeam}, submissionId : 0..MaxSubs, isBuilding : BOOLEAN,
          pollsAs : Teams \cup {NoTeam}, activeRunId : 0..MaxRuns, isTesting : BOOLEAN,
          wsRef : 0..MaxRuns, chart : SUBSET RunIds, left : BOOLEAN]
SubType == [team : Teams, status : {"queued", "built", "failed"}]
RunType == [team : Teams, status : {"running", "completed", "failed"}]

\* The answers to one kind of request are those there were.
Untouched(of) ==
  \A a \in BagToSet(inFlight) \cup BagToSet(inFlight') :
    a.of = of => /\ a \in BagToSet(inFlight) /\ a \in BagToSet(inFlight')
                 /\ inFlight'[a] = inFlight[a]

\* One more answer is on its way.
LEMMA SendsAdds ==
  ASSUME TypeOK, NEW of, NEW id, NEW says, Sends(of, id, says),
         [of |-> of, id |-> id, says |-> says] \in Answer
  PROVE  LET x == [of |-> of, id |-> id, says |-> says] IN
         /\ IsABag(inFlight') /\ BagToSet(inFlight') \subseteq Answer
         /\ BagToSet(inFlight') = BagToSet(inFlight) \cup {x}
         /\ \A a \in BagToSet(inFlight) : a # x => inFlight'[a] = inFlight[a]
         /\ x \notin BagToSet(inFlight) => inFlight'[x] = 1
<1> DEFINE x == [of |-> of, id |-> id, says |-> says]
<1> HIDE DEF x
<1>1. inFlight' = inFlight (+) SetToBag({x})
  BY DEF Sends, x
<1>2. /\ inFlight \in [DOMAIN inFlight -> {n \in Nat : n > 0}]
      /\ DOMAIN inFlight \subseteq Answer /\ x \in Answer
  BY DEF TypeOK, IsABag, BagToSet, x
<1>3. inFlight' = [e \in DOMAIN inFlight \cup {x} |->
                       (IF e \in DOMAIN inFlight THEN inFlight[e] ELSE 0)
                     + (IF e \in {x} THEN 1 ELSE 0)]
  BY <1>1 DEF SetToBag, (+)
<1>4. DOMAIN inFlight' = DOMAIN inFlight \cup {x}
  BY <1>3
<1>5. \A a \in DOMAIN inFlight : a # x => inFlight'[a] = inFlight[a]
  BY <1>2, <1>3
<1>6. x \notin DOMAIN inFlight => inFlight'[x] = 1
  BY <1>2, <1>3
<1>7. \A e \in DOMAIN inFlight' : inFlight'[e] \in Nat /\ inFlight'[e] > 0
  BY <1>2, <1>3
<1>8. inFlight' \in [DOMAIN inFlight' -> {n \in Nat : n > 0}]
  BY <1>3, <1>4, <1>7
<1> QED
  BY <1>2, <1>4, <1>5, <1>6, <1>8 DEF IsABag, BagToSet, x

\* One answer less is on its way.
LEMMA ArrivesTakes ==
  ASSUME TypeOK, NEW a, Arrives(a)
  PROVE  /\ a \in BagToSet(inFlight)
         /\ IsABag(inFlight') /\ BagToSet(inFlight') \subseteq BagToSet(inFlight)
         /\ \A b \in BagToSet(inFlight) :
              b # a => b \in BagToSet(inFlight') /\ inFlight'[b] = inFlight[b]
         /\ inFlight[a] = 1 => a \notin BagToSet(inFlight')
<1>1. inFlight' = inFlight (-) SetToBag({a}) /\ a \in DOMAIN inFlight
  BY DEF Arrives, BagIn, BagToSet
<1>2. /\ inFlight \in [DOMAIN inFlight -> {n \in Nat : n > 0}]
  BY DEF TypeOK, IsABag
<1> DEFINE B == [e \in DOMAIN inFlight |-> IF e \in {a} THEN inFlight[e] - 1 ELSE inFlight[e]]
           D == {d \in DOMAIN inFlight : B[d] > 0}
<1>3. inFlight' = [e \in D |-> B[e]]
  BY <1>1 DEF SetToBag, (-)
<1>4. \A e \in DOMAIN inFlight : /\ B[e] \in Nat
                                 /\ e # a => B[e] = inFlight[e] /\ B[e] > 0
                                 /\ e = a => B[e] = inFlight[e] - 1
  BY <1>2
<1> HIDE DEF B
<1>5. DOMAIN inFlight' = D /\ \A e \in D : inFlight'[e] = B[e]
  BY <1>3
<1>6. inFlight' \in [DOMAIN inFlight' -> {n \in Nat : n > 0}]
  BY <1>3, <1>4
<1>7. inFlight[a] = 1 => a \notin D
  BY <1>1, <1>4
<1>8. \A b \in DOMAIN inFlight : b # a => b \in D /\ inFlight'[b] = inFlight[b]
  BY <1>4, <1>5
<1> QED
  BY <1>1, <1>5, <1>6, <1>7, <1>8 DEF IsABag, BagToSet

\* What a request leaves alone, and what its answer does.
LEMMA SendsLeaves ==
  ASSUME TypeOK, NEW of, NEW id, NEW says, Sends(of, id, says),
         [of |-> of, id |-> id, says |-> says] \in Answer,
         NEW other, other # of
  PROVE  Untouched(other)
<1> DEFINE x == [of |-> of, id |-> id, says |-> says]
<1>1. x.of = of
  OBVIOUS
<1> HIDE DEF x
<1>2. /\ BagToSet(inFlight') = BagToSet(inFlight) \cup {x}
      /\ \A a \in BagToSet(inFlight) : a # x => inFlight'[a] = inFlight[a]
  BY SendsAdds DEF x
<1> QED
  BY <1>1, <1>2 DEF Untouched

LEMMA ArrivesLeaves ==
  ASSUME TypeOK, NEW a, Arrives(a), NEW other, other # a.of
  PROVE  Untouched(other)
  BY ArrivesTakes DEF Untouched

\* The page takes on what it becomes, and whose token the interval uses.
LEMMA EffectDoes ==
  ASSUME TypeOK, NEW p \in Pages, Becomes(p), p.pollsAs = page.pollsAs
  PROVE  /\ page' \in Pages
         /\ page'.user = p.user /\ page'.submissionId = p.submissionId
         /\ page'.isBuilding = p.isBuilding /\ page'.activeRunId = p.activeRunId
         /\ page'.isTesting = p.isTesting /\ page'.wsRef = p.wsRef
         /\ page'.chart = p.chart /\ page'.left = p.left
         /\ page'.pollsAs \in {page.pollsAs, p.user}
         /\ \/ page'.pollsAs = p.user
            \/ /\ page'.pollsAs = page.pollsAs
               /\ p.isBuilding = page.isBuilding /\ p.submissionId = page.submissionId
<1> DEFINE same == <<p.isBuilding, p.submissionId>> = <<page.isBuilding, page.submissionId>>
           whose == IF same THEN p.pollsAs ELSE p.user
<1>1. page' = [p EXCEPT !.pollsAs = whose]
  BY DEF Becomes, Effect
<1>2. whose \in Teams \cup {NoTeam}
  BY DEF Pages
<1>3. \/ whose = p.user
      \/ /\ whose = page.pollsAs
         /\ p.isBuilding = page.isBuilding /\ p.submissionId = page.submissionId
  OBVIOUS
<1> HIDE DEF whose
<1>4. page' \in Pages
  BY <1>1, <1>2 DEF Pages
<1>5. /\ page'.user = p.user /\ page'.submissionId = p.submissionId
      /\ page'.isBuilding = p.isBuilding /\ page'.activeRunId = p.activeRunId
      /\ page'.isTesting = p.isTesting /\ page'.wsRef = p.wsRef
      /\ page'.chart = p.chart /\ page'.left = p.left
      /\ page'.pollsAs = whose
  BY <1>1 DEF Pages
<1> QED
  BY <1>3, <1>4, <1>5

-----------------------------------------------------------------------------
(***************************************************************************)
(* What the steps leave alone.                                             *)
(***************************************************************************)
\* Submissions and runs are added and settled, and never change otherwise.
Keeps(old, new) ==
  \A i \in DOMAIN old : /\ i \in DOMAIN new /\ new[i].team = old[i].team
                        /\ Final(old[i].status) => new[i].status = old[i].status

LEMMA AppendKeeps ==
  ASSUME NEW T, NEW q \in Seq(T), NEW e \in T
  PROVE  /\ Append(q, e) \in Seq(T) /\ Keeps(q, Append(q, e))
         /\ Len(Append(q, e)) = Len(q) + 1 /\ Append(q, e)[Len(q) + 1] = e
         /\ DOMAIN q = 1..Len(q) /\ Len(q) \in Nat
         /\ DOMAIN Append(q, e) = 1..(Len(q) + 1)
<1>1. /\ Append(q, e) \in Seq(T) /\ Len(Append(q, e)) = Len(q) + 1
      /\ Append(q, e)[Len(q) + 1] = e /\ Len(q) \in Nat
      /\ DOMAIN q = 1..Len(q) /\ DOMAIN Append(q, e) = 1..(Len(q) + 1)
  OBVIOUS
<1>2. \A i \in 1..Len(q) : Append(q, e)[i] = q[i]
  OBVIOUS
<1> QED
  BY <1>1, <1>2 DEF Keeps

LEMMA SameKeeps == Keeps(subs, subs) /\ Keeps(runs, runs)
  BY DEF Keeps

LEMMA TypedSubs ==
  ASSUME TypeOK
  PROVE  /\ subs \in Seq(SubType) /\ DOMAIN subs = 1..Len(subs) /\ Len(subs) \in Nat
         /\ \A s \in DOMAIN subs : /\ subs[s] \in SubType /\ subs[s].team \in Teams
                                  /\ subs[s].status \in {"queued", "built", "failed"}
<1>1. subs \in Seq(SubType)
  BY DEF TypeOK, SubType
<1>2. DOMAIN subs = 1..Len(subs) /\ Len(subs) \in Nat /\ \A s \in DOMAIN subs : subs[s] \in SubType
  BY <1>1
<1> QED
  BY <1>1, <1>2 DEF SubType

LEMMA TypedRuns ==
  ASSUME TypeOK
  PROVE  /\ runs \in Seq(RunType) /\ DOMAIN runs = 1..Len(runs) /\ Len(runs) \in Nat
         /\ \A r \in DOMAIN runs : /\ runs[r] \in RunType /\ runs[r].team \in Teams
                                  /\ runs[r].status \in {"running", "completed", "failed"}
<1>1. runs \in Seq(RunType)
  BY DEF TypeOK, RunType
<1>2. DOMAIN runs = 1..Len(runs) /\ Len(runs) \in Nat /\ \A r \in DOMAIN runs : runs[r] \in RunType
  BY <1>1
<1> QED
  BY <1>1, <1>2 DEF RunType

\* Answers that remain tell what they told.
LEMMA AnswerStillTells ==
  ASSUME NEW a, Tells(a), Keeps(subs, subs'), Keeps(runs, runs')
  PROVE  Tells(a)'
  BY DEF Tells, Keeps

LEMMA BuildStillAwaited ==
  ASSUME TypeOK, PageKnows, BuildAwaited, Keeps(subs, subs'),
         page'.left = page.left, page'.submissionId = page.submissionId,
         page'.isBuilding = page.isBuilding, Untouched("upload"), Untouched("build")
  PROVE  BuildAwaited'
<1> SUFFICES ASSUME ~page.left, ~page'.left PROVE BuildAwaited'
  BY DEF BuildAwaited
<1>1. \A of \in {"upload", "build"} : Pending(of)' <=> Pending(of)
  BY DEF Untouched, Pending
<1>2. Single("upload") => Single("upload")'
  BY DEF Untouched, Single
<1>3. ASSUME page.submissionId = 1, subs'[1].status = "queued" PROVE subs[1].status = "queued"
  <2>1. 1 \in DOMAIN subs
    BY <1>3 DEF PageKnows, Null
  <2>2. subs[1].status \in {"queued", "built", "failed"}
    BY <2>1, TypedSubs
  <2> QED
    BY <2>1, <2>2, <1>3 DEF Keeps, Final
<1>4. page.submissionId = Null => /\ ~Pending("build")' /\ Single("upload")'
                                  /\ page'.isBuilding <=> Pending("upload")'
  BY <1>1, <1>2 DEF BuildAwaited
<1>5. \A a \in BagToSet(inFlight') :
        a.of = "upload" /\ a.says = "ok" /\ a.id = 1 => page'.submissionId = Null
  BY DEF BuildAwaited, Untouched
<1>6. page.submissionId = 1 => \A a \in BagToSet(inFlight') : a.of = "build" => a.id = 1
  BY DEF BuildAwaited, Untouched
<1>7. page.submissionId = 1 /\ subs'[1].status = "queued" => page'.isBuilding /\ ~Pending("upload")'
  BY <1>1, <1>3 DEF BuildAwaited
<1> QED
  BY <1>4, <1>5, <1>6, <1>7 DEF BuildAwaited, BagToSet

LEMMA RunStillAwaited ==
  ASSUME TypeOK, PageKnows, RunAwaited, Keeps(runs, runs'),
         page'.left = page.left, page'.activeRunId = page.activeRunId,
         page'.isTesting = page.isTesting, Untouched("start"), Untouched("run")
  PROVE  RunAwaited'
<1> SUFFICES ASSUME ~page.left, ~page'.left PROVE RunAwaited'
  BY DEF RunAwaited
<1>1. \A of \in {"start", "run"} : Pending(of)' <=> Pending(of)
  BY DEF Untouched, Pending
<1>2. Single("start") => Single("start")'
  BY DEF Untouched, Single
<1>3. ASSUME page.activeRunId = 1, runs'[1].status = "running" PROVE runs[1].status = "running"
  <2>1. 1 \in DOMAIN runs
    BY <1>3 DEF PageKnows, Null
  <2>2. runs[1].status \in {"running", "completed", "failed"}
    BY <2>1, TypedRuns
  <2> QED
    BY <2>1, <2>2, <1>3 DEF Keeps, Final
<1>4. page.activeRunId = Null => /\ ~Pending("run")' /\ Single("start")'
                                 /\ page'.isTesting <=> Pending("start")'
  BY <1>1, <1>2 DEF RunAwaited
<1>5. \A a \in BagToSet(inFlight') :
        a.of = "start" /\ a.says = "ok" /\ a.id = 1 => page'.activeRunId = Null
  BY DEF RunAwaited, Untouched
<1>6. page.activeRunId = 1 => \A a \in BagToSet(inFlight') : a.of = "run" => a.id = 1
  BY DEF RunAwaited, Untouched
<1>7. page.activeRunId = 1 /\ runs'[1].status = "running" => page'.isTesting /\ ~Pending("start")'
  BY <1>1, <1>3 DEF RunAwaited
<1> QED
  BY <1>4, <1>5, <1>6, <1>7 DEF RunAwaited, BagToSet

LEMMA NothingTouched ==
  ASSUME UNCHANGED inFlight
  PROVE  \A of \in {"upload", "build", "start", "run"} : Untouched(of)
  BY DEF Untouched

\* The user stays, and so does what is the user's.
LEMMA SessionStays ==
  ASSUME OwnSession, Keeps(subs, subs'), Keeps(runs, runs'), AnswersTell, PageKnows,
         page'.left = page.left, page'.user = page.user, page.user # NoTeam,
         page'.isBuilding => \/ page'.pollsAs = page.user
                             \/ page.isBuilding /\ page'.pollsAs = page.pollsAs,
         ~page.left => \/ page'.submissionId \in {page.submissionId, Null}
                       \/ subs'[page'.submissionId].team = page.user,
         ~page.left => \/ page'.activeRunId \in {page.activeRunId, Null}
                       \/ runs'[page'.activeRunId].team = page.user,
         \A a \in BagToSet(inFlight') : a \in BagToSet(inFlight) \/ OwnAnswer(a)'
  PROVE  OwnSession'
<1> SUFFICES ASSUME ~page.left, ~page'.left PROVE OwnSession'
  BY DEF OwnSession
<1>1. page'.isBuilding => page'.pollsAs = page'.user
  BY DEF OwnSession
<1>2. page'.submissionId # Null => subs'[page'.submissionId].team = page'.user
  BY DEF OwnSession, PageKnows, Keeps
<1>3. page'.activeRunId # Null => runs'[page'.activeRunId].team = page'.user
  BY DEF OwnSession, PageKnows, Keeps
<1>4. ASSUME NEW a \in BagToSet(inFlight') PROVE OwnAnswer(a)'
  BY <1>4 DEF OwnSession, OwnAnswer, AnswersTell, Tells, Keeps
<1> QED
  BY <1>1, <1>2, <1>3, <1>4 DEF OwnSession, BagToSet

LEMMA PageTyped ==
  ASSUME TypeOK
  PROVE  /\ page \in Pages /\ sockets \subseteq RunIds
         /\ IsABag(inFlight) /\ BagToSet(inFlight) \subseteq Answer
         /\ page.user \in Teams \cup {NoTeam} /\ page.pollsAs \in Teams \cup {NoTeam}
         /\ page.submissionId \in 0..MaxSubs /\ page.activeRunId \in 0..MaxRuns
         /\ page.isBuilding \in BOOLEAN /\ page.isTesting \in BOOLEAN /\ page.left \in BOOLEAN
         /\ page.wsRef \in 0..MaxRuns /\ page.chart \subseteq RunIds
  BY DEF TypeOK, Pages

LEMMA TypesKept ==
  ASSUME page' \in Pages, sockets' \subseteq RunIds,
         IsABag(inFlight'), BagToSet(inFlight') \subseteq Answer,
         subs' \in Seq(SubType), runs' \in Seq(RunType)
  PROVE  TypeOK'
  BY DEF TypeOK, Pages, SubType, RunType, BagToSet, IsABag

-----------------------------------------------------------------------------
(***************************************************************************)
(* The session.                                                            *)
(***************************************************************************)
LEMMA LogInKeeps ==
  ASSUME IInv, NEW t \in Teams, LogIn(t)
  PROVE  IInv'
<1> DEFINE p == [page EXCEPT !.user = t]
<1> USE DEF IInv
<1>1. /\ page.user = NoTeam /\ Becomes(p) /\ UNCHANGED <<sockets, inFlight, subs, runs>>
  BY DEF LogIn
<1>2. /\ p \in Pages /\ p.user = t /\ p.submissionId = page.submissionId
      /\ p.isBuilding = page.isBuilding /\ p.pollsAs = page.pollsAs
      /\ p.activeRunId = page.activeRunId /\ p.isTesting = page.isTesting
      /\ p.wsRef = page.wsRef /\ p.chart = page.chart /\ p.left = page.left
  BY PageTyped DEF Pages
<1> HIDE DEF p
<1>3. /\ page' \in Pages /\ page'.user = t /\ page'.submissionId = page.submissionId
      /\ page'.isBuilding = page.isBuilding /\ page'.activeRunId = page.activeRunId
      /\ page'.isTesting = page.isTesting /\ page'.wsRef = page.wsRef
      /\ page'.chart = page.chart /\ page'.left = page.left
  BY <1>1, <1>2, EffectDoes
<1>4. TypeOK'
  BY <1>1, <1>3, PageTyped, TypedSubs, TypedRuns, TypesKept
<1>5. Keeps(subs, subs') /\ Keeps(runs, runs')
  BY <1>1, SameKeeps
<1>6. AnswersTell'
  BY <1>1, <1>5, AnswerStillTells DEF AnswersTell, BagToSet
<1>7. PageKnows' /\ OneStream'
  BY <1>1, <1>3 DEF PageKnows, OneStream
<1>8. OwnSession'
  BY <1>1, <1>3 DEF OwnSession, BagToSet
<1>9. BuildAwaited' /\ RunAwaited'
  BY <1>1, <1>3, <1>5, NothingTouched, BuildStillAwaited, RunStillAwaited
<1> QED
  BY <1>4, <1>6, <1>7, <1>8, <1>9

\* What is left of a page after a logout.
LEMMA LogoutLeaves ==
  ASSUME TypeOK, Becomes(LoggedOut(page))
  PROVE  /\ page' \in Pages /\ page'.left = TRUE /\ page'.user = NoTeam
         /\ page'.submissionId = Null /\ page'.activeRunId = Null
         /\ page'.wsRef = page.wsRef
<1> DEFINE p == LoggedOut(page)
<1>1. 0 \in 0..MaxSubs /\ 0 \in 0..MaxRuns
  BY BoundAssumption
<1>2. /\ p \in Pages /\ p.left = TRUE /\ p.user = NoTeam /\ p.submissionId = Null
      /\ p.activeRunId = Null /\ p.wsRef = page.wsRef /\ p.pollsAs = page.pollsAs
  BY <1>1, PageTyped DEF Pages, LoggedOut, Null
<1> HIDE DEF p
<1> QED
  BY <1>2, EffectDoes DEF p

LEMMA LogOutKeeps ==
  ASSUME IInv, Becomes(LoggedOut(page)), UNCHANGED <<sockets, subs, runs>>,
         IsABag(inFlight'), BagToSet(inFlight') \subseteq BagToSet(inFlight)
  PROVE  IInv'
<1> USE DEF IInv
<1>1. /\ page' \in Pages /\ page'.left = TRUE /\ page'.user = NoTeam
      /\ page'.submissionId = Null /\ page'.activeRunId = Null
      /\ page'.wsRef = page.wsRef
  BY LogoutLeaves
<1>2. TypeOK'
  BY <1>1, PageTyped, TypedSubs, TypedRuns, TypesKept
<1>3. Keeps(subs, subs') /\ Keeps(runs, runs')
  BY SameKeeps
<1>4. AnswersTell'
  BY <1>3, AnswerStillTells DEF AnswersTell, BagToSet
<1>5. PageKnows' /\ OneStream'
  BY <1>1 DEF PageKnows, OneStream
<1>6. OwnSession' /\ BuildAwaited' /\ RunAwaited'
  BY <1>1 DEF OwnSession, BuildAwaited, RunAwaited
<1> QED
  BY <1>2, <1>4, <1>5, <1>6

LEMMA ReloadKeeps ==
  ASSUME IInv, Reload
  PROVE  IInv'
<1> USE DEF IInv
<1>0. 0 \in 0..MaxSubs /\ 0 \in 0..MaxRuns
  BY BoundAssumption
<1>1. /\ page' \in Pages /\ page'.left = FALSE /\ page'.user = page.user
      /\ page'.submissionId = Null /\ page'.activeRunId = Null
      /\ page'.isBuilding = FALSE /\ page'.isTesting = FALSE /\ page'.wsRef = Null
  BY <1>0, PageTyped DEF Reload, FreshPage, Pages, Null
<1>2. BagToSet(inFlight') = {} /\ IsABag(inFlight') /\ sockets' = {} /\ UNCHANGED <<subs, runs>>
  BY DEF Reload, EmptyBag, SetToBag, BagToSet, IsABag
<1>3. TypeOK'
  BY <1>1, <1>2, TypedSubs, TypedRuns, TypesKept
<1>4. AnswersTell' /\ PageKnows' /\ OneStream'
  BY <1>1, <1>2 DEF AnswersTell, PageKnows, OneStream, BagToSet
<1>5. OwnSession'
  BY <1>1, <1>2 DEF OwnSession, BagToSet
<1>6. BuildAwaited'
  BY <1>1, <1>2 DEF BuildAwaited, BagToSet, Null, Pending, Single
<1>7. RunAwaited'
  BY <1>1, <1>2 DEF RunAwaited, BagToSet, Null, Pending, Single
<1> QED
  BY <1>3, <1>4, <1>5, <1>6, <1>7

-----------------------------------------------------------------------------
(***************************************************************************)
(* Submission and build.                                                   *)
(***************************************************************************)
LEMMA UploadSends ==
  ASSUME IInv, Upload
  PROVE  /\ subs' \in Seq(SubType) /\ Keeps(subs, subs') /\ Len(subs') <= MaxSubs
         /\ \E id \in 0..(MaxSubs + MaxRuns), says \in {"ok", "gone", "error"} :
              /\ Sends("upload", id, says)
              /\ says = "ok" => /\ id = Len(subs) + 1 /\ id \in DOMAIN subs'
                                /\ subs'[id].team = page.user
<1> USE DEF IInv
<1>1. page.user \in Teams
  BY PageTyped DEF Upload
<1>2. /\ subs \in Seq(SubType) /\ Len(subs) \in Nat /\ Len(subs) <= MaxSubs
      /\ MaxSubs \in Nat /\ MaxRuns \in Nat
  BY TypedSubs, BoundAssumption DEF PageKnows
<1>3. CASE /\ Len(subs) < MaxSubs
           /\ subs' = Append(subs, [team |-> page.user, status |-> "queued"])
           /\ \E says \in {"ok", "error"} : Sends("upload", Len(subs'), says)
  <2> DEFINE e == [team |-> page.user, status |-> "queued"]
  <2>1. e \in SubType /\ e.team = page.user
    BY <1>1 DEF SubType
  <2> HIDE DEF e
  <2>2. subs' = Append(subs, e)
    BY <1>3 DEF e
  <2>3. /\ subs' \in Seq(SubType) /\ Keeps(subs, subs') /\ Len(subs') = Len(subs) + 1
        /\ subs'[Len(subs) + 1] = e /\ DOMAIN subs' = 1..(Len(subs) + 1)
    BY <1>2, <2>1, <2>2, AppendKeeps
  <2>4. /\ Len(subs) + 1 \in 0..(MaxSubs + MaxRuns) /\ Len(subs) + 1 \in 1..(Len(subs) + 1)
        /\ Len(subs) + 1 <= MaxSubs
    BY <1>2, <1>3
  <2>5. PICK says \in {"ok", "error"} : Sends("upload", Len(subs) + 1, says)
    BY <1>3, <2>3
  <2> QED
    BY <2>1, <2>3, <2>4, <2>5
<1>4. CASE UNCHANGED subs /\ \E says \in {"gone", "error"} : Sends("upload", Null, says)
  <2>1. Null \in 0..(MaxSubs + MaxRuns)
    BY <1>2 DEF Null
  <2>2. PICK says \in {"gone", "error"} : Sends("upload", Null, says)
    BY <1>4
  <2>3. says # "ok"
    OBVIOUS
  <2> QED
    BY <1>2, <1>4, <2>1, <2>2, <2>3, SameKeeps
<1> QED
  BY <1>3, <1>4 DEF Upload

LEMMA UploadKeeps ==
  ASSUME IInv, Upload
  PROVE  IInv'
<1> DEFINE p == [page EXCEPT !.isBuilding = TRUE]
<1> USE DEF IInv
<1>1. /\ page.user # NoTeam /\ ~page.isBuilding /\ Becomes(p) /\ UNCHANGED <<sockets, runs>>
  BY DEF Upload
<1>2. PICK id \in 0..(MaxSubs + MaxRuns), says \in {"ok", "gone", "error"} :
        /\ Sends("upload", id, says)
        /\ says = "ok" => /\ id = Len(subs) + 1 /\ id \in DOMAIN subs'
                          /\ subs'[id].team = page.user
  BY UploadSends
<1>3. /\ subs' \in Seq(SubType) /\ Keeps(subs, subs') /\ Len(subs') <= MaxSubs
      /\ Keeps(runs, runs')
  BY <1>1, UploadSends, SameKeeps
<1>4. /\ p \in Pages /\ p.user = page.user /\ p.submissionId = page.submissionId
      /\ p.isBuilding = TRUE /\ p.pollsAs = page.pollsAs
      /\ p.activeRunId = page.activeRunId /\ p.isTesting = page.isTesting
      /\ p.wsRef = page.wsRef /\ p.chart = page.chart /\ p.left = page.left
  BY PageTyped DEF Pages
<1> HIDE DEF p
<1>5. /\ page' \in Pages /\ page'.user = page.user /\ page'.submissionId = page.submissionId
      /\ page'.isBuilding = TRUE /\ page'.pollsAs = page.user
      /\ page'.activeRunId = page.activeRunId
      /\ page'.isTesting = page.isTesting /\ page'.wsRef = page.wsRef
      /\ page'.chart = page.chart /\ page'.left = page.left
  BY <1>1, <1>4, EffectDoes
<1> DEFINE x == [of |-> "upload", id |-> id, says |-> says]
<1>6. x \in Answer /\ x.of = "upload" /\ x.id = id /\ x.says = says
  BY DEF Answer
<1>7. /\ IsABag(inFlight') /\ BagToSet(inFlight') \subseteq Answer
      /\ BagToSet(inFlight') = BagToSet(inFlight) \cup {x}
      /\ x \notin BagToSet(inFlight) => inFlight'[x] = 1
      /\ Untouched("build") /\ Untouched("start") /\ Untouched("run")
  BY <1>2, <1>6, SendsAdds, SendsLeaves
<1> HIDE DEF x
<1>8. TypeOK'
  BY <1>1, <1>3, <1>5, <1>7, PageTyped, TypedRuns, TypesKept
<1>9. AnswersTell'
  <2>1. Tells(x)'
    BY <1>2, <1>6 DEF Tells
  <2> QED
    BY <1>3, <1>7, <2>1, AnswerStillTells DEF AnswersTell, BagToSet
<1>10. PageKnows'
  BY <1>1, <1>3, <1>5 DEF PageKnows, Keeps
<1>11. OneStream'
  BY <1>1, <1>5 DEF OneStream
<1>12. OwnSession'
  <2>1. ASSUME NEW a \in BagToSet(inFlight')
        PROVE  a \in BagToSet(inFlight) \/ OwnAnswer(a)'
    BY <1>2, <1>5, <1>6, <1>7, <2>1 DEF OwnAnswer
  <2>2. /\ page'.left = page.left /\ page'.user = page.user /\ page.user # NoTeam
        /\ page'.pollsAs = page.user
        /\ page'.submissionId \in {page.submissionId, Null}
        /\ page'.activeRunId \in {page.activeRunId, Null}
    BY <1>1, <1>5
  <2>3. OwnSession /\ AnswersTell /\ PageKnows /\ Keeps(subs, subs') /\ Keeps(runs, runs')
    BY <1>3
  <2> QED
    BY ONLY <2>1, <2>2, <2>3, SessionStays
<1>13. RunAwaited'
  BY <1>3, <1>5, <1>7, RunStillAwaited
<1>14. BuildAwaited'
  <2> SUFFICES ASSUME ~page.left, ~page'.left PROVE BuildAwaited'
    BY <1>5 DEF BuildAwaited
  <2>1. \A a \in BagToSet(inFlight') : a = x \/ a \in BagToSet(inFlight)
    BY <1>7
  <2>2. ~Pending("build")' <=> ~Pending("build")
    BY <1>7 DEF Pending, Untouched
  <2>3. Pending("upload")'
    BY <1>6, <1>7 DEF Pending, BagToSet
  <2>4. ASSUME page.submissionId = Null PROVE ~Pending("build")' /\ Single("upload")'
    <3>1. ~Pending("build") /\ ~Pending("upload")
      BY <1>1, <2>4 DEF BuildAwaited
    <3>2. \A a \in BagToSet(inFlight') : a.of = "upload" => a = x /\ inFlight'[a] = 1
      BY <1>6, <1>7, <2>1, <3>1 DEF Pending
    <3> QED
      BY <2>2, <3>1, <3>2 DEF Single, BagToSet
  <2>5. ASSUME NEW a \in BagToSet(inFlight'), a.of = "upload", a.says = "ok", a.id = 1
        PROVE  page.submissionId = Null
    <3>1. CASE a = x
      <4>1. Len(subs) = 0
        BY <1>2, <1>6, <2>5, <3>1, TypedSubs
      <4> QED
        BY <4>1, TypedSubs DEF PageKnows
    <3>2. CASE a \in BagToSet(inFlight)
      BY <2>5, <3>2 DEF BuildAwaited
    <3> QED
      BY <2>1, <3>1, <3>2
  <2>6. ASSUME page.submissionId = 1, NEW a \in BagToSet(inFlight'), a.of = "build" PROVE a.id = 1
    BY <1>6, <2>1, <2>6 DEF BuildAwaited
  <2>7. ASSUME page.submissionId = 1 PROVE subs'[1].status # "queued"
    <3>1. 1 \in DOMAIN subs /\ subs[1].status # "queued"
      BY <1>1, <2>7 DEF BuildAwaited, PageKnows, Null
    <3>2. Final(subs[1].status)
      BY <3>1, TypedSubs DEF Final
    <3> QED
      BY <1>3, <3>1, <3>2 DEF Keeps
  <2> QED
    BY <1>5, <2>3, <2>4, <2>5, <2>6, <2>7 DEF BuildAwaited, BagToSet
<1> QED
  BY <1>8, <1>9, <1>10, <1>11, <1>12, <1>13, <1>14

\* An answer that arrives leaves the others as they are.
LEMMA AnswerArrives ==
  ASSUME IInv, NEW a, Arrives(a), UNCHANGED <<subs, runs>>
  PROVE  /\ a \in BagToSet(inFlight) /\ Tells(a)
         /\ IsABag(inFlight') /\ BagToSet(inFlight') \subseteq Answer
         /\ BagToSet(inFlight') \subseteq BagToSet(inFlight)
         /\ AnswersTell'
         /\ Keeps(subs, subs') /\ Keeps(runs, runs')
         /\ ~page.left => page.user # NoTeam
<1> USE DEF IInv
<1>1. /\ a \in BagToSet(inFlight) /\ IsABag(inFlight')
      /\ BagToSet(inFlight') \subseteq BagToSet(inFlight)
  BY ArrivesTakes
<1>2. Keeps(subs, subs') /\ Keeps(runs, runs')
  BY SameKeeps
<1>3. AnswersTell'
  BY <1>1, <1>2, AnswerStillTells DEF AnswersTell, BagToSet
<1>4. ~page.left => page.user # NoTeam
  BY <1>1 DEF OwnSession
<1> QED
  BY <1>1, <1>2, <1>3, <1>4, PageTyped DEF AnswersTell

\* The upload the session waits for is one.
LEMMA UploadIsTheOne ==
  ASSUME IInv, NEW a, Arrives(a), a.of = "upload", ~page.left
  PROVE  /\ page.submissionId = Null => /\ page.isBuilding /\ ~Pending("build")
                                        /\ \A b \in BagToSet(inFlight') : b.of # "upload"
         /\ a.says = "ok" /\ a.id = 1 => page.submissionId = Null
         /\ page.submissionId = 1 => subs[1].status # "queued"
<1> USE DEF IInv
<1>1. /\ a \in BagToSet(inFlight) /\ BagToSet(inFlight') \subseteq BagToSet(inFlight)
      /\ inFlight[a] = 1 => a \notin BagToSet(inFlight')
  BY ArrivesTakes
<1>2. Pending("upload")
  BY <1>1 DEF Pending
<1>3. ASSUME page.submissionId = Null
      PROVE  /\ page.isBuilding /\ ~Pending("build")
             /\ \A b \in BagToSet(inFlight') : b.of # "upload"
  <2>1. Single("upload") /\ page.isBuilding /\ ~Pending("build")
    BY <1>2, <1>3 DEF BuildAwaited
  <2>2. \A b \in BagToSet(inFlight) : b.of = "upload" => b = a /\ inFlight[a] = 1
    BY <1>1, <2>1 DEF Single
  <2> QED
    BY <1>1, <2>1, <2>2
<1>4. a.says = "ok" /\ a.id = 1 => page.submissionId = Null
  BY <1>1 DEF BuildAwaited
<1>5. page.submissionId = 1 => subs[1].status # "queued"
  BY <1>2 DEF BuildAwaited
<1> QED
  BY <1>3, <1>4, <1>5

\* The submission was stored.
LEMMA UploadOkKeeps ==
  ASSUME IInv, NEW a, a.of = "upload", a.says = "ok", Arrives(a),
         Becomes([page EXCEPT !.submissionId = a.id]), UNCHANGED <<sockets, subs, runs>>
  PROVE  IInv'
<1> DEFINE p == [page EXCEPT !.submissionId = a.id]
<1> USE DEF IInv
<1>1. /\ a \in BagToSet(inFlight) /\ Tells(a)
      /\ IsABag(inFlight') /\ BagToSet(inFlight') \subseteq Answer
      /\ BagToSet(inFlight') \subseteq BagToSet(inFlight)
      /\ AnswersTell' /\ Keeps(subs, subs') /\ Keeps(runs, runs')
      /\ ~page.left => page.user # NoTeam
  BY AnswerArrives
<1>2. a.id \in DOMAIN subs /\ a.id \in 0..MaxSubs /\ a.id # Null
  <2>1. a.id \in DOMAIN subs
    BY <1>1 DEF Tells
  <2>2. Len(subs) \in Nat /\ Len(subs) <= MaxSubs /\ DOMAIN subs = 1..Len(subs) /\ MaxSubs \in Nat
    BY TypedSubs, BoundAssumption DEF PageKnows
  <2> QED
    BY <2>1, <2>2 DEF Null
<1>3. /\ p \in Pages /\ p.user = page.user /\ p.submissionId = a.id
      /\ p.isBuilding = page.isBuilding /\ p.pollsAs = page.pollsAs
      /\ p.activeRunId = page.activeRunId /\ p.isTesting = page.isTesting
      /\ p.wsRef = page.wsRef /\ p.chart = page.chart /\ p.left = page.left
  BY <1>2, PageTyped DEF Pages
<1> HIDE DEF p
<1>4. /\ page' \in Pages /\ page'.user = page.user /\ page'.submissionId = a.id
      /\ page'.isBuilding = page.isBuilding /\ page'.pollsAs \in {page.user, page.pollsAs}
      /\ page'.activeRunId = page.activeRunId
      /\ page'.isTesting = page.isTesting /\ page'.wsRef = page.wsRef
      /\ page'.chart = page.chart /\ page'.left = page.left
  BY <1>3, EffectDoes DEF p
<1>5. TypeOK'
  BY <1>1, <1>4, PageTyped, TypedSubs, TypedRuns, TypesKept
<1>6. PageKnows'
  BY <1>2, <1>4 DEF PageKnows
<1>7. OneStream'
  BY <1>4 DEF OneStream
<1>8. OwnSession'
  <2>1. CASE page.left
    BY <1>4, <2>1 DEF OwnSession
  <2>2. CASE ~page.left
    <3>1. subs'[page'.submissionId].team = page.user
      BY <1>1, <1>4, <2>2 DEF OwnSession, OwnAnswer
    <3>2. /\ page'.left = page.left /\ page'.user = page.user /\ page.user # NoTeam
          /\ page'.isBuilding => \/ page'.pollsAs = page.user
                                 \/ page.isBuilding /\ page'.pollsAs = page.pollsAs
          /\ page'.activeRunId \in {page.activeRunId, Null}
      BY <1>1, <1>4, <2>2
    <3> QED
      BY <1>1, <3>1, <3>2, SessionStays
  <2> QED
    BY <2>1, <2>2
<1>9. RunAwaited'
  <2>1. Untouched("start") /\ Untouched("run")
    BY ArrivesLeaves
  <2> QED
    BY <1>1, <1>4, <2>1, RunStillAwaited
<1>10. BuildAwaited'
  <2> SUFFICES ASSUME ~page.left, ~page'.left PROVE BuildAwaited'
    BY <1>4 DEF BuildAwaited
  <2>1. \A b \in BagToSet(inFlight') : b.of = "upload" /\ b.says = "ok" => b.id # 1
    <3> SUFFICES ASSUME NEW b \in BagToSet(inFlight'), b.of = "upload", b.says = "ok", b.id = 1
                 PROVE  FALSE
      OBVIOUS
    <3>1. page.submissionId = Null
      BY <1>1 DEF BuildAwaited
    <3> QED
      BY <3>1, UploadIsTheOne
  <2>2. ASSUME a.id = 1
        PROVE  /\ \A b \in BagToSet(inFlight') : b.of # "build" /\ b.of # "upload"
               /\ page.isBuilding
    <3>1. page.submissionId = Null
      BY <2>2, UploadIsTheOne
    <3>2. /\ page.isBuilding /\ ~Pending("build")
          /\ \A b \in BagToSet(inFlight') : b.of # "upload"
      BY <3>1, UploadIsTheOne
    <3> QED
      BY <1>1, <3>2 DEF Pending
  <2> QED
    BY <1>2, <1>4, <2>1, <2>2 DEF BuildAwaited, BagToSet, Pending
<1> QED
  BY <1>1, <1>5, <1>6, <1>7, <1>8, <1>9, <1>10

\* The submission may have been stored, and the page does not know.
LEMMA UploadErrorKeeps ==
  ASSUME IInv, NEW a, a.of = "upload", Arrives(a),
         Becomes([page EXCEPT !.isBuilding = FALSE]), UNCHANGED <<sockets, subs, runs>>
  PROVE  IInv'
<1> DEFINE p == [page EXCEPT !.isBuilding = FALSE]
<1> USE DEF IInv
<1>1. /\ a \in BagToSet(inFlight) /\ Tells(a)
      /\ IsABag(inFlight') /\ BagToSet(inFlight') \subseteq Answer
      /\ BagToSet(inFlight') \subseteq BagToSet(inFlight)
      /\ AnswersTell' /\ Keeps(subs, subs') /\ Keeps(runs, runs')
      /\ ~page.left => page.user # NoTeam
  BY AnswerArrives
<1>2. /\ p \in Pages /\ p.user = page.user /\ p.submissionId = page.submissionId
      /\ p.isBuilding = FALSE /\ p.pollsAs = page.pollsAs
      /\ p.activeRunId = page.activeRunId /\ p.isTesting = page.isTesting
      /\ p.wsRef = page.wsRef /\ p.chart = page.chart /\ p.left = page.left
  BY PageTyped DEF Pages
<1> HIDE DEF p
<1>3. /\ page' \in Pages /\ page'.user = page.user /\ page'.submissionId = page.submissionId
      /\ page'.isBuilding = FALSE /\ page'.activeRunId = page.activeRunId
      /\ page'.isTesting = page.isTesting /\ page'.wsRef = page.wsRef
      /\ page'.chart = page.chart /\ page'.left = page.left
  BY <1>2, EffectDoes DEF p
<1>4. TypeOK'
  BY <1>1, <1>3, PageTyped, TypedSubs, TypedRuns, TypesKept
<1>5. PageKnows'
  BY <1>3 DEF PageKnows
<1>6. OneStream'
  BY <1>3 DEF OneStream
<1>7. OwnSession'
  <2>1. CASE page.left
    BY <1>3, <2>1 DEF OwnSession
  <2>2. CASE ~page.left
    <3>1. /\ page'.left = page.left /\ page'.user = page.user /\ page.user # NoTeam
          /\ ~page'.isBuilding
          /\ page'.submissionId \in {page.submissionId, Null}
          /\ page'.activeRunId \in {page.activeRunId, Null}
      BY <1>1, <1>3, <2>2
    <3> QED
      BY <1>1, <3>1, SessionStays
  <2> QED
    BY <2>1, <2>2
<1>8. RunAwaited'
  <2>1. Untouched("start") /\ Untouched("run")
    BY ArrivesLeaves
  <2> QED
    BY <1>1, <1>3, <2>1, RunStillAwaited
<1>9. BuildAwaited'
  <2> SUFFICES ASSUME ~page.left, ~page'.left PROVE BuildAwaited'
    BY <1>3 DEF BuildAwaited
  <2>1. ASSUME page.submissionId = Null
        PROVE  \A b \in BagToSet(inFlight') : b.of # "build" /\ b.of # "upload"
    <3>1. ~Pending("build") /\ \A b \in BagToSet(inFlight') : b.of # "upload"
      BY <2>1, UploadIsTheOne
    <3> QED
      BY <1>1, <3>1 DEF Pending
  <2>2. \A b \in BagToSet(inFlight') :
          b.of = "upload" /\ b.says = "ok" /\ b.id = 1 => page.submissionId = Null
    BY <1>1 DEF BuildAwaited
  <2>3. page.submissionId = 1 => /\ \A b \in BagToSet(inFlight') : b.of = "build" => b.id = 1
                                 /\ subs'[1].status # "queued"
    BY <1>1, UploadIsTheOne DEF BuildAwaited
  <2>4. page.submissionId = Null => ~Pending("build")' /\ ~Pending("upload")' /\ Single("upload")'
    BY <2>1 DEF Pending, Single, BagToSet
  <2> QED
    BY <1>3, <2>2, <2>3, <2>4 DEF BuildAwaited, BagToSet
<1> QED
  BY <1>1, <1>4, <1>5, <1>6, <1>7, <1>8, <1>9

LEMMA UploadAnsweredKeeps ==
  ASSUME IInv, NEW a, UploadAnswered(a)
  PROVE  IInv'
<1>1. /\ a.of = "upload" /\ Arrives(a) /\ UNCHANGED <<sockets, subs, runs>>
  BY DEF UploadAnswered
<1>2. a.says \in {"ok", "gone", "error"}
  BY <1>1, AnswerArrives DEF Tells
<1>3. CASE a.says = "ok"
  <2>1. Becomes([page EXCEPT !.submissionId = a.id])
    BY <1>3 DEF UploadAnswered
  <2> QED
    BY <1>1, <1>3, <2>1, UploadOkKeeps
<1>4. CASE a.says = "gone"
  <2>1. Becomes(LoggedOut(page))
    BY <1>4 DEF UploadAnswered
  <2> QED
    BY <1>1, <2>1, ArrivesTakes, LogOutKeeps DEF IInv
<1>5. CASE a.says = "error"
  <2>1. Becomes([page EXCEPT !.isBuilding = FALSE])
    BY <1>5 DEF UploadAnswered
  <2> QED
    BY <1>1, <2>1, UploadErrorKeeps
<1> QED
  BY <1>2, <1>3, <1>4, <1>5

\* The submission the page has is one there is.
LEMMA PageSubmission ==
  ASSUME IInv, page.submissionId # Null
  PROVE  page.submissionId \in DOMAIN subs
  BY DEF IInv, PageKnows

LEMMA PollBuildKeeps ==
  ASSUME IInv, PollBuild
  PROVE  IInv'
<1> USE DEF IInv
<1>0. PICK s, says : s = page.submissionId /\ says = subs[s].status
  OBVIOUS
<1> DEFINE x == [of |-> "build", id |-> s, says |-> says]
<1>1. /\ page.isBuilding /\ s \in DOMAIN subs /\ page.pollsAs = subs[s].team
      /\ Sends("build", s, says) /\ UNCHANGED <<page, sockets, subs, runs>>
  BY <1>0, PageSubmission DEF PollBuild
<1>2. /\ subs[s].team \in Teams /\ says \in {"queued", "built", "failed"}
      /\ s \in 1..Len(subs) /\ Len(subs) \in Nat /\ Len(subs) <= MaxSubs
      /\ MaxSubs \in Nat /\ MaxRuns \in Nat
  BY <1>0, <1>1, TypedSubs, BoundAssumption DEF PageKnows
<1>3. s \in 0..(MaxSubs + MaxRuns) /\ s # Null
  BY ONLY <1>2 DEF Null
<1>4. x \in Answer /\ x.of = "build" /\ x.id = s /\ x.says = says
  BY <1>2, <1>3 DEF Answer
<1>5. /\ IsABag(inFlight') /\ BagToSet(inFlight') \subseteq Answer
      /\ BagToSet(inFlight') = BagToSet(inFlight) \cup {x}
      /\ Untouched("upload") /\ Untouched("start") /\ Untouched("run")
  BY <1>1, <1>4, SendsAdds, SendsLeaves
<1> HIDE DEF x
<1>6. Keeps(subs, subs') /\ Keeps(runs, runs')
  BY <1>1, SameKeeps
<1>7. TypeOK'
  BY <1>1, <1>5, PageTyped, TypedSubs, TypedRuns, TypesKept
<1>8. AnswersTell'
  <2>1. Tells(x)'
    BY <1>0, <1>1, <1>4 DEF Tells
  <2> QED
    BY <1>5, <1>6, <2>1, AnswerStillTells DEF AnswersTell, BagToSet
<1>9. PageKnows' /\ OneStream'
  BY <1>1 DEF PageKnows, OneStream
<1>10. OwnSession'
  <2> SUFFICES ASSUME ~page.left PROVE OwnSession'
    BY <1>1 DEF OwnSession
  <2>1. page.user # NoTeam
    BY <1>0, <1>1, <1>3 DEF OwnSession
  <2>2. \A a \in BagToSet(inFlight') : a \in BagToSet(inFlight) \/ OwnAnswer(a)'
    BY <1>4, <1>5 DEF OwnAnswer
  <2>3. /\ page'.left = page.left /\ page'.user = page.user
        /\ page'.isBuilding => page.isBuilding /\ page'.pollsAs = page.pollsAs
        /\ page'.submissionId \in {page.submissionId, Null}
        /\ page'.activeRunId \in {page.activeRunId, Null}
    BY <1>1
  <2> QED
    BY <1>6, <2>1, <2>2, <2>3, SessionStays
<1>11. RunAwaited'
  BY <1>1, <1>5, <1>6, RunStillAwaited
<1>12. BuildAwaited'
  <2> SUFFICES ASSUME ~page.left, ~page'.left PROVE BuildAwaited'
    BY <1>1 DEF BuildAwaited
  <2>1. \A a \in BagToSet(inFlight') : a = x \/ a \in BagToSet(inFlight)
    BY <1>5
  <2>2. \A a \in BagToSet(inFlight') :
          a.of = "upload" /\ a.says = "ok" /\ a.id = 1 => page.submissionId = Null
    BY <1>4, <2>1 DEF BuildAwaited
  <2>3. page.submissionId = 1 => \A a \in BagToSet(inFlight') : a.of = "build" => a.id = 1
    BY <1>0, <1>4, <2>1 DEF BuildAwaited
  <2>4. Pending("upload")' <=> Pending("upload")
    BY <1>5 DEF Pending, Untouched
  <2> QED
    BY <1>0, <1>1, <1>3, <2>2, <2>3, <2>4 DEF BuildAwaited, BagToSet
<1> QED
  BY <1>7, <1>8, <1>9, <1>10, <1>11, <1>12

LEMMA BuildAnsweredKeeps ==
  ASSUME IInv, NEW a, BuildAnswered(a)
  PROVE  IInv'
<1> DEFINE still == page.isBuilding /\ ~Final(a.says)
           p == [page EXCEPT !.isBuilding = still]
<1> USE DEF IInv
<1>1. /\ a.of = "build" /\ Arrives(a) /\ Becomes(p) /\ UNCHANGED <<sockets, subs, runs>>
  BY DEF BuildAnswered
<1>2. /\ a \in BagToSet(inFlight) /\ Tells(a)
      /\ IsABag(inFlight') /\ BagToSet(inFlight') \subseteq Answer
      /\ BagToSet(inFlight') \subseteq BagToSet(inFlight)
      /\ AnswersTell' /\ Keeps(subs, subs') /\ Keeps(runs, runs')
      /\ ~page.left => page.user # NoTeam
  BY <1>1, AnswerArrives
<1>3. still \in BOOLEAN /\ (still => page.isBuilding)
      /\ (page.isBuilding /\ ~Final(a.says) => still)
  BY PageTyped
<1> HIDE DEF still
<1>4. /\ p \in Pages /\ p.user = page.user /\ p.submissionId = page.submissionId
      /\ p.isBuilding = still /\ p.pollsAs = page.pollsAs
      /\ p.activeRunId = page.activeRunId /\ p.isTesting = page.isTesting
      /\ p.wsRef = page.wsRef /\ p.chart = page.chart /\ p.left = page.left
  BY <1>3, PageTyped DEF Pages
<1> HIDE DEF p
<1>5. /\ page' \in Pages /\ page'.user = page.user /\ page'.submissionId = page.submissionId
      /\ page'.isBuilding = still /\ page'.pollsAs \in {page.user, page.pollsAs}
      /\ page'.activeRunId = page.activeRunId
      /\ page'.isTesting = page.isTesting /\ page'.wsRef = page.wsRef
      /\ page'.chart = page.chart /\ page'.left = page.left
  BY <1>1, <1>4, EffectDoes
<1>6. TypeOK'
  BY <1>1, <1>2, <1>5, PageTyped, TypedSubs, TypedRuns, TypesKept
<1>7. PageKnows'
  BY <1>1, <1>5 DEF PageKnows
<1>8. OneStream'
  BY <1>1, <1>5 DEF OneStream
<1>9. OwnSession'
  <2>1. CASE page.left
    BY <1>5, <2>1 DEF OwnSession
  <2>2. CASE ~page.left
    <3>1. /\ page'.left = page.left /\ page'.user = page.user /\ page.user # NoTeam
          /\ page'.isBuilding => \/ page'.pollsAs = page.user
                                 \/ page.isBuilding /\ page'.pollsAs = page.pollsAs
          /\ page'.submissionId \in {page.submissionId, Null}
          /\ page'.activeRunId \in {page.activeRunId, Null}
      BY <1>2, <1>3, <1>5, <2>2
    <3> QED
      BY <1>2, <3>1, SessionStays
  <2> QED
    BY <2>1, <2>2
<1>10. Untouched("upload") /\ Untouched("start") /\ Untouched("run")
  BY <1>1, ArrivesLeaves
<1>11. RunAwaited'
  BY <1>2, <1>5, <1>10, RunStillAwaited
<1>12. BuildAwaited'
  <2> SUFFICES ASSUME ~page.left, ~page'.left PROVE BuildAwaited'
    BY <1>5 DEF BuildAwaited
  <2>1. page.submissionId # Null
    BY <1>1, <1>2 DEF BuildAwaited, Pending
  <2>2. \A b \in BagToSet(inFlight') :
          /\ b.of = "upload" /\ b.says = "ok" /\ b.id = 1 => page.submissionId = Null
          /\ page.submissionId = 1 /\ b.of = "build" => b.id = 1
    BY <1>2 DEF BuildAwaited
  <2>3. ASSUME page.submissionId = 1, subs'[1].status = "queued"
        PROVE  still /\ ~Pending("upload")'
    <3>1. page.isBuilding /\ ~Pending("upload")
      BY <1>1, <2>3 DEF BuildAwaited
    <3>2. a.id = 1
      BY <1>1, <1>2, <2>3 DEF BuildAwaited
    <3>3. ~Final(a.says)
      BY <1>1, <1>2, <2>3, <3>2 DEF Tells, Final
    <3>4. ~Pending("upload")'
      BY <1>2, <3>1 DEF Pending, BagToSet
    <3> QED
      BY <1>3, <3>1, <3>3, <3>4
  <2> QED
    BY <1>5, <2>1, <2>2, <2>3 DEF BuildAwaited, BagToSet
<1> QED
  BY <1>2, <1>6, <1>7, <1>8, <1>9, <1>11, <1>12

\* A step of the server's, that the page does not see.
LEMMA ServerKeeps ==
  ASSUME IInv, UNCHANGED <<page, sockets, inFlight>>,
         subs' \in Seq(SubType), runs' \in Seq(RunType),
         Len(subs') = Len(subs), Len(runs') = Len(runs),
         Keeps(subs, subs'), Keeps(runs, runs')
  PROVE  IInv'
<1> USE DEF IInv
<1>1. TypeOK'
  BY PageTyped, TypesKept
<1>2. AnswersTell'
  BY AnswerStillTells DEF AnswersTell, BagToSet
<1>3. PageKnows' /\ OneStream'
  BY DEF PageKnows, OneStream, Keeps
<1>4. BuildAwaited' /\ RunAwaited'
  BY NothingTouched, BuildStillAwaited, RunStillAwaited
<1>5. OwnSession'
  <2>1. CASE page.left
    BY <2>1 DEF OwnSession
  <2>2. CASE page.user = NoTeam
    BY <2>2 DEF OwnSession, BagToSet
  <2>3. CASE ~page.left /\ page.user # NoTeam
    BY <2>3, SessionStays
  <2> QED
    BY <2>1, <2>2, <2>3
<1> QED
  BY <1>1, <1>2, <1>3, <1>4, <1>5

LEMMA BuildSettlesKeeps ==
  ASSUME IInv, NEW s \in DOMAIN subs, BuildSettles(s)
  PROVE  IInv'
<1>1. /\ subs[s].status = "queued" /\ UNCHANGED <<page, sockets, inFlight, runs>>
      /\ TypeOK
  BY DEF BuildSettles, IInv
<1>2. PICK status \in {"built", "failed"} : subs' = [subs EXCEPT ![s].status = status]
  BY DEF BuildSettles
<1> DEFINE e == [subs[s] EXCEPT !.status = status]
<1>3. /\ subs \in Seq(SubType) /\ subs[s] \in SubType
      /\ e \in SubType /\ e.team = subs[s].team
  BY <1>1, TypedSubs DEF SubType
<1>4. subs' = [subs EXCEPT ![s] = e]
  BY <1>2
<1> HIDE DEF e
<1>5. /\ subs' \in Seq(SubType) /\ Len(subs') = Len(subs) /\ DOMAIN subs' = DOMAIN subs
      /\ subs'[s] = e /\ \A i \in DOMAIN subs : i # s => subs'[i] = subs[i]
  BY <1>3, <1>4
<1>6. ~Final(subs[s].status)
  BY <1>1 DEF Final
<1>7. Keeps(subs, subs') /\ Keeps(runs, runs')
  BY <1>1, <1>3, <1>5, <1>6, SameKeeps DEF Keeps
<1> QED
  BY <1>1, <1>5, <1>7, TypedRuns, ServerKeeps

-----------------------------------------------------------------------------
(***************************************************************************)
(* Test run.                                                               *)
(***************************************************************************)
LEMMA StartSends ==
  ASSUME IInv, StartBenchmark
  PROVE  /\ runs' \in Seq(RunType) /\ Keeps(runs, runs') /\ Len(runs') <= MaxRuns
         /\ \E id \in 0..(MaxSubs + MaxRuns), says \in {"ok", "error"} :
              /\ Sends("start", id, says)
              /\ says = "ok" => /\ id = Len(runs) + 1 /\ id \in DOMAIN runs'
                                /\ runs'[id].team = page.user
<1> USE DEF IInv
<1>1. page.user \in Teams
  BY PageTyped DEF StartBenchmark
<1>2. /\ runs \in Seq(RunType) /\ Len(runs) \in Nat /\ Len(runs) <= MaxRuns
      /\ MaxSubs \in Nat /\ MaxRuns \in Nat
  BY TypedRuns, BoundAssumption DEF PageKnows
<1>3. CASE /\ Len(runs) < MaxRuns
           /\ runs' = Append(runs, [team |-> page.user, status |-> "running"])
           /\ \E says \in {"ok", "error"} : Sends("start", Len(runs'), says)
  <2> DEFINE e == [team |-> page.user, status |-> "running"]
  <2>1. e \in RunType /\ e.team = page.user
    BY <1>1 DEF RunType
  <2> HIDE DEF e
  <2>2. runs' = Append(runs, e)
    BY <1>3 DEF e
  <2>3. /\ runs' \in Seq(RunType) /\ Keeps(runs, runs') /\ Len(runs') = Len(runs) + 1
        /\ runs'[Len(runs) + 1] = e /\ DOMAIN runs' = 1..(Len(runs) + 1)
    BY <1>2, <2>1, <2>2, AppendKeeps
  <2>4. /\ Len(runs) + 1 \in 0..(MaxSubs + MaxRuns) /\ Len(runs) + 1 \in 1..(Len(runs) + 1)
        /\ Len(runs) + 1 <= MaxRuns
    BY <1>2, <1>3
  <2>5. PICK says \in {"ok", "error"} : Sends("start", Len(runs) + 1, says)
    BY <1>3, <2>3
  <2> QED
    BY <2>1, <2>3, <2>4, <2>5
<1>4. CASE UNCHANGED runs /\ Sends("start", Null, "error")
  <2>1. Null \in 0..(MaxSubs + MaxRuns)
    BY <1>2 DEF Null
  <2> QED
    BY <1>2, <1>4, <2>1, SameKeeps
<1> QED
  BY <1>3, <1>4 DEF StartBenchmark

LEMMA StartBenchmarkKeeps ==
  ASSUME IInv, StartBenchmark
  PROVE  IInv'
<1> DEFINE p == [page EXCEPT !.isTesting = TRUE]
<1> USE DEF IInv
<1>1. /\ page.user # NoTeam /\ ~page.isBuilding /\ ~page.isTesting /\ Becomes(p)
      /\ UNCHANGED <<sockets, subs>>
  BY DEF StartBenchmark
<1>2. PICK id \in 0..(MaxSubs + MaxRuns), says \in {"ok", "error"} :
        /\ Sends("start", id, says)
        /\ says = "ok" => /\ id = Len(runs) + 1 /\ id \in DOMAIN runs'
                          /\ runs'[id].team = page.user
  BY StartSends
<1>3. /\ runs' \in Seq(RunType) /\ Keeps(runs, runs') /\ Len(runs') <= MaxRuns
      /\ Keeps(subs, subs')
  BY <1>1, StartSends, SameKeeps
<1>4. /\ p \in Pages /\ p.user = page.user /\ p.submissionId = page.submissionId
      /\ p.isBuilding = page.isBuilding /\ p.pollsAs = page.pollsAs
      /\ p.activeRunId = page.activeRunId /\ p.isTesting = TRUE
      /\ p.wsRef = page.wsRef /\ p.chart = page.chart /\ p.left = page.left
  BY PageTyped DEF Pages
<1> HIDE DEF p
<1>5. /\ page' \in Pages /\ page'.user = page.user /\ page'.submissionId = page.submissionId
      /\ page'.isBuilding = page.isBuilding /\ page'.activeRunId = page.activeRunId
      /\ page'.isTesting = TRUE /\ page'.wsRef = page.wsRef
      /\ page'.chart = page.chart /\ page'.left = page.left
  BY <1>1, <1>4, EffectDoes
<1> DEFINE x == [of |-> "start", id |-> id, says |-> says]
<1>6. x \in Answer /\ x.of = "start" /\ x.id = id /\ x.says = says
  BY DEF Answer
<1>7. /\ IsABag(inFlight') /\ BagToSet(inFlight') \subseteq Answer
      /\ BagToSet(inFlight') = BagToSet(inFlight) \cup {x}
      /\ x \notin BagToSet(inFlight) => inFlight'[x] = 1
      /\ Untouched("build") /\ Untouched("upload") /\ Untouched("run")
  BY <1>2, <1>6, SendsAdds, SendsLeaves
<1> HIDE DEF x
<1>8. TypeOK'
  BY <1>1, <1>3, <1>5, <1>7, PageTyped, TypedSubs, TypesKept
<1>9. AnswersTell'
  <2>1. Tells(x)'
    BY <1>2, <1>6 DEF Tells
  <2> QED
    BY <1>3, <1>7, <2>1, AnswerStillTells DEF AnswersTell, BagToSet
<1>10. PageKnows'
  BY <1>1, <1>3, <1>5 DEF PageKnows, Keeps
<1>11. OneStream'
  BY <1>1, <1>5 DEF OneStream
<1>12. OwnSession'
  <2>1. ASSUME NEW a \in BagToSet(inFlight')
        PROVE  a \in BagToSet(inFlight) \/ OwnAnswer(a)'
    BY <1>2, <1>5, <1>6, <1>7, <2>1 DEF OwnAnswer
  <2>2. /\ page'.left = page.left /\ page'.user = page.user /\ page.user # NoTeam
        /\ ~page'.isBuilding
        /\ page'.submissionId \in {page.submissionId, Null}
        /\ page'.activeRunId \in {page.activeRunId, Null}
    BY <1>1, <1>5
  <2>3. OwnSession /\ AnswersTell /\ PageKnows /\ Keeps(subs, subs') /\ Keeps(runs, runs')
    BY <1>3
  <2> QED
    BY ONLY <2>1, <2>2, <2>3, SessionStays
<1>13. BuildAwaited'
  BY <1>3, <1>5, <1>7, BuildStillAwaited
<1>14. RunAwaited'
  <2> SUFFICES ASSUME ~page.left, ~page'.left PROVE RunAwaited'
    BY <1>5 DEF RunAwaited
  <2>1. \A a \in BagToSet(inFlight') : a = x \/ a \in BagToSet(inFlight)
    BY <1>7
  <2>2. ~Pending("run")' <=> ~Pending("run")
    BY <1>7 DEF Pending, Untouched
  <2>3. Pending("start")'
    BY <1>6, <1>7 DEF Pending, BagToSet
  <2>4. ASSUME page.activeRunId = Null PROVE ~Pending("run")' /\ Single("start")'
    <3>1. ~Pending("run") /\ ~Pending("start")
      BY <1>1, <2>4 DEF RunAwaited
    <3>2. \A a \in BagToSet(inFlight') : a.of = "start" => a = x /\ inFlight'[a] = 1
      BY <1>6, <1>7, <2>1, <3>1 DEF Pending
    <3> QED
      BY <2>2, <3>1, <3>2 DEF Single, BagToSet
  <2>5. ASSUME NEW a \in BagToSet(inFlight'), a.of = "start", a.says = "ok", a.id = 1
        PROVE  page.activeRunId = Null
    <3>1. CASE a = x
      <4>1. Len(runs) = 0
        BY <1>2, <1>6, <2>5, <3>1, TypedRuns
      <4> QED
        BY <4>1, TypedRuns DEF PageKnows
    <3>2. CASE a \in BagToSet(inFlight)
      BY <2>5, <3>2 DEF RunAwaited
    <3> QED
      BY <2>1, <3>1, <3>2
  <2>6. ASSUME page.activeRunId = 1, NEW a \in BagToSet(inFlight'), a.of = "run" PROVE a.id = 1
    BY <1>6, <2>1, <2>6 DEF RunAwaited
  <2>7. ASSUME page.activeRunId = 1 PROVE runs'[1].status # "running"
    <3>1. 1 \in DOMAIN runs /\ runs[1].status # "running"
      BY <1>1, <2>7 DEF RunAwaited, PageKnows, Null
    <3>2. Final(runs[1].status)
      BY <3>1, TypedRuns DEF Final
    <3> QED
      BY <1>3, <3>1, <3>2 DEF Keeps
  <2> QED
    BY <1>5, <2>3, <2>4, <2>5, <2>6, <2>7 DEF RunAwaited, BagToSet
<1> QED
  BY <1>8, <1>9, <1>10, <1>11, <1>12, <1>13, <1>14

\* The start the session waits for is one.
LEMMA StartIsTheOne ==
  ASSUME IInv, NEW a, Arrives(a), a.of = "start", ~page.left
  PROVE  /\ page.activeRunId = Null => /\ page.isTesting /\ ~Pending("run")
                                       /\ \A b \in BagToSet(inFlight') : b.of # "start"
         /\ a.says = "ok" /\ a.id = 1 => page.activeRunId = Null
         /\ page.activeRunId = 1 => runs[1].status # "running"
<1> USE DEF IInv
<1>1. /\ a \in BagToSet(inFlight) /\ BagToSet(inFlight') \subseteq BagToSet(inFlight)
      /\ inFlight[a] = 1 => a \notin BagToSet(inFlight')
  BY ArrivesTakes
<1>2. Pending("start")
  BY <1>1 DEF Pending
<1>3. ASSUME page.activeRunId = Null
      PROVE  /\ page.isTesting /\ ~Pending("run")
             /\ \A b \in BagToSet(inFlight') : b.of # "start"
  <2>1. Single("start") /\ page.isTesting /\ ~Pending("run")
    BY <1>2, <1>3 DEF RunAwaited
  <2>2. \A b \in BagToSet(inFlight) : b.of = "start" => b = a /\ inFlight[a] = 1
    BY <1>1, <2>1 DEF Single
  <2> QED
    BY <1>1, <2>1, <2>2
<1>4. a.says = "ok" /\ a.id = 1 => page.activeRunId = Null
  BY <1>1 DEF RunAwaited
<1>5. page.activeRunId = 1 => runs[1].status # "running"
  BY <1>2 DEF RunAwaited
<1> QED
  BY <1>3, <1>4, <1>5

\* The run was started: the page turns to it, with a chart and a socket of its own.
LEMMA StartOkKeeps ==
  ASSUME IInv, NEW a, a.of = "start", a.says = "ok", Arrives(a),
         Becomes([page EXCEPT !.activeRunId = a.id, !.wsRef = a.id, !.chart = {}]),
         Connect(a.id), UNCHANGED <<subs, runs>>
  PROVE  IInv'
<1> DEFINE p == [page EXCEPT !.activeRunId = a.id, !.wsRef = a.id, !.chart = {}]
<1> USE DEF IInv
<1>1. /\ a \in BagToSet(inFlight) /\ Tells(a)
      /\ IsABag(inFlight') /\ BagToSet(inFlight') \subseteq Answer
      /\ BagToSet(inFlight') \subseteq BagToSet(inFlight)
      /\ AnswersTell' /\ Keeps(subs, subs') /\ Keeps(runs, runs')
      /\ ~page.left => page.user # NoTeam
  BY AnswerArrives
<1>2. a.id \in DOMAIN runs /\ a.id \in 0..MaxRuns /\ a.id # Null /\ a.id \in RunIds
  <2>1. a.id \in DOMAIN runs
    BY <1>1 DEF Tells
  <2>2. Len(runs) \in Nat /\ Len(runs) <= MaxRuns /\ DOMAIN runs = 1..Len(runs) /\ MaxRuns \in Nat
    BY TypedRuns, BoundAssumption DEF PageKnows
  <2> QED
    BY <2>1, <2>2 DEF Null, RunIds
<1>3. /\ p \in Pages /\ p.user = page.user /\ p.submissionId = page.submissionId
      /\ p.isBuilding = page.isBuilding /\ p.pollsAs = page.pollsAs
      /\ p.activeRunId = a.id /\ p.isTesting = page.isTesting
      /\ p.wsRef = a.id /\ p.chart = {} /\ p.left = page.left
  BY <1>2, PageTyped DEF Pages
<1> HIDE DEF p
<1>4. /\ page' \in Pages /\ page'.user = page.user /\ page'.submissionId = page.submissionId
      /\ page'.isBuilding = page.isBuilding /\ page'.pollsAs \in {page.user, page.pollsAs}
      /\ page'.activeRunId = a.id
      /\ page'.isTesting = page.isTesting /\ page'.wsRef = a.id
      /\ page'.chart = {} /\ page'.left = page.left
  BY <1>3, EffectDoes DEF p
<1>5. sockets' \subseteq {a.id} /\ sockets' \subseteq RunIds
  BY <1>2 DEF Connect, OneStream
<1>6. TypeOK'
  BY <1>1, <1>4, <1>5, TypedSubs, TypedRuns, TypesKept
<1>7. PageKnows'
  BY <1>2, <1>4 DEF PageKnows
<1>8. OneStream'
  BY <1>4, <1>5 DEF OneStream
<1>9. OwnSession'
  <2>1. CASE page.left
    BY <1>4, <2>1 DEF OwnSession
  <2>2. CASE ~page.left
    <3>1. runs'[page'.activeRunId].team = page.user
      BY <1>1, <1>4, <2>2 DEF OwnSession, OwnAnswer
    <3>2. /\ page'.left = page.left /\ page'.user = page.user /\ page.user # NoTeam
          /\ page'.isBuilding => \/ page'.pollsAs = page.user
                                 \/ page.isBuilding /\ page'.pollsAs = page.pollsAs
          /\ page'.submissionId \in {page.submissionId, Null}
      BY <1>1, <1>4, <2>2
    <3> QED
      BY <1>1, <3>1, <3>2, SessionStays
  <2> QED
    BY <2>1, <2>2
<1>10. BuildAwaited'
  <2>1. Untouched("upload") /\ Untouched("build")
    BY ArrivesLeaves
  <2> QED
    BY <1>1, <1>4, <2>1, BuildStillAwaited
<1>11. RunAwaited'
  <2> SUFFICES ASSUME ~page.left, ~page'.left PROVE RunAwaited'
    BY <1>4 DEF RunAwaited
  <2>1. \A b \in BagToSet(inFlight') : b.of = "start" /\ b.says = "ok" => b.id # 1
    <3> SUFFICES ASSUME NEW b \in BagToSet(inFlight'), b.of = "start", b.says = "ok", b.id = 1
                 PROVE  FALSE
      OBVIOUS
    <3>1. page.activeRunId = Null
      BY <1>1 DEF RunAwaited
    <3> QED
      BY <3>1, StartIsTheOne
  <2>2. ASSUME a.id = 1
        PROVE  /\ \A b \in BagToSet(inFlight') : b.of # "run" /\ b.of # "start"
               /\ page.isTesting
    <3>1. page.activeRunId = Null
      BY <2>2, StartIsTheOne
    <3>2. /\ page.isTesting /\ ~Pending("run")
          /\ \A b \in BagToSet(inFlight') : b.of # "start"
      BY <3>1, StartIsTheOne
    <3> QED
      BY <1>1, <3>2 DEF Pending
  <2> QED
    BY <1>2, <1>4, <2>1, <2>2 DEF RunAwaited, BagToSet, Pending
<1> QED
  BY <1>1, <1>6, <1>7, <1>8, <1>9, <1>10, <1>11

\* The run may have been started, and the page does not know.
LEMMA StartErrorKeeps ==
  ASSUME IInv, NEW a, a.of = "start", Arrives(a),
         Becomes([page EXCEPT !.isTesting = FALSE]), UNCHANGED <<sockets, subs, runs>>
  PROVE  IInv'
<1> DEFINE p == [page EXCEPT !.isTesting = FALSE]
<1> USE DEF IInv
<1>1. /\ a \in BagToSet(inFlight) /\ Tells(a)
      /\ IsABag(inFlight') /\ BagToSet(inFlight') \subseteq Answer
      /\ BagToSet(inFlight') \subseteq BagToSet(inFlight)
      /\ AnswersTell' /\ Keeps(subs, subs') /\ Keeps(runs, runs')
      /\ ~page.left => page.user # NoTeam
  BY AnswerArrives
<1>2. /\ p \in Pages /\ p.user = page.user /\ p.submissionId = page.submissionId
      /\ p.isBuilding = page.isBuilding /\ p.pollsAs = page.pollsAs
      /\ p.activeRunId = page.activeRunId /\ p.isTesting = FALSE
      /\ p.wsRef = page.wsRef /\ p.chart = page.chart /\ p.left = page.left
  BY PageTyped DEF Pages
<1> HIDE DEF p
<1>3. /\ page' \in Pages /\ page'.user = page.user /\ page'.submissionId = page.submissionId
      /\ page'.isBuilding = page.isBuilding /\ page'.pollsAs \in {page.user, page.pollsAs}
      /\ page'.activeRunId = page.activeRunId
      /\ page'.isTesting = FALSE /\ page'.wsRef = page.wsRef
      /\ page'.chart = page.chart /\ page'.left = page.left
  BY <1>2, EffectDoes DEF p
<1>4. TypeOK'
  BY <1>1, <1>3, PageTyped, TypedSubs, TypedRuns, TypesKept
<1>5. PageKnows'
  BY <1>3 DEF PageKnows
<1>6. OneStream'
  BY <1>3 DEF OneStream
<1>7. OwnSession'
  <2>1. CASE page.left
    BY <1>3, <2>1 DEF OwnSession
  <2>2. CASE ~page.left
    <3>1. /\ page'.left = page.left /\ page'.user = page.user /\ page.user # NoTeam
          /\ page'.isBuilding => \/ page'.pollsAs = page.user
                                 \/ page.isBuilding /\ page'.pollsAs = page.pollsAs
          /\ page'.submissionId \in {page.submissionId, Null}
          /\ page'.activeRunId \in {page.activeRunId, Null}
      BY <1>1, <1>3, <2>2
    <3> QED
      BY <1>1, <3>1, SessionStays
  <2> QED
    BY <2>1, <2>2
<1>8. BuildAwaited'
  <2>1. Untouched("upload") /\ Untouched("build")
    BY ArrivesLeaves
  <2> QED
    BY <1>1, <1>3, <2>1, BuildStillAwaited
<1>9. RunAwaited'
  <2> SUFFICES ASSUME ~page.left, ~page'.left PROVE RunAwaited'
    BY <1>3 DEF RunAwaited
  <2>1. ASSUME page.activeRunId = Null
        PROVE  \A b \in BagToSet(inFlight') : b.of # "run" /\ b.of # "start"
    <3>1. ~Pending("run") /\ \A b \in BagToSet(inFlight') : b.of # "start"
      BY <2>1, StartIsTheOne
    <3> QED
      BY <1>1, <3>1 DEF Pending
  <2>2. \A b \in BagToSet(inFlight') :
          b.of = "start" /\ b.says = "ok" /\ b.id = 1 => page.activeRunId = Null
    BY <1>1 DEF RunAwaited
  <2>3. page.activeRunId = 1 => /\ \A b \in BagToSet(inFlight') : b.of = "run" => b.id = 1
                                /\ runs'[1].status # "running"
    BY <1>1, StartIsTheOne DEF RunAwaited
  <2>4. page.activeRunId = Null => ~Pending("run")' /\ ~Pending("start")' /\ Single("start")'
    BY <2>1 DEF Pending, Single, BagToSet
  <2> QED
    BY <1>3, <2>2, <2>3, <2>4 DEF RunAwaited, BagToSet
<1> QED
  BY <1>1, <1>4, <1>5, <1>6, <1>7, <1>8, <1>9

LEMMA StartAnsweredKeeps ==
  ASSUME IInv, NEW a, StartAnswered(a)
  PROVE  IInv'
<1>1. a.of = "start" /\ Arrives(a) /\ UNCHANGED <<subs, runs>>
  BY DEF StartAnswered
<1>2. CASE a.says = "ok"
  <2>1. /\ Becomes([page EXCEPT !.activeRunId = a.id, !.wsRef = a.id, !.chart = {}])
        /\ Connect(a.id)
    BY <1>2 DEF StartAnswered
  <2> QED
    BY <1>1, <1>2, <2>1, StartOkKeeps
<1>3. CASE a.says # "ok"
  <2>1. Becomes([page EXCEPT !.isTesting = FALSE]) /\ UNCHANGED sockets
    BY <1>3 DEF StartAnswered
  <2> QED
    BY <1>1, <2>1, StartErrorKeeps
<1> QED
  BY <1>2, <1>3

\* The run the page has is one there is.
LEMMA PageRun ==
  ASSUME IInv, page.activeRunId # Null
  PROVE  page.activeRunId \in DOMAIN runs
  BY DEF IInv, PageKnows

LEMMA PollRunKeeps ==
  ASSUME IInv, PollRun
  PROVE  IInv'
<1> USE DEF IInv
<1>0. PICK r, says : r = page.activeRunId /\ says = runs[r].status
  OBVIOUS
<1> DEFINE x == [of |-> "run", id |-> r, says |-> says]
<1>1. /\ page.user # NoTeam /\ r \in DOMAIN runs /\ page.user = runs[r].team
      /\ Sends("run", r, says) /\ UNCHANGED <<page, sockets, runs, subs>>
  BY <1>0, PageRun DEF PollRun
<1>2. /\ runs[r].team \in Teams /\ says \in {"running", "completed", "failed"}
      /\ r \in 1..Len(runs) /\ Len(runs) \in Nat /\ Len(runs) <= MaxRuns
      /\ MaxRuns \in Nat /\ MaxSubs \in Nat
  BY <1>0, <1>1, TypedRuns, BoundAssumption DEF PageKnows
<1>3. r \in 0..(MaxSubs + MaxRuns) /\ r # Null
  BY ONLY <1>2 DEF Null
<1>4. x \in Answer /\ x.of = "run" /\ x.id = r /\ x.says = says
  BY <1>2, <1>3 DEF Answer
<1>5. /\ IsABag(inFlight') /\ BagToSet(inFlight') \subseteq Answer
      /\ BagToSet(inFlight') = BagToSet(inFlight) \cup {x}
      /\ Untouched("start") /\ Untouched("upload") /\ Untouched("build")
  BY <1>1, <1>4, SendsAdds, SendsLeaves
<1> HIDE DEF x
<1>6. Keeps(runs, runs') /\ Keeps(subs, subs')
  BY <1>1, SameKeeps
<1>7. TypeOK'
  BY <1>1, <1>5, PageTyped, TypedRuns, TypedSubs, TypesKept
<1>8. AnswersTell'
  <2>1. Tells(x)'
    BY <1>0, <1>1, <1>4 DEF Tells
  <2> QED
    BY <1>5, <1>6, <2>1, AnswerStillTells DEF AnswersTell, BagToSet
<1>9. PageKnows' /\ OneStream'
  BY <1>1 DEF PageKnows, OneStream
<1>10. OwnSession'
  <2> SUFFICES ASSUME ~page.left PROVE OwnSession'
    BY <1>1 DEF OwnSession
  <2>1. page.user # NoTeam
    BY <1>1
  <2>2. \A a \in BagToSet(inFlight') : a \in BagToSet(inFlight) \/ OwnAnswer(a)'
    BY <1>4, <1>5 DEF OwnAnswer
  <2>3. /\ page'.left = page.left /\ page'.user = page.user
        /\ page'.isBuilding => page.isBuilding /\ page'.pollsAs = page.pollsAs
        /\ page'.activeRunId \in {page.activeRunId, Null}
        /\ page'.submissionId \in {page.submissionId, Null}
    BY <1>1
  <2> QED
    BY <1>6, <2>1, <2>2, <2>3, SessionStays
<1>11. BuildAwaited'
  BY <1>1, <1>5, <1>6, BuildStillAwaited
<1>12. RunAwaited'
  <2> SUFFICES ASSUME ~page.left, ~page'.left PROVE RunAwaited'
    BY <1>1 DEF RunAwaited
  <2>1. \A a \in BagToSet(inFlight') : a = x \/ a \in BagToSet(inFlight)
    BY <1>5
  <2>2. \A a \in BagToSet(inFlight') :
          a.of = "start" /\ a.says = "ok" /\ a.id = 1 => page.activeRunId = Null
    BY <1>4, <2>1 DEF RunAwaited
  <2>3. page.activeRunId = 1 => \A a \in BagToSet(inFlight') : a.of = "run" => a.id = 1
    BY <1>0, <1>4, <2>1 DEF RunAwaited
  <2>4. Pending("start")' <=> Pending("start")
    BY <1>5 DEF Pending, Untouched
  <2> QED
    BY <1>0, <1>1, <1>3, <2>2, <2>3, <2>4 DEF RunAwaited, BagToSet
<1> QED
  BY <1>7, <1>8, <1>9, <1>10, <1>11, <1>12

LEMMA RunAnsweredKeeps ==
  ASSUME IInv, NEW a, RunAnswered(a)
  PROVE  IInv'
<1> DEFINE still == page.isTesting /\ ~Final(a.says)
           p == [page EXCEPT !.isTesting = still]
<1> USE DEF IInv
<1>1. /\ a.of = "run" /\ Arrives(a) /\ Becomes(p) /\ UNCHANGED <<sockets, runs, subs>>
  BY DEF RunAnswered
<1>2. /\ a \in BagToSet(inFlight) /\ Tells(a)
      /\ IsABag(inFlight') /\ BagToSet(inFlight') \subseteq Answer
      /\ BagToSet(inFlight') \subseteq BagToSet(inFlight)
      /\ AnswersTell' /\ Keeps(runs, runs') /\ Keeps(subs, subs')
      /\ ~page.left => page.user # NoTeam
  BY <1>1, AnswerArrives
<1>3. still \in BOOLEAN /\ (still => page.isTesting)
      /\ (page.isTesting /\ ~Final(a.says) => still)
  BY PageTyped
<1> HIDE DEF still
<1>4. /\ p \in Pages /\ p.user = page.user /\ p.activeRunId = page.activeRunId
      /\ p.isTesting = still /\ p.pollsAs = page.pollsAs
      /\ p.submissionId = page.submissionId /\ p.isBuilding = page.isBuilding
      /\ p.wsRef = page.wsRef /\ p.chart = page.chart /\ p.left = page.left
  BY <1>3, PageTyped DEF Pages
<1> HIDE DEF p
<1>5. /\ page' \in Pages /\ page'.user = page.user /\ page'.activeRunId = page.activeRunId
      /\ page'.isTesting = still /\ page'.pollsAs \in {page.user, page.pollsAs}
      /\ page'.submissionId = page.submissionId
      /\ page'.isBuilding = page.isBuilding /\ page'.wsRef = page.wsRef
      /\ page'.chart = page.chart /\ page'.left = page.left
  BY <1>1, <1>4, EffectDoes
<1>6. TypeOK'
  BY <1>1, <1>2, <1>5, PageTyped, TypedRuns, TypedSubs, TypesKept
<1>7. PageKnows'
  BY <1>1, <1>5 DEF PageKnows
<1>8. OneStream'
  BY <1>1, <1>5 DEF OneStream
<1>9. OwnSession'
  <2>1. CASE page.left
    BY <1>5, <2>1 DEF OwnSession
  <2>2. CASE ~page.left
    <3>1. /\ page'.left = page.left /\ page'.user = page.user /\ page.user # NoTeam
          /\ page'.isBuilding => \/ page'.pollsAs = page.user
                                 \/ page.isBuilding /\ page'.pollsAs = page.pollsAs
          /\ page'.activeRunId \in {page.activeRunId, Null}
          /\ page'.submissionId \in {page.submissionId, Null}
      BY <1>2, <1>3, <1>5, <2>2
    <3> QED
      BY <1>2, <3>1, SessionStays
  <2> QED
    BY <2>1, <2>2
<1>10. Untouched("start") /\ Untouched("upload") /\ Untouched("build")
  BY <1>1, ArrivesLeaves
<1>11. BuildAwaited'
  BY <1>2, <1>5, <1>10, BuildStillAwaited
<1>12. RunAwaited'
  <2> SUFFICES ASSUME ~page.left, ~page'.left PROVE RunAwaited'
    BY <1>5 DEF RunAwaited
  <2>1. page.activeRunId # Null
    BY <1>1, <1>2 DEF RunAwaited, Pending
  <2>2. \A b \in BagToSet(inFlight') :
          /\ b.of = "start" /\ b.says = "ok" /\ b.id = 1 => page.activeRunId = Null
          /\ page.activeRunId = 1 /\ b.of = "run" => b.id = 1
    BY <1>2 DEF RunAwaited
  <2>3. ASSUME page.activeRunId = 1, runs'[1].status = "running"
        PROVE  still /\ ~Pending("start")'
    <3>1. page.isTesting /\ ~Pending("start")
      BY <1>1, <2>3 DEF RunAwaited
    <3>2. a.id = 1
      BY <1>1, <1>2, <2>3 DEF RunAwaited
    <3>3. ~Final(a.says)
      BY <1>1, <1>2, <2>3, <3>2 DEF Tells, Final
    <3>4. ~Pending("start")'
      BY <1>2, <3>1 DEF Pending, BagToSet
    <3> QED
      BY <1>3, <3>1, <3>3, <3>4
  <2> QED
    BY <1>5, <2>1, <2>2, <2>3 DEF RunAwaited, BagToSet
<1> QED
  BY <1>2, <1>6, <1>7, <1>8, <1>9, <1>11, <1>12

LEMMA RunSettlesKeeps ==
  ASSUME IInv, NEW r \in DOMAIN runs, RunSettles(r)
  PROVE  IInv'
<1>1. /\ runs[r].status = "running" /\ UNCHANGED <<page, sockets, inFlight, subs>>
      /\ TypeOK
  BY DEF RunSettles, IInv
<1>2. PICK status \in {"completed", "failed"} : runs' = [runs EXCEPT ![r].status = status]
  BY DEF RunSettles
<1> DEFINE e == [runs[r] EXCEPT !.status = status]
<1>3. /\ runs \in Seq(RunType) /\ runs[r] \in RunType
      /\ e \in RunType /\ e.team = runs[r].team
  BY <1>1, TypedRuns DEF RunType
<1>4. runs' = [runs EXCEPT ![r] = e]
  BY <1>2
<1> HIDE DEF e
<1>5. /\ runs' \in Seq(RunType) /\ Len(runs') = Len(runs) /\ DOMAIN runs' = DOMAIN runs
      /\ runs'[r] = e /\ \A i \in DOMAIN runs : i # r => runs'[i] = runs[i]
  BY <1>3, <1>4
<1>6. ~Final(runs[r].status)
  BY <1>1 DEF Final
<1>7. Keeps(runs, runs') /\ Keeps(subs, subs')
  BY <1>1, <1>3, <1>5, <1>6, SameKeeps DEF Keeps
<1> QED
  BY <1>1, <1>5, <1>7, TypedSubs, ServerKeeps

-----------------------------------------------------------------------------
(***************************************************************************)
(* The stream.                                                             *)
(***************************************************************************)
LEMMA SocketDropsKeeps ==
  ASSUME IInv, NEW r \in sockets, SocketDrops(r)
  PROVE  IInv'
<1> USE DEF IInv
<1>1. sockets' \subseteq sockets /\ UNCHANGED <<page, inFlight, subs, runs>>
  BY DEF SocketDrops
<1>2. TypeOK'
  BY <1>1, PageTyped, TypedSubs, TypedRuns, TypesKept
<1>3. AnswersTell' /\ PageKnows' /\ OneStream'
  BY <1>1 DEF AnswersTell, Tells, PageKnows, OneStream
<1>4. OwnSession'
  BY <1>1 DEF OwnSession, OwnAnswer
<1>5. BuildAwaited' /\ RunAwaited'
  BY <1>1, SameKeeps, NothingTouched, BuildStillAwaited, RunStillAwaited
<1> QED
  BY <1>2, <1>3, <1>4, <1>5

LEMMA TickArrivesKeeps ==
  ASSUME IInv, NEW r \in sockets, NEW tick \in DOMAIN runs, TickArrives(r, tick)
  PROVE  IInv'
<1> DEFINE shown == page.chart \cup {tick}
<1> USE DEF IInv
<1>1. /\ tick = r /\ page' = [page EXCEPT !.chart = shown]
      /\ UNCHANGED <<sockets, inFlight, subs, runs>>
  BY DEF TickArrives, Shows
<1>2. shown \subseteq RunIds /\ tick = page.wsRef
  BY <1>1, PageTyped DEF OneStream
<1> HIDE DEF shown
<1>3. /\ page' \in Pages /\ page'.user = page.user /\ page'.submissionId = page.submissionId
      /\ page'.isBuilding = page.isBuilding /\ page'.pollsAs = page.pollsAs
      /\ page'.activeRunId = page.activeRunId /\ page'.isTesting = page.isTesting
      /\ page'.wsRef = page.wsRef /\ page'.chart = shown /\ page'.left = page.left
  BY <1>1, <1>2, PageTyped DEF Pages
<1>4. TypeOK'
  BY <1>1, <1>3, PageTyped, TypedSubs, TypedRuns, TypesKept
<1>5. AnswersTell' /\ PageKnows'
  BY <1>1, <1>3 DEF AnswersTell, Tells, PageKnows
<1>6. OneStream'
  BY <1>1, <1>2, <1>3 DEF OneStream, shown
<1>7. OwnSession'
  BY <1>1, <1>3 DEF OwnSession, OwnAnswer
<1>8. BuildAwaited' /\ RunAwaited'
  BY <1>1, <1>3, SameKeeps, NothingTouched, BuildStillAwaited, RunStillAwaited
<1> QED
  BY <1>4, <1>5, <1>6, <1>7, <1>8

-----------------------------------------------------------------------------
(***************************************************************************)
(* The theorems.                                                           *)
(***************************************************************************)
LEMMA InitIInv == Init => IInv
<1> SUFFICES ASSUME Init PROVE IInv
  OBVIOUS
<1>1. 0 \in 0..MaxSubs /\ 0 \in 0..MaxRuns
  BY BoundAssumption
<1>2. BagToSet(inFlight) = {} /\ IsABag(inFlight)
  BY DEF Init, EmptyBag, SetToBag, BagToSet, IsABag
<1>3. TypeOK
  BY <1>1, <1>2 DEF Init, TypeOK, FreshPage, Null
<1>4. PageKnows
  BY BoundAssumption DEF Init, PageKnows, FreshPage
<1>5. AnswersTell /\ OneStream
  BY <1>2 DEF Init, AnswersTell, OneStream, FreshPage
<1>6. OwnSession
  BY <1>2 DEF Init, OwnSession, FreshPage
<1>7. BuildAwaited /\ RunAwaited
  BY <1>2 DEF Init, BuildAwaited, RunAwaited, FreshPage, Null, Pending, Single
<1> QED
  BY <1>3, <1>4, <1>5, <1>6, <1>7 DEF IInv

LEMMA NextIInv == IInv /\ [Next]_dashVars => IInv'
<1> SUFFICES ASSUME IInv, [Next]_dashVars PROVE IInv'
  OBVIOUS
<1>1. ASSUME NEW t \in Teams, LogIn(t) PROVE IInv'
  BY <1>1, LogInKeeps
<1>2. CASE LogOut
  <2>1. IsABag(inFlight') /\ BagToSet(inFlight') \subseteq BagToSet(inFlight)
    BY <1>2, PageTyped DEF LogOut, IInv
  <2> QED
    BY <1>2, <2>1, LogOutKeeps DEF LogOut
<1>3. CASE Reload
  BY <1>3, ReloadKeeps
<1>4. CASE Upload
  BY <1>4, UploadKeeps
<1>5. CASE StartBenchmark
  BY <1>5, StartBenchmarkKeeps
<1>6. CASE PollBuild
  BY <1>6, PollBuildKeeps
<1>7. CASE PollRun
  BY <1>7, PollRunKeeps
<1>8. ASSUME NEW a \in BagToSet(inFlight), Answered(a) PROVE IInv'
  BY <1>8, UploadAnsweredKeeps, BuildAnsweredKeeps, StartAnsweredKeeps, RunAnsweredKeeps
     DEF Answered
<1>9. ASSUME NEW s \in DOMAIN subs, BuildSettles(s) PROVE IInv'
  BY <1>9, BuildSettlesKeeps
<1>10. ASSUME NEW r \in DOMAIN runs, RunSettles(r) PROVE IInv'
  BY <1>10, RunSettlesKeeps
<1>11. ASSUME NEW r \in sockets, SocketDrops(r) PROVE IInv'
  BY <1>11, SocketDropsKeeps
<1>12. ASSUME NEW r \in sockets, NEW tick \in DOMAIN runs, TickArrives(r, tick) PROVE IInv'
  BY <1>12, TickArrivesKeeps
<1>13. CASE UNCHANGED dashVars
  <2>1. TypeOK' /\ AnswersTell' /\ PageKnows' /\ OneStream'
    BY <1>13 DEF dashVars, IInv, TypeOK, AnswersTell, Tells, PageKnows, OneStream
  <2>2. OwnSession'
    BY <1>13 DEF dashVars, IInv, OwnSession, OwnAnswer
  <2>3. BuildAwaited' /\ RunAwaited'
    BY <1>13 DEF dashVars, IInv, BuildAwaited, RunAwaited, Pending, Single
  <2> QED
    BY <2>1, <2>2, <2>3 DEF IInv
<1> QED
  BY <1>1, <1>2, <1>3, <1>4, <1>5, <1>6, <1>7, <1>8, <1>9, <1>10, <1>11, <1>12, <1>13 DEF Next

\* The invariant holds in every state the page and the servers reach.
THEOREM Invariance == Spec => []IInv
  BY InitIInv, NextIInv, PTL DEF Spec

\* Types, for every number of teams, submissions, runs and requests in flight.
THEOREM TypeCorrect == Spec => []TypeOK
<1>1. IInv => TypeOK
  BY DEF IInv
<1> QED
  BY <1>1, Invariance, PTL

\* The chart holds ticks of the run it is shown under only: there is one socket, it
\* is that of the last run that was started, and it closes when another one opens.
THEOREM ChartIsOfTheRun == Spec => []ChartMatchesRun
<1>1. IInv => ChartMatchesRun
  BY DEF IInv, OneStream, ChartMatchesRun
<1> QED
  BY <1>1, Invariance, PTL

\* Until the first logout, a disabled button waits for something that is going to
\* come, and is not enabled before the first build or run is over.
THEOREM FlagsAreRight == Spec => []BusyFlags
<1>1. IInv => BusyFlags
  <2> SUFFICES ASSUME IInv, ~page.left PROVE BusyFlags
    BY DEF BusyFlags
  <2>1. page.isBuilding => \/ Pending("upload")
                           \/ /\ page.submissionId # Null
                              /\ page.pollsAs = subs[page.submissionId].team
    BY DEF IInv, OwnSession, BuildAwaited
  <2>2. page.isTesting => \/ Pending("start")
                          \/ /\ page.activeRunId # Null
                             /\ page.user = runs[page.activeRunId].team
    BY DEF IInv, OwnSession, RunAwaited
  <2>3. /\ page.submissionId = 1 /\ subs[1].status = "queued" => page.isBuilding
        /\ page.activeRunId = 1 /\ runs[1].status = "running" => page.isTesting
    BY DEF IInv, BuildAwaited, RunAwaited
  <2> QED
    BY <2>1, <2>2, <2>3 DEF BusyFlags
<1> QED
  BY <1>1, Invariance, PTL
=============================================================================
