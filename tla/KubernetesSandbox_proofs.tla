--------------------- MODULE KubernetesSandbox_proofs ---------------------
(***************************************************************************)
(* Proofs about KubernetesSandbox: types, that what a build says of a      *)
(* submission is true, and that builds and runs leave nothing behind.      *)
(***************************************************************************)
EXTENDS KubernetesSandbox, TLAPS

-----------------------------------------------------------------------------
(***************************************************************************)
(* The invariant.                                                          *)
(***************************************************************************)
\* Where an attempt has sent its deletions, and where it has them still to send.
Active == {"delete job", "delete map", "post map", "post job", "wait"}

SentAtEnd == \A a \in Attempts : attempt[a].sent # {} => attempt[a].pc \in {"finally", "done"}

\* The status of the Job is the truth about the submission, or whoever waits for it was
\* hindered.
JobTells ==
  /\ job = "succeeded" => good /\ image
  /\ job = "failed" /\ good => \A a \in Attempts : attempt[a].pc = "wait" => "cut off" \in excuse[a]

\* Attempts that are there together know it.
OverlapsAreExcused ==
  \A a, b \in Attempts : a # b /\ Live(a) /\ Live(b) => "overlap" \in excuse[a]

\* What an attempt that nothing hindered finds at each of its requests.
UnhinderedFinds ==
  \A a \in Attempts : excuse[a] = {} =>
    /\ attempt[a].pc \in {"delete map", "post map", "post job"} => resource["job"] # "present"
    /\ attempt[a].pc = "post map" => resource["map"] = "absent"
    /\ attempt[a].pc = "wait" => resource["job"] = "present"

\* Which attempt will delete it.
WillDelete(a, kind) == attempt[a].pc \in Active \/ kind \in attempt[a].sent

BuildsClean ==
  \A kind \in {"job", "map"} : resource[kind] = "present" =>
    kind \in litter \/ \E a \in Attempts : WillDelete(a, kind)

\* A run is stopped when it is not started any more.
StopsComeLate ==
  /\ \A s \in Stops : stop[s].pc = "new" => stop[s].sent = {}
  /\ stopped \/ (\E s \in Stops : stop[s].pc # "new") => starter \in {"started", "threw"}
  /\ starter \in {"new", "posting"} => resource["service"] = "absent"

\* A stop that has deleted the pod, or found none, leaves none.
PodIsGone ==
  /\ stopped => resource["pod"] # "present"
  /\ \A s \in Stops : stop[s].pc = "stopping" /\ "pod" \notin stop[s].sent => resource["pod"] # "present"

\* The Service of a run that was started, or failed to, goes with its pod.
ServiceIsClaimed ==
  starter \in {"started", "threw"} /\ resource["service"] = "present" =>
    \/ "service" \in litter
    \/ \E s \in Stops : "service" \in stop[s].sent
    \/ resource["pod"] = "present" /\ \A s \in Stops : stop[s].sent = {}

IInv ==
  /\ TypeOK
  /\ SentAtEnd /\ JobTells /\ OverlapsAreExcused /\ UnhinderedFinds /\ BuildIsHonest
  /\ BuildsClean
  /\ StopsComeLate /\ PodIsGone /\ ServiceIsClaimed

-----------------------------------------------------------------------------
(***************************************************************************)
(* What the steps leave alone.                                             *)
(***************************************************************************)
States == {"absent", "present", "deleting"}
JobStatuses == {"pending", "building", "succeeded", "failed"}
AttemptType == [pc : BuildPcs, verdict : Verdicts, sent : SUBSET {"map", "job"}]
ExcuseType == SUBSET {"overlap", "fault", "cut off", "slow"}
StopType == [pc : {"new", "stopping", "done"}, sent : SUBSET {"pod", "service"}]
BuildInv == /\ SentAtEnd /\ JobTells /\ OverlapsAreExcused /\ UnhinderedFinds /\ BuildIsHonest
            /\ BuildsClean
RunInv == StopsComeLate /\ PodIsGone /\ ServiceIsClaimed

LEMMA RunUntouched ==
  ASSUME RunInv, UNCHANGED runVars,
         resource'["pod"] = resource["pod"], resource'["service"] = resource["service"],
         "service" \in litter => "service" \in litter'
  PROVE  RunInv'
  BY DEF RunInv, runVars, StopsComeLate, PodIsGone, ServiceIsClaimed

LEMMA BuildUntouched ==
  ASSUME BuildInv, UNCHANGED buildVars,
         resource'["job"] = resource["job"], resource'["map"] = resource["map"],
         \A kind \in {"job", "map"} : kind \in litter => kind \in litter'
  PROVE  BuildInv'
<1>1. SentAtEnd' /\ JobTells' /\ UnhinderedFinds'
  BY DEF BuildInv, buildVars, SentAtEnd, JobTells, UnhinderedFinds
<1>2. OverlapsAreExcused'
  BY DEF BuildInv, buildVars, OverlapsAreExcused, Live
<1>3. BuildIsHonest'
  BY DEF BuildInv, buildVars, BuildIsHonest, NoFalseVerdict, BuildsOverLeftovers
<1>4. BuildsClean'
  BY DEF BuildInv, buildVars, BuildsClean, WillDelete
<1> QED
  BY <1>1, <1>2, <1>3, <1>4 DEF BuildInv

\* What a deletion does to the resources.
LEMMA DeleteDoes ==
  ASSUME TypeOK, NEW kind \in Kinds, Delete(kind)
  PROVE  /\ resource' \in [Kinds -> States]
         /\ resource'[kind] \in {"absent", "deleting"}
         /\ kind \in {"map", "service"} => resource'[kind] = "absent"
         /\ resource[kind] = "absent" => resource'[kind] = "absent"
         /\ \A other \in Kinds \ {kind} : resource'[other] = resource[other]
         /\ litter' = litter \ {kind} /\ litter' \subseteq Kinds
<1>1. resource \in [Kinds -> States] /\ litter \subseteq Kinds
  BY DEF TypeOK, States
<1>2. \/ resource' = [resource EXCEPT ![kind] = "absent"]
      \/ /\ kind \in {"job", "pod"} /\ resource[kind] # "absent"
         /\ resource' = [resource EXCEPT ![kind] = "deleting"]
  <2>1. CASE kind \in {"job", "pod"} /\ Exists(kind)
    BY <2>1 DEF Delete, Exists
  <2>2. CASE ~(kind \in {"job", "pod"} /\ Exists(kind))
    BY <2>2 DEF Delete
  <2> QED
    BY <2>1, <2>2
<1> QED
  BY <1>1, <1>2 DEF Delete, States

\* What a creation does.
LEMMA CreateDoes ==
  ASSUME TypeOK, NEW kind \in Kinds, Create(kind)
  PROVE  /\ resource' \in [Kinds -> States]
         /\ resource[kind] = "absent" /\ resource'[kind] = "present"
         /\ \A other \in Kinds \ {kind} : resource'[other] = resource[other]
  BY DEF TypeOK, Create, Exists, States

\* Who has an attempt beside it was told so.
LEMMA OthersAreIdle ==
  ASSUME BuildInv, NEW a \in Attempts, Live(a), NEW b \in Attempts, b # a, excuse[b] = {}
  PROVE  attempt[b].pc \in {"new", "done", "dead"} /\ attempt[b].sent = {}
  BY DEF BuildInv, OverlapsAreExcused, Live, Ended

-----------------------------------------------------------------------------
(***************************************************************************)
(* The requests of an attempt.                                             *)
(***************************************************************************)
\* An attempt that goes on to another request, or to its finally block, which sends
\* both deletions: what is left to show of it is its verdict and what it finds next.
LEMMA AttemptMoves ==
  ASSUME TypeOK, BuildInv, RunInv, NEW a \in Attempts, attempt[a].pc \in Active,
         UNCHANGED <<subject, good, image, runVars>>,
         resource' \in [Kinds -> States], litter' \subseteq Kinds, job' \in JobStatuses,
         resource'["pod"] = resource["pod"], resource'["service"] = resource["service"],
         "service" \in litter => "service" \in litter',
         attempt' \in [Attempts -> AttemptType], excuse' \in [Attempts -> ExcuseType],
         \A b \in Attempts : b # a => attempt'[b] = attempt[b] /\ excuse'[b] = excuse[b],
         excuse[a] \subseteq excuse'[a],
         \/ attempt'[a].pc \in Active /\ attempt'[a].sent = {} /\ attempt'[a].verdict = attempt[a].verdict
         \/ /\ attempt'[a].pc = "finally" /\ attempt'[a].sent = {"map", "job"}
            /\ attempt'[a].verdict # "none" /\ NoFalseVerdict(a)' /\ BuildsOverLeftovers(a)',
         \/ job' = "pending"
         \/ job' = job /\ attempt'[a].pc # "wait",
         excuse'[a] = {} =>
           /\ attempt'[a].pc \in {"delete map", "post map", "post job"} => resource'["job"] # "present"
           /\ attempt'[a].pc = "post map" => resource'["map"] = "absent"
           /\ attempt'[a].pc = "wait" => resource'["job"] = "present"
  PROVE  TypeOK' /\ BuildInv' /\ RunInv'
<1>1. TypeOK'
  <2>1. \A b \in Attempts : attempt'[b].pc \in {"finally", "done"} => attempt'[b].verdict # "none"
    <3> SUFFICES ASSUME NEW b \in Attempts, attempt'[b].pc \in {"finally", "done"}
                 PROVE  attempt'[b].verdict # "none"
      OBVIOUS
    <3>1. CASE b = a
      BY <3>1 DEF Active
    <3>2. CASE b # a
      BY <3>2 DEF TypeOK
    <3> QED
      BY <3>1, <3>2
  <2> QED
    BY <2>1 DEF TypeOK, runVars, States, JobStatuses, AttemptType, ExcuseType
<1>2. RunInv'
  BY RunUntouched
<1>3. Live(a)
  BY DEF Live, Active, Ended
<1>4. SentAtEnd'
  BY DEF BuildInv, SentAtEnd
<1>5. JobTells'
  BY DEF BuildInv, JobTells
<1>6. OverlapsAreExcused'
  <2>1. \A b \in Attempts : Live(b)' => Live(b)
    BY <1>3 DEF Live
  <2> QED
    BY <2>1 DEF BuildInv, OverlapsAreExcused
<1>7. UnhinderedFinds'
  <2> SUFFICES ASSUME NEW b \in Attempts, b # a, excuse[b] = {}
               PROVE  attempt[b].pc \notin {"delete map", "post map", "post job", "wait"}
    BY DEF UnhinderedFinds
  <2> QED
    BY <1>3, OthersAreIdle
<1>8. BuildIsHonest'
  <2>1. \A b \in Attempts : b # a => NoFalseVerdict(b)' /\ BuildsOverLeftovers(b)'
    BY DEF BuildInv, BuildIsHonest, NoFalseVerdict, BuildsOverLeftovers
  <2>2. CASE attempt'[a].verdict = attempt[a].verdict
    BY <2>2 DEF BuildInv, BuildIsHonest, NoFalseVerdict, BuildsOverLeftovers
  <2>3. NoFalseVerdict(a)' /\ BuildsOverLeftovers(a)'
    BY <2>2 DEF BuildInv, BuildIsHonest, NoFalseVerdict, BuildsOverLeftovers
  <2> QED
    BY <2>1, <2>3 DEF BuildIsHonest
<1>9. BuildsClean'
  <2>1. \A kind \in {"job", "map"} : WillDelete(a, kind)'
    BY DEF WillDelete
  <2> QED
    BY <2>1 DEF BuildsClean
<1> QED
  BY <1>1, <1>2, <1>4, <1>5, <1>6, <1>7, <1>8, <1>9 DEF BuildInv

\* An attempt that goes on as if nothing had happened.
LEMMA ProceedsDoes ==
  ASSUME TypeOK, NEW a \in Attempts, NEW pc \in BuildPcs, Proceeds(a, pc)
  PROVE  /\ attempt' \in [Attempts -> AttemptType] /\ excuse' \in [Attempts -> ExcuseType]
         /\ \A b \in Attempts : b # a => attempt'[b] = attempt[b] /\ excuse'[b] = excuse[b]
         /\ excuse'[a] = excuse[a]
         /\ attempt'[a].pc = pc /\ attempt'[a].sent = attempt[a].sent
         /\ attempt'[a].verdict = attempt[a].verdict
  BY DEF TypeOK, Proceeds, AttemptType, ExcuseType

\* An attempt that has its verdict.
LEMMA FinallyDoes ==
  ASSUME TypeOK, NEW a \in Attempts, NEW verdict \in Verdicts, Finally(a, verdict)
  PROVE  /\ attempt' \in [Attempts -> AttemptType]
         /\ \A b \in Attempts : b # a => attempt'[b] = attempt[b]
         /\ attempt'[a].pc = "finally" /\ attempt'[a].verdict = verdict
         /\ attempt'[a].sent = {"map", "job"}
<1>1. [pc |-> "finally", verdict |-> verdict, sent |-> {"map", "job"}] \in AttemptType
  BY DEF AttemptType, BuildPcs
<1>2. attempt \in [Attempts -> AttemptType]
  BY DEF TypeOK, AttemptType
<1> QED
  BY <1>1, <1>2 DEF Finally

\* A step of an attempt that throws, for a reason or hindered before.
LEMMA ThrowsKeeps ==
  ASSUME TypeOK, BuildInv, RunInv, NEW a \in Attempts, attempt[a].pc \in Active,
         NEW why \in ExcuseType, Throws(a, why), excuse[a] # {} \/ why # {},
         UNCHANGED <<subject, good, image, runVars>>,
         resource' \in [Kinds -> States], litter' \subseteq Kinds, job' \in JobStatuses,
         resource'["pod"] = resource["pod"], resource'["service"] = resource["service"],
         "service" \in litter => "service" \in litter',
         job' \in {"pending", job}
  PROVE  TypeOK' /\ BuildInv' /\ RunInv'
<1>1. /\ attempt' \in [Attempts -> AttemptType]
      /\ \A b \in Attempts : b # a => attempt'[b] = attempt[b]
      /\ attempt'[a].pc = "finally" /\ attempt'[a].verdict = "thrown"
      /\ attempt'[a].sent = {"map", "job"}
  BY FinallyDoes DEF Throws, Verdicts
<1>2. /\ excuse' \in [Attempts -> ExcuseType]
      /\ \A b \in Attempts : b # a => excuse'[b] = excuse[b]
      /\ excuse'[a] = excuse[a] \cup why
  BY DEF TypeOK, Throws, ExcuseType
<1>3. NoFalseVerdict(a)' /\ BuildsOverLeftovers(a)' /\ excuse'[a] # {}
  BY <1>1, <1>2 DEF NoFalseVerdict, BuildsOverLeftovers
<1> QED
  BY <1>1, <1>2, <1>3, AttemptMoves

\* A step of an attempt whose answer is an error with an excuse, or comes.
LEMMA AnsweredKeeps ==
  ASSUME TypeOK, BuildInv, RunInv, NEW a \in Attempts, attempt[a].pc \in Active,
         NEW pc \in Active, Answered(a, pc),
         UNCHANGED <<subject, good, image, runVars>>,
         resource' \in [Kinds -> States], litter' \subseteq Kinds, job' \in JobStatuses,
         resource'["pod"] = resource["pod"], resource'["service"] = resource["service"],
         "service" \in litter => "service" \in litter',
         job' = "pending" \/ (job' = job /\ pc # "wait"),
         excuse[a] = {} =>
           /\ pc \in {"delete map", "post map", "post job"} => resource'["job"] # "present"
           /\ pc = "post map" => resource'["map"] = "absent"
           /\ pc = "wait" => resource'["job"] = "present"
  PROVE  TypeOK' /\ BuildInv' /\ RunInv'
<1>1. CASE Proceeds(a, pc)
  <2>1. /\ attempt' \in [Attempts -> AttemptType] /\ excuse' \in [Attempts -> ExcuseType]
        /\ \A b \in Attempts : b # a => attempt'[b] = attempt[b] /\ excuse'[b] = excuse[b]
        /\ excuse'[a] = excuse[a]
        /\ attempt'[a].pc = pc /\ attempt'[a].sent = attempt[a].sent
        /\ attempt'[a].verdict = attempt[a].verdict
    BY <1>1, ProceedsDoes DEF Active, BuildPcs
  <2>2. attempt[a].sent = {}
    BY DEF BuildInv, SentAtEnd, Active
  <2> QED
    BY <2>1, <2>2, AttemptMoves
<1>2. CASE Throws(a, {"fault"})
  <2>1. {"fault"} \in ExcuseType /\ {"fault"} # {}
    BY DEF ExcuseType
  <2> QED
    BY <1>2, <2>1, ThrowsKeeps
<1> QED
  BY <1>1, <1>2 DEF Answered

LEMMA RequestsKeep ==
  ASSUME TypeOK, BuildInv, RunInv, NEW a \in Attempts,
         \/ DeleteOldJob(a) \/ DeleteOldMap(a) \/ PostMap(a) \/ PostJob(a)
         \/ WaitForBuild(a) \/ GiveUp(a) \/ RequestThrows(a)
  PROVE  TypeOK' /\ BuildInv' /\ RunInv'
<1>1. /\ resource \in [Kinds -> States] /\ litter \subseteq Kinds /\ job \in JobStatuses
      /\ "job" \in Kinds /\ "map" \in Kinds /\ "pod" \in Kinds /\ "service" \in Kinds
  BY DEF TypeOK, States, JobStatuses, Kinds
<1>3. CASE DeleteOldJob(a)
  <2>1. /\ resource' \in [Kinds -> States] /\ resource'["job"] \in {"absent", "deleting"}
        /\ \A other \in Kinds \ {"job"} : resource'[other] = resource[other]
        /\ litter' = litter \ {"job"} /\ litter' \subseteq Kinds
    BY <1>1, <1>3, DeleteDoes DEF DeleteOldJob
  <2>2. resource'["job"] # "present" /\ resource'["pod"] = resource["pod"] /\ resource'["service"] = resource["service"]
    BY <1>1, <2>1
  <2> QED
    BY <1>1, <1>3, <2>1, <2>2, AnsweredKeeps DEF DeleteOldJob, At, Active
<1>4. CASE DeleteOldMap(a)
  <2>1. /\ resource' \in [Kinds -> States] /\ resource'["map"] = "absent"
        /\ \A other \in Kinds \ {"map"} : resource'[other] = resource[other]
        /\ litter' = litter \ {"map"} /\ litter' \subseteq Kinds
    BY <1>1, <1>4, DeleteDoes DEF DeleteOldMap
  <2>2. resource'["job"] = resource["job"] /\ resource'["pod"] = resource["pod"] /\ resource'["service"] = resource["service"]
    BY <1>1, <2>1
  <2>3. excuse[a] = {} => resource["job"] # "present"
    BY <1>4 DEF DeleteOldMap, At, BuildInv, UnhinderedFinds
  <2> QED
    BY <1>1, <1>4, <2>1, <2>2, <2>3, AnsweredKeeps DEF DeleteOldMap, At, Active
<1>5. CASE PostMap(a)
  <2>1. /\ attempt[a].pc = "post map"
        /\ UNCHANGED <<subject, job, good, image, runVars, litter>>
    BY <1>5 DEF PostMap, At
  <2>2. excuse[a] = {} => resource["job"] # "present" /\ resource["map"] = "absent"
    BY <2>1 DEF BuildInv, UnhinderedFinds
  <2>3. CASE Create("map") /\ Answered(a, "post job")
    <3>1. /\ resource' \in [Kinds -> States]
          /\ \A other \in Kinds \ {"map"} : resource'[other] = resource[other]
      BY <1>1, <2>3, CreateDoes
    <3>2. resource'["job"] = resource["job"] /\ resource'["pod"] = resource["pod"] /\ resource'["service"] = resource["service"]
      BY <1>1, <3>1
    <3> QED
      BY <1>1, <2>1, <2>2, <2>3, <3>1, <3>2, AnsweredKeeps DEF Active
  <2>4. CASE Exists("map") /\ Throws(a, {}) /\ UNCHANGED resource
    <3>1. excuse[a] # {} /\ {} \in ExcuseType
      BY <2>2, <2>4 DEF Exists, ExcuseType
    <3> QED
      BY <1>1, <2>1, <2>4, <3>1, ThrowsKeeps DEF Active
  <2> QED
    BY <1>5, <2>3, <2>4 DEF PostMap
<1>6. CASE PostJob(a)
  <2>1. /\ attempt[a].pc = "post job"
        /\ UNCHANGED <<subject, good, image, runVars, litter>>
    BY <1>6 DEF PostJob, At
  <2>2. excuse[a] = {} => resource["job"] # "present"
    BY <2>1 DEF BuildInv, UnhinderedFinds
  <2>3. CASE Create("job") /\ job' = "pending" /\ Answered(a, "wait")
    <3>1. /\ resource' \in [Kinds -> States] /\ resource'["job"] = "present"
          /\ \A other \in Kinds \ {"job"} : resource'[other] = resource[other]
      <4>1. Create("job")
        BY <2>3
      <4> QED
        BY <1>1, <4>1, CreateDoes
    <3>2. resource'["pod"] = resource["pod"] /\ resource'["service"] = resource["service"]
      BY <1>1, <3>1
    <3>3. /\ attempt[a].pc \in Active /\ attempt[a].sent = {}
          /\ UNCHANGED <<subject, good, image, runVars>>
          /\ job' = "pending" /\ job' \in JobStatuses /\ litter' \subseteq Kinds
          /\ "service" \in litter => "service" \in litter'
      BY <1>1, <2>1, <2>3 DEF Active, JobStatuses, BuildInv, SentAtEnd
    <3>4. CASE Proceeds(a, "wait")
      <4>1. /\ attempt' \in [Attempts -> AttemptType] /\ excuse' \in [Attempts -> ExcuseType]
            /\ \A b \in Attempts : b # a => attempt'[b] = attempt[b] /\ excuse'[b] = excuse[b]
            /\ excuse'[a] = excuse[a]
            /\ attempt'[a].pc = "wait" /\ attempt'[a].sent = attempt[a].sent
            /\ attempt'[a].verdict = attempt[a].verdict
        BY <3>4, ProceedsDoes DEF BuildPcs
      <4>2. "wait" \in Active
        BY DEF Active
      <4> QED
        BY <3>1, <3>2, <3>3, <4>1, <4>2, AttemptMoves
    <3>5. CASE Throws(a, {"fault"})
      <4>1. {"fault"} \in ExcuseType /\ {"fault"} # {}
        BY DEF ExcuseType
      <4> QED
        BY <3>1, <3>2, <3>3, <3>5, <4>1, ThrowsKeeps
    <3> QED
      BY <2>3, <3>4, <3>5 DEF Answered
  <2>4. CASE /\ Exists("job")
             /\ Throws(a, IF resource["job"] = "deleting" THEN {"slow"} ELSE {})
             /\ UNCHANGED <<resource, job>>
    <3> DEFINE why == IF resource["job"] = "deleting" THEN {"slow"} ELSE {}
    <3>1. why \in ExcuseType /\ (excuse[a] # {} \/ why # {})
      <4>1. CASE resource["job"] = "deleting"
        BY <4>1 DEF ExcuseType
      <4>2. CASE resource["job"] # "deleting"
        <5>1. resource["job"] = "present"
          BY <1>1, <2>4, <4>2 DEF Exists, States
        <5>2. why = {}
          BY <4>2
        <5> QED
          BY <2>2, <5>1, <5>2 DEF ExcuseType
      <4> QED
        BY <4>1, <4>2
    <3>2. Throws(a, why)
      BY <2>4
    <3> HIDE DEF why
    <3> QED
      BY <1>1, <2>1, <2>4, <3>1, <3>2, ThrowsKeeps DEF Active
  <2> QED
    BY <1>6, <2>3, <2>4 DEF PostJob
<1>7. CASE WaitForBuild(a)
  <2>1. /\ attempt[a].pc = "wait" /\ UNCHANGED <<subject, resource, job, good, image, excuse, runVars, litter>>
    BY <1>7 DEF WaitForBuild, At
  <2>2. PICK verdict \in {"succeeded", "failed", "thrown"} :
          /\ Finally(a, verdict)
          /\ \/ verdict = job
             \/ verdict = "thrown" /\ ~Exists("job")
    BY <1>7 DEF WaitForBuild
  <2>3. /\ attempt' \in [Attempts -> AttemptType]
        /\ \A b \in Attempts : b # a => attempt'[b] = attempt[b]
        /\ attempt'[a].pc = "finally" /\ attempt'[a].verdict = verdict
        /\ attempt'[a].sent = {"map", "job"}
    BY <2>2, FinallyDoes DEF Verdicts
  <2>4. excuse \in [Attempts -> ExcuseType]
    BY DEF TypeOK, ExcuseType
  <2>5. NoFalseVerdict(a)' /\ BuildsOverLeftovers(a)'
    <3>1. verdict = "succeeded" => good /\ image
      BY <2>2 DEF BuildInv, JobTells
    <3>2. verdict = "failed" /\ good => "cut off" \in excuse[a]
      BY <2>1, <2>2 DEF BuildInv, JobTells
    <3>3. verdict = "thrown" => excuse[a] # {}
      <4>1. CASE Exists("job")
        BY <2>2, <4>1 DEF TypeOK
      <4>2. CASE ~Exists("job")
        BY <2>1, <4>2 DEF BuildInv, UnhinderedFinds, Exists
      <4> QED
        BY <4>1, <4>2
    <3>4. excuse[a] = {} => verdict = IF good THEN "succeeded" ELSE "failed"
      BY <2>2, <3>1, <3>2, <3>3
    <3> QED
      BY <2>1, <2>3, <3>1, <3>2, <3>4 DEF NoFalseVerdict, BuildsOverLeftovers
  <2> QED
    BY <1>1, <2>1, <2>2, <2>3, <2>4, <2>5, AttemptMoves DEF Active
<1>8. CASE GiveUp(a)
  <2>1. {"cut off"} \in ExcuseType
    BY DEF ExcuseType
  <2> QED
    BY <1>1, <1>8, <2>1, ThrowsKeeps DEF GiveUp, At, Active
<1>9. CASE RequestThrows(a)
  <2>1. {"fault"} \in ExcuseType
    BY DEF ExcuseType
  <2> QED
    BY <1>1, <1>9, <2>1, ThrowsKeeps DEF RequestThrows, Active
<1> QED
  BY <1>3, <1>4, <1>5, <1>6, <1>7, <1>8, <1>9

-----------------------------------------------------------------------------
(***************************************************************************)
(* An attempt begins, cleans up, or dies with its worker.                  *)
(***************************************************************************)
LEMMA BeginKeeps ==
  ASSUME TypeOK, BuildInv, RunInv, NEW a \in Attempts, Begin(a)
  PROVE  TypeOK' /\ BuildInv' /\ RunInv'
<1> DEFINE others == {b \in Attempts \ {a} : Live(b)}
<1>1. /\ attempt[a].pc = "new"
      /\ attempt' = [attempt EXCEPT ![a].pc = "delete job"]
      /\ excuse' = [b \in Attempts |-> IF others # {} /\ b \in others \cup {a}
                                       THEN excuse[b] \cup {"overlap"} ELSE excuse[b]]
      /\ UNCHANGED <<subject, resource, job, good, image, runVars, litter>>
  BY DEF Begin, At
<1>2. /\ attempt \in [Attempts -> AttemptType] /\ excuse \in [Attempts -> ExcuseType]
      /\ attempt' \in [Attempts -> AttemptType]
      /\ \A b \in Attempts : b # a => attempt'[b] = attempt[b]
      /\ attempt'[a].pc = "delete job" /\ attempt'[a].sent = attempt[a].sent
      /\ attempt'[a].verdict = attempt[a].verdict
  <2>1. attempt \in [Attempts -> AttemptType] /\ excuse \in [Attempts -> ExcuseType]
    BY DEF TypeOK, AttemptType, ExcuseType
  <2>2. attempt' = [attempt EXCEPT ![a].pc = "delete job"] /\ "delete job" \in BuildPcs
    BY <1>1 DEF BuildPcs
  <2> HIDE DEF others
  <2> QED
    BY ONLY <2>1, <2>2, a \in Attempts DEF AttemptType
<1>3. attempt[a].sent = {}
  BY <1>1 DEF BuildInv, SentAtEnd
<1>4. /\ excuse' \in [Attempts -> ExcuseType]
      /\ \A b \in Attempts : excuse[b] \subseteq excuse'[b]
      /\ \A b \in others : "overlap" \in excuse'[b] /\ "overlap" \in excuse'[a]
  <2>1. \A b \in Attempts : excuse[b] \cup {"overlap"} \in ExcuseType
    BY <1>2 DEF ExcuseType
  <2>2. others \subseteq Attempts
    OBVIOUS
  <2> HIDE DEF others
  <2>3. \A b \in Attempts : excuse'[b] = IF others # {} /\ b \in others \cup {a}
                                           THEN excuse[b] \cup {"overlap"} ELSE excuse[b]
    BY <1>1
  <2>4. \A b \in Attempts : excuse'[b] \in {excuse[b], excuse[b] \cup {"overlap"}}
    BY <2>3
  <2>5. excuse' \in [Attempts -> ExcuseType]
    BY <1>1, <1>2, <2>1
  <2>6. \A b \in others : "overlap" \in excuse'[b] /\ "overlap" \in excuse'[a]
    BY <2>2, <2>3
  <2> QED
    BY <2>4, <2>5, <2>6
<1>5. TypeOK'
  <2>1. \A b \in Attempts : attempt'[b].pc \in {"finally", "done"} => attempt'[b].verdict # "none"
    BY <1>2 DEF TypeOK
  <2> QED
    BY <1>1, <1>2, <1>4, <2>1 DEF TypeOK, runVars, AttemptType, ExcuseType
<1>6. RunInv'
  BY <1>1, RunUntouched
<1>7. SentAtEnd' /\ JobTells'
  <2>1. \A b \in Attempts : attempt'[b].sent # {} => attempt'[b].pc \in {"finally", "done"}
    BY <1>2, <1>3 DEF BuildInv, SentAtEnd
  <2>2. \A b \in Attempts : attempt'[b].pc = "wait" => attempt[b].pc = "wait"
    BY <1>2
  <2> QED
    BY <1>1, <1>4, <2>1, <2>2 DEF BuildInv, SentAtEnd, JobTells
<1>8. OverlapsAreExcused'
  <2>1. \A b \in Attempts : b # a /\ Live(b)' => b \in others
    BY <1>2 DEF Live
  <2> HIDE DEF others
  <2>2. \A b \in others : b \in Attempts /\ Live(b)
    BY DEF others
  <2> QED
    BY <1>4, <2>1, <2>2 DEF BuildInv, OverlapsAreExcused
<1>9. UnhinderedFinds'
  <2>1. \A b \in Attempts : excuse'[b] = {} => excuse[b] = {}
    BY <1>4
  <2>2. \A b \in Attempts : attempt'[b].pc \in {"delete map", "post map", "post job", "wait"} =>
                              attempt'[b].pc = attempt[b].pc
    BY <1>2
  <2> QED
    BY <1>1, <2>1, <2>2 DEF BuildInv, UnhinderedFinds
<1>10. BuildIsHonest'
  <2>1. \A b \in Attempts : attempt'[b].verdict = attempt[b].verdict
    BY <1>2
  <2>2. \A b \in Attempts : excuse'[b] = {} => excuse[b] = {}
    BY <1>4
  <2> QED
    BY <1>1, <1>4, <2>1, <2>2 DEF BuildInv, BuildIsHonest, NoFalseVerdict, BuildsOverLeftovers
<1>11. BuildsClean'
  <2>1. \A kind \in {"job", "map"} : WillDelete(a, kind)'
    BY <1>2 DEF WillDelete, Active
  <2> QED
    BY <2>1 DEF BuildsClean
<1> QED
  BY <1>5, <1>6, <1>7, <1>8, <1>9, <1>10, <1>11 DEF BuildInv

\* An attempt that is at its end, or dies: what it leaves is either deleted or known.
LEMMA AttemptEnds ==
  ASSUME TypeOK, BuildInv, RunInv, NEW a \in Attempts, Live(a),
         UNCHANGED <<subject, job, good, image, excuse, runVars>>,
         resource' \in [Kinds -> States], litter' \subseteq Kinds,
         resource'["pod"] = resource["pod"], resource'["service"] = resource["service"],
         "service" \in litter => "service" \in litter',
         attempt' \in [Attempts -> AttemptType],
         \A b \in Attempts : b # a => attempt'[b] = attempt[b],
         attempt'[a].verdict = attempt[a].verdict,
         attempt'[a].pc \in {"finally", "done", "dead"},
         attempt'[a].pc \in {"finally", "done"} => attempt[a].pc \in {"finally", "done"},
         attempt'[a].sent # {} => attempt'[a].pc \in {"finally", "done"},
         \A kind \in {"job", "map"} : resource'[kind] = "present" =>
           \/ kind \in litter'
           \/ /\ resource[kind] = "present" /\ (kind \in litter => kind \in litter')
              /\ WillDelete(a, kind) => WillDelete(a, kind)'
  PROVE  TypeOK' /\ BuildInv' /\ RunInv'
<1>1. TypeOK'
  <2>1. \A b \in Attempts : attempt'[b].pc \in {"finally", "done"} => attempt'[b].verdict # "none"
    BY DEF TypeOK
  <2> QED
    BY <2>1 DEF TypeOK, runVars, States, AttemptType, ExcuseType
<1>2. RunInv'
  BY RunUntouched
<1>3. SentAtEnd' /\ JobTells'
  <2>1. \A b \in Attempts : attempt'[b].sent # {} => attempt'[b].pc \in {"finally", "done"}
    BY DEF BuildInv, SentAtEnd
  <2>2. \A b \in Attempts : attempt'[b].pc = "wait" => attempt[b].pc = "wait"
    OBVIOUS
  <2> QED
    BY <2>1, <2>2 DEF BuildInv, SentAtEnd, JobTells
<1>4. OverlapsAreExcused'
  <2>1. \A b \in Attempts : Live(b)' => Live(b)
    BY DEF Live
  <2> QED
    BY <2>1 DEF BuildInv, OverlapsAreExcused
<1>5. UnhinderedFinds'
  <2> SUFFICES ASSUME NEW b \in Attempts, b # a, excuse[b] = {}
               PROVE  attempt[b].pc \notin {"delete map", "post map", "post job", "wait"}
    BY DEF UnhinderedFinds
  <2> QED
    BY OthersAreIdle
<1>6. BuildIsHonest'
  <2>1. \A b \in Attempts : attempt'[b].verdict = attempt[b].verdict
    OBVIOUS
  <2> QED
    BY <2>1 DEF BuildInv, BuildIsHonest, NoFalseVerdict, BuildsOverLeftovers
<1>7. BuildsClean'
  <2> SUFFICES ASSUME NEW kind \in {"job", "map"}, resource'[kind] = "present", kind \notin litter'
               PROVE  \E b \in Attempts : WillDelete(b, kind)'
    BY DEF BuildsClean
  <2>1. PICK b \in Attempts : WillDelete(b, kind)
    BY DEF BuildInv, BuildsClean
  <2>2. CASE b = a
    BY <2>1, <2>2
  <2>3. CASE b # a
    BY <2>1, <2>3 DEF WillDelete
  <2> QED
    BY <2>2, <2>3
<1> QED
  BY <1>1, <1>2, <1>3, <1>4, <1>5, <1>6, <1>7 DEF BuildInv

LEMMA CleanKeeps ==
  ASSUME TypeOK, BuildInv, RunInv, NEW a \in Attempts, NEW kind \in Kinds, Clean(a, kind)
  PROVE  TypeOK' /\ BuildInv' /\ RunInv'
<1>1. PICK threw \in BOOLEAN :
        /\ attempt' = [attempt EXCEPT ![a].sent = @ \ {kind},
                                      ![a].pc = IF threw \/ attempt[a].sent = {kind} THEN "done" ELSE @]
        /\ \/ Delete(kind)
           \/ threw /\ litter' = litter \cup {kind} /\ UNCHANGED resource
  BY DEF Clean
<1>2. /\ kind \in attempt[a].sent
      /\ UNCHANGED <<subject, job, good, image, excuse, runVars>>
      /\ attempt \in [Attempts -> AttemptType] /\ attempt[a] \in AttemptType
      /\ resource \in [Kinds -> States] /\ litter \subseteq Kinds
  BY DEF Clean, TypeOK, AttemptType, States
<1>3. kind \in {"map", "job"} /\ attempt[a].pc \in {"finally", "done"} /\ Live(a)
  BY <1>2 DEF AttemptType, BuildInv, SentAtEnd, Live
<1>4. /\ attempt' \in [Attempts -> AttemptType]
      /\ \A b \in Attempts : b # a => attempt'[b] = attempt[b]
      /\ attempt'[a].verdict = attempt[a].verdict
      /\ attempt'[a].sent = attempt[a].sent \ {kind}
      /\ attempt'[a].pc \in {"finally", "done"}
  <2> DEFINE pc == IF threw \/ attempt[a].sent = {kind} THEN "done" ELSE attempt[a].pc
             sent == attempt[a].sent \ {kind}
  <2>1. pc \in {"finally", "done"} /\ pc \in BuildPcs /\ sent \in SUBSET {"map", "job"}
    BY <1>2, <1>3 DEF AttemptType, BuildPcs, Ended
  <2>2. attempt' = [attempt EXCEPT ![a].sent = sent, ![a].pc = pc]
    BY <1>1, <1>2
  <2> HIDE DEF pc, sent
  <2>3. /\ attempt' \in [Attempts -> AttemptType]
        /\ \A b \in Attempts : b # a => attempt'[b] = attempt[b]
        /\ attempt'[a].verdict = attempt[a].verdict
        /\ attempt'[a].sent = sent /\ attempt'[a].pc = pc
    BY <1>2, <2>1, <2>2 DEF AttemptType
  <2> QED
    BY <2>1, <2>3 DEF sent
<1>5. /\ resource' \in [Kinds -> States] /\ litter' \subseteq Kinds
      /\ \A other \in Kinds \ {kind} : resource'[other] = resource[other] /\ (other \in litter => other \in litter')
      /\ resource'[kind] # "present" \/ kind \in litter'
  <2>1. CASE Delete(kind)
    <3>1. /\ resource' \in [Kinds -> States]
          /\ resource'[kind] \in {"absent", "deleting"}
          /\ \A other \in Kinds \ {kind} : resource'[other] = resource[other]
          /\ litter' = litter \ {kind} /\ litter' \subseteq Kinds
      BY <2>1, DeleteDoes
    <3> QED
      BY <3>1
  <2>2. CASE litter' = litter \cup {kind} /\ UNCHANGED resource
    BY <1>2, <2>2
  <2> QED
    BY <1>1, <2>1, <2>2
<1>6. /\ resource'["pod"] = resource["pod"] /\ resource'["service"] = resource["service"]
      /\ "service" \in litter => "service" \in litter'
  BY <1>3, <1>5 DEF Kinds
<1>7. \A other \in {"job", "map"} : resource'[other] = "present" =>
        \/ other \in litter'
        \/ /\ resource[other] = "present" /\ (other \in litter => other \in litter')
           /\ WillDelete(a, other) => WillDelete(a, other)'
  <2> SUFFICES ASSUME NEW other \in {"job", "map"}, other # kind
               PROVE  /\ resource'[other] = resource[other] /\ (other \in litter => other \in litter')
                      /\ WillDelete(a, other) => WillDelete(a, other)'
    BY <1>5
  <2>1. other \in Kinds \ {kind}
    BY DEF Kinds
  <2> QED
    BY <1>3, <1>4, <1>5, <2>1 DEF WillDelete, Active
<1> QED
  BY <1>2, <1>3, <1>4, <1>5, <1>6, <1>7, AttemptEnds

LEMMA DieKeeps ==
  ASSUME TypeOK, BuildInv, RunInv, NEW a \in Attempts, Die(a)
  PROVE  TypeOK' /\ BuildInv' /\ RunInv'
<1> DEFINE pc == IF attempt[a].pc = "done" THEN attempt[a].pc ELSE "dead"
<1>1. /\ Live(a)
      /\ attempt' = [attempt EXCEPT ![a].pc = pc, ![a].sent = {}]
      /\ litter' = litter \cup {kind \in {"job", "map"} : Exists(kind)}
      /\ UNCHANGED <<subject, resource, job, good, image, excuse, runVars>>
      /\ attempt \in [Attempts -> AttemptType]
      /\ resource \in [Kinds -> States] /\ litter \subseteq Kinds
  BY DEF Die, TypeOK, AttemptType, States
<1>2. pc \in {"done", "dead"} /\ pc \in BuildPcs /\ (pc = "done" => attempt[a].pc = "done")
  BY DEF BuildPcs, Ended
<1> HIDE DEF pc
<1>3. /\ attempt' \in [Attempts -> AttemptType]
      /\ \A b \in Attempts : b # a => attempt'[b] = attempt[b]
      /\ attempt'[a].verdict = attempt[a].verdict /\ attempt'[a].sent = {} /\ attempt'[a].pc = pc
  BY <1>1, <1>2 DEF AttemptType
<1>4. litter' \subseteq Kinds /\ litter \subseteq litter'
  BY <1>1 DEF Kinds
<1>5. \A kind \in {"job", "map"} : resource'[kind] = "present" => kind \in litter'
  BY <1>1 DEF Exists
<1> QED
  BY <1>1, <1>2, <1>3, <1>4, <1>5, AttemptEnds

-----------------------------------------------------------------------------
(***************************************************************************)
(* The cluster.                                                            *)
(***************************************************************************)
LEMMA DeletionEndsKeeps ==
  ASSUME TypeOK, BuildInv, RunInv, NEW kind \in {"job", "pod"}, DeletionEnds(kind)
  PROVE  TypeOK' /\ BuildInv' /\ RunInv'
<1>1. /\ resource[kind] = "deleting" /\ resource' = [resource EXCEPT ![kind] = "absent"]
      /\ UNCHANGED <<subject, buildVars, runVars, litter>>
      /\ resource \in [Kinds -> States] /\ kind \in Kinds
  BY DEF DeletionEnds, TypeOK, States, Kinds
<1>2. /\ resource' \in [Kinds -> States] /\ resource'[kind] = "absent"
      /\ \A other \in Kinds : resource'[other] = resource[other] \/ other = kind
      /\ \A other \in Kinds : resource'[other] = "present" <=> resource[other] = "present"
      /\ \A other \in Kinds : resource[other] = "absent" => resource'[other] = "absent"
  BY <1>1 DEF States
<1>3. TypeOK'
  BY <1>1, <1>2 DEF TypeOK, buildVars, runVars, States
<1>4. {"job", "map", "pod", "service"} \subseteq Kinds
  BY DEF Kinds
<1>5. SentAtEnd' /\ JobTells' /\ OverlapsAreExcused'
  BY <1>1 DEF BuildInv, buildVars, SentAtEnd, JobTells, OverlapsAreExcused, Live
<1>6. UnhinderedFinds'
  BY <1>1, <1>2, <1>4 DEF BuildInv, buildVars, UnhinderedFinds
<1>7. BuildIsHonest'
  BY <1>1 DEF BuildInv, buildVars, BuildIsHonest, NoFalseVerdict, BuildsOverLeftovers
<1>8. BuildsClean'
  BY <1>1, <1>2, <1>4 DEF BuildInv, buildVars, BuildsClean, WillDelete
<1>9. RunInv'
  BY <1>1, <1>2, <1>4 DEF RunInv, runVars, StopsComeLate, PodIsGone, ServiceIsClaimed
<1> QED
  BY <1>3, <1>5, <1>6, <1>7, <1>8, <1>9 DEF BuildInv

\* The Job goes its way: of its status, only a failure in spite of the source needs an
\* excuse.
LEMMA JobGoes ==
  ASSUME TypeOK, BuildInv, RunInv, JobBegins \/ JobEnds \/ JobFails
  PROVE  TypeOK' /\ BuildInv' /\ RunInv'
<1>1. /\ UNCHANGED <<subject, resource, good, attempt, runVars, litter>>
      /\ job' \in JobStatuses /\ image' \in BOOLEAN /\ (image => image')
  BY DEF JobBegins, JobEnds, JobFails, TypeOK, JobStatuses
<1>2. /\ excuse' \in [Attempts -> ExcuseType]
      /\ \A a \in Attempts : excuse[a] \subseteq excuse'[a]
  <2>1. excuse \in [Attempts -> ExcuseType]
    BY DEF TypeOK, ExcuseType
  <2>2. CASE JobBegins \/ JobEnds
    BY <2>1, <2>2 DEF JobBegins, JobEnds
  <2>3. CASE JobFails
    <3>1. excuse' = [a \in Attempts |->
                       IF attempt[a].pc = "wait" THEN excuse[a] \cup {"cut off"} ELSE excuse[a]]
      BY <2>3 DEF JobFails
    <3>2. \A a \in Attempts : excuse[a] \cup {"cut off"} \in ExcuseType
      BY <2>1 DEF ExcuseType
    <3> QED
      BY <2>1, <3>1, <3>2
  <2> QED
    BY <2>2, <2>3
<1>3. TypeOK'
  BY <1>1, <1>2 DEF TypeOK, runVars, JobStatuses, ExcuseType
<1>4. JobTells'
  <2>1. CASE JobBegins
    BY <2>1 DEF JobBegins, JobTells
  <2>2. CASE JobEnds
    BY <2>2 DEF JobEnds, JobTells
  <2>3. CASE JobFails
    <3>1. /\ job' = "failed"
          /\ excuse' = [a \in Attempts |->
                          IF attempt[a].pc = "wait" THEN excuse[a] \cup {"cut off"} ELSE excuse[a]]
      BY <2>3 DEF JobFails
    <3>2. \A a \in Attempts : attempt[a].pc = "wait" => "cut off" \in excuse'[a]
      BY <3>1
    <3> QED
      BY <1>1, <3>1, <3>2 DEF JobTells
  <2> QED
    BY <2>1, <2>2, <2>3
<1>5. SentAtEnd' /\ OverlapsAreExcused'
  BY <1>1, <1>2 DEF BuildInv, SentAtEnd, OverlapsAreExcused, Live
<1>6. UnhinderedFinds'
  <2>1. \A a \in Attempts : excuse'[a] = {} => excuse[a] = {}
    BY <1>2
  <2> QED
    BY <1>1, <2>1 DEF BuildInv, UnhinderedFinds
<1>7. BuildIsHonest'
  <2>1. \A a \in Attempts : excuse'[a] = {} => excuse[a] = {}
    BY <1>2
  <2> QED
    BY <1>1, <1>2, <2>1 DEF BuildInv, BuildIsHonest, NoFalseVerdict, BuildsOverLeftovers
<1>8. BuildsClean'
  BY <1>1 DEF BuildInv, BuildsClean, WillDelete
<1>9. RunInv'
  BY <1>1, RunUntouched
<1> QED
  BY <1>3, <1>4, <1>5, <1>6, <1>7, <1>8, <1>9 DEF BuildInv

LEMMA JobExpiresKeeps ==
  ASSUME TypeOK, BuildInv, RunInv, JobExpires
  PROVE  TypeOK' /\ BuildInv' /\ RunInv'
<1>1. /\ resource' = [resource EXCEPT !["job"] = "absent"]
      /\ \A a \in Attempts : attempt[a].pc # "wait"
      /\ UNCHANGED <<subject, buildVars, runVars, litter>>
      /\ resource \in [Kinds -> States] /\ {"job", "map", "pod", "service"} \subseteq Kinds
  BY DEF JobExpires, TypeOK, States, Kinds
<1>2. /\ resource' \in [Kinds -> States] /\ resource'["job"] = "absent"
      /\ resource'["map"] = resource["map"] /\ resource'["pod"] = resource["pod"]
      /\ resource'["service"] = resource["service"]
  BY <1>1 DEF States
<1>3. TypeOK'
  BY <1>1, <1>2 DEF TypeOK, buildVars, runVars, States
<1>4. SentAtEnd' /\ JobTells' /\ OverlapsAreExcused'
  BY <1>1 DEF BuildInv, buildVars, SentAtEnd, JobTells, OverlapsAreExcused, Live
<1>5. UnhinderedFinds'
  BY <1>1, <1>2 DEF BuildInv, buildVars, UnhinderedFinds
<1>6. BuildIsHonest'
  BY <1>1 DEF BuildInv, buildVars, BuildIsHonest, NoFalseVerdict, BuildsOverLeftovers
<1>7. BuildsClean'
  BY <1>1, <1>2 DEF BuildInv, buildVars, BuildsClean, WillDelete
<1>8. RunInv'
  BY <1>1, <1>2, RunUntouched
<1> QED
  BY <1>3, <1>4, <1>5, <1>6, <1>7, <1>8 DEF BuildInv

-----------------------------------------------------------------------------
(***************************************************************************)
(* The run.                                                                *)
(***************************************************************************)
\* A step of a run keeps what is about builds, and the types if its own are right.
LEMMA RunSteps ==
  ASSUME TypeOK, BuildInv, UNCHANGED <<subject, buildVars>>,
         resource' \in [Kinds -> States], litter' \subseteq Kinds,
         resource'["job"] = resource["job"], resource'["map"] = resource["map"],
         \A kind \in {"job", "map"} : kind \in litter => kind \in litter',
         starter' \in {"new", "posting", "post pod", "undo", "started", "threw"},
         stop' \in [Stops -> StopType], stopped' \in BOOLEAN
  PROVE  TypeOK' /\ BuildInv'
<1>1. TypeOK'
  BY DEF TypeOK, buildVars, States, StopType
<1> QED
  BY <1>1, BuildUntouched

LEMMA StartRunKeeps ==
  ASSUME TypeOK, BuildInv, RunInv,
         StartRun \/ PostService \/ PostPod \/ UndoService \/ StarterDies
  PROVE  TypeOK' /\ BuildInv' /\ RunInv'
<1>1. /\ resource \in [Kinds -> States] /\ litter \subseteq Kinds
      /\ {"job", "map", "pod", "service"} \subseteq Kinds
      /\ stop \in [Stops -> StopType] /\ stopped \in BOOLEAN
  BY DEF TypeOK, States, StopType, Kinds
<1>2. starter \in {"new", "posting", "post pod", "undo"} /\ UNCHANGED <<subject, buildVars, stop, stopped>>
  BY DEF StartRun, PostService, PostPod, UndoService, StarterDies, StarterAt
<1>3. ~stopped /\ \A s \in Stops : stop[s].pc = "new" /\ stop[s].sent = {}
  BY <1>2 DEF RunInv, StopsComeLate
<1>4. ASSUME resource' \in [Kinds -> States], litter' \subseteq Kinds,
             resource'["job"] = resource["job"], resource'["map"] = resource["map"],
             \A kind \in {"job", "map"} : kind \in litter => kind \in litter',
             starter' \in {"posting", "post pod", "undo", "started", "threw"},
             starter' = "posting" => resource'["service"] = "absent",
             starter' \in {"started", "threw"} /\ resource'["service"] = "present" =>
               "service" \in litter' \/ resource'["pod"] = "present"
      PROVE  TypeOK' /\ BuildInv' /\ RunInv'
  <2>1. TypeOK' /\ BuildInv'
    BY <1>1, <1>2, <1>4, RunSteps
  <2>2. StopsComeLate' /\ PodIsGone'
    BY <1>2, <1>3, <1>4 DEF StopsComeLate, PodIsGone
  <2>3. ServiceIsClaimed'
    BY <1>2, <1>3, <1>4 DEF ServiceIsClaimed
  <2> QED
    BY <2>1, <2>2, <2>3 DEF RunInv
<1>5. CASE StartRun
  <2>1. resource["service"] = "absent" /\ UNCHANGED <<resource, litter>> /\ starter' \in {"posting", "threw"}
    BY <1>5 DEF StartRun, StarterAt, RunInv, StopsComeLate
  <2> QED
    BY <1>1, <1>4, <2>1
<1>6. CASE PostService
  <2>1. resource["service"] = "absent"
    BY <1>6 DEF PostService, StarterAt, RunInv, StopsComeLate
  <2>2. CASE /\ Create("service")
             /\ \/ starter' = "post pod" /\ UNCHANGED litter
                \/ starter' = "threw" /\ litter' = litter \cup {"service"}
    <3>1. /\ resource' \in [Kinds -> States]
          /\ \A other \in Kinds \ {"service"} : resource'[other] = resource[other]
      <4>1. Create("service")
        BY <2>2
      <4> QED
        BY <1>1, <4>1, CreateDoes
    <3>2. resource'["job"] = resource["job"] /\ resource'["map"] = resource["map"]
      BY <1>1, <3>1
    <3> QED
      BY <1>1, <1>4, <2>2, <3>1, <3>2
  <2>3. CASE starter' = "threw" /\ UNCHANGED <<resource, litter>>
    BY <1>1, <1>4, <2>1, <2>3
  <2> QED
    BY <1>6, <2>2, <2>3 DEF PostService
<1>7. CASE PostPod
  <2>1. UNCHANGED litter
    BY <1>7 DEF PostPod
  <2>2. CASE Create("pod") /\ starter' \in {"started", "undo"}
    <3>1. /\ resource' \in [Kinds -> States] /\ resource'["pod"] = "present"
          /\ \A other \in Kinds \ {"pod"} : resource'[other] = resource[other]
      <4>1. Create("pod")
        BY <2>2
      <4> QED
        BY <1>1, <4>1, CreateDoes
    <3>2. resource'["job"] = resource["job"] /\ resource'["map"] = resource["map"]
      BY <1>1, <3>1
    <3> QED
      BY <1>1, <1>4, <2>1, <2>2, <3>1, <3>2
  <2>3. CASE starter' = "undo" /\ UNCHANGED resource
    BY <1>1, <1>4, <2>1, <2>3
  <2> QED
    BY <1>7, <2>2, <2>3 DEF PostPod
<1>8. CASE UndoService
  <2>1. starter' = "threw"
    BY <1>8 DEF UndoService
  <2>2. CASE Delete("service")
    <3>1. /\ resource' \in [Kinds -> States] /\ resource'["service"] = "absent"
          /\ \A other \in Kinds \ {"service"} : resource'[other] = resource[other]
          /\ litter' = litter \ {"service"} /\ litter' \subseteq Kinds
      BY <1>1, <2>2, DeleteDoes
    <3>2. resource'["job"] = resource["job"] /\ resource'["map"] = resource["map"]
      BY <1>1, <3>1
    <3> QED
      BY <1>1, <1>4, <2>1, <3>1, <3>2
  <2>3. CASE litter' = litter \cup {"service"} /\ UNCHANGED resource
    BY <1>1, <1>4, <2>1, <2>3
  <2> QED
    BY <1>8, <2>2, <2>3 DEF UndoService
<1>9. CASE StarterDies
  <2>1. /\ starter' = "threw" /\ UNCHANGED resource
        /\ litter' = litter \cup {kind \in {"service"} : Exists(kind)}
    BY <1>9 DEF StarterDies
  <2>2. /\ litter \subseteq litter' /\ litter' \subseteq Kinds
        /\ resource["service"] = "present" => "service" \in litter'
    BY <1>1, <2>1 DEF Exists
  <2> QED
    BY <1>1, <1>4, <2>1, <2>2
<1> QED
  BY <1>5, <1>6, <1>7, <1>8, <1>9

LEMMA StopKeeps ==
  ASSUME TypeOK, BuildInv, RunInv, NEW s \in Stops, Stop(s)
  PROVE  TypeOK' /\ BuildInv' /\ RunInv'
<1>1. /\ starter \in {"started", "threw"} /\ stop[s].pc = "new"
      /\ UNCHANGED <<subject, resource, buildVars, starter, litter>>
      /\ \/ /\ stop' = [stop EXCEPT ![s] = [pc |-> "stopping", sent |-> {"pod", "service"}]]
            /\ UNCHANGED stopped
         \/ /\ stop' = [stop EXCEPT ![s].pc = "done"]
            /\ \/ resource["pod"] = "absent" /\ stopped' = TRUE
               \/ UNCHANGED stopped
  BY DEF Stop, StopAt, Exists
<1>2. /\ stop \in [Stops -> StopType] /\ resource \in [Kinds -> States] /\ litter \subseteq Kinds
      /\ stopped \in BOOLEAN /\ stopped' \in BOOLEAN
  BY <1>1 DEF TypeOK, StopType, States
<1>3. stop[s].sent = {}
  BY <1>1 DEF RunInv, StopsComeLate
<1>4. /\ stop' \in [Stops -> StopType]
      /\ \A r \in Stops : r # s => stop'[r] = stop[r]
      /\ \/ stop'[s].pc = "stopping" /\ stop'[s].sent = {"pod", "service"}
         \/ stop'[s].pc = "done" /\ stop'[s].sent = {}
  <2>1. [pc |-> "stopping", sent |-> {"pod", "service"}] \in StopType
    BY DEF StopType
  <2>2. CASE stop' = [stop EXCEPT ![s] = [pc |-> "stopping", sent |-> {"pod", "service"}]]
    BY <1>2, <2>1, <2>2
  <2>3. CASE stop' = [stop EXCEPT ![s].pc = "done"]
    BY <1>2, <1>3, <2>3 DEF StopType
  <2> QED
    BY <1>1, <2>2, <2>3
<1>5. TypeOK' /\ BuildInv'
  <2>1. starter' \in {"new", "posting", "post pod", "undo", "started", "threw"}
    BY <1>1
  <2>2. /\ UNCHANGED <<subject, buildVars>> /\ resource' \in [Kinds -> States] /\ litter' \subseteq Kinds
        /\ resource'["job"] = resource["job"] /\ resource'["map"] = resource["map"]
        /\ \A kind \in {"job", "map"} : kind \in litter => kind \in litter'
    BY <1>1, <1>2
  <2> QED
    BY <1>2, <1>4, <2>1, <2>2, RunSteps
<1>6. StopsComeLate'
  BY <1>1, <1>4 DEF RunInv, StopsComeLate
<1>7. PodIsGone'
  BY <1>1, <1>4 DEF RunInv, PodIsGone
<1>8. ServiceIsClaimed'
  BY <1>1, <1>3, <1>4 DEF RunInv, ServiceIsClaimed
<1> QED
  BY <1>5, <1>6, <1>7, <1>8 DEF RunInv

LEMMA StopDeletesKeeps ==
  ASSUME TypeOK, BuildInv, RunInv, NEW s \in Stops, NEW kind \in Kinds, StopDeletes(s, kind)
  PROVE  TypeOK' /\ BuildInv' /\ RunInv'
<1>1. PICK threw \in BOOLEAN :
        /\ stop' = [stop EXCEPT ![s].sent = @ \ {kind},
                                ![s].pc = IF threw \/ stop[s].sent = {kind} THEN "done" ELSE @]
        /\ stopped' = (stopped \/ (StopAt(s, "stopping") /\ ~threw /\ stop[s].sent = {kind}))
        /\ \/ Delete(kind)
           \/ threw /\ litter' = litter \cup ({kind} \ {"pod"}) /\ UNCHANGED resource
  BY DEF StopDeletes
<1>2. /\ kind \in stop[s].sent /\ UNCHANGED <<subject, buildVars, starter>>
      /\ stop \in [Stops -> StopType] /\ resource \in [Kinds -> States] /\ litter \subseteq Kinds
      /\ stopped \in BOOLEAN
      /\ starter \in {"new", "posting", "post pod", "undo", "started", "threw"}
  BY DEF StopDeletes, TypeOK, StopType, States
<1>3. /\ kind \in {"pod", "service"} /\ stop[s].pc # "new" /\ starter \in {"started", "threw"}
      /\ stop[s].pc \in {"stopping", "done"}
  BY <1>2 DEF StopType, RunInv, StopsComeLate
<1>4. /\ stop' \in [Stops -> StopType]
      /\ \A r \in Stops : r # s => stop'[r] = stop[r]
      /\ stop'[s].sent = stop[s].sent \ {kind}
      /\ stop'[s].pc \in {"stopping", "done"}
      /\ stop'[s].pc = "stopping" => stop[s].pc = "stopping" /\ ~threw
  <2> DEFINE pc == IF threw \/ stop[s].sent = {kind} THEN "done" ELSE stop[s].pc
             sent == stop[s].sent \ {kind}
  <2>1. /\ pc \in {"stopping", "done"} /\ sent \in SUBSET {"pod", "service"}
        /\ pc = "stopping" => stop[s].pc = "stopping" /\ ~threw
    BY <1>2, <1>3 DEF StopType
  <2>2. stop' = [stop EXCEPT ![s].sent = sent, ![s].pc = pc]
    BY <1>1, <1>2
  <2> HIDE DEF pc, sent
  <2>3. /\ stop' \in [Stops -> StopType]
        /\ \A r \in Stops : r # s => stop'[r] = stop[r]
        /\ stop'[s].sent = sent /\ stop'[s].pc = pc
    BY <1>2, <2>1, <2>2 DEF StopType
  <2> QED
    BY <2>1, <2>3 DEF sent
<1>5. /\ resource' \in [Kinds -> States] /\ litter' \subseteq Kinds
      /\ \A other \in Kinds \ {kind} : resource'[other] = resource[other] /\ (other \in litter => other \in litter')
      /\ \/ resource'[kind] # "present"
         \/ threw /\ kind = "pod" /\ UNCHANGED resource
         \/ threw /\ kind = "service" /\ kind \in litter'
  <2>1. CASE Delete(kind)
    <3>1. /\ resource' \in [Kinds -> States]
          /\ resource'[kind] \in {"absent", "deleting"}
          /\ \A other \in Kinds \ {kind} : resource'[other] = resource[other]
          /\ litter' = litter \ {kind} /\ litter' \subseteq Kinds
      BY <2>1, DeleteDoes
    <3> QED
      BY <3>1
  <2>2. CASE threw /\ litter' = litter \cup ({kind} \ {"pod"}) /\ UNCHANGED resource
    BY <1>2, <1>3, <2>2
  <2> QED
    BY <1>1, <2>1, <2>2
<1>6. /\ resource'["job"] = resource["job"] /\ resource'["map"] = resource["map"]
      /\ \A other \in {"job", "map"} : other \in litter => other \in litter'
      /\ kind = "service" => resource'["pod"] = resource["pod"]
      /\ kind = "pod" => resource'["service"] = resource["service"] /\ ("service" \in litter => "service" \in litter')
  BY <1>3, <1>5 DEF Kinds
<1>7. stopped' \in BOOLEAN
  BY <1>1
<1>8. TypeOK' /\ BuildInv'
  BY <1>2, <1>4, <1>5, <1>6, <1>7, RunSteps
<1>9. StopsComeLate'
  BY <1>2, <1>3, <1>4 DEF RunInv, StopsComeLate
<1>10. resource'["pod"] = "present" => resource["pod"] = "present"
  BY <1>3, <1>5, <1>6
<1>11. PodIsGone'
  <2>1. ~threw /\ kind = "pod" => resource'["pod"] # "present"
    BY <1>5
  <2>2. stopped' => resource'["pod"] # "present"
    <3>1. CASE stopped
      BY <1>10, <3>1 DEF RunInv, PodIsGone
    <3>2. CASE stop[s].pc = "stopping" /\ ~threw /\ stop[s].sent = {kind}
      <4>1. CASE kind = "pod"
        BY <2>1, <3>2, <4>1
      <4>2. CASE kind = "service"
        BY <1>10, <3>2, <4>2 DEF RunInv, PodIsGone
      <4> QED
        BY <1>3, <4>1, <4>2
    <3> QED
      BY <1>1, <3>1, <3>2 DEF StopAt
  <2>3. ASSUME NEW r \in Stops, stop'[r].pc = "stopping", "pod" \notin stop'[r].sent
        PROVE  resource'["pod"] # "present"
    <3>1. CASE r # s
      BY <1>4, <1>10, <2>3, <3>1 DEF RunInv, PodIsGone
    <3>2. CASE r = s /\ kind = "pod"
      BY <1>4, <2>1, <2>3, <3>2
    <3>3. CASE r = s /\ kind = "service"
      BY <1>4, <1>10, <2>3, <3>3 DEF RunInv, PodIsGone
    <3> QED
      BY <1>3, <3>1, <3>2, <3>3
  <2> QED
    BY <2>2, <2>3 DEF PodIsGone
<1>12. ServiceIsClaimed'
  <2>1. CASE kind = "service"
    BY <1>5, <2>1 DEF ServiceIsClaimed
  <2>2. CASE kind = "pod"
    <3> SUFFICES ASSUME resource["service"] = "present", "service" \notin litter
                 PROVE  \E r \in Stops : "service" \in stop'[r].sent
      BY <1>6, <2>2 DEF ServiceIsClaimed
    <3>1. PICK r \in Stops : "service" \in stop[r].sent
      BY <1>2, <1>3 DEF RunInv, ServiceIsClaimed
    <3>2. "service" \in stop'[r].sent
      BY <1>4, <2>2, <3>1
    <3> QED
      BY <3>2
  <2> QED
    BY <1>3, <2>1, <2>2
<1> QED
  BY <1>8, <1>9, <1>11, <1>12 DEF RunInv

-----------------------------------------------------------------------------
(***************************************************************************)
(* The invariant, and what it gives.                                       *)
(***************************************************************************)
LEMMA InitIInv == Init => IInv
<1> SUFFICES ASSUME Init
             PROVE  IInv
  OBVIOUS
<1>1. /\ job = "pending" /\ image = FALSE /\ starter = "new" /\ litter = {} /\ stopped = FALSE
      /\ subject \in {"build", "run"} /\ good \in BOOLEAN
      /\ \A kind \in Kinds : resource[kind] = "absent"
      /\ \A a \in Attempts : /\ attempt[a].pc = "new" /\ attempt[a].verdict = "none"
                             /\ attempt[a].sent = {}
                             /\ excuse[a] = {}
      /\ \A s \in Stops : stop[s].pc = "new" /\ stop[s].sent = {}
  BY DEF Init
<1>2. /\ resource \in [Kinds -> States] /\ attempt \in [Attempts -> AttemptType]
      /\ excuse \in [Attempts -> ExcuseType] /\ stop \in [Stops -> StopType]
  <2>1. /\ "absent" \in States /\ [pc |-> "new", verdict |-> "none", sent |-> {}] \in AttemptType
        /\ {} \in ExcuseType /\ [pc |-> "new", sent |-> {}] \in StopType
    BY DEF States, AttemptType, BuildPcs, Verdicts, ExcuseType, StopType
  <2> QED
    BY <2>1 DEF Init
<1>3. TypeOK
  BY <1>1, <1>2 DEF TypeOK, States, AttemptType, ExcuseType, StopType
<1>4. SentAtEnd /\ JobTells /\ UnhinderedFinds /\ BuildIsHonest
  BY <1>1 DEF SentAtEnd, JobTells, UnhinderedFinds, BuildIsHonest, NoFalseVerdict, BuildsOverLeftovers
<1>5. OverlapsAreExcused
  BY <1>1 DEF OverlapsAreExcused, Live
<1>6. BuildsClean /\ StopsComeLate /\ PodIsGone /\ ServiceIsClaimed
  BY <1>1 DEF BuildsClean, StopsComeLate, PodIsGone, ServiceIsClaimed, Kinds
<1> QED
  BY <1>3, <1>4, <1>5, <1>6 DEF IInv

LEMMA NextIInv == IInv /\ [Next]_k8sVars => IInv'
<1> SUFFICES ASSUME IInv, [Next]_k8sVars
             PROVE  IInv'
  OBVIOUS
<1>1. TypeOK /\ BuildInv /\ RunInv
  BY DEF IInv, BuildInv, RunInv
<1>2. SUFFICES TypeOK' /\ BuildInv' /\ RunInv'
  BY DEF IInv, BuildInv, RunInv
<1>3. CASE UNCHANGED k8sVars
  <2>1. TypeOK'
    BY <1>1, <1>3 DEF k8sVars, TypeOK
  <2>2. BuildInv' /\ RunInv'
    BY <1>1, <1>3, BuildUntouched, RunUntouched DEF k8sVars, buildVars, runVars
  <2> QED
    BY <2>1, <2>2
<1>4. ASSUME NEW a \in Attempts,
             \/ Begin(a) \/ DeleteOldJob(a) \/ DeleteOldMap(a) \/ PostMap(a) \/ PostJob(a)
             \/ WaitForBuild(a) \/ GiveUp(a) \/ RequestThrows(a) \/ Die(a)
             \/ \E kind \in Kinds : Clean(a, kind)
      PROVE  TypeOK' /\ BuildInv' /\ RunInv'
  BY <1>1, <1>4, BeginKeeps, RequestsKeep, DieKeeps, CleanKeeps
<1>5. ASSUME NEW s \in Stops, Stop(s) \/ \E kind \in Kinds : StopDeletes(s, kind)
      PROVE  TypeOK' /\ BuildInv' /\ RunInv'
  BY <1>1, <1>5, StopKeeps, StopDeletesKeeps
<1>6. CASE \/ \E kind \in {"job", "pod"} : DeletionEnds(kind)
           \/ JobBegins \/ JobEnds \/ JobFails \/ JobExpires
  BY <1>1, <1>6, DeletionEndsKeeps, JobGoes, JobExpiresKeeps
<1>7. CASE StartRun \/ PostService \/ PostPod \/ UndoService \/ StarterDies
  BY <1>1, <1>7, StartRunKeeps
<1> QED
  BY <1>3, <1>4, <1>5, <1>6, <1>7 DEF Next

\* The invariant holds in every state the backend and the cluster reach.
THEOREM Invariance == Spec => []IInv
<1> QED
  BY InitIInv, NextIInv, PTL DEF Spec

\* The types, and that an attempt that has left its try block has a verdict.
THEOREM TypeCorrect == Spec => []TypeOK
<1>1. IInv => TypeOK
  BY DEF IInv
<1> QED
  BY Invariance, <1>1, PTL

\* Whatever attempts overlap, die and leave behind: what buildSubmissionImage() says of
\* a submission is true, and an attempt that nothing hindered finds it out.
THEOREM BuildsAreHonest == Spec => []BuildIsHonest
<1>1. IInv => BuildIsHonest
  BY DEF IInv
<1> QED
  BY Invariance, <1>1, PTL

\* The finally block of buildSubmissionImage() and stopRun() leave no Job, ConfigMap,
\* pod or Service but those that litter names or a deletion under way is for.
THEOREM NothingStays == Spec => []NothingLeft
<1>1. IInv => NothingLeft
  <2> SUFFICES ASSUME IInv
               PROVE  NothingLeft
    OBVIOUS
  <2>1. BuildsLeaveNothing
    <3>1. \A a \in Attempts, kind \in {"job", "map"} : WillDelete(a, kind) => Live(a)
      BY DEF WillDelete, Live, Active, Ended
    <3> QED
      BY <3>1 DEF IInv, BuildsClean, BuildsLeaveNothing
  <2>2. RunsLeaveNothing
    BY DEF IInv, StopsComeLate, PodIsGone, ServiceIsClaimed, RunsLeaveNothing
  <2> QED
    BY <2>1, <2>2 DEF NothingLeft
<1> QED
  BY Invariance, <1>1, PTL
=============================================================================
