------------------------- MODULE KubernetesSandbox -------------------------
(***************************************************************************)
(* KubernetesSandboxBackend: the attempts to build one submission, which   *)
(* all give the same names to their Job and ConfigMap, and the Pod and     *)
(* Service of one run.  Names of different submissions and runs differ, so *)
(* a behaviour is about one submission's build or about one run.           *)
(*                                                                         *)
(* A step is one request to the API server.  A request that throws may     *)
(* have had its effect.  The cluster is external: a Job or a Pod that is   *)
(* deleted may stay for a while, and a Job needs its ConfigMap to begin.   *)
(***************************************************************************)
EXTENDS Naturals, FiniteSets

CONSTANTS Attempts,   \* attempts of workers to build the submission
          Stops,      \* calls of stopRun(), each by a cleanup of the run
          MaxLive     \* bound on attempts at the same time

ASSUME CallersAssumption == Attempts \cap Stops = {}
ASSUME BoundAssumption   == MaxLive \in Nat

VARIABLES
  subject,    \* "build" or "run": what the behaviour is about
  resource,   \* per kind of resource: absent, present or deleting
  job,        \* the status of the Job
  good,       \* whether the submission compiles
  image,      \* whether its image was pushed
  attempt,    \* per attempt: its next request, its verdict, the deletions it has sent
  excuse,     \* per attempt: what hindered it (history)
  starter,    \* where startRun() is
  stop,       \* per call of stopRun(): where it is, and the deletions it has sent
  litter,     \* what was left to nobody (history)
  stopped     \* some stop ended without an error (history)

k8sVars == <<subject, resource, job, good, image, attempt, excuse, starter, stop, litter, stopped>>
buildVars == <<job, good, image, attempt, excuse>>
runVars   == <<starter, stop, stopped>>

Kinds == {"job", "map", "pod", "service"}

Init ==
  /\ subject \in {"build", "run"}
  /\ resource = [kind \in Kinds |-> "absent"]
  /\ job = "pending"
  /\ good \in BOOLEAN
  /\ image = FALSE
  /\ attempt = [a \in Attempts |-> [pc |-> "new", verdict |-> "none", sent |-> {}]]
  /\ excuse = [a \in Attempts |-> {}]
  /\ starter = "new"
  /\ stop = [s \in Stops |-> [pc |-> "new", sent |-> {}]]
  /\ litter = {}
  /\ stopped = FALSE

-----------------------------------------------------------------------------
(***************************************************************************)
(* The API server, and the cluster behind it.                              *)
(***************************************************************************)
Exists(kind) == resource[kind] # "absent"

Create(kind) ==
  /\ ~Exists(kind)
  /\ resource' = [resource EXCEPT ![kind] = "present"]

\* deleteIgnoringNotFound(), with its effect: at once, or in time.
Delete(kind) ==
  /\ \E state \in {"absent"} \cup (IF kind \in {"job", "pod"} /\ Exists(kind) THEN {"deleting"} ELSE {}) :
       resource' = [resource EXCEPT ![kind] = state]
  /\ litter' = litter \ {kind}

DeletionEnds(kind) ==
  /\ resource[kind] = "deleting"
  /\ resource' = [resource EXCEPT ![kind] = "absent"]
  /\ UNCHANGED <<subject, buildVars, runVars, litter>>

\* The Job's pod mounts the source.
JobBegins ==
  /\ resource.job = "present" /\ resource.map = "present" /\ job = "pending"
  /\ job' = "building"
  /\ UNCHANGED <<subject, resource, good, image, attempt, excuse, runVars, litter>>

\* Kaniko runs to its end: the source compiles and the image is pushed, or it does not.
JobEnds ==
  /\ Exists("job") /\ job = "building"
  /\ job' = IF good THEN "succeeded" ELSE "failed"
  /\ image' = (image \/ good)
  /\ UNCHANGED <<subject, resource, good, attempt, excuse, runVars, litter>>

\* The cluster fails the Job, whatever the source is, and cuts off whoever waits for it:
\* activeDeadlineSeconds is over; or, with backoffLimit 0, one pod has failed: the registry
\* refused the base image or the push, the pod was evicted or ran out of memory, before
\* the push or after.
JobFails ==
  /\ Exists("job") /\ job \in {"pending", "building"}
  /\ job' = "failed"
  /\ image' \in {image, image \/ (good /\ job = "building")}
  /\ excuse' = [a \in Attempts |->
                  IF attempt[a].pc = "wait" THEN excuse[a] \cup {"cut off"} ELSE excuse[a]]
  /\ UNCHANGED <<subject, resource, good, attempt, runVars, litter>>

\* ttlSecondsAfterFinished.
JobExpires ==
  /\ resource.job = "present" /\ job \in {"succeeded", "failed"}
  /\ \A a \in Attempts : attempt[a].pc # "wait"
  /\ resource' = [resource EXCEPT !.job = "absent"]
  /\ UNCHANGED <<subject, buildVars, runVars, litter>>

-----------------------------------------------------------------------------
(***************************************************************************)
(* buildSubmissionImage().                                                 *)
(***************************************************************************)
At(a, pc) == attempt[a].pc = pc

Ended == {"done", "dead"}

\* An attempt that has still something to do to the resources.
Live(a) == attempt[a].pc \notin {"new"} \cup Ended \/ attempt[a].sent # {}

\* The job was claimed, for the first time or since a lease ran out.
Begin(a) ==
  /\ subject = "build" /\ At(a, "new")
  /\ attempt' = [attempt EXCEPT ![a].pc = "delete job"]
  /\ LET others == {b \in Attempts \ {a} : Live(b)}
     IN  /\ Cardinality(others) < MaxLive
         /\ excuse' = [b \in Attempts |-> IF others # {} /\ b \in others \cup {a}
                                          THEN excuse[b] \cup {"overlap"} ELSE excuse[b]]
  /\ UNCHANGED <<subject, resource, job, good, image, runVars, litter>>

Proceeds(a, pc) == attempt' = [attempt EXCEPT ![a].pc = pc] /\ UNCHANGED excuse

\* The finally block: both deletions are sent at once.
Finally(a, verdict) ==
  attempt' = [attempt EXCEPT ![a] = [pc |-> "finally", verdict |-> verdict, sent |-> {"map", "job"}]]

\* Mutant of Throws: only a build that was waited for is cleaned up after.
ThrowsUncleaned(a, why) ==
  /\ attempt' = [attempt EXCEPT ![a].pc = "done", ![a].verdict = "thrown"]
  /\ excuse' = [excuse EXCEPT ![a] = @ \cup why]

Throws(a, why) ==
  /\ Finally(a, "thrown")
  /\ excuse' = [excuse EXCEPT ![a] = @ \cup why]

\* The answer to a request that had its effect: it came, or it was an error.
Answered(a, pc) == Proceeds(a, pc) \/ Throws(a, {"fault"})

\* Mutant of DeleteOldJob: the deterministic name is taken to be free.
DeleteOldJobNot(a) ==
  /\ At(a, "delete job")
  /\ Answered(a, "delete map")
  /\ UNCHANGED <<subject, resource, job, good, image, runVars, litter>>

DeleteOldJob(a) ==
  /\ At(a, "delete job")
  /\ Delete("job")
  /\ Answered(a, "delete map")
  /\ UNCHANGED <<subject, job, good, image, runVars>>

DeleteOldMap(a) ==
  /\ At(a, "delete map")
  /\ Delete("map")
  /\ Answered(a, "post map")
  /\ UNCHANGED <<subject, job, good, image, runVars>>

PostMap(a) ==
  /\ At(a, "post map")
  /\ \/ Create("map") /\ Answered(a, "post job")
     \/ Exists("map") /\ Throws(a, {}) /\ UNCHANGED resource
  /\ UNCHANGED <<subject, job, good, image, runVars, litter>>

\* A Job that is being deleted still has the name.
PostJob(a) ==
  /\ At(a, "post job")
  /\ \/ Create("job") /\ job' = "pending" /\ Answered(a, "wait")
     \/ /\ Exists("job")
        /\ Throws(a, IF resource.job = "deleting" THEN {"slow"} ELSE {})
        /\ UNCHANGED <<resource, job>>
  /\ UNCHANGED <<subject, good, image, runVars, litter>>

\* Mutant of WaitForBuild: the first status is taken for the result.
WaitForBuildOnce(a) ==
  /\ At(a, "wait") /\ Exists("job")
  /\ Finally(a, job)
  /\ UNCHANGED <<subject, resource, job, good, image, excuse, runVars, litter>>

\* waitForBuild(): a poll that finds a result, or that finds no Job and throws.  A poll
\* that finds neither changes nothing.
WaitForBuild(a) ==
  /\ At(a, "wait")
  /\ \/ Exists("job") /\ job \in {"succeeded", "failed"} /\ Finally(a, job)
     \/ ~Exists("job") /\ Finally(a, "thrown")
  /\ UNCHANGED <<subject, resource, job, good, image, excuse, runVars, litter>>

\* BUILD_TIMEOUT_MS, counted from the first poll.
GiveUp(a) ==
  /\ At(a, "wait")
  /\ Throws(a, {"cut off"})
  /\ UNCHANGED <<subject, resource, job, good, image, runVars, litter>>

\* A request throws and had no effect.
RequestThrows(a) ==
  /\ attempt[a].pc \in {"delete job", "delete map", "post map", "post job", "wait"}
  /\ Throws(a, {"fault"})
  /\ UNCHANGED <<subject, resource, job, good, image, runVars, litter>>

\* A deletion of the finally block.  Promise.all() waits for both, or until one throws,
\* with its effect or without; the other is on its way all the same.
Clean(a, kind) ==
  /\ kind \in attempt[a].sent
  /\ \E threw \in BOOLEAN :
       /\ attempt' = [attempt EXCEPT ![a].sent = @ \ {kind},
                                     ![a].pc = IF threw \/ attempt[a].sent = {kind} THEN "done" ELSE @]
       /\ \/ Delete(kind)
          \/ threw /\ litter' = litter \cup {kind} /\ UNCHANGED resource
  /\ UNCHANGED <<subject, job, good, image, excuse, runVars>>

\* The worker dies.
Die(a) ==
  /\ Live(a)
  /\ attempt' = [attempt EXCEPT ![a].pc = IF @ = "done" THEN @ ELSE "dead", ![a].sent = {}]
  /\ litter' = litter \cup {kind \in {"job", "map"} : Exists(kind)}
  /\ UNCHANGED <<subject, resource, job, good, image, excuse, runVars>>

-----------------------------------------------------------------------------
(***************************************************************************)
(* startRun(), stopRun() and findRunId() of one run.                       *)
(***************************************************************************)
StarterAt(pc) == subject = "run" /\ starter = pc

\* Before the first two creations two deletions, of names that are new: "posting" is
\* the request that creates the Service.
StartRun ==
  /\ StarterAt("new")
  /\ starter' \in {"posting", "threw"}
  /\ UNCHANGED <<subject, resource, buildVars, stop, litter, stopped>>

\* The Service is created outside the try block.
PostService ==
  /\ StarterAt("posting")
  /\ \/ /\ Create("service")
        /\ \/ starter' = "post pod" /\ UNCHANGED litter
           \/ starter' = "threw" /\ litter' = litter \cup {"service"}
     \/ starter' = "threw" /\ UNCHANGED <<resource, litter>>
  /\ UNCHANGED <<subject, buildVars, stop, stopped>>

\* Mutant of PostPod: an error leaves the Service behind.
PostPodOrThrow ==
  /\ StarterAt("post pod")
  /\ \/ Create("pod") /\ starter' \in {"started", "threw"}
     \/ starter' = "threw" /\ UNCHANGED resource
  /\ UNCHANGED <<subject, buildVars, stop, litter, stopped>>

PostPod ==
  /\ StarterAt("post pod")
  /\ \/ Create("pod") /\ starter' \in {"started", "undo"}
     \/ starter' = "undo" /\ UNCHANGED resource
  /\ UNCHANGED <<subject, buildVars, stop, litter, stopped>>

\* The catch block, whose own error is swallowed.
UndoService ==
  /\ StarterAt("undo")
  /\ starter' = "threw"
  /\ \/ Delete("service")
     \/ litter' = litter \cup {"service"} /\ UNCHANGED resource
  /\ UNCHANGED <<subject, buildVars, stop, stopped>>

\* The orchestrator dies while it starts the run.
StarterDies ==
  /\ subject = "run" /\ starter \in {"posting", "post pod", "undo"}
  /\ starter' = "threw"
  /\ litter' = litter \cup {kind \in {"service"} : Exists(kind)}
  /\ UNCHANGED <<subject, resource, buildVars, stop, stopped>>

StopAt(s, pc) == stop[s].pc = pc

\* A cleanup that has the sandbox' id calls stopRun(); one that has lost it, or never
\* had it, asks findRunId(), which looks for pods.
Stop(s) ==
  /\ subject = "run" /\ StopAt(s, "new") /\ starter \in {"started", "threw"}
  /\ \/ /\ starter = "started" \/ Exists("pod")
        /\ stop' = [stop EXCEPT ![s] = [pc |-> "stopping", sent |-> {"pod", "service"}]]
        /\ UNCHANGED stopped
     \/ /\ ~Exists("pod")
        /\ stop' = [stop EXCEPT ![s].pc = "done"]
        /\ stopped' = TRUE
     \/ stop' = [stop EXCEPT ![s].pc = "done"] /\ UNCHANGED stopped
  /\ UNCHANGED <<subject, resource, buildVars, starter, litter>>

\* One of the two deletions of stopRun(): it throws what the first of them throws, and
\* the other is on its way all the same.
StopDeletes(s, kind) ==
  /\ kind \in stop[s].sent
  /\ \E threw \in BOOLEAN :
       /\ stop' = [stop EXCEPT ![s].sent = @ \ {kind},
                               ![s].pc = IF threw \/ stop[s].sent = {kind} THEN "done" ELSE @]
       /\ stopped' = (stopped \/ (StopAt(s, "stopping") /\ ~threw /\ stop[s].sent = {kind}))
       /\ \/ Delete(kind)
          \/ threw /\ litter' = litter \cup ({kind} \ {"pod"}) /\ UNCHANGED resource
  /\ UNCHANGED <<subject, buildVars, starter>>

-----------------------------------------------------------------------------
Next ==
  \/ \E kind \in {"job", "pod"} : DeletionEnds(kind)
  \/ JobBegins \/ JobEnds \/ JobFails \/ JobExpires
  \/ \E a \in Attempts :
       \/ Begin(a) \/ DeleteOldJob(a) \/ DeleteOldMap(a) \/ PostMap(a) \/ PostJob(a)
       \/ WaitForBuild(a) \/ GiveUp(a) \/ RequestThrows(a) \/ Die(a)
       \/ \E kind \in Kinds : Clean(a, kind)
  \/ StartRun \/ PostService \/ PostPod \/ UndoService \/ StarterDies
  \/ \E s \in Stops : Stop(s) \/ \E kind \in Kinds : StopDeletes(s, kind)

Spec == Init /\ [][Next]_k8sVars

-----------------------------------------------------------------------------
(***************************************************************************)
(* Properties.                                                             *)
(***************************************************************************)
Verdicts == {"none", "succeeded", "failed", "thrown"}

BuildPcs == {"new", "delete job", "delete map", "post map", "post job", "wait", "finally"} \cup Ended

\* Types.  An attempt has a verdict once it has left its try block.
TypeOK ==
  /\ subject \in {"build", "run"}
  /\ resource \in [Kinds -> {"absent", "present", "deleting"}]
  /\ job \in {"pending", "building", "succeeded", "failed"}
  /\ good \in BOOLEAN /\ image \in BOOLEAN /\ stopped \in BOOLEAN
  /\ attempt \in [Attempts -> [pc : BuildPcs, verdict : Verdicts, sent : SUBSET {"map", "job"}]]
  /\ \A a \in Attempts : attempt[a].pc \in {"finally", "done"} => attempt[a].verdict # "none"
  /\ excuse \in [Attempts -> SUBSET {"overlap", "fault", "cut off", "slow"}]
  /\ starter \in {"new", "posting", "post pod", "undo", "started", "threw"}
  /\ stop \in [Stops -> [pc : {"new", "stopping", "done"}, sent : SUBSET {"pod", "service"}]]
  /\ litter \subseteq Kinds

\* Whatever attempts overlap and delete each other's resources, "succeeded" is said only
\* of a submission that compiles and whose image was pushed.  A submission that compiles
\* is failed for good, and not tried again, only when the cluster failed the Job that
\* the attempt waited for: never because another attempt, a leftover or an error of a
\* request got in its way.
NoFalseVerdict(a) ==
  /\ attempt[a].verdict = "succeeded" => good /\ image
  /\ attempt[a].verdict = "failed" /\ good => "cut off" \in excuse[a]

\* An attempt that nothing hindered finds out what the submission is, also when earlier
\* attempts died and left their Job, their ConfigMap or a result under the same names.
BuildsOverLeftovers(a) ==
  attempt[a].verdict # "none" /\ excuse[a] = {} =>
    attempt[a].verdict = IF good THEN "succeeded" ELSE "failed"

BuildIsHonest == \A a \in Attempts : NoFalseVerdict(a) /\ BuildsOverLeftovers(a)

\* A Job or ConfigMap there is has an attempt that will delete it, unless it was left by
\* a worker that died or by a deletion that failed, and no attempt came after.
BuildsLeaveNothing ==
  \A kind \in {"job", "map"} : resource[kind] = "present" =>
    kind \in litter \/ \E a \in Attempts : Live(a)

\* Once a cleanup has stopped the run, or has found nothing to stop, there is no pod;
\* and no Service but one that lost its pod, or never had one, which nobody looks for.
RunsLeaveNothing ==
  stopped =>
    /\ resource.pod # "present"
    /\ resource.service = "present" => "service" \in litter \/ \E s \in Stops : "service" \in stop[s].sent

NothingLeft == BuildsLeaveNothing /\ RunsLeaveNothing
=============================================================================
