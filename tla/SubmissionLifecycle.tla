------------------------ MODULE SubmissionLifecycle ------------------------
(***************************************************************************)
(* What the build queue promises to the team that polls                    *)
(* GET /submissions/:id, with no job table, lease or worker in sight: a    *)
(* submission is started at most MaxAttempts times, is settled at most     *)
(* once, only while it is being built, and a settled submission never      *)
(* changes again.  BuildQueue implements this specification.               *)
(***************************************************************************)
EXTENDS Integers

CONSTANTS Submissions,   \* submissions that may ever be made
          MaxAttempts    \* BUILD_JOB_MAX_ATTEMPTS

VARIABLES state,    \* what the API shows: submissions.status
          starts    \* how many builds of the submission have been started

lifeVars == <<state, starts>>

Open     == {"queued", "building"}
Settled  == {"built", "failed"}
States   == {"absent"} \cup Open \cup Settled

LifeInit == /\ state  = [s \in Submissions |-> "absent"]
            /\ starts = [s \in Submissions |-> 0]

Accept(s) == /\ state[s] = "absent"
             /\ state' = [state EXCEPT ![s] = "queued"]
             /\ UNCHANGED starts

\* A worker picks the submission up, for the first time or again.
Begin(s) == /\ state[s] \in Open
            /\ starts[s] < MaxAttempts
            /\ state'  = [state EXCEPT ![s] = "building"]
            /\ starts' = [starts EXCEPT ![s] = @ + 1]

\* The infrastructure failed: the submission waits for another attempt.
PutBack(s) == /\ state[s] = "building"
              /\ state' = [state EXCEPT ![s] = "queued"]
              /\ UNCHANGED starts

Settle(s, verdict) == /\ state[s] = "building"
                      /\ state' = [state EXCEPT ![s] = verdict]
                      /\ UNCHANGED starts

LifeNext == \E s \in Submissions : \/ Accept(s)
                                   \/ Begin(s)
                                   \/ PutBack(s)
                                   \/ \E verdict \in Settled : Settle(s, verdict)

LifeSpec == LifeInit /\ [][LifeNext]_lifeVars
=============================================================================
