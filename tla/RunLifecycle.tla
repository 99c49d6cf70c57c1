---------------------------- MODULE RunLifecycle ----------------------------
(***************************************************************************)
(* What the orchestrator promises of one benchmark run, with no handler,   *)
(* cleanup, timer or crash in sight: what a run holds is acquired before   *)
(* it is shown at all; bots are sent once, at a sandbox that is there and  *)
(* for a run that is shown as running; the run is settled once, as         *)
(* completed only if bots were sent; and what it holds is given back       *)
(* before.  BenchmarkRun implements this specification.                    *)
(***************************************************************************)
VARIABLES shown,   \* what GET /benchmark/:runId shows: benchmark_runs.status
          load,    \* the bots
          holds,   \* the sandbox, its entry in the process's map, and the keys in Redis
          loose    \* what a run may leave behind, because giving it back may fail

lifeVars == <<shown, load, holds, loose>>

Resources == {"sandbox", "entry", "hash", "listed"}

LifeInit == /\ shown = "none" /\ load = "off" /\ holds = {}
            /\ loose \in SUBSET Resources

Acquire(x) == /\ shown = "none"
              /\ holds' = holds \cup {x}
              /\ UNCHANGED <<shown, load, loose>>

\* A start that fails, a cleanup, an expiry, the death of the process.
GiveBack == /\ holds' \subseteq holds
            /\ UNCHANGED <<shown, load, loose>>

Admit == /\ shown = "none"
         /\ shown' = "running"
         /\ UNCHANGED <<load, holds, loose>>

SendBots == /\ shown = "running" /\ load = "off" /\ "sandbox" \in holds
            /\ load' = "on"
            /\ UNCHANGED <<shown, holds, loose>>

BotsEnd == /\ load = "on"
           /\ load' = "done"
           /\ UNCHANGED <<shown, holds, loose>>

Settle(verdict) == /\ shown = "running" /\ holds \subseteq loose
                   /\ verdict = "completed" => load # "off"
                   /\ shown' = verdict
                   /\ UNCHANGED <<load, holds, loose>>

LifeNext == \/ \E x \in Resources : Acquire(x)
            \/ GiveBack
            \/ Admit
            \/ SendBots \/ BotsEnd
            \/ \E verdict \in {"completed", "failed"} : Settle(verdict)

LifeSpec == LifeInit /\ [][LifeNext]_lifeVars
=============================================================================
