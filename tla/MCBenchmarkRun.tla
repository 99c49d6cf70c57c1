--------------------------- MODULE MCBenchmarkRun ---------------------------
(***************************************************************************)
(* TLC instances of BenchmarkRun: two completion calls stand for a         *)
(* redelivered run_complete.                                               *)
(***************************************************************************)
EXTENDS BenchmarkRun, TLC

\* Everything may fail; containers can be stopped and Redis answers; only Redis
\* fails.
AnyOrSome == {Fallible, {"find", "db"}, {"redis"}}

Nothing == {{}}
=============================================================================
