------------------------ MODULE MCTelemetryIngester ------------------------
(***************************************************************************)
(* TLC instance of TelemetryIngester: two replicas, as in                  *)
(* k8s-platform.yaml.                                                      *)
(***************************************************************************)
EXTENDS TelemetryIngester

\* Every call may fail; or nothing but the fleet's writes, with one more move.
AllOrBroker ==
  {[faulty |-> Fallible, orders |-> 2, moves |-> 1],
   [faulty |-> {"broker"}, orders |-> 1, moves |-> 2]}
=============================================================================
