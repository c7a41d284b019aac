---------------------------- MODULE MCSpliceJobs ----------------------------
(***************************************************************************)
(* One engine that hears of one job at a time, so that the second job has  *)
(* to wait for the first; a request of a user or of the service overlaps   *)
(* with one of the engine.                                                 *)
(***************************************************************************)
EXTENDS SpliceJobs

\* A priority above every number that the help text names.
CancelOrRaise == {[status |-> "cancelled"], [priority |-> 99]}
=============================================================================
