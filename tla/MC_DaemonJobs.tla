--------------------------- MODULE MC_DaemonJobs ---------------------------
(***************************************************************************)
(* Small instances of DaemonJobs: a job and the nested job its worker may  *)
(* start, or a single job, with and without an operator who cancels.       *)
(***************************************************************************)
EXTENDS DaemonJobs, TLC

CONSTANTS p, k, op  \* parent job, nested child job, operator

Nested == p :> NoJob @@ k :> p
Single == p :> NoJob

=============================================================================
