---------------------------- MODULE MC_EventLog ----------------------------
(***************************************************************************)
(* Small instances of EventLog: a worker with AISH_DAEMON=off beside a     *)
(* thread of the daemon, and clients of the daemon.                        *)
(***************************************************************************)
EXTENDS EventLog, TLC

CONSTANTS a, b, c   \* writers

Mixed == a :> "job" @@ b :> "auto" @@ c :> "on"

=============================================================================
