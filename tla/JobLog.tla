------------------------------- MODULE JobLog -------------------------------
(***************************************************************************)
(* What the job.lifecycle events of a session promise to their readers     *)
(* (`aish daemon jobs`): each job's events form a path from queued to at   *)
(* most one final state, which is the job's last event.                    *)
(***************************************************************************)
EXTENDS Sequences

CONSTANT Jobs

VARIABLE log    \* [Jobs -> the sequence of states logged for the job]

Final == {"completed", "failed", "cancelled"}

\* The states that may follow the state s; "absent" stands before the first.
\* A job that waits for an answer is never logged as running again: the
\* worker announces only the waiting.
After(s) ==
    CASE s = "absent" -> {"queued"}
      [] s = "queued" -> {"running", "failed", "cancelled"}
      [] s \in {"running", "waiting_interaction"} ->
            {"waiting_interaction"} \cup Final
      [] OTHER -> {}

Current(j) == IF log[j] = <<>> THEN "absent" ELSE log[j][Len(log[j])]

Init == log = [j \in Jobs |-> <<>>]

Advance(j, s) ==
    /\ s \in After(Current(j))
    /\ log' = [log EXCEPT ![j] = Append(@, s)]

Next == \E j \in Jobs : \E s \in After(Current(j)) : Advance(j, s)

Spec == Init /\ [][Next]_log

=============================================================================
