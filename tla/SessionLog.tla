----------------------------- MODULE SessionLog -----------------------------
(***************************************************************************)
(* What events.jsonl promises to its readers.  As long as appends do not   *)
(* race (calm) events are numbered 1, 2, 3, ...  Once two appends have     *)
(* raced, or one was cut off, numbers may repeat or step back, but no      *)
(* number is ever skipped and no event is taken back.                      *)
(***************************************************************************)
EXTENDS Naturals, Sequences

VARIABLES
    events,   \* the events of the file, in the order of the file
    calm      \* no two appends have raced so far and none was cut off

Init == events = <<>> /\ calm = TRUE

\* n continues the numbers that are in the log.
Continues(n) == n = 1 \/ \E i \in 1..Len(events) : n = events[i].seq + 1

Add ==
    /\ Len(events') = Len(events) + 1
    /\ SubSeq(events', 1, Len(events)) = events
    /\ LET n == events'[Len(events')].seq IN
           IF calm THEN n = Len(events') ELSE Continues(n)
    /\ UNCHANGED calm

Disturb == calm' = FALSE /\ UNCHANGED events

Next == Add \/ Disturb

Spec == Init /\ [][Next]_<<events, calm>>

=============================================================================
