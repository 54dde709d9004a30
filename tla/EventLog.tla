------------------------------ MODULE EventLog ------------------------------
(***************************************************************************)
(* Appends to the events.jsonl of one session.  An append reads the whole  *)
(* file to number its event (next_seq), then writes the line and then the  *)
(* newline, with no lock between the three.  Several processes append to   *)
(* one session: threads of the daemon (job.lifecycle), and `ai` processes  *)
(* by themselves (AISH_DAEMON=off), through the daemon (on), or through    *)
(* the daemon with a second attempt by themselves (auto).                  *)
(***************************************************************************)
EXTENDS Naturals, Sequences, FiniteSets, FiniteSetsExt

CONSTANTS
    Writers,    \* threads and processes that append events
    NoWriter,
    Mode,       \* how each writer appends: "job", "off", "on" or "auto"
    MaxEvents,  \* bound: appends of one writer
    MaxFaults   \* bound: failures of the environment in one behaviour

WritersAssumption ==
    /\ NoWriter \notin Writers
    /\ Mode \in [Writers -> {"job", "off", "on", "auto"}]
    /\ MaxEvents \in Nat
    /\ MaxFaults \in Nat

ASSUME WritersAssumption

VARIABLES
    file,    \* what was written: events, newlines and torn pieces
    step,    \* where the append of each writer is
    leg,     \* the process that runs it: the daemon or the writer's own
    number,  \* the seq it has taken
    count,   \* appends each writer has begun
    acked,   \* appends that returned Ok to their caller
    up,      \* the daemon runs
    calm,    \* no two appends have overlapped and none was cut off so far
    faults   \* failures of the environment so far

logVars == <<file, step, leg, number, count, acked, up, calm, faults>>

-----------------------------------------------------------------------------
\* The file

LineBreak == [seq |-> 0, by |-> NoWriter, nth |-> 0]
Torn      == [seq |-> 0, by |-> NoWriter, nth |-> 1]
\* Torn inside a character: no text can follow that makes the file UTF-8 again.
Garbled   == [seq |-> 0, by |-> NoWriter, nth |-> 2]
Pieces == {Torn, Garbled}
Events == [seq : Nat \ {0}, by : Writers, nth : Nat]
IsEvent(t) == t.seq > 0

\* Slip: a newline at the end of the file is not trimmed.
NextSeqUntrimmed(f) ==
    LET n == Len(f) IN
    IF n = 0 \/ ~IsEvent(f[n]) THEN 1 ELSE f[n].seq + 1

\* read_to_string: a file that is not UTF-8 is an error.
Readable(f) == \A i \in 1..Len(f) : f[i] # Garbled

\* next_seq: one more than the number in the last line that is not blank; 1
\* for a file that is empty or cannot be read, and 0 for an error: the line is
\* not a single event.
NextSeq(f) ==
    LET Ink == {i \in 1..Len(f) : f[i] # LineBreak}
        last == Max(Ink)
    IN  IF Ink = {} \/ ~Readable(f) THEN 1
        ELSE IF IsEvent(f[last]) /\ (last > 1 => f[last - 1] = LineBreak)
             THEN f[last].seq + 1
             ELSE 0

LogInit ==
    /\ file = <<>>
    /\ step = [w \in Writers |-> "idle"]
    /\ leg = [w \in Writers |-> "own"]
    /\ number = [w \in Writers |-> 0]
    /\ count = [w \in Writers |-> 0]
    /\ acked = {}
    /\ up \in BOOLEAN
    /\ calm = TRUE
    /\ faults = 0

InFlight == {w \in Writers : step[w] # "idle"}
InDaemon == {w \in InFlight : leg[w] = "daemon"}

Fault == faults < MaxFaults /\ faults' = faults + 1

-----------------------------------------------------------------------------
\* One append

\* A caller appends its next event.  `on` without a daemon fails at once,
\* `auto` without a daemon appends by itself.
BeginAppend(w) ==
    /\ step[w] = "idle"
    /\ count[w] < MaxEvents
    /\ Mode[w] = "job" => up
    /\ count' = [count EXCEPT ![w] = @ + 1]
    /\ IF Mode[w] = "on" /\ ~up
       THEN UNCHANGED <<step, leg, calm>>
       ELSE /\ step' = [step EXCEPT ![w] = "start"]
            /\ leg' = [leg EXCEPT ![w] =
                         IF Mode[w] = "off" \/ ~up THEN "own" ELSE "daemon"]
            /\ calm' = (calm /\ InFlight = {})
    /\ UNCHANGED <<file, number, acked, up, faults>>

\* Slip: a client that must go through the daemon tries by itself as well.
GiveUpAlways(w) ==
    IF leg[w] = "daemon"
    THEN /\ step' = [step EXCEPT ![w] = "start"]
         /\ leg' = [leg EXCEPT ![w] = "own"]
    ELSE /\ step' = [step EXCEPT ![w] = "idle"]
         /\ UNCHANGED leg

\* The append returned an error where it ran.  FallbackEventAppender turns any
\* error of the daemon into an append of the same event by itself.
GiveUp(w) ==
    IF Mode[w] = "auto" /\ leg[w] = "daemon"
    THEN /\ step' = [step EXCEPT ![w] = "start"]
         /\ leg' = [leg EXCEPT ![w] = "own"]
    ELSE /\ step' = [step EXCEPT ![w] = "idle"]
         /\ UNCHANGED leg

\* Slip: a process counts its own events instead of reading the file.
TakeSeqCached(w) ==
    /\ step[w] = "start"
    /\ step' = [step EXCEPT ![w] = "numbered"]
    /\ number' = [number EXCEPT ![w] = @ + 1]
    /\ UNCHANGED <<file, leg, count, acked, up, calm, faults>>

\* next_seq; an error ends the append.
TakeSeq(w) ==
    /\ step[w] = "start"
    /\ IF NextSeq(file) = 0
       THEN GiveUp(w) /\ UNCHANGED number
       ELSE /\ step' = [step EXCEPT ![w] = "numbered"]
            /\ number' = [number EXCEPT ![w] = NextSeq(file)]
            /\ UNCHANGED leg
    /\ UNCHANGED <<file, count, acked, up, calm, faults>>

\* The first write_all: the JSON text.  A disk that fills up tears it, between
\* two characters or inside one.
WriteLine(w) ==
    /\ step[w] = "numbered"
    /\ \/ /\ file' = Append(file, [seq |-> number[w], by |-> w, nth |-> count[w]])
          /\ step' = [step EXCEPT ![w] = "written"]
          /\ UNCHANGED <<leg, calm, faults>>
       \/ /\ Fault
          /\ \E piece \in Pieces : file' = Append(file, piece)
          /\ calm' = FALSE
          /\ GiveUp(w)
    /\ UNCHANGED <<number, count, acked, up>>

\* The second write_all: the newline.
EndLine(w) ==
    /\ step[w] = "written"
    /\ \/ /\ file' = Append(file, LineBreak)
          /\ step' = [step EXCEPT ![w] = "appended"]
          /\ UNCHANGED <<leg, calm, faults>>
       \/ /\ Fault
          /\ calm' = FALSE
          /\ GiveUp(w)
          /\ UNCHANGED file
    /\ UNCHANGED <<number, count, acked, up>>

\* Ok reaches the caller, from the daemon in its answer.
Finish(w) ==
    /\ step[w] = "appended"
    /\ step' = [step EXCEPT ![w] = "idle"]
    /\ acked' = acked \cup {<<w, count[w]>>}
    /\ UNCHANGED <<file, leg, number, count, up, calm, faults>>

\* A process that appends by itself is killed (cancel_ai sends SIGKILL); what
\* the writer does next in the session is done by another process.
KillWriter(w) ==
    /\ w \in InFlight \ InDaemon
    /\ Fault
    /\ step' = [step EXCEPT ![w] = "idle"]
    /\ calm' = FALSE
    /\ UNCHANGED <<file, leg, number, count, acked, up>>

\* The daemon stops or dies in the middle of the appends it runs: its own
\* threads end, its clients see the connection break.
DaemonDies ==
    /\ up
    /\ Fault
    /\ up' = FALSE
    /\ calm' = (calm /\ InDaemon = {})
    /\ step' = [w \in Writers |->
                CASE w \notin InDaemon -> step[w]
                  [] w \in InDaemon /\ Mode[w] = "auto" -> "start"
                  [] OTHER -> "idle"]
    /\ leg' = [w \in Writers |-> IF w \in InDaemon THEN "own" ELSE leg[w]]
    /\ UNCHANGED <<file, number, count, acked>>

DaemonStarts ==
    /\ ~up
    /\ up' = TRUE
    /\ UNCHANGED <<file, step, leg, number, count, acked, calm, faults>>

Step(w) == TakeSeq(w) \/ WriteLine(w) \/ EndLine(w) \/ Finish(w)

\* Every writer has appended all it had to.
Idle ==
    /\ \A w \in Writers : step[w] = "idle" /\ count[w] = MaxEvents
    /\ UNCHANGED logVars

LogNext ==
    \/ \E w \in Writers : BeginAppend(w) \/ Step(w) \/ KillWriter(w)
    \/ DaemonDies
    \/ DaemonStarts
    \/ Idle

LogSpec == LogInit /\ [][LogNext]_logVars

-----------------------------------------------------------------------------
\* Properties

TypeOK ==
    /\ file \in Seq(Events \cup {LineBreak} \cup Pieces)
    /\ step \in [Writers -> {"idle", "start", "numbered", "written", "appended"}]
    /\ leg \in [Writers -> {"own", "daemon"}]
    /\ number \in [Writers -> Nat]
    /\ \A w \in Writers : step[w] = "numbered" => number[w] > 0
    /\ count \in [Writers -> Nat]
    /\ acked \subseteq Writers \X Nat
    /\ up \in BOOLEAN
    /\ calm \in BOOLEAN
    /\ faults \in Nat

\* While appends come one after the other the file is what its readers expect:
\* one event to a line, numbered 1, 2, 3, ... without a gap or a repetition,
\* whichever processes wrote them (ndjson_session_event_store.rs: one line, one
\* JSON; the seq is taken before the append).
SerialLog ==
    calm => \A k \in 1..Len(file) :
                /\ 2*k - 1 <= Len(file) => file[2*k - 1].seq = k
                /\ 2*k <= Len(file) => file[2*k] = LineBreak

\* Whatever races and failures there were, no number is skipped: an event with
\* seq n + 1 stands behind an event with seq n.
NoGaps ==
    \A i \in 1..Len(file) : file[i].seq > 1 =>
        \E k \in 1..(i - 1) : file[k].seq = file[i].seq - 1

Copies(w, n) == {i \in 1..Len(file) : file[i].by = w /\ file[i].nth = n}

\* The file can be read but its last line is not one event, and nobody took a
\* number before it was so.
BrokenForGood ==
    /\ NextSeq(file) = 0
    /\ \A w \in Writers : step[w] \notin {"numbered", "written"}

\* The file cannot be read, and nobody took a number before it was so.
LostCount ==
    /\ ~Readable(file)
    /\ \A w \in Writers : step[w] = "numbered" => number[w] = 1

\* A session whose log ends in a line that is not one event stays so: every
\* later append is refused, and the file never changes again.  One whose log was
\* torn inside a character goes on: it is never readable again, and every event
\* appended from then on has the number 1.
BrokenIsFinal ==
    [][/\ BrokenForGood => BrokenForGood' /\ file' = file
       /\ LostCount =>
            /\ LostCount'
            /\ \A i \in (Len(file) + 1)..Len(file') : file'[i].seq <= 1]_logVars

\* The events of a file, in the order of the file.
EventsOf(f) ==
    LET Upto[n \in 0..Len(f)] ==
            IF n = 0 THEN <<>>
            ELSE IF IsEvent(f[n]) THEN Append(Upto[n - 1], f[n]) ELSE Upto[n - 1]
    IN  Upto[Len(f)]

\* They follow SessionLog.
Abstract == INSTANCE SessionLog WITH events <- EventsOf(file)
SessionLogSpec == Abstract!Spec

\* An append that returned Ok is in the file; an append leaves at most one copy
\* of its event, or two when it went through FallbackEventAppender and the
\* daemon failed after it had written the line.
WrittenOnce ==
    \A w \in Writers : \A n \in 1..count[w] :
        /\ <<w, n>> \in acked => Copies(w, n) # {}
        /\ Cardinality(Copies(w, n)) <=
               IF Mode[w] = "auto" /\ faults > 0 THEN 2 ELSE 1

=============================================================================
