-------------------------- MODULE ConsoleRecorder --------------------------
(***************************************************************************)
(* The recorder of `aish`: run_shell copies what the shell prints from its *)
(* PTY into a terminal buffer, and on SIGUSR1 moves the buffer through     *)
(* console.txt into a part file.  Commands of other processes (`aish mute`,*)
(* unmute, rollout, truncate_console_log, clear, and the tool that queues  *)
(* a suggestion for Alt+S) act on it by signals and by files they share:   *)
(* AISH_PID, shell_attachment.json, console.muted, pending_input.json and  *)
(* prompt_suggestion.txt.                                                  *)
(*                                                                         *)
(* Output is a sequence of chunks 1, 2, ...; what the terminal buffer makes*)
(* of escape sequences is left out.                                        *)
(***************************************************************************)
EXTENDS Integers, Sequences, FiniteSets, SequencesExt

CONSTANTS
    Commanders,  \* processes that run commands, one command after another
    Scenarios    \* what may happen in a session: a set of bounds

Kinds == {"mute", "unmute", "rollout", "truncate", "clear", "queue"}

\* The kinds of commands that are run and how many; the chunks of output, starts of
\* aish, presses of Alt+S, and kills of aish or errors of its log file.
Bounds == [kinds : SUBSET Kinds, commands : Nat, chunks : Nat, starts : Nat, keys : Nat,
           faults : Nat]

RecorderAssumption ==
    /\ Scenarios \subseteq Bounds
    /\ IsFiniteSet(Commanders) /\ "aish" \notin Commanders

ASSUME RecorderAssumption

VARIABLES
    bound,     \* the scenario
    rec,       \* the next step of the recorder
    pid,       \* its process id
    usr1, usr2,  \* the flags its signal handlers set
    todo,      \* signals found by this turn of the loop
    out,       \* output in hand
    seen,      \* what the record of this recorder is to say of the mute flag
    buffer,    \* terminal_buffer
    shell,     \* whether the shell runs
    tty,       \* output of the shell that was not read yet
    emitted,   \* chunks printed so far
    key,       \* Alt+S was pressed and not read yet
    keys,
    console,   \* console.txt
    parts,     \* part_*_user.txt, oldest first
    muted,     \* console.muted exists
    pidfile,   \* AISH_PID
    att,       \* shell_attachment.json
    pending,   \* pending_input.json
    hint,      \* prompt_suggestion.txt
    injected,  \* what the recorder typed into the shell
    cmd,       \* the command each commander runs
    commands,
    faults,
    since,     \* history: chunks printed before the first command that may lose
               \* output, or NotYet
    stray,     \* history: a signal was sent to a process that is not the recorder
    overlap    \* history: two of commands, start and end of a recorder overlapped

recVars == <<rec, pid, todo, out, seen, buffer>>
flagVars == <<usr1, usr2>>
ttyVars == <<shell, tty, emitted>>
keyVars == <<key, keys>>
logVars == <<console, parts>>
recordVars == <<muted, pidfile, att>>
suggestVars == <<pending, hint, injected>>
cmdVars == <<cmd, commands>>
historyVars == <<since, stray>>
vars == <<bound, recVars, flagVars, ttyVars, keyVars, logVars, recordVars, suggestVars,
          cmdVars, faults, historyVars, overlap>>

-----------------------------------------------------------------------------
Losing == {"mute", "truncate", "clear"}
NotYet == bound.chunks + 1

NoRecord == [status |-> "none", pid |-> 0, muted |-> FALSE]
Record(status, p, m) == [status |-> status, pid |-> p, muted |-> m]
NoCommand == [at |-> "none", kind |-> "none", pid |-> 0, att |-> NoRecord]

Init ==
    /\ bound \in Scenarios
    /\ rec = "off" /\ pid = 0 /\ todo = <<>> /\ out = <<>> /\ seen = FALSE /\ buffer = <<>>
    /\ usr1 = FALSE /\ usr2 = FALSE
    /\ shell = FALSE /\ tty = <<>> /\ emitted = 0
    /\ key = FALSE /\ keys = 0
    /\ console = <<>> /\ parts = <<>>
    /\ muted = FALSE /\ pidfile = 0 /\ att = NoRecord
    /\ pending = 0 /\ hint = 0 /\ injected = <<>>
    /\ cmd = [c \in Commanders |-> NoCommand] /\ commands = 0
    /\ faults = 0
    /\ since = NotYet /\ stray = FALSE /\ overlap = FALSE

Alive == rec \notin {"off", "done", "dead"}
Ends == {"exit", "remove pid", "detach", "detached"}
Starts == {"publish", "attach", "attached"}

-----------------------------------------------------------------------------
\* Start of run_shell

StartAish ==
    /\ ~Alive
    /\ pid < bound.starts
    /\ pid' = pid + 1
    /\ rec' = "publish"
    /\ todo' = <<>> /\ out' = <<>> /\ seen' = FALSE /\ buffer' = <<>>
    /\ usr1' = FALSE /\ usr2' = FALSE
    /\ tty' = <<>>
    /\ UNCHANGED <<shell, emitted, keyVars, logVars, recordVars, suggestVars, cmdVars,
                   faults, historyVars>>

\* The handlers are set before the process can be found.
Publish ==
    /\ rec = "publish"
    /\ pidfile' = pid
    /\ rec' = "attach"
    /\ UNCHANGED <<pid, todo, out, seen, buffer, flagVars, ttyVars, keyVars, logVars, muted, att,
                   suggestVars, cmdVars, faults, historyVars>>

\* mark_attached: what `existing` keeps of the record does not matter here, so the
\* load is not a step of its own; the look at the mute flag is.
Attach ==
    /\ rec = "attach"
    /\ seen' = muted
    /\ rec' = "attached"
    /\ UNCHANGED <<pid, todo, out, buffer, flagVars, ttyVars, keyVars, logVars, recordVars,
                   suggestVars, cmdVars, faults, historyVars>>

Attached ==
    /\ rec = "attached"
    /\ att' = Record("attached", pid, seen)
    /\ shell' = TRUE
    /\ rec' = "signals"
    /\ UNCHANGED <<pid, todo, out, seen, buffer, flagVars, tty, emitted, keyVars, logVars, muted,
                   pidfile, suggestVars, cmdVars, faults, historyVars>>

-----------------------------------------------------------------------------
\* The loop of run_shell

\* What a step of the loop leaves alone, whatever it does.
loopVars == <<pid, seen, shell, emitted, keys, recordVars, cmdVars, faults, historyVars>>

CheckSignals ==
    /\ rec = "signals"
    /\ todo' = (IF usr1 THEN <<"usr1">> ELSE <<>>) \o (IF usr2 THEN <<"usr2">> ELSE <<>>)
    /\ usr1' = FALSE /\ usr2' = FALSE
    /\ rec' = IF usr1 \/ usr2 THEN "events" ELSE "poll"
    /\ UNCHANGED <<loopVars, out, buffer, tty, key, logVars, suggestVars>>

\* The buffer is taken and cleared before the handler looks at the mute flag.
Take == out' = (IF muted THEN <<>> ELSE buffer) /\ buffer' = <<>>

\* Where the handling of the signals goes on.
NextEvent(rest) == IF rest = <<>> THEN "poll" ELSE "events"
HandleEvent ==
    /\ rec = "events"
    /\ Take
    /\ todo' = Tail(todo)
    /\ rec' = IF muted THEN NextEvent(Tail(todo))
              ELSE IF Head(todo) = "usr1" THEN "write" ELSE "truncate"
    /\ UNCHANGED <<loopVars, flagVars, tty, key, logVars, suggestVars>>

WriteConsole ==
    /\ rec = "write"
    /\ console' = console \o out
    /\ out' = <<>>
    /\ rec' = "roll"
    /\ UNCHANGED <<loopVars, flagVars, todo, buffer, tty, key, parts, suggestVars>>

\* rollover_log_file: only a file that is not empty becomes a part.
Rollover ==
    /\ rec = "roll"
    /\ parts' = IF console # <<>> THEN Append(parts, console) ELSE parts
    /\ console' = <<>>
    /\ rec' = NextEvent(todo)
    /\ UNCHANGED <<loopVars, flagVars, todo, out, buffer, tty, key, suggestVars>>

Truncate ==
    /\ rec = "truncate"
    /\ console' = <<>>
    /\ out' = <<>>
    /\ rec' = NextEvent(todo)
    /\ UNCHANGED <<loopVars, flagVars, todo, buffer, tty, key, parts, suggestVars>>

\* Slip: nothing asks whether the shell has exited.
PollOnly ==
    /\ rec = "poll"
    /\ \/ rec' = "signals" /\ (usr1 \/ usr2 \/ (~key /\ tty = <<>>)) /\ UNCHANGED key
       \/ rec' = "load" /\ key /\ key' = FALSE
       \/ rec' = "read" /\ ~key /\ tty # <<>> /\ UNCHANGED key
    /\ UNCHANGED <<loopVars, flagVars, todo, out, buffer, tty, logVars, suggestVars>>

\* wait_nonblocking comes before the PTY is read.  poll times out, is interrupted by
\* a signal, or finds something to read: first the keyboard, then the PTY.
Poll ==
    /\ rec = "poll"
    /\ \/ ~shell /\ rec' = "exit" /\ UNCHANGED key
       \/ /\ shell
          /\ \/ rec' = "signals" /\ (usr1 \/ usr2 \/ (~key /\ tty = <<>>)) /\ UNCHANGED key
             \/ rec' = "load" /\ key /\ key' = FALSE
             \/ rec' = "read" /\ ~key /\ tty # <<>> /\ UNCHANGED key
    /\ UNCHANGED <<loopVars, flagVars, todo, out, buffer, tty, logVars, suggestVars>>

\* Alt+S: the suggestion is read and typed into the shell, then both files are
\* removed.
Inject ==
    /\ rec = "load"
    /\ injected' = IF pending = 0 THEN injected ELSE Append(injected, pending)
    /\ rec' = IF pending = 0 THEN "read" ELSE "clear pending"
    /\ UNCHANGED <<loopVars, flagVars, todo, out, buffer, tty, key, logVars, pending, hint>>

ClearSuggestion ==
    /\ \/ rec = "clear pending" /\ pending' = 0 /\ rec' = "clear hint" /\ UNCHANGED hint
       \/ rec = "clear hint" /\ hint' = 0 /\ rec' = "read" /\ UNCHANGED pending
    /\ UNCHANGED <<loopVars, flagVars, todo, out, buffer, tty, key, logVars, injected>>

\* A read takes a part of what is there; at the end of the PTY the recorder waits
\* for the shell's status and ends with or without it.
Read ==
    /\ rec = "read"
    /\ \/ \E n \in 1..Len(tty) :
             /\ buffer' = buffer \o SubSeq(tty, 1, n)
             /\ tty' = SubSeq(tty, n + 1, Len(tty))
             /\ rec' = "signals"
       \/ /\ tty = <<>>
          /\ rec' = IF shell THEN "signals" ELSE "exit"
          /\ UNCHANGED <<buffer, tty>>
    /\ UNCHANGED <<loopVars, flagVars, todo, out, key, logVars, suggestVars>>

-----------------------------------------------------------------------------
\* End of run_shell

endVars == <<pid, todo, flagVars, ttyVars, keyVars, suggestVars, cmdVars, faults,
             historyVars>>

\* Slip: what is in the buffer at the end is forgotten.
LeaveRest ==
    /\ rec = "exit"
    /\ buffer' = <<>>
    /\ rec' = "remove pid"
    /\ UNCHANGED <<endVars, out, seen, logVars, recordVars>>

WriteRest ==
    /\ rec = "exit"
    /\ console' = IF muted THEN console ELSE console \o buffer
    /\ buffer' = <<>>
    /\ rec' = "remove pid"
    /\ UNCHANGED <<endVars, out, seen, parts, recordVars>>

RemovePid ==
    /\ rec = "remove pid"
    /\ pidfile' = 0
    /\ rec' = "detach"
    /\ UNCHANGED <<endVars, out, seen, buffer, logVars, muted, att>>

\* ShellAttachmentGuard: mark_detached keeps what it has loaded.
Detach ==
    /\ \/ /\ rec = "detach"
          /\ seen' = att.muted
          /\ rec' = "detached"
          /\ UNCHANGED att
       \/ /\ rec = "detached"
          /\ att' = Record("detached", 0, seen)
          /\ rec' = "done"
          /\ UNCHANGED seen
    /\ UNCHANGED <<endVars, out, buffer, logVars, muted, pidfile>>

\* An error of the log file ends run_shell by `?`: AISH_PID stays, and the shell
\* is hung up.
LogFails ==
    /\ rec \in {"write", "roll", "truncate"}
    /\ faults < bound.faults
    /\ faults' = faults + 1
    /\ rec' = "detach"
    /\ shell' = FALSE
    /\ out' = <<>> /\ buffer' = <<>>
    /\ UNCHANGED <<pid, todo, seen, flagVars, tty, emitted, keyVars, logVars, recordVars,
                   suggestVars, cmdVars, historyVars>>

\* aish is killed; so is its shell.
Killed ==
    /\ Alive
    /\ faults < bound.faults
    /\ faults' = faults + 1
    /\ rec' = "dead"
    /\ shell' = FALSE
    /\ todo' = <<>> /\ out' = <<>> /\ seen' = FALSE /\ buffer' = <<>>
    /\ usr1' = FALSE /\ usr2' = FALSE
    /\ UNCHANGED <<pid, tty, emitted, keyVars, logVars, recordVars, suggestVars, cmdVars,
                   historyVars>>

-----------------------------------------------------------------------------
\* The shell and the user

worldVars == <<recVars, logVars, recordVars, suggestVars, cmdVars, faults, since, stray>>

Emit ==
    /\ shell
    /\ emitted < bound.chunks
    /\ emitted' = emitted + 1
    /\ tty' = Append(tty, emitted + 1)
    /\ UNCHANGED <<worldVars, flagVars, shell, keyVars>>

\* PROMPT_COMMAND of aishrc: kill -usr1 $AISH_PID.
Prompt ==
    /\ shell
    /\ usr1' = TRUE
    /\ UNCHANGED <<worldVars, usr2, ttyVars, keyVars>>

ShellExits ==
    /\ shell
    /\ shell' = FALSE
    /\ UNCHANGED <<worldVars, flagVars, tty, emitted, keyVars>>

PressAltS ==
    /\ shell /\ ~key
    /\ keys < bound.keys
    /\ key' = TRUE
    /\ keys' = keys + 1
    /\ UNCHANGED <<worldVars, flagVars, ttyVars>>

-----------------------------------------------------------------------------
\* Commands

commandVars == <<recVars, ttyVars, keyVars, logVars, injected, commands, faults, since>>

Goto(c, at) == cmd' = [cmd EXCEPT ![c].at = at]
Return(c) == cmd' = [cmd EXCEPT ![c] = NoCommand]

\* Processes are alike: an idle one is taken.
Idlers == {c \in Commanders : cmd[c] = NoCommand}
BeginCommand(kind) ==
    /\ commands < bound.commands
    /\ Idlers # {}
    /\ commands' = commands + 1
    /\ LET c == CHOOSE c \in Idlers : TRUE
       IN cmd' = [cmd EXCEPT ![c] = [at |-> "begin", kind |-> kind, pid |-> commands + 1,
                                     att |-> NoRecord]]
    /\ since' = IF since = NotYet /\ kind \in Losing THEN emitted ELSE since
    /\ UNCHANGED <<recVars, flagVars, ttyVars, keyVars, logVars, recordVars, suggestVars,
                   faults, stray>>

\* mute: nothing without a recorder; then the flag, the pid and the record.
MuteFlag(c) ==
    /\ cmd[c].at = "begin" /\ cmd[c].kind = "mute"
    /\ IF pidfile = 0
       THEN Return(c) /\ UNCHANGED muted
       ELSE muted' = TRUE /\ Goto(c, "read pid")
    /\ UNCHANGED <<commandVars, flagVars, pidfile, att, pending, hint, stray>>

ReadPid(c) ==
    /\ cmd[c].at = "read pid"
    /\ cmd' = IF pidfile = 0 THEN [cmd EXCEPT ![c] = NoCommand]
              ELSE [cmd EXCEPT ![c].at = "save", ![c].att = Record("attached", pidfile, TRUE)]
    /\ UNCHANGED <<commandVars, flagVars, recordVars, pending, hint, stray>>

\* unmute: set_muted changes what it has loaded, if there is a record.
Unmute(c) ==
    /\ cmd[c].at = "begin" /\ cmd[c].kind = "unmute"
    /\ muted' = FALSE
    /\ Goto(c, "load")
    /\ UNCHANGED <<commandVars, flagVars, pidfile, att, pending, hint, stray>>

\* Slip: the record stays muted.
LoadUnchanged(c) ==
    /\ cmd[c].at = "load"
    /\ cmd' = [cmd EXCEPT ![c].at = "save", ![c].att = att]
    /\ UNCHANGED <<commandVars, flagVars, recordVars, pending, hint, stray>>
LoadRecord(c) ==
    /\ cmd[c].at = "load"
    /\ cmd' = IF att = NoRecord THEN [cmd EXCEPT ![c] = NoCommand]
              ELSE [cmd EXCEPT ![c].at = "save", ![c].att = [att EXCEPT !.muted = FALSE]]
    /\ UNCHANGED <<commandVars, flagVars, recordVars, pending, hint, stray>>

SaveRecord(c) ==
    /\ cmd[c].at = "save"
    /\ att' = cmd[c].att
    /\ Return(c)
    /\ UNCHANGED <<commandVars, flagVars, muted, pidfile, pending, hint, stray>>

\* resolve_attached_pid: the record decides; without one AISH_PID does.
Attachment == IF att # NoRecord THEN att.pid ELSE pidfile

Resolve(c) ==
    /\ cmd[c].at = "begin" /\ cmd[c].kind \in {"rollout", "truncate"}
    /\ cmd' = IF Attachment = 0 THEN [cmd EXCEPT ![c] = NoCommand]
              ELSE [cmd EXCEPT ![c].at = "signal", ![c].pid = Attachment]
    /\ UNCHANGED <<commandVars, flagVars, recordVars, pending, hint, stray>>

SendSignal(c) ==
    /\ cmd[c].at = "signal"
    /\ LET hit == Alive /\ cmd[c].pid = pid
       IN /\ usr1' = (usr1 \/ (hit /\ cmd[c].kind = "rollout"))
          /\ usr2' = (usr2 \/ (hit /\ cmd[c].kind = "truncate"))
          /\ stray' = (stray \/ ~hit)
    /\ Return(c)
    /\ UNCHANGED <<commandVars, recordVars, pending, hint>>

\* clear: the part files, then what waits for Alt+S.
ClearParts(c) ==
    /\ cmd[c].at = "begin" /\ cmd[c].kind = "clear"
    /\ parts' = <<>>
    /\ Goto(c, "clear pending")
    /\ UNCHANGED <<recVars, ttyVars, keyVars, console, injected, commands, faults, since,
                   flagVars, recordVars, pending, hint, stray>>

ClearFiles(c) ==
    /\ \/ /\ cmd[c].at = "clear pending"
          /\ pending' = 0
          /\ Goto(c, "clear hint")
          /\ UNCHANGED hint
       \/ /\ cmd[c].at = "clear hint"
          /\ hint' = 0
          /\ Return(c)
          /\ UNCHANGED pending
    /\ UNCHANGED <<commandVars, flagVars, recordVars, stray>>

\* queue_shell_suggestion: what is suggested goes by the number of the command.
Queue(c) ==
    /\ \/ /\ cmd[c].at = "begin" /\ cmd[c].kind = "queue"
          /\ pending' = cmd[c].pid
          /\ Goto(c, "hint")
          /\ UNCHANGED hint
       \/ /\ cmd[c].at = "hint"
          /\ hint' = cmd[c].pid
          /\ Return(c)
          /\ UNCHANGED pending
    /\ UNCHANGED <<commandVars, flagVars, recordVars, stray>>

-----------------------------------------------------------------------------
\* What overlaps: commands under way, a recorder that starts, ends or injects.
Busy ==
    (Commanders \ Idlers)
        \cup (IF rec \in Starts \cup Ends \cup {"load", "clear pending", "clear hint"}
              THEN {"aish"} ELSE {})

Recorder ==
    \/ Publish \/ Attach \/ Attached
    \/ CheckSignals \/ HandleEvent \/ WriteConsole \/ Rollover \/ Truncate
    \/ Poll \/ Inject \/ ClearSuggestion \/ Read
    \/ WriteRest \/ RemovePid \/ Detach

Command(c) ==
    \/ MuteFlag(c) \/ ReadPid(c) \/ Unmute(c) \/ LoadRecord(c) \/ SaveRecord(c)
    \/ Resolve(c) \/ SendSignal(c) \/ ClearParts(c) \/ ClearFiles(c) \/ Queue(c)

World == Emit \/ Prompt \/ ShellExits \/ PressAltS \/ LogFails \/ Killed \/ StartAish

Observe == overlap' = (overlap \/ Cardinality(Busy') > 1) /\ UNCHANGED bound

Next ==
    /\ \/ Recorder
       \/ World
       \/ \E kind \in bound.kinds : BeginCommand(kind)
       \/ \E c \in Commanders : Command(c)
    /\ Observe

Spec == Init /\ [][Next]_vars
RecorderRuns == Recorder /\ Observe
FairSpec == Spec /\ WF_vars(RecorderRuns)

-----------------------------------------------------------------------------
\* Properties

Chunks == 1..bound.chunks

\* Each variable holds values of its kind.
TypeOK ==
    /\ rec \in {"off", "signals", "events", "write", "roll", "truncate", "poll",
                "load", "clear pending", "clear hint", "read", "done", "dead"}
              \cup Starts \cup Ends
    /\ {pid, pidfile, pending, hint, keys, commands, faults, emitted, since} \subseteq Nat
    /\ {usr1, usr2, seen, shell, key, muted, stray, overlap} \subseteq BOOLEAN
    /\ ToSet(todo) \subseteq {"usr1", "usr2"}
    /\ ToSet(buffer) \cup ToSet(tty) \cup ToSet(console) \subseteq Chunks
    /\ \A i \in 1..Len(parts) : ToSet(parts[i]) \subseteq Chunks /\ parts[i] # <<>>
    /\ att \in [status : {"none", "attached", "detached"}, pid : 0..bound.starts,
                muted : BOOLEAN]
    /\ \A c \in Commanders : cmd[c].kind \in Kinds \cup {"none"}

\* What the recorder holds while it handles a signal or ends.
InHand == IF rec \in {"write"} THEN out ELSE <<>>
Recorded == FlattenSeq(parts) \o console
Everything == Recorded \o InHand \o buffer \o tty

\* As long as nobody mutes, truncates or clears, the first recorder loses nothing
\* unless it is killed or its log file fails: what it has read is in a part, in
\* console.txt or in the buffer, also when rollouts overlap with prompts, and after
\* the shell has exited.  What is left in the PTY then was never read.
OutputIsKept ==
    (since = NotYet /\ pid = 1 /\ faults = 0) =>
        1..emitted \subseteq ToSet(Everything)

\* When nothing is under way, the files that speak of the same thing agree, as long
\* as no two commands, starts or ends of a recorder overlapped and none was killed:
\* AISH_PID and the record name the recorder that runs, the record is muted when the
\* flag is there, and there is a hint when there is a suggestion.  No signal went to
\* another process.
RecordsAgree ==
    (Busy = {} /\ ~overlap /\ faults = 0) =>
        /\ Alive => pidfile = pid /\ att = Record("attached", pid, muted)
        /\ rec = "done" => pidfile = 0 /\ att = Record("detached", 0, muted)
        /\ pending = hint
        /\ ~stray

\* After the shell has exited, the recorder ends and says so.
ExitEndsRecorder == (Alive /\ ~shell /\ rec \notin Starts) ~> ~Alive

\* Part files, console.txt, the buffer and the PTY hold the output in the order it
\* was printed, and no piece of it twice: not across a rollout, a mute, a truncate,
\* nor the end of one recorder and the start of the next.
OutputInOrder == \A i, k \in 1..Len(Everything) : i < k => Everything[i] < Everything[k]

Typings(n) == {i \in 1..Len(injected) : injected[i] = n}

\* A suggestion is typed into the shell at most once, and once more for every time
\* that aish is killed: it may be killed when it has typed it, before it has removed
\* it (the branch of Alt+S in run_shell).
InjectedOnce == \A n \in ToSet(injected) : Cardinality(Typings(n)) <= 1 + faults

\* No output is lost, doubled or overtaken, and no suggestion is typed too often.
OutputIsWhole == OutputIsKept /\ OutputInOrder /\ InjectedOnce

=============================================================================
