# TLA+ models of aish

aish records what happens in a terminal session, and its command `ai` lets a
language model work in that session: it reads the console, runs tools, and
keeps a history. A daemon (`aish daemon`) runs `ai` commands as background jobs
and serializes part of the writes to a session. This directory holds TLA+
models of these programs, what TLC checks about small instances of them, and
what TLAPS proves for all instances. Paths are those of the repository.

## How to run

    tlc -workers 2 -config DaemonJobs_single.cfg MC_DaemonJobs
    tlapm DaemonJobs_proofs.tla

`PROJECT.json` lists every run with its module, its configuration and what is
expected of it, the source lines behind each definition ("map"), a plausible
slip in the code for each property that makes TLC find it violated ("mutants"),
the hazards of the code, and the theorems. A definition marked *Slip* in a
module is such a mutated form; no specification uses it.

## Inventory

| Component | State | Operations | Interacts with | What is hard | Must hold |
|---|---|---|---|---|---|
| Daemon jobs (`apps/daemon/src/server/mod.rs`) | table of active jobs (pid, parent, state, cancelled) | run_ai, cancel_ai, list | frontend (socket), worker (pipes), event log | a blocking thread per job, a stderr thread, cancels at any moment, signals outside the lock | log, exit code and table agree; a cancel kills the subtree; threads end |
| Backend worker (`apps/daemon/src/worker`, `adapters/inbound/daemon_worker`) | position in the run | lifecycle, interaction, terminal frame | daemon; starts nested `ai` | killed at any point, closed pipes | says how it ended |
| `ai` frontend (`adapters/integration/daemon_client.rs`) | position in the stream, interrupt flag | connect, read frames, answer, cancel | daemon, user | Ctrl-C races the registration | ends, with the right exit code |
| Daemon shell (accept, framing, start, stop, ensure; `daemon_bridge.rs`) | socket file, shutdown flag, cwd and environment of the process | accept, stop, ensure, run a command for a client | commands of `aish` | two daemons, stop with running handlers, one process-wide context | a command runs once, in its own context |
| Memories (`memory_storage.rs`, `memory_repository.rs`) | metadata.json, entries | save, list, get, remove | `ai`, `aish`, daemon | no lock, writes in place | listing and files agree |
| Event log (`libs/storage`, appenders in `apps/ai`) | events.jsonl | next_seq, append, read_all | daemon threads, `ai` processes | no lock, two writes to a line, fallback to a second writer | one event to a line, numbers without gaps, acknowledged events there |
| Derived index (`libs/storage/src/derived.rs`) | index.sqlite, summary.json | apply_from_seq, rebuild_all, read_last_applied_seq | event log, daemon, `ai` | one mutex that not everyone takes, crashes between statements | last_applied_seq never ahead of the rows; nothing forgotten |
| Console recorder (`apps/aish` shell, mute, rollout, clear) | terminal buffer, console.txt, part files, mute flag, attachment, pending input | signals, flush, rollover, truncate, inject | `ai`, commands of other processes (signals, files) | signals coalesce, flags are read late, files are written by both sides | no output lost, doubled or reordered |
| Terminal text (`terminal.rs`, keyboard in `shell.rs`) | lines, cursor, held Escape | process_data, process_stdin | PTY | control sequences, cuts between reads | the record is what was on the screen; keys arrive |
| Prepare session, manifest, compaction, history readers | parts, reviewed files, manifest | prepare, append, compact, load, page, search, clear | recorder, query | crash between rename and append, two `ai` at once | every part is reviewed once, none is lost; pages follow |
| Query loop, agent loop, judge, run_query (`apps/ai/src/usecase`) | messages, turn counters, agent_state.json | stream, tool calls, approval, save, resume | provider, tools, user, event log | interrupts, limits, errors at every write | one result per tool call; the log tells how a run ended; it can be resumed |
| Policy | settings | evaluation | query loop | layers, precedence | nothing runs that was refused |
| Plugin clients (`libs/plugins`, `adapter/plugin`) | next id, channel, children | start, list, call | plugin process | late, foreign and missing answers | an answer belongs to its call |
| LLM drivers | stream state, accumulated calls | request, events, payload | provider, query loop | pieces, cuts, four wire forms | calls and answers arrive as they were made |
| Context pack, selectors, leakscan filter | candidates, child process | select, reduce, screen, send | leakscan (pipes) | budgets, a child that dies | what is sent was screened and fits |
| Tasks, prompts, hooks, modes, profiles | files in many directories | resolve | command line | precedence, two lookups of one name | script and prompt are of one task |
| Command line | environment, sessions | parse, dispatch, hand down | all of the above | nested calls and shells, kills | the right session, recorder and limits |
| `aish init`, md-fmt, xtask, scripts | none | copy or transform text | - | - | - |

`legacy/`, `experimental/`, `examples/` and `assets/` are left aside.

## Modules

| Module | Models | Extends | Proofs |
|---|---|---|---|
| `DaemonJobs` | daemon jobs, worker, frontend, cancel | implements `JobLog` | `DaemonJobs_proofs` |
| `EventLog` | appends to events.jsonl | implements `SessionLog` | `Session_proofs` |
| `DerivedIndex` | index.sqlite and summary.json | | `DerivedIndex_proofs` |
| `MemoryStore`, `Backend` | memories; the daemon as a process and its clients | Backend extends MemoryStore | `Backend_proofs` |
| `ConsoleRecorder`, `ShellTerminal` | the recorder and its files; the bytes it passes on | | `ConsoleRecorder_proofs` |
| `SessionHistory` | parts, manifest, compaction, history tools | | `Session_proofs` |
| `ToolPolicy`, `QueryRun` | verdicts on tool calls; the runs of `ai` | QueryRun extends ToolPolicy | `QueryRun_proofs` |
| `PluginHost` | plugin children and their clients | | `Turn_proofs` |
| `LlmStream` | streams and payloads of the providers | | `Turn_proofs` |
| `ContextPack`, `ContextAddons`, `ContextSend` | the tail window and the budgets; selectors of addons; screening and sending | a chain | `QueryRun_proofs` |
| `Resolution`, `Invocation`, `AishCommand` | lookup of names; a call of `ai` and those below it; a terminal with nested shells | a chain | `Session_proofs` |

`SequenceFacts` has the lemmas on sequences that several proofs cite. `MC_*` modules give the
constants their small values. Three of them
(`MC_Backend`, `MC_ConsoleRecorder`, `MC_Commands`) start in one of several
scenarios, so that each question gets the actors it needs and no more; the last
two also run two specifications side by side that share no variable, of which
one is at rest. This explores the sum of the two state spaces and not their
product.

How the models meet. An `AppendEvent` of `DaemonJobs` and a `Log` step of
`QueryRun` are appends of `EventLog` by a "job" or another writer, followed by
an operation "job", "append" or "ai" of `DerivedIndex`. The parts `SessionHistory` starts from
are those a rollover of `ConsoleRecorder` writes, whose chunks are what
`ShellTerminal` makes of bytes. A level of `Invocation` is a frontend and a worker of
`DaemonJobs`; where it runs a query, that is a run of `QueryRun`, which gets its
calls from `LlmStream`, its verdicts from `ToolPolicy`, the results of plugin
tools from `PluginHost` and its context from `ContextSend`. Each model takes of
the others what it sees of them: a choice of outcomes.

### DaemonJobs

Four kinds of process interleave for each job.

* The **daemon thread** (`run_ai_via_worker`): `EmitQueued`, `LogQueued`,
  `Spawn`, `Register`, `SendRequest`, then for every frame `Forward`, `Record`,
  `LogFrame`, `RelayAnswer`, and at the end `ReadWorkerEof`, `WaitChild`,
  `JoinStderr`, `Remove`, `EmitCancelled`, `LogCancelled`, `EmitCompleted`. Each
  is one call that another process can get between; `thread[j]` is the place in
  the function. An early return by `?` is `thread[j] = "error"`, with the table
  entry, the pipes and the child left as they are: dropping the ends closes the
  pipes, nothing removes the entry. `CopyStderr` and `StderrEof` are its second
  thread.
* The **frontend** (`run_via_backend`): `Connect`, `ReadFrame`, `Answer`,
  `ReadEof`, and for Ctrl-C `Interrupt` and `ResumeReading` around the one
  cancel request. `Vanish` is a frontend that dies.
* The **worker** (`run_worker_stdio`, `run_request`): `Boot`, `AnnounceWait`,
  `Ask`, `GetAnswer`, `Succeed`, `Fail`, `EmitTerminal`, `Complain`, `Crash`.
* The **handlers of cancel_ai**: `Mark` under the lock, one `Kill` per process
  outside it, `AnswerCancel`.

The worker's frames and the socket are bounded sequences (`Capacity`) so that
writes block; a write to a socket or pipe whose reader is gone fails. A frame is
its kind and its state or exit code. Left out: Event and stdout text frames and
the verbose text (they are forwarded as a frame of no effect would be), Ping and
List, the reuse of a pid after `wait` and the errors of kill other than ESRCH.
Only frontends at a terminal get Ctrl-C (`AtTerminal`, root jobs): a nested
frontend is in the process group of its worker. Job ids are unique (they are
made of nanoseconds).

### EventLog

A writer appends by `LocalEventAppender` (mode "off", and a daemon thread, mode
"job"), through the daemon ("on"), or through the daemon with a second attempt by
itself ("auto"). `BeginAppend` is the call, `TakeSeq` is `next_seq` (it reads the file),
`WriteLine` and `EndLine` are the two `write_all`s, `Finish` the return to the caller.
`KillWriter` ends an `ai` process, `DaemonDies` breaks the appends in the daemon, and a write
may be cut short by a full disk. The file is a sequence of events, newlines and
torn pieces, so that a line of two events, an unfinished line and an empty line
are what they are for `next_seq`. A line torn inside a character (`Garbled`) makes a file that
`read_to_string` refuses (`Readable`): `next_seq` takes it for an empty one and returns 1,
and the append that follows, which only opens for append, succeeds.

`calm` is a history variable: no two appends have overlapped and none was cut
off so far. `SessionLog` says what readers may rely on: while it is calm events
are numbered 1, 2, 3, ...; after that a new number still continues one that is
there, and nothing is taken back. `EventLog` implements it with
`events <- EventsOf(file)`. A read that fails for another reason (of permissions or of the
disk) is not modelled.

### DerivedIndex

One operation is an append request of the daemon, a job.lifecycle event, an `ai`
process at the end of its run (or `sessions rebuild-derived`), or a rebuild
request. Its steps are the statements of `apply_from_seq` and `rebuild_all` that
touch a file: `ReadLast`, `ReadLog`, `Check` (need_init), `Remove`, `MakeDir`,
`Create`, `CreateEvents`, `CreateMetadata`, `Open`, `Insert` per row, `Record`,
`Select`, `WriteSummary`. Each SQL statement commits by itself, as there is no
transaction in the code. `Lock` and `End` bracket an operation that takes
`apply_mutex`. `Fail` is any error of the environment, `KillAi` and `KillDaemon`
are kills, `Status` is a derived_status request, which opens the file and may
create it.

SQLite is external and modelled by what the code relies on: open creates an empty
file, CREATE TABLE fails on an existing table, INSERT fails on a taken primary
key, a write through a connection whose file was unlinked fails, a busy database
is waited for (rusqlite's default timeout). The log is taken as serial (seqs
1..log); what happens otherwise is EventLog's subject. `solo` and `mixed` are
history variables: an operation had the files for itself; a rebuild has run
beside another operation.

### MemoryStore and Backend

`MemoryStore` has the file operations of both implementations of a memory
directory (`ai` saves; `aish` lists, gets and removes): reading the listing,
writing an entry, and emptying and rewriting metadata.json are separate steps,
and a file two processes write at once may end as `Torn`. `overlap` is a history
variable: the directories in which two operations were at once.

`Backend` adds the processes: daemons (`Start` removes the socket file, binds,
accepts; a shutdown flag; the removal of the socket file at the end), handlers
(one thread a connection, which waits for the lock of `ProcessContextGuard`,
switches cwd and AISH_HOME of the whole process, works, and switches back) and
front ends, which try a daemon, fall back to running the command themselves when
it is unreachable, or look for a daemon and start one. `Foreign` is a daemon
whose answer to a ping is not accepted. A front end or daemon may be killed
anywhere. A client may be in a directory that is gone (`NoCwd`): the daemon then
switches the environment only (`Switched`). When the daemon cannot go back to its own
directory it stays in that of the client (`PutsBack`, `strayed`).

### ConsoleRecorder and ShellTerminal

`ConsoleRecorder` is the loop of `run_shell` (`StartAish`, `Publish`, `Attach`,
`CheckSignals`, `Take`, `HandleEvent`, `WriteConsole`, `Rollover`, `Truncate`,
`Poll`, `Inject`, `ClearSuggestion`, `Read`, `WriteRest`, `RemovePid`, `Detach`)
beside processes that run mute, unmute, rollout, truncate, clear and the tool that
queues a suggestion, each step of them one file operation or signal. Signals set
flags, so two of them may become one.

`ShellTerminal` has the text: a token is a character, a control character or an
escape sequence, printed as bytes and read in chunks; `process_data` changes
lines, row, column and the saved position. Beside it stands the screen the user
sees, without wrapping, scrolling and characters of two columns. History
variables tell when the two need not agree any more: `odd`, the buffer was given
something it does not follow (see *Known behaviour*), `torn`, a read ended within
a token; after a clear the buffer's first line is another one (`aligned`) and its
saved position an old one (`stale`), which the comparison takes into account. The
other half is `process_stdin`: keys, the held Escape, Alt+S.

### SessionHistory

Two `ai` processes prepare one session: `prepare` lists the parts, reviews one
after another (with an answer of the user where leakscan finds something),
writes its reviewed file or evacuates it, moves the part, appends a record to the
manifest, and compacts when enough records are there; then it loads the history
and writes the messages of the run. `aish clear` takes its steps beside them, and a kill may fall between
any two. The manifest is a sequence of records and newlines, as a record and its
newline are written in two writes; either may fail (`AppendFails`), the first one also after
a part of the record, and the run then ends after its part was moved. `HistoryGet`, `HistorySearch` and the listing
of `aish history` are operators over it. `alone`, `cut`, `lost`, `dropped`, `hidden`
are history variables.

### ToolPolicy and QueryRun

`ToolPolicy` evaluates a tool call: the layers of settings, the mode of a tool
(by tool, by the strictest capability, the default), the rules of
`StdPolicyEngine` in their order, and the test of `run_shell` on the command.
`QueryRun` is `run_query_impl` with `AgentLoop` and `QueryLoop` inside: one
action per call that another process or the user can notice, in the order of the
code, with `Fault` alternatives where the code has a `?`. Ctrl-C only sets
`interrupted`, which the run reads around the model's stream and nowhere else: the
approval a worker asks for (`StreamingToolApproval`) waits for the answer, whatever the flag
says. Failures have a kind (`hit`): the making of the messages, files and event store,
agent_state.json, and all else. The event
log and agent_state.json are what a later run, and the properties, see.

### PluginHost

Both clients: the bridge of `libs/plugins` (`ai` is wired to it) and the
external loader, as two values of `flavor`. A child is a record of its stdin, its
stdout, and the channel its reader thread fills; a plugin may answer late, never,
with an error, or exit, and when `rude` it writes lines nobody asked for. A request that is
longer than the pipe is written only as the plugin reads (stage `write`), which those of
`Deaf` may never do.

### LlmStream

From the messages of the loop to the payload (`Payload`, with a case per
provider), through the response in chunks as each provider frames it, to the
events of the driver and the calls put together by `ToolCallAccumulator`. What
the model says is chosen step by step, and may be cut anywhere by its limit of
tokens. A broken connection and a refusal with its retries are modelled. Around it is as
much of the loops as makes the messages: the calls up to the cap, the last word without
tools at a limit (`withTools`), the instruction of the judge, and the user's "go on".

### ContextPack, ContextAddons, ContextSend

`ContextPack` has the pure part: `TailWindow`, the split of the budget, the
selection by priority, masking. `ContextAddons` has the four selectors over a
`place` (project tree, changed files, memories, console). `ContextSend` has the
order of steps, and `leakscan` as a child with two bounded pipes (`Filters` is what `ai`
does, `Scans` what the child does). The system instruction stands at the front of the pack
(`Baseline`): the history's budget does not count it, the addons' and the hard cap do, and the
egress filter screens it like any message. A leakscan that cannot use its rules file ends with
an error before it reads a line (`ScanFails`; the configuration says whether it can), and
`spoilt` remembers which texts were in the hands of a child that Ctrl-C ended.

### Resolution, Invocation, AishCommand

`Resolution` is operators over a disk: tasks, prompts, skills, packages, hooks,
modes and profiles with the precedence of their directories. `Invocation` is a
chain of calls of `ai`, each started by a script, hook or command of the one
above, with what is handed down (job id and depth, session, home, terminal).
`AishCommand` adds the terminal: a stack of recorders and their shells,
and the command lines typed in the innermost one; sessions are made in two
steps and kills may come between. Some directories may be there from the start (`Foreign`),
as sessions or without a version. Beside the steps of a command runs a second terminal
(`OtherTerminal`), on which one shell at a time is started with `-s` or `resume`, in any
session that is there or can be named: it makes the directory, writes the version, enters,
leaves, or is killed. Looking for the directory and making it are one step, as two who both
find none both write the version. The record of a session has the pid file AISH_PID with it
(`file`), which `mute` attaches again, and which a shell that could not be started
(`StartFails`) leaves behind. `signalled` is the last signal of rollout or
truncate_console_log: the pid that the attachment named, and who recorded the session
then. `lone` is a history variable: the recorders to whose session nobody came, and from which
nobody went, since they started.

## Runs

| Run | Instance | Distinct states |
|---|---|---|
| `single` | one job, Ctrl-C and an operator, one interaction, one failure of the environment | 154,305 |
| `nested` | a parent, a child its worker starts, an operator that cancels either, pipes of one frame | 801,304 |
| `appends` | writers in the modes job, auto and on, one append each, two failures | 207,002 |
| `index` | an append, an `ai` process and a rebuild, one failure, status requests | 1,115,865 |
| `query` | two runs in one of four modes, two calls a turn, one failure | 484,406 |
| `recorder` | five scenarios of the recorder, three of the terminal | 476,995 |
| `history` | two `ai` processes, two queries, either a clear and a kill, a clear and a failing append, or a new part | 538,772 |
| `plugin` | two plugins with one tool name, one of which may never read its stdin, two calls, two stray lines | 296,792 |
| `stream` | four providers, two turns with and without tools, two calls of two pieces, a text, two refusals, an instruction to go on | 3,010,280 |
| `backend` | two commands, a process that saves, two daemons, in three scenarios; one client in a directory that is gone; one kill, or a daemon that cannot go back | 817,442 |
| `commands` | four command lines on two terminals with three made-up names, a directory that may be there, and one kill; one call with all arguments on three disks; a pack of seven configurations with and without an instruction | 1,802,134 |
| `parallel` | the instance of `stream`, one provider of OpenAI's protocol (see *Findings*) | stops at the violation |

Why the bounds suffice for what the properties relate:

* `single`, `nested`: one job has each of its processes, two cancel requests
  (Ctrl-C and an operator) can overlap on it, and a parent with one child shows
  every order of registration and cancellation of one edge; what a longer chain
  adds is covered by the proofs, which bound nothing.
* `appends`: two failures are needed for the double append (the daemon dies, then
  a kill); three writers for two races in a row.
* `index`: an operation works once; a second run of the same kind is another
  operation, and the index after an operation is one of the states the next one
  is started in.
* `query`: two runs are a run and its resume (or a second query that finds an old
  state); the modes are chosen so that each limit is met once, with and without a
  user, with one and with several queries of the agent loop; settings come from
  all layers, one of them invalid. One failure, as a second one meets a run that
  is already on an error path.
* `recorder`: two recorders one after another, two commands, and three chunks
  around a rollover; the terminal prints four tokens one at a time or two at
  once, and five keys are enough for a held Escape with a key on both sides.
* `history`: a part is in the hands of at most two processes; a chunk of one
  record makes the second query compact.
* `plugin`: a late answer and the call it could be taken for are two calls; a
  clash of names needs two plugins.
* `stream`: calls that overlap are two, and so are the pieces of an argument that
  can be cut; the second turn is the one that carries answers.
* `backend`: two operations overlap; a front end that looks for a daemon finds
  none, the old one, or one that is going.
* `commands`: a shell in a shell, a command in it, and what is left after both; or one shell
  on each terminal in one session, and a command in it (`MaxTyped` counts the shells of both);
  four levels are more than the default depth allows. Ctrl-C may be pressed twice beside a
  pack, as with pipes of one line the first one may only free a deadlock.

Deadlock is checked in `single`, `nested`, `appends`, `index`, `query`, and
`plugin`: a state without a step is allowed only when all work is done (`Idle`,
`Done`). The other systems may really stop: no user has to type, and what runs
side by side ends on its own. There `EveryCommandEnds`, `EveryCallEnds` and
`ExitEndsRecorder` say that nothing stops halfway; `history` and `stream`, which
are checked for safety only, have no such property.

`history` and `stream` use the symmetry of processes and of tool names, which
neither specification tells apart.

## What the checks show

| Property | Run | Says |
|---|---|---|
| `OkClosesJob` | single | a thread that returns Ok leaves no entry, a reaped worker, and a final event that says what the last frame said |
| `OutcomesAreTrue` | single | exit code and log never contradict each other; nobody is told of a cancel (130, unless the worker ended with that code itself) before its event is on disk, and unless a request found the job or an ancestor |
| `FoundMeansDead` | single | an answer "found" comes after the worker's death |
| `JobLogSpec` | single | the events of a job follow `JobLog` |
| `CancelEndsFrontend`, `DeadWorkerFreesThread` | single | liveness: a cancelled job's `ai` returns; the thread of a dead worker returns |
| `MarkedIsDeadOrDying` | nested | no marked job is forgotten by the handler that marked it |
| `SerialLog` | appends | while appends do not overlap, one event to a line, numbered from 1 |
| `WrittenOnce` | appends | an acknowledged event is in the file, once, or twice after the fallback |
| `SessionLogSpec` | appends | what survives races, kills and a full disk |
| `IndexIsTrue` | index | last_applied_seq is never ahead of the rows unless a rebuild ran beside; an operation alone on the files that reports success has indexed the log |
| `NothingForgotten` | index | operations one after another leave index and summary complete, also of events appended meanwhile |
| `CallsAreHandled` | query | every tool call has one result in its place, and ran at most once, as policy, user and limits let it |
| `RunIsLogged` | query | one terminal event, the last one, that says how the run ended, also after an error of the model, a judge, a policy or a sink |
| `UnfinishedCanResume` | query | after run.failed the run can be resumed from all it began its last loop with, unless agent_state.json could not be written; after run.completed it is done or can be resumed |
| `InterruptEndsRun` | query | after Ctrl-C no response of the model is taken, and (liveness) the run ends once what it asks is answered |
| `OutputIsWhole` | recorder | output is not lost, doubled or overtaken; a suggestion is injected once, or once more for each kill |
| `RecordsAgree` | recorder | AISH_PID, the attachment record, the mute flag and the hint agree when nothing is under way; no signal strays |
| `PassesThrough` | recorder | the record is what was on the screen; every key arrives once and in order but for Alt+S |
| `ExitEndsRecorder` | recorder | liveness: when the shell has exited the recorder ends |
| `RecordedTruly` | history | a part is recorded at most once, and as it was reviewed |
| `PartsAccounted` | history | on its way from the part to the manifest only the message in the hand of a process that is killed, or whose append fails, is lost; until then, and without overlaps, every record can be read |
| `CompactionsFollow` | history | compactions cover the messages in order and none twice |
| `PagesFollow` | history | pages and searches of the history miss and repeat nothing; `aish history` shows what was not cleared |
| `StaysInStep` | plugin | answers belong to their request, calls reach the tool that was shown, no child or late answer is left |
| `AlwaysEnds` | plugin | liveness: no plugin can hang `ai`, unless a request longer than the pipe is written to one that does not read it |
| `CallsAsAsked`, `NothingLost` | stream | the calls and the text of a response arrive, whole or marked as cut |
| `AnswersFollowCalls` | stream | each request tells the conversation in the order its service requires |
| `SerialListing` | backend | listing and files of memories agree while operations do not overlap |
| `WorksInOwnContext` | backend | a command works on the directories of its client, in whichever process, one without a cwd in the directory of the daemon; a daemon with no command in it is as it was started, its directory too unless it could not go back |
| `RunAtMostOnce` | backend | the fallback never repeats what a daemon began |
| `EveryCommandEnds` | backend | liveness: no command waits for ever for a daemon |
| `HandedDown`, `NestedIsDenied` | commands | session and lineage reach every call; without a terminal nobody is asked and nothing unlisted runs |
| `PromptOfTheTask` | commands | script and prompt are those of one task |
| `MadeSessionsWork` | commands | a shell is in a session that `ai` refuses only while that is being made, when that was cut short, or when the directory was found without a version |
| `OwnRecorderSignalled` | commands | a signal reaches the recorder of the shell it is sent from unless another one shares its session, and never a process that records another session or has ended by itself |
| `PackAsPlanned` | commands | an undisturbed run sends what it would if the filter were a function; a secret gets out only in a text whose own scan was interrupted, or with rules leakscan cannot use; the pack with its instruction is within the budgets |
| `EveryCallEnds` | commands | liveness: a command with all calls below it ends or waits for a person |

Many of them hold under a condition that a history variable keeps (`calm`,
`alone`, `solo`, `overlap`, `cut`): the code has no locks there, and what it loses
otherwise is listed under *Known behaviour*. In each of these runs the states
in which the condition is false are reached as well, and the properties without it hold
there.

## Fairness

* `DaemonJobs` (`FairSpec`): the daemon thread, its stderr thread, the frontend's
  steps and the cancel handlers are threads the operating system runs; a user who
  is asked answers (`Answer`), as the code has no timeout there. Nothing is
  assumed of a worker (a model may take for ever) or of the environment.
* `QueryRun`: the program's own steps (`Works`), with models and tools that
  answer in the end, and a user who is asked for an approval (`Approve`), as neither worker
  nor frontend has a timeout there. Not of Ctrl-C or of new runs.
* `ConsoleRecorder`: the loop of the recorder, which polls with a timeout.
* `Backend`: daemons, handlers and front ends. One condition serves all, as no
  part can go on for ever: the polls are counted.
* `PluginHost`: the caller, whose waits for answers have timeouts, and that a plugin reads
  its stdin unless it is one of `Deaf`. Nothing else need be done by a plugin.
* `AishCommand`: what programs do by themselves (`Serves`); people and kills are
  not assumed.

## Findings

* `parallel` (`CallsKeepTheirNames`): `ToolCallAccumulator` is documented as a map
  from call_id to name, arguments and signature (`query_loop.rs:169`), and has one
  current id (`query_loop.rs:201`). When an OpenAI-compatible server begins a
  second call before the first one's arguments are complete, which the index of
  each delta allows and the driver passes on, the arguments end up at the wrong
  call. `CallsAsAsked` shows that this is the only way.

## Known behaviour

Seen while modelling; the models contain these where they are within their scope
(their properties exclude them by a stated condition), and no run is made of them.

Daemon
* `server/mod.rs:736`: descendants are collected once, so a child that registers
  during the cancel survives it (`tests/integration.sh:808` expects the subtree to end).
* `server/mod.rs:555`: when the write of the request fails, the job stays in the table.
* `daemon_client.rs:475`: Ctrl-C before the registration is answered "not found" and
  the cancel is not repeated.
* A task's script that ends with 130 makes `ai` return 130, the code of a cancelled job, with a
  log that says completed (`std_process.rs:71`, `server/mod.rs:696`).
* `daemon_bridge.rs:36`: a client whose own directory is gone is served in the daemon's, so
  `aish memory` lists and removes the memories of the project the daemon was started in;
  without a daemon it sees none. `daemon_bridge.rs:58`: a daemon that cannot return to its
  directory stays in the last client's.
* `server/mod.rs:132`, `:172`: a daemon removes the socket file whoever it belongs to.
* `daemon_cli.rs:46`: `ensure` never starts a daemon, so the autostart of `ai`
  (`daemon_client.rs:44`) fails.
* `daemon_cli.rs:257`: the listing hides jobs whose parents form a cycle.
* A daemon that was started with AISH_BACKEND_JOB_ID in its environment hands that
  id to every nested `ai`; AI_MAX_TURNS and the XDG directories are those of the
  daemon. A script that a worker runs inherits the worker's pipe as stdin.

Event log and index
* `local_event_appender.rs:28`: two appends may take the same number, where
  `event_envelope.rs:32` says numbers increase.
* `ndjson_session_event_store.rs:57`: a kill between the two writes joins two events
  on a line (`:13` says one line, one JSON), and no later append or read gets past it. A line
  torn inside a character is worse (`:34`): every later event gets the number 1.
* `server/mod.rs:414`: RebuildDerived takes no mutex (`derived.rs:363`); an application
  that began before it recreates the index with the new events only.
* `derived.rs:164`: an index file left without tables is not repaired by
  `sessions rebuild-derived`, though `session_derived_builder.rs:9` says so.

Recorder and terminal
* Two processes in the same millisecond draw the same part id; output while muted
  stays in the buffer; SIGUSR1 may be handled before the last output is read; an error of
  the handler leaves AISH_PID, a killed recorder an attached record.
* `process_data` keeps nothing between reads: an escape sequence or a character cut
  there leaves garbage or drops the text of the read. A backspace removes the character
  (so a cursor key that prints `\b` loses text), `ESC [` before a multibyte character slices
  inside it, large row numbers make as many lines, and other escapes leave their last letter.
* A lone Escape is held until the next key, also at the end of input; Alt+S with an
  Escape after it in one read is both injected and forwarded; Alt+S not at the front of a
  read is forwarded. What follows a prompt marker in a read is not searched.
* `aish` killed between typing a suggestion (`shell.rs:522`) and removing it (`shell.rs:534`)
  leaves it for the next one, which offers it again.
* A nested `aish` records into the same session, and when it ends the outer one is
  marked detached, so `aish mute` no longer reaches it.

History
* `.history_send_from` counts the lines of the manifest, and `aish history ls`
  (`reviewed_history_reader/mod.rs:144`) uses it as an index of messages: after a clear of a
  manifest with compactions new messages are not listed. The history tools of the model
  ignore it; summaries may still hold cleared text (`clear.rs:93`).
* A part is moved away before its record is appended: when the append fails
  (`leakscan_prepare_session.rs:282`), the run ends with the error and no later one records
  the message; an append that fails at its newline spoils the next record as well.
* Two `ai` may review one part with different answers; a clear beside a prepare makes
  its rename fail or leaves a reviewed file without a record.

Query
* An interrupted loop's tool results are not in the saved state, though
  `query_loop.rs:439` says "State saved for resume". An error between clearing the old state
  and saving the answer loses both (`app.rs:1041`); a failing append of run.failed skips the
  rescue; a failing rebuild of derived data after run.completed turns success into an error.
* The end of a run at a limit without finalization never reaches the sinks; Ctrl-C at
  "Continue?" or in an approval is noticed after the answer, when the next stream begins: the approval
  that watches the flag (`approval.rs:77`) is wired neither in a worker (`run_request.rs:484`)
  nor in the frontend (`daemon_client.rs:582`). Prompts take the end of input for Enter.
* `ai --no-interactive` can still be asked to continue when the frontend overrides it
  (`args.rs:139` says no continue).
* `run_shell`'s own mode is never consulted (`shell_allowlist_rule.rs:29`); `byTool["run_shell"]`
  of a file wins over AISH_RUN_SHELL_MODE; a project's table of tools replaces the user's
  (`config_loader.rs:118`); an invalid setting falls back to the defaults (`wiring.rs:342`).

Plugins and providers
* The write of a request has no timeout (`stdio_jsonrpc.rs:277`,
  `external_plugin_stdio_client.rs:313`): a request longer than the pipe holds `ai` for as long
  as the plugin does not read it.
* A request without tools (the last word at a limit) passes over calls that come all the same
  (`query_loop.rs:496`).
* A broken manifest ends the discovery of all plugins; a tool's policy hint may be of
  another plugin with the same name; a sanitized name may be that of a built-in tool.
* `openai_compat.rs:194` and `gpt.rs:223` append an empty user message after tool results,
  which `gemini.rs:234` avoids; a call cut before its first argument runs with `{}`;
  ids of gemini and echo may repeat.

Context
* A text longer than both pipes with a hit deadlocks `ai` and leakscan until Ctrl-C
  (`leakscan_text_filter.rs:33`); one that is interrupted counts as clean in a check and cuts the
  text in a mask. A leakscan that cannot read or parse its rules (`tools/leakscan/src/main.rs:71`)
  ends with an error, which counts as clean as well: everything is sent unscreened. A line of the console cut in two by the limit
  may be one the scanner does not know.
* The history gets what the addons' budget leaves: with max_messages not above it the
  query itself is dropped.
* `aish memory list` shows nothing when the project's and the global directory are one
  (`memory_repository.rs:64`); metadata torn by a kill is never repaired.

Commands
* A session has one attachment record: a second terminal that enters it gets the signals of the
  first (`shell_attachment_store.rs:49`), and when it leaves, the first is marked detached. After
  a shell that did not start AISH_PID stays, and `mute` attaches the process that is gone.
* `aish -s DIR` or `resume` enters a directory without a version, in which `ai` then refuses to
  work (`session.rs:178` leaves it to migrate.sh).
* `aish -s DIR ai foo` passes DIR to `ai` as its task and does not set the session
  (`bins/aish-cli/src/lib.rs`); AISH_SESSION wins over `-d`; mute, rollout, unmute and clear
  outside of a session make one.
* Names of sessions are listed in byte order, which is not the order of time
  (`std_path_resolver.rs:98` against `sessions.rs:77`), so that resume may take an older one.
* `rebuild-derived` without a session takes a name that does not exist; a task name with "/" finds a prompt
  and no script; `-M` with a missing file is ignored; a dry run runs the hooks; hooks in
  ~/.aish run twice when no project is nearer; errors of a worker all become exit code 64.

## Proofs

TLAPS proves these for every value of the constants that satisfies the modules'
assumptions. `JobsAssumption`: jobs form a forest by their parents. `WritersAssumption`,
`OperationsAssumption`, `HistoryAssumption`: bounds are numbers and every actor has a
kind. `PolicyAssumption`, `RunAssumption`: the limits are numbers and every call has a
known command. `MemoryAssumption`, `BackendAssumption`: directories and contexts fit each
other, the processes of different kinds are different ones, a set of memories is not the
mark of an empty, torn or missing file. `PluginAssumption`: plugins are numbered, the deaf
ones among them. `StreamAssumption`: the bounds are numbers, the providers are those of the
code, the empty name is no tool, and a run starts with an instruction or without one.
`RecorderAssumption`: the scenarios bound what happens by numbers, and `aish` itself is
not one of the finitely many commands. `InvocationAssumption`: a variable that is not set
is no number, AISH_JOB_DEPTH is one if it is anything, and a script is in a directory.
`AishAssumption`: the names that are made up are counted, a listing gives each of them one
place, what may be there before is named, and what is not given is neither a path nor a command. Only the plugins and these commands are finite
sets; the jobs, operators, writers, operations, `ai` processes, daemons, clients and
memories need not be.

* `DaemonJobs_proofs`
  * `TypeCorrect`: `Spec => []TypeOK`, one lemma per kind of process and one step
    per action.
  * `MarkedDies`: `Spec => []MarkedIsDeadOrDying`, and `FoundIsDead`:
    `Spec => []FoundMeansDead`. Neither is inductive. The invariant is
    `KillInv`, which adds that a job before its registration has no entry and no
    mark (`EarlyIsUnknown`), that a request was found only if its target was
    registered (`FoundIsRegistered`), and that the target of a request that is
    killing is on its list or dead (`FoundIsListed`). It is inductive relative to
    `TypeOK` and to `Unconnected` (a job whose frontend has not connected has no
    thread and no worker). The heart is `Kill`: a handler takes a job off its
    list only by killing its worker, and no action brings a dead worker back.
  * `OkClosesTheJob`: `Spec => []OkClosesJob`, `OutcomesTold`: `Spec => []OutcomesAreTrue`,
    and `JobsFollowJobLog`: the daemon implements `JobLog`, as the events of a job are a
    path of its states. All three come from one invariant, `StoryInv`, which follows a
    frame on its way: what the worker has written last (`WorkerInPhase`), that the frames
    in the pipe continue each other (`Linked`), the one in the thread's hand
    (`FrameInHand`), what the log ends with at each place of the thread (`LogFollows`), and
    what the client has read or will read (`StreamTells`, `OutcomeTells`). `Ended` says
    that a thread past its `wait` has reaped the worker, `MarkedWasAskedFor` that a mark
    has a request behind it which found the job or one above.
* `Session_proofs`, of `EventLog`
  * `TypeCorrect`; it needs that `next_seq` returns a number (`NextSeqType`),
    which rests on the existence of the largest index of a line with text
    (`MaxOfIndices`, by well-foundedness of `<` on the naturals).
  * `NumbersHaveNoGaps`: `NoGaps` is strengthened by `PendingContinues` (a number
    that was taken but not written continues an event that is there already), as
    a file only grows.
  * `BrokenStaysBroken`: the action property `BrokenIsFinal`, from `TypeOK`: a log that ends in
    a broken line never changes again; one torn inside a character is never readable again, and
    all that is appended to it has the number 1.
  * `CalmLogIsSerial`: `CalmInv` adds to `SerialLog` that at most one append is
    under way while it is calm, that its number is the next one, and that the
    file is of odd length just while a line waits for its newline.
  * `EveryEventIsWrittenOnce`: `WrittenOnce` follows from `CopiesInv`, which says for
    each writer where its latest event is: before a leg writes the line, the event is
    in the file only if the daemon's leg had failed after a fault; behind the line it is
    there; and it is acknowledged only behind the line. The copies are counted by
    `TimesAppend`: a line adds one copy of its own event and none of another.
  * `LogFollowsSessionLog`: the event store implements `SessionLog`, with
    `events <- EventsOf(file)`. A whole line is an `Add`, an overlap, a cut and a torn
    line are a `Disturb`, every other step is a stutter. `EventsInv` ties the events to the
    tokens of the file, on a calm log every second one; with `CalmInv` and
    `PendingContinues` it gives the number that `Add` asks for. What the recursive function
    `EventsOf` makes of a file with one token more is shown by a minimal counterexample.
* `QueryRun_proofs`, about every set of modes and calls, and every bound. One
  invariant of seven parts serves the first three theorems:
  * `EveryCallIsHandled`: `CallsAreHandled` needs `Answered` (a call in hand is the
    last message and the rest is paired, as a call is put down before its result),
    `Fitting` (results and the calls left together are within the limit, since calls
    past it are cut off when an answer arrives) and `Ordered` (the calls left are newer
    than all that were started, so none can start twice, also after a continuation).
  * `EndsAreLogged`: `RunIsLogged` needs `EndLogged` (a terminal event is in the log at
    the places behind it and at no other) and `CallsLogged` (only the call in hand
    may be started and not ended, unless the event store failed).
  * `WhatIsLeftCanResume`: `UnfinishedCanResume` needs `Kept`: messages are only added to what
    the loops began with, on the way from the loops to the file, through an error
    (`rescue`) as well as a limit; and the last event of a run that `?` ends tells at which
    place that happened (`LastEvent`).

  Of `ToolPolicy`, for every table of modes, plugin and command:
  * `StrictestCapability`, from the lemmas that a mode is a mode (`ModeIsAMode`) and
    that among modes there is a strictest (`StrictestExists`).
  * `UnaskedIsAllowed`: where no layer allows anything, nothing runs unasked but a plugin's
    tool whose hint allows it and commands on the lists of run_shell. A layer replaces
    whole tables, so that a file or the command line keeps `AllowsNothing`, and so do the
    defaults that invalid settings fall back to.
  * `NobodyIsAsked`: without a user the verdict is not a question.
  * `UnknownIsNotAllowed`: a name nobody knows needs an approval or is denied.

  Of `ContextPack`, for every history and budget:
  * `TailKeepsLast`: what `TailWindow` returns is an end of the history that holds
    its last message, unless no message is allowed. It rests on `FirstExists`, the least
    of a set of positions.
  * `TailIsWithin`: it has no more messages than the budget allows.

  Of `ContextSend`, for every history, project and budget, and pipes of any size:
  * `PackIsAsPlanned`: `PackAsPlanned`. The invariant (`SendInv`) has seven parts. `GivenInv`:
    what a run is given stays. `ChildInv` is about the text under way: of a child that runs, or
    has ended by itself, the text's lines are, in order, those already looked at, those in
    stdin and those not yet written (`Untouched`), and what it has said, in stdout and
    in `answer`, is said of exactly the lines looked at (`Said`), so that the whole answer is
    about the whole text (`Talks`); whatever ends it, a mask lets no secret through and adds no
    line (`Pipes`), and only Ctrl-C or unusable rules end it early. `IdealInv`: in an undisturbed
    run each outcome so far is the one a function of the text would give, so that
    `SentAsFiltered` follows at `Build` and `Decide`. `CaughtInv` holds in every run: the last
    filter says of each text with a secret that it has one, unless the text is `spoilt`;
    as every text has an outcome or is still on the list (`PackInv`), `SecretsStay` follows at
    `Decide`. `PackInv` also has that a masked text is no longer than the text it stands for,
    so that masking does not leave the budget. That the pack was within it before masking
    (`InBudget`, the instruction counted) is
    `TailFits` for the history (also as to characters), `SelectedFits` for the addons, and
    that a stable sort puts each addon in one place (`EveryPlaceTaken`); the two budgets are
    split so that the sums add up. The numbers of characters of joined, shortened and
    inserted lists are `FlattenConcat` and `FlattenShorter` of `SequenceFacts`.
    The theorem takes from `SendAssumption` that the selectors return addons (a number as
    priority, lines as text): `Collected` is built with `SelectSeq`, about which nothing can be
    proved here for every test, and TLC evaluates it for the inputs of the run.
* `Turn_proofs`, of `PluginHost`, about every set of plugins and names:
  * `AlwaysInStep`: `StaysInStep`. That an answer belongs to its call rests on
    `Numbered`: what a child has still to answer, has answered or may answer again has
    numbers below the client's next one, so that only the request under way has the
    number that is waited for. That nothing is left over rests on `Drained`: a child of
    the bridge that is not given up has at most one answer or request under way, and
    none when the bridge does not wait for it (`NoAnswer` gives a late one up).
    Everything a child does, and a kill, only ever takes from this (`Tamer`).
* `Turn_proofs`, of `LlmStream`, for every provider, every set of tools and every bound. One
  invariant (`ResponseInvariant`) says how far the reading of the events has come (`Reading`, a
  fold over them) against what the model has said so far:
  * `StreamIsTyped`: the types of the state.
  * `CallsAreAsAsked`: `CallsAsAsked`. While the model makes one call after the other, the one
    slot of the accumulator belongs to the call that is open (`OneByOne`), it has no pieces
    of an earlier one (`Emptied`: the arguments come with the end), and what was put together is a
    call the model made (`AsAsked`).
  * `NothingIsLost`: `NothingLost`. The calls that were read and those that are open are as many
    as were made, each made one is open or was read (`Accounted`), and the end of a
    response leaves nothing open (`Streaming`, `Ended`, `Taken`). The texts, and the response
    that is to have no calls, have an invariant of their own (`TextInv`).
  * `AnswersAreInPlace`: `AnswersFollowCalls`. Its invariant `Conversation` is about the fold that
    makes the messages of the wire: for each message more, the list so far is complete or
    waits for results (`Converted`), and it tells the calls and texts of the conversation in their
    order; an instruction leaves it alone (`AddSystem`). The payload of each provider tells what the list tells, as it is a map of
    the list's elements to pieces which are put one after the other.
* `Backend_proofs`, about every set of daemons, clients, savers and memories:
  * `ContextIsTheClients`: `WorksInOwnContext` needs that a handler that works holds
    its daemon's lock, that the daemon is then in its client's context as far as the client
    has one (`Serves`), and that the guard remembers the daemon's own (`HolderOwns`); that
    a daemon without a handler is as it was started (`FreeIsOwn`), and that handlers are in
    daemons that have not ended (`HandlersRun`).
  * `CarriedOutOnce`: `RunAtMostOnce` needs that a command which no handler took was
    carried out by nobody (`OneCarriesOut`), so that the local run after a failed
    connection is the first, and that an answer or an end with success is that of a command
    nobody works on any more (`SuccessIsTrue`).
  * `ListingsAgree`: `SerialListing`. In a directory without an overlap (`Serial`) at most
    one process is at work; while nobody has the listing in hand it names what it should
    (`Truthful`), and a process that has read it `Knows` that what it will write back does.
    `FilesFollow` ties each place of a save and of a removal to the state of its one file,
    and `WorkOK` a command to the directories of the context it runs in, wherever it runs.
    That the other directories, and a directory at rest, are left alone is said once
    (`Moved`, `Spares`) and used for every step.
* `DerivedIndex_proofs`, about every set of operations. The argument is in three layers:
  * `IndexTellsTheTruth`: `IndexIsTrue`. Whatever happens, a connection that can write has
    the file under it (`Handles`), who has met nobody has not (`Apart`), and what an operation
    skips or has taken on is in the index or on its list (`Covers`). What an operation that
    has the files for itself `Knows` of them makes its Ok true, whatever was there before.
  * `IndexHoldsTheLog`: `NothingForgotten`. While the operations come one after the other and
    nothing fails (`InOrder`), each leaves the files `Whole`, the next `Finds` them so, and
    the end of the log is in the index, on a list, or still to be seen by somebody
    (`Follows`).
* `Session_proofs`, of `SessionHistory` for every number of `ai` processes:
  * `PartsRecordedTruly`: `RecordedTruly`. A message is a part, or in the hand of one
    process that has moved it away, or recorded, and only one of these (`Apart`): `rename`
    fails for the second of two processes. While the runs do not overlap, what is under
    review is not recorded, and what is about to be recorded is what the reviewed file says
    (`Solo`).
  * `NoPartLost`: `PartsAccounted`. A message leaves a hand only for the manifest, or for
    `lost` when its process is killed or its append fails. `Counted` bounds the ids, so that a
    new part is a new message. While nothing is cut off and the runs do not overlap, records and
    newlines take turns (`Lined`), so that every record is a line of its own.
  * `CompactionsInOrder`: `CompactionsFollow`. While the runs do not overlap (`Order`), the ids in
    the manifest ascend, what is still to be reviewed is younger (`TodoAscends`), the
    compactions of whole lines cover one range after the other (`RangesAscend`), and what is
    compacted is what was loaded (`Loaded`): what is loaded of the manifest behind
    its last compaction begins after its range. A kill between a record and its newline spoils
    the line after it as well, and what is left still ascends.

  Of `Invocation` and `AishCommand`, for every catalog, every limit and every length of a
  line of calls and of a stack of shells. `LineOK` looks at one level and the one above it:
  a level below another has the environment of the worker that waits for it and is denied
  everything without a terminal (`Linked`), and its request says what its environment says
  (`AsAsked`). `AishInv` adds the shells, the command that is typed and the sessions.
  * `SessionHandedDown`: `HandedDown`. That a line's first level keeps its environment is
    carried along with every step (`LineGoesOn`); `CallsOK` says that it began with the
    session of the shell, and `CommandOK` that a command has the environment of its shell.
  * `NestedDenied`: `NestedIsDenied`. A worker's environment always has a depth
    (`WorkerHasDepth`), so the rule answers for every nested call without a terminal.
  * `PromptIsTheTasks`: `PromptOfTheTask`. `TaskFound` says at which places the prompt and
    the script are settled; that the two lookups agree is `SameTask`, and it needs that a
    script is in a directory, as one of them asks for the directory and the other does not.
  * `EnteredSessionsWork`: `MadeSessionsWork`. A directory without a version is being made by
    one of the two terminals, was cut short, or was found so, and one that was found so nobody
    makes (`SessionsOK`). A step that makes a directory, one that is done with making, and one
    that only writes a record keep this (`DirMade`, `MakerDone`, `RecordSet`).
  * `SignalsReachTheirOwn`: `OwnRecorderSignalled`. A recorder that had its session for itself
    is attached to it (`Owned`), and while none was killed or failed to start, who is attached
    or in AISH_PID records the session (`Held`); both are said of the set of recorders, whatever
    terminal they are of, so that one lemma each serves whoever comes and whoever goes (`Comes`,
    `GoesAway`). A command that names no session works in the one of its shell (`CommandOK`).
* `ConsoleRecorder_proofs`, about every set of commands and every scenario:
  * `TypeCorrect`: `Spec => []TypeOK`, from `Shape`.
  * `OutputWhole`: `OutputIsWhole`. The output stands in a chain of places (`Chain`): the
    parts, console.txt, what the loop has in hand, the buffer, and the PTY. Each rises and
    lies below the next, so that a step which moves what is at an edge keeps the order, and
    one that loses a place does as well. For nothing to be lost (`Kept`) it takes that no
    command which may lose output has left a flag, a signal or an entry of the loop's list
    (`NothingLosing`). What is typed is counted by the number of the suggestion (`Typing`):
    one that is to come has not been typed (`ToCome`), and different commands have different
    numbers (`BeginnersDiffer`). What `FlattenSeq` makes of one part more is `FlattenAppend`
    of `SequenceFacts`.
  * `FilesAgree`: `RecordsAgree`. It says for every place of the recorder (`RecorderSays`)
    and of the one command under way (`CommandSays`) what the pid file, the record, the
    flag and the hint hold, as long as nothing overlapped and nothing was killed. That
    only one thing is under way (`Alone`) is kept because an overlap is noted in the step
    that makes it.

  Of `ShellTerminal`, for any number of keys, however many a read takes:
  * `EveryKeyArrives`: `KeysArrive`, the half of `PassesThrough` about the keyboard. What is in
    hand and unread are the last keys typed (`TypedInv`), the numbers of those forwarded ascend
    and lie below (`ForwardedInv`), and each key below is forwarded or taken; one that is
    taken belongs to an Alt+S, as the keys at the front are pairs (`FrontAre`), and was
    forwarded as well only if an escape came after it (`TakenInv`).

The proof of `OutputWhole` did not go through at first, and rightly: `InjectedOnce` said
that a suggestion is typed at most once, which fails when `aish` is killed after it has
typed a suggestion and before it has removed pending_input.json. The property now allows one
more time for each kill, and a scenario of the run has a kill beside a suggestion.

Induction. What a fold or a recursive function makes of one element more is needed in
several places: of `EventsOf`, `FlattenSeq`, `FoldLeft` (the reading of the events, the
conversion of the messages). The library's theorems on induction take an operator as a
parameter, which none of the installed provers can instantiate; `SequenceFacts`
has induction over numbers said of a set instead (`SetInduction`, from the well-foundedness of `<`),
from which it is proved that the functions a fold chooses exist (`FlattensExists`) and
what they return for one element more (`FlattenAppend`).

Only model-checked:
* Liveness: the prover does not reason about ENABLED and fairness.
* `PagesFollow`, and of `PassesThrough` the half about the screen (`RecordedAsShown`). Each
  compares the outcome of an algorithm (the screen a sequence of control codes draws, a page of
  a searched history) with a definition of another shape, and a proof would have to show
  several recursions equal.

No module has a RECURSIVE operator.

## Not modelled

* `aish init`, md-fmt, xtask and the scripts: they copy or transform text once.
* HTTP itself, the choice of a model, and the rendering of events.
* What `run_shell` and the file tools do to files: any program may run there.
* A frame of the daemon's socket torn by the read timeout of 100 ms.
* Terminals that wrap or scroll, and characters of two columns.
* leakscan's patterns: only whether it finds something.
* The wording of help and errors, logging, and the layout of listings.

## What is left

* A proof of `RecordedAsShown`, token by token.
* `DerivedIndex` over a log with equal numbers, where a rebuild fails on the primary
  key (`derived.rs:406`).
* A composition of `DaemonJobs` with `EventLog`: the jobs' events in one file.
