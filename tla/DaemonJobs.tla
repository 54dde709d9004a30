----------------------------- MODULE DaemonJobs -----------------------------
(***************************************************************************)
(* Backend jobs of the daemon.  An `ai` frontend connects to the daemon    *)
(* and sends run_ai; a blocking daemon thread (run_ai_via_worker) spawns a *)
(* worker process, copies its frames to the frontend, keeps an entry of    *)
(* the job in the table of active jobs and appends a job.lifecycle event   *)
(* for every state.  cancel_ai marks a job and its registered descendants  *)
(* under the lock of the table and then kills their workers, outside it.   *)
(*                                                                         *)
(* Four kinds of process interleave: frontends, daemon threads (with the   *)
(* thread that copies the worker's stderr), workers, and the handlers of   *)
(* cancel_ai.  A worker may start a nested frontend, whose job names the   *)
(* worker's job as its parent.                                             *)
(***************************************************************************)
EXTENDS Integers, Sequences, FiniteSets

CONSTANTS
    Jobs,       \* job ids, one per run_ai request
    NoJob,      \* "no parent"
    Parent,     \* the parent_job_id of each job
    Logged,     \* jobs whose request has a session_dir (others log nothing)
    AtTerminal, \* jobs whose user may press Ctrl-C
    Operators,  \* `aish daemon cancel` processes, each cancels one job
    Capacity,   \* frames a socket or a pipe holds before a write blocks
    MaxAsks,    \* bound: interactions one worker asks for
    MaxFaults   \* bound: failures of the environment in one behaviour

\* Job ids are resolved before the parent exists in the environment of the
\* child, so the parent relation has no cycle: a nonempty set of jobs has a
\* member whose parent is outside the set.
JobsAssumption ==
    /\ NoJob \notin Jobs
    /\ Parent \in [Jobs -> Jobs \cup {NoJob}]
    /\ \A S \in SUBSET Jobs : S # {} => \E j \in S : Parent[j] \notin S
    /\ Logged \subseteq Jobs
    /\ AtTerminal \subseteq {j \in Jobs : Parent[j] = NoJob}
    /\ Operators \cap (Jobs \cup {NoJob}) = {}
    /\ Capacity \in Nat \ {0}
    /\ MaxAsks \in Nat
    /\ MaxFaults \in Nat

ASSUME JobsAssumption

VARIABLES
    frontend,   \* where each `ai` process is in run_via_backend
    outcome,    \* what run_via_backend returned
    stream,     \* frames written to the client socket and not read yet
    answered,   \* an InteractionResponse is in the socket towards the daemon
    thread,     \* where each run_ai_via_worker is
    frame,      \* the frame run_ai_via_worker has in hand
    active,     \* active_jobs: "none", or the state of the entry
    cancelled,  \* the cancelled flag of the entry
    worker,     \* where each worker process is
    stdin,      \* what is in the worker's stdin
    pipe,       \* frames in the worker's stdout
    stderr,     \* the thread that copies the worker's stderr
    noise,      \* the worker's stderr holds text
    cancel,     \* where each cancel_ai request is
    target,     \* the job each cancel_ai request names
    victims,    \* the workers a cancel_ai handler has yet to kill
    found,      \* the `found` of its answer
    log,        \* job.lifecycle events of each job, in the order of the file
    asks,       \* interactions each worker has asked for
    faults      \* failures of the environment so far

frontendVars == <<frontend, outcome>>
socketVars   == <<stream, answered>>
threadVars   == <<thread, frame>>
tableVars    == <<active, cancelled>>
workerVars   == <<worker, asks>>
pipeVars     == <<stdin, pipe, noise>>
cancelVars   == <<cancel, target, victims, found>>
vars == <<frontendVars, socketVars, threadVars, tableVars, workerVars,
          pipeVars, stderr, cancelVars, log, faults>>

-----------------------------------------------------------------------------
\* Values

JobStates == {"queued", "running", "waiting_interaction",
              "cancelled", "completed", "failed"}
FinalStates == {"cancelled", "completed", "failed"}

\* AiStreamFrame: a Lifecycle frame carries a state, a Completed frame an
\* exit code, of which only 130 is told apart: the code the daemon gives a
\* cancelled job, and one that the script of a task may end with itself.
Lifecycle(s) == [kind |-> "Lifecycle", arg |-> s]
InteractionRequest == [kind |-> "InteractionRequest", arg |-> "none"]
TextOutput == [kind |-> "TextOutput", arg |-> "none"]
Completed(code) == [kind |-> "Completed", arg |-> code]
Failed == [kind |-> "Failed", arg |-> "none"]
NoFrame == [kind |-> "none", arg |-> "none"]

Frames == {Lifecycle(s) : s \in JobStates}
          \cup {Completed(c) : c \in {"exit", "130"}}
          \cup {InteractionRequest, TextOutput, Failed}
Terminal(f) == f.kind \in {"Completed", "Failed"}

FrontendPcs == {"idle", "launched", "streaming", "prompting", "cancelling",
                "done"}
ThreadPcs == {"idle", "emit_queued", "log_queued", "spawn", "register",
              "send_request", "reading", "record", "log", "await", "wait",
              "join", "remove", "emit_cancelled", "log_cancelled",
              "emit_completed", "ok", "error"}
LiveWorker == {"booting", "running", "asking", "awaiting", "completing",
               "failing", "failed", "complaining"}
WorkerPcs == LiveWorker \cup {"none", "dead", "reaped"}

Clients == Jobs \cup Operators

Registered == {j \in Jobs : active[j] # "none"}
Alive(j) == worker[j] \in LiveWorker
Finished(j) == thread[j] \in {"ok", "error"}

\* collect_descendant_job_ids: the entries reached from root through the
\* parent_job_id of entries that are in the table now.
Descendants(root) ==
    {j \in Registered :
        \A S \in SUBSET Registered :
            (/\ root \in S
             /\ \A k \in Registered : Parent[k] \in S => k \in S) => j \in S}

Init ==
    /\ frontend = [j \in Jobs |-> IF Parent[j] = NoJob THEN "launched" ELSE "idle"]
    /\ outcome = [j \in Jobs |-> "none"]
    /\ stream = [j \in Jobs |-> <<>>]
    /\ answered = [j \in Jobs |-> FALSE]
    /\ thread = [j \in Jobs |-> "idle"]
    /\ frame = [j \in Jobs |-> NoFrame]
    /\ active = [j \in Jobs |-> "none"]
    /\ cancelled = [j \in Jobs |-> FALSE]
    /\ worker = [j \in Jobs |-> "none"]
    /\ stdin = [j \in Jobs |-> "empty"]
    /\ pipe = [j \in Jobs |-> <<>>]
    /\ stderr = [j \in Jobs |-> "none"]
    /\ noise = [j \in Jobs |-> FALSE]
    /\ cancel = [c \in Clients |-> "idle"]
    /\ target = [c \in Clients |-> NoJob]
    /\ victims = [c \in Clients |-> {}]
    /\ found = [c \in Clients |-> FALSE]
    /\ log = [j \in Jobs |-> <<>>]
    /\ asks = [j \in Jobs |-> 0]
    /\ faults = 0

\* One more failure of the environment.
Fault == faults < MaxFaults /\ faults' = faults + 1

-----------------------------------------------------------------------------
\* Frontend: run_via_backend

\* The task or tool of a running worker starts a nested `ai`.
Launch(j) ==
    /\ frontend[j] = "idle"
    /\ Parent[j] # NoJob
    /\ worker[Parent[j]] = "running"
    /\ frontend' = [frontend EXCEPT ![j] = "launched"]
    /\ UNCHANGED <<outcome, socketVars, threadVars, tableVars, workerVars,
                   pipeVars, stderr, cancelVars, log, faults>>

\* Connect and send run_ai; the daemon starts run_ai_via_worker for it.
Connect(j) ==
    /\ frontend[j] = "launched"
    /\ frontend' = [frontend EXCEPT ![j] = "streaming"]
    /\ thread' = [thread EXCEPT ![j] = "emit_queued"]
    /\ UNCHANGED <<outcome, socketVars, frame, tableVars, workerVars,
                   pipeVars, stderr, cancelVars, log, faults>>

\* What the frontend returns on a terminal frame: the exit code it carries.
OutcomeOf(f) == IF f.kind = "Completed" THEN f.arg ELSE "failed"

\* Read one frame: print it, prompt for an answer, or return on a terminal one.
ReadFrame(j) ==
    LET f == Head(stream[j]) IN
    /\ frontend[j] = "streaming"
    /\ stream[j] # <<>>
    /\ stream' = [stream EXCEPT ![j] = Tail(@)]
    /\ frontend' = [frontend EXCEPT ![j] =
                      IF Terminal(f) THEN "done"
                      ELSE IF f = InteractionRequest THEN "prompting"
                      ELSE "streaming"]
    /\ outcome' = [outcome EXCEPT ![j] = IF Terminal(f) THEN OutcomeOf(f) ELSE @]
    /\ UNCHANGED <<answered, threadVars, tableVars, workerVars, pipeVars,
                   stderr, cancelVars, log, faults>>

\* The user (or the automatic denial of a nested job) answers a prompt.
Answer(j) ==
    /\ frontend[j] = "prompting"
    /\ IF Finished(j) /\ stderr[j] # "open"
       THEN \* the daemon closed the socket: the write fails
            /\ frontend' = [frontend EXCEPT ![j] = "done"]
            /\ outcome' = [outcome EXCEPT ![j] = "lost"]
            /\ UNCHANGED answered
       ELSE /\ frontend' = [frontend EXCEPT ![j] = "streaming"]
            /\ answered' = [answered EXCEPT ![j] = TRUE]
            /\ UNCHANGED outcome
    /\ UNCHANGED <<stream, threadVars, tableVars, workerVars, pipeVars,
                   stderr, cancelVars, log, faults>>

\* The read reaches the end of the stream: both the thread and the copier
\* of stderr have dropped their handle of the client socket.
ReadEof(j) ==
    /\ frontend[j] = "streaming"
    /\ stream[j] = <<>>
    /\ Finished(j)
    /\ stderr[j] # "open"
    /\ frontend' = [frontend EXCEPT ![j] = "done"]
    /\ outcome' = [outcome EXCEPT ![j] = "lost"]
    /\ UNCHANGED <<socketVars, threadVars, tableVars, workerVars, pipeVars,
                   stderr, cancelVars, log, faults>>

\* Ctrl-C seen between two reads: one cancel_ai for the own job, sent once.  A
\* nested frontend is in the daemon's process group and has no terminal.
Interrupt(j) ==
    /\ j \in AtTerminal
    /\ frontend[j] = "streaming"
    /\ cancel[j] = "idle"
    /\ frontend' = [frontend EXCEPT ![j] = "cancelling"]
    /\ cancel' = [cancel EXCEPT ![j] = "requested"]
    /\ target' = [target EXCEPT ![j] = j]
    /\ UNCHANGED <<outcome, socketVars, threadVars, tableVars, workerVars,
                   pipeVars, stderr, victims, found, log, faults>>

\* The answer to cancel_ai is read and ignored.
ResumeReading(j) ==
    /\ frontend[j] = "cancelling"
    /\ cancel[j] = "answered"
    /\ frontend' = [frontend EXCEPT ![j] = "streaming"]
    /\ UNCHANGED <<outcome, socketVars, threadVars, tableVars, workerVars,
                   pipeVars, stderr, cancelVars, log, faults>>

\* The frontend is killed, or leaves the loop on an error of its own output.
Vanish(j) ==
    /\ frontend[j] \in {"streaming", "prompting", "cancelling"}
    /\ Fault
    /\ frontend' = [frontend EXCEPT ![j] = "done"]
    /\ outcome' = [outcome EXCEPT ![j] = "lost"]
    /\ UNCHANGED <<socketVars, threadVars, tableVars, workerVars, pipeVars,
                   stderr, cancelVars, log>>

Frontend(j) ==
    \/ Launch(j) \/ Connect(j) \/ ReadFrame(j) \/ Answer(j) \/ ReadEof(j)
    \/ Interrupt(j) \/ ResumeReading(j) \/ Vanish(j)

-----------------------------------------------------------------------------
\* Daemon thread: run_ai_via_worker

Gone(j) == frontend[j] = "done"

\* write_client_frame, and where the thread goes when it worked.  The write
\* blocks while the socket is full.  A write to a client that has left fails,
\* and `?` ends the thread with an error.
SendClient(j, f, next) ==
    IF Gone(j)
    THEN /\ thread' = [thread EXCEPT ![j] = "error"]
         /\ UNCHANGED stream
    ELSE /\ Len(stream[j]) < Capacity
         /\ thread' = [thread EXCEPT ![j] = next]
         /\ stream' = [stream EXCEPT ![j] = Append(@, f)]

\* append_job_lifecycle_event: nothing for a request without a session; the
\* append may fail, which ends the thread too.
AppendEvent(j, s, next) ==
    \/ /\ thread' = [thread EXCEPT ![j] = next]
       /\ log' = [log EXCEPT ![j] = IF j \in Logged THEN Append(@, s) ELSE @]
       /\ UNCHANGED faults
    \/ /\ j \in Logged
       /\ Fault
       /\ thread' = [thread EXCEPT ![j] = "error"]
       /\ UNCHANGED log

EmitQueued(j) ==
    /\ thread[j] = "emit_queued"
    /\ SendClient(j, Lifecycle("queued"), "log_queued")
    /\ UNCHANGED <<frontendVars, answered, frame, tableVars, workerVars,
                   pipeVars, stderr, cancelVars, log, faults>>

LogQueued(j) ==
    /\ thread[j] = "log_queued"
    /\ AppendEvent(j, "queued", "spawn")
    /\ UNCHANGED <<frontendVars, socketVars, frame, tableVars, workerVars,
                   pipeVars, stderr, cancelVars>>

Spawn(j) ==
    /\ thread[j] = "spawn"
    /\ \/ /\ thread' = [thread EXCEPT ![j] = "register"]
          /\ worker' = [worker EXCEPT ![j] = "booting"]
          /\ UNCHANGED faults
       \/ /\ Fault
          /\ thread' = [thread EXCEPT ![j] = "error"]
          /\ UNCHANGED worker
    /\ UNCHANGED <<frontendVars, socketVars, frame, tableVars, asks, pipeVars,
                   stderr, cancelVars, log>>

Register(j) ==
    /\ thread[j] = "register"
    /\ thread' = [thread EXCEPT ![j] = "send_request"]
    /\ active' = [active EXCEPT ![j] = "queued"]
    /\ cancelled' = [cancelled EXCEPT ![j] = FALSE]
    /\ UNCHANGED <<frontendVars, socketVars, frame, workerVars, pipeVars,
                   stderr, cancelVars, log, faults>>

\* Write the request to the worker's stdin and start the copier of its
\* stderr; the write fails when the worker is already dead.
SendRequest(j) ==
    /\ thread[j] = "send_request"
    /\ IF Alive(j)
       THEN /\ thread' = [thread EXCEPT ![j] = "reading"]
            /\ stdin' = [stdin EXCEPT ![j] = "request"]
            /\ stderr' = [stderr EXCEPT ![j] = "open"]
       ELSE /\ thread' = [thread EXCEPT ![j] = "error"]
            /\ UNCHANGED <<stdin, stderr>>
    /\ UNCHANGED <<frontendVars, socketVars, frame, tableVars, workerVars,
                   pipe, noise, cancelVars, log, faults>>

\* Slip: a terminal frame is forwarded but not logged.
AfterForwardUnlogged(f) ==
    CASE f.kind = "Lifecycle" -> "record"
      [] Terminal(f) -> "wait"
      [] OTHER -> "await"

\* What follows the forwarding of a frame.
AfterForward(f) ==
    CASE f.kind = "Lifecycle" -> "record"
      [] Terminal(f) -> "log"
      [] OTHER -> "await"

\* Read a frame of the worker and write it to the client.
Forward(j) ==
    LET f == Head(pipe[j]) IN
    /\ thread[j] = "reading"
    /\ pipe[j] # <<>>
    /\ pipe' = [pipe EXCEPT ![j] = Tail(@)]
    /\ frame' = [frame EXCEPT ![j] = f]
    /\ SendClient(j, f, AfterForward(f))
    /\ UNCHANGED <<frontendVars, answered, tableVars, workerVars, stdin,
                   noise, stderr, cancelVars, log, faults>>

\* The worker closed its stdout: the loop ends without a terminal frame.
ReadWorkerEof(j) ==
    /\ thread[j] = "reading"
    /\ pipe[j] = <<>>
    /\ ~Alive(j)
    /\ thread' = [thread EXCEPT ![j] = "wait"]
    /\ frame' = [frame EXCEPT ![j] = NoFrame]
    /\ UNCHANGED <<frontendVars, socketVars, tableVars, workerVars, pipeVars,
                   stderr, cancelVars, log, faults>>

\* Slip: completed and failed are logged with the Lifecycle frame as well.
RecordLogsAll(j) ==
    /\ thread[j] = "record"
    /\ active' = [active EXCEPT ![j] = IF @ = "none" THEN @ ELSE frame[j].arg]
    /\ thread' = [thread EXCEPT ![j] = "log"]
    /\ UNCHANGED <<frontendVars, socketVars, frame, cancelled, workerVars,
                   pipeVars, stderr, cancelVars, log, faults>>

\* A Lifecycle frame overwrites the state of the entry, a cancelled one too;
\* completed and failed are logged with the terminal frame, not with this one.
Record(j) ==
    /\ thread[j] = "record"
    /\ active' = [active EXCEPT ![j] = IF @ = "none" THEN @ ELSE frame[j].arg]
    /\ thread' = [thread EXCEPT ![j] =
                    IF frame[j].arg \in {"completed", "failed"}
                    THEN "reading" ELSE "log"]
    /\ UNCHANGED <<frontendVars, socketVars, frame, cancelled, workerVars,
                   pipeVars, stderr, cancelVars, log, faults>>

\* The event a frame is logged as.
EventOf(f) ==
    CASE f.kind = "Completed" -> "completed"
      [] f.kind = "Failed" -> "failed"
      [] OTHER -> f.arg

LogFrame(j) ==
    /\ thread[j] = "log"
    /\ AppendEvent(j, EventOf(frame[j]),
                   IF Terminal(frame[j]) THEN "wait" ELSE "reading")
    /\ UNCHANGED <<frontendVars, socketVars, frame, tableVars, workerVars,
                   pipeVars, stderr, cancelVars>>

\* Block on the client's InteractionResponse and hand it to the worker.
RelayAnswer(j) ==
    /\ thread[j] = "await"
    /\ answered[j]
    /\ answered' = [answered EXCEPT ![j] = FALSE]
    /\ IF Alive(j)
       THEN /\ thread' = [thread EXCEPT ![j] = "reading"]
            /\ stdin' = [stdin EXCEPT ![j] = "response"]
       ELSE /\ thread' = [thread EXCEPT ![j] = "error"]
            /\ UNCHANGED stdin
    /\ UNCHANGED <<frontendVars, stream, frame, tableVars, workerVars, pipe,
                   noise, stderr, cancelVars, log, faults>>

\* The client left while the thread waits for its answer.
AwaitEof(j) ==
    /\ thread[j] = "await"
    /\ ~answered[j]
    /\ Gone(j)
    /\ thread' = [thread EXCEPT ![j] = "error"]
    /\ UNCHANGED <<frontendVars, socketVars, frame, tableVars, workerVars,
                   pipeVars, stderr, cancelVars, log, faults>>

\* child.wait(): the zombie is collected.
WaitChild(j) ==
    /\ thread[j] = "wait"
    /\ worker[j] = "dead"
    /\ worker' = [worker EXCEPT ![j] = "reaped"]
    /\ thread' = [thread EXCEPT ![j] = "join"]
    /\ UNCHANGED <<frontendVars, socketVars, frame, tableVars, asks, pipeVars,
                   stderr, cancelVars, log, faults>>

\* Slip: a copier that stopped on an error is never joined.
JoinStderrClosed(j) ==
    /\ thread[j] = "join"
    /\ stderr[j] = "closed"
    /\ thread' = [thread EXCEPT ![j] = "remove"]
    /\ UNCHANGED <<frontendVars, socketVars, frame, tableVars, workerVars,
                   pipeVars, stderr, cancelVars, log, faults>>

\* stderr_thread.join(): an error of the copier ends the thread here, before
\* the entry is removed.
JoinStderr(j) ==
    /\ thread[j] = "join"
    /\ stderr[j] \in {"closed", "broken"}
    /\ thread' = [thread EXCEPT ![j] =
                    IF stderr[j] = "broken" THEN "error" ELSE "remove"]
    /\ UNCHANGED <<frontendVars, socketVars, frame, tableVars, workerVars,
                   pipeVars, stderr, cancelVars, log, faults>>

\* Remove the entry and choose how to end.
Remove(j) ==
    /\ thread[j] = "remove"
    /\ active' = [active EXCEPT ![j] = "none"]
    /\ cancelled' = [cancelled EXCEPT ![j] = FALSE]
    /\ thread' = [thread EXCEPT ![j] =
                    IF Terminal(frame[j]) THEN "ok"
                    ELSE IF cancelled[j] THEN "emit_cancelled"
                    ELSE "error"]
    /\ UNCHANGED <<frontendVars, socketVars, frame, workerVars, pipeVars,
                   stderr, cancelVars, log, faults>>

\* Slip: the exit code is sent without logging the cancellation first.
EmitCancelledUnlogged(j) ==
    /\ thread[j] = "emit_cancelled"
    /\ SendClient(j, Lifecycle("cancelled"), "emit_completed")
    /\ UNCHANGED <<frontendVars, answered, frame, tableVars, workerVars,
                   pipeVars, stderr, cancelVars, log, faults>>

EmitCancelled(j) ==
    /\ thread[j] = "emit_cancelled"
    /\ SendClient(j, Lifecycle("cancelled"), "log_cancelled")
    /\ UNCHANGED <<frontendVars, answered, frame, tableVars, workerVars,
                   pipeVars, stderr, cancelVars, log, faults>>

LogCancelled(j) ==
    /\ thread[j] = "log_cancelled"
    /\ AppendEvent(j, "cancelled", "emit_completed")
    /\ UNCHANGED <<frontendVars, socketVars, frame, tableVars, workerVars,
                   pipeVars, stderr, cancelVars>>

EmitCompleted(j) ==
    /\ thread[j] = "emit_completed"
    /\ SendClient(j, Completed("130"), "ok")
    /\ UNCHANGED <<frontendVars, answered, frame, tableVars, workerVars,
                   pipeVars, stderr, cancelVars, log, faults>>

Thread(j) ==
    \/ EmitQueued(j) \/ LogQueued(j) \/ Spawn(j) \/ Register(j)
    \/ SendRequest(j) \/ Forward(j) \/ ReadWorkerEof(j) \/ Record(j)
    \/ LogFrame(j) \/ RelayAnswer(j) \/ AwaitEof(j) \/ WaitChild(j)
    \/ JoinStderr(j) \/ Remove(j)
    \/ EmitCancelled(j) \/ LogCancelled(j) \/ EmitCompleted(j)

-----------------------------------------------------------------------------
\* The thread that copies the worker's stderr to the client

CopyStderr(j) ==
    /\ stderr[j] = "open"
    /\ noise[j]
    /\ noise' = [noise EXCEPT ![j] = FALSE]
    /\ IF Gone(j)
       THEN /\ stderr' = [stderr EXCEPT ![j] = "broken"]
            /\ UNCHANGED stream
       ELSE /\ Len(stream[j]) < Capacity
            /\ stream' = [stream EXCEPT ![j] = Append(@, TextOutput)]
            /\ UNCHANGED stderr
    /\ UNCHANGED <<frontendVars, answered, threadVars, tableVars, workerVars,
                   stdin, pipe, cancelVars, log, faults>>

StderrEof(j) ==
    /\ stderr[j] = "open"
    /\ ~noise[j]
    /\ ~Alive(j)
    /\ stderr' = [stderr EXCEPT ![j] = "closed"]
    /\ UNCHANGED <<frontendVars, socketVars, threadVars, tableVars, workerVars,
                   pipeVars, cancelVars, log, faults>>

Copier(j) == CopyStderr(j) \/ StderrEof(j)

-----------------------------------------------------------------------------
\* Worker: run_worker_stdio, run_request and the approval round trip

\* A frame is written, blocking on a full pipe, while the daemon thread holds
\* the other ends of the pipes.  Once the thread has returned every write fails and every read of
\* stdin ends: the worker gives up and prints its error.
Emit(j, f, next) ==
    IF Finished(j)
    THEN /\ worker' = [worker EXCEPT ![j] = "complaining"]
         /\ UNCHANGED pipe
    ELSE /\ Len(pipe[j]) < Capacity
         /\ worker' = [worker EXCEPT ![j] = next]
         /\ pipe' = [pipe EXCEPT ![j] = Append(@, f)]

\* Read the request; run_request refuses it (depth, arguments, directory), or
\* announces that the job runs.
Boot(j) ==
    /\ worker[j] = "booting"
    /\ stdin[j] = "request"
    /\ stdin' = [stdin EXCEPT ![j] = "empty"]
    /\ \/ /\ worker' = [worker EXCEPT ![j] = "failing"]
          /\ UNCHANGED pipe
       \/ Emit(j, Lifecycle("running"), "running")
    /\ UNCHANGED <<frontendVars, socketVars, threadVars, tableVars, asks,
                   noise, stderr, cancelVars, log, faults>>

\* round_trip: announce the wait, then ask.
AnnounceWait(j) ==
    /\ worker[j] = "running"
    /\ asks[j] < MaxAsks
    /\ asks' = [asks EXCEPT ![j] = @ + 1]
    /\ Emit(j, Lifecycle("waiting_interaction"), "asking")
    /\ UNCHANGED <<frontendVars, socketVars, threadVars, tableVars, stdin,
                   noise, stderr, cancelVars, log, faults>>

Ask(j) ==
    /\ worker[j] = "asking"
    /\ Emit(j, InteractionRequest, "awaiting")
    /\ UNCHANGED <<frontendVars, socketVars, threadVars, tableVars, asks,
                   stdin, noise, stderr, cancelVars, log, faults>>

\* The answer arrives, and the run goes on without a Lifecycle frame; or
\* stdin is closed.
GetAnswer(j) ==
    /\ worker[j] = "awaiting"
    /\ stdin[j] = "response" \/ Finished(j)
    /\ stdin' = [stdin EXCEPT ![j] = "empty"]
    /\ worker' = [worker EXCEPT ![j] =
                    IF stdin[j] = "response" THEN "running" ELSE "failing"]
    /\ UNCHANGED <<frontendVars, socketVars, threadVars, tableVars, asks,
                   pipe, noise, stderr, cancelVars, log, faults>>

\* The run returns Ok or Err: first the Lifecycle frame, then the terminal one.
Succeed(j) ==
    /\ worker[j] = "running"
    /\ Emit(j, Lifecycle("completed"), "completing")
    /\ UNCHANGED <<frontendVars, socketVars, threadVars, tableVars, asks,
                   stdin, noise, stderr, cancelVars, log, faults>>

Fail(j) ==
    /\ worker[j] \in {"running", "failing"}
    /\ Emit(j, Lifecycle("failed"), "failed")
    /\ UNCHANGED <<frontendVars, socketVars, threadVars, tableVars, asks,
                   stdin, noise, stderr, cancelVars, log, faults>>

\* The exit code of a task's script goes into the frame as it is, 130 too.
EmitTerminal(j) ==
    /\ \/ /\ worker[j] = "completing"
          /\ \E code \in {"exit", "130"} : Emit(j, Completed(code), "dead")
       \/ /\ worker[j] = "failed"
          /\ Emit(j, Failed, "complaining")
    /\ UNCHANGED <<frontendVars, socketVars, threadVars, tableVars, asks,
                   stdin, noise, stderr, cancelVars, log, faults>>

\* main prints the error to stderr and exits.
Complain(j) ==
    /\ worker[j] = "complaining"
    /\ worker' = [worker EXCEPT ![j] = "dead"]
    /\ noise' = [noise EXCEPT ![j] = stderr[j] = "open"]
    /\ UNCHANGED <<frontendVars, socketVars, threadVars, tableVars, asks,
                   stdin, pipe, stderr, cancelVars, log, faults>>

\* The worker dies by itself (panic, signal, out of memory).
Crash(j) ==
    /\ Alive(j)
    /\ Fault
    /\ worker' = [worker EXCEPT ![j] = "dead"]
    /\ UNCHANGED <<frontendVars, socketVars, threadVars, tableVars, asks,
                   pipeVars, stderr, cancelVars, log>>

Worker(j) ==
    \/ Boot(j) \/ AnnounceWait(j) \/ Ask(j) \/ GetAnswer(j) \/ Succeed(j)
    \/ Fail(j) \/ EmitTerminal(j) \/ Complain(j) \/ Crash(j)

-----------------------------------------------------------------------------
\* cancel_ai: cancel_active_job

\* `aish daemon cancel <job>`, for a job the operator has heard of.
OperatorCancel(o, j) ==
    /\ cancel[o] = "idle"
    /\ thread[j] # "idle"
    /\ cancel' = [cancel EXCEPT ![o] = "requested"]
    /\ target' = [target EXCEPT ![o] = j]
    /\ UNCHANGED <<frontendVars, socketVars, threadVars, tableVars, workerVars,
                   pipeVars, stderr, victims, found, log, faults>>

\* Under the lock: not found, or mark the target and its descendants and
\* collect their pids.
Mark(c) ==
    LET root == target[c] IN
    /\ cancel[c] = "requested"
    /\ IF root \notin Registered
       THEN /\ cancel' = [cancel EXCEPT ![c] = "answered"]
            /\ UNCHANGED <<tableVars, victims, found>>
       ELSE /\ cancel' = [cancel EXCEPT ![c] = "killing"]
            /\ active' = [j \in Jobs |-> IF j \in Descendants(root)
                                         THEN "cancelled" ELSE active[j]]
            /\ cancelled' = [j \in Jobs |-> cancelled[j] \/ j \in Descendants(root)]
            /\ victims' = [victims EXCEPT ![c] = Descendants(root)]
            /\ found' = [found EXCEPT ![c] = TRUE]
    /\ UNCHANGED <<frontendVars, socketVars, threadVars, workerVars, pipeVars,
                   stderr, target, log, faults>>

\* Slip: only a worker that runs is signalled, not one that boots or waits.
KillRunningOnly(c, j) ==
    /\ cancel[c] = "killing"
    /\ j \in victims[c]
    /\ victims' = [victims EXCEPT ![c] = @ \ {j}]
    /\ worker' = [worker EXCEPT ![j] = IF @ = "running" THEN "dead" ELSE @]
    /\ UNCHANGED <<frontendVars, socketVars, threadVars, tableVars, asks,
                   pipeVars, stderr, cancel, target, found, log, faults>>

\* Outside the lock: SIGKILL one of the pids.  A zombie takes the signal
\* without effect, a reaped one is ESRCH and skipped.
Kill(c, j) ==
    /\ cancel[c] = "killing"
    /\ j \in victims[c]
    /\ victims' = [victims EXCEPT ![c] = @ \ {j}]
    /\ worker' = [worker EXCEPT ![j] = IF Alive(j) THEN "dead" ELSE @]
    /\ UNCHANGED <<frontendVars, socketVars, threadVars, tableVars, asks,
                   pipeVars, stderr, cancel, target, found, log, faults>>

\* Slip: the handler answers before the list is empty.
AnswerCancelEarly(c) ==
    /\ cancel[c] = "killing"
    /\ cancel' = [cancel EXCEPT ![c] = "answered"]
    /\ UNCHANGED <<frontendVars, socketVars, threadVars, tableVars, workerVars,
                   pipeVars, stderr, target, victims, found, log, faults>>

AnswerCancel(c) ==
    /\ cancel[c] = "killing"
    /\ victims[c] = {}
    /\ cancel' = [cancel EXCEPT ![c] = "answered"]
    /\ UNCHANGED <<frontendVars, socketVars, threadVars, tableVars, workerVars,
                   pipeVars, stderr, target, victims, found, log, faults>>

Canceller(c) == Mark(c) \/ (\E j \in Jobs : Kill(c, j)) \/ AnswerCancel(c)

-----------------------------------------------------------------------------
\* Everything that was started has ended; the daemon waits for connections.
Quiescent ==
    /\ \A j \in Jobs : /\ frontend[j] \in {"idle", "done"}
                       /\ thread[j] \in {"idle", "ok", "error"}
                       /\ ~Alive(j)
                       /\ stderr[j] # "open"
    /\ \A c \in Clients : cancel[c] \in {"idle", "answered"}
Idle == Quiescent /\ UNCHANGED vars

Next ==
    \/ \E j \in Jobs : Frontend(j) \/ Thread(j) \/ Copier(j) \/ Worker(j)
    \/ \E o \in Operators, j \in Jobs : OperatorCancel(o, j)
    \/ \E c \in Clients : Canceller(c)
    \/ Idle

Spec == Init /\ [][Next]_vars

-----------------------------------------------------------------------------
\* Properties

FrontendOK ==
    /\ frontend \in [Jobs -> FrontendPcs]
    /\ outcome \in [Jobs -> {"none", "exit", "130", "failed", "lost"}]
SocketOK ==
    /\ stream \in [Jobs -> Seq(Frames)]
    /\ answered \in [Jobs -> BOOLEAN]
\* A frame that is recorded or logged is a Lifecycle or a terminal one.
ThreadOK ==
    /\ thread \in [Jobs -> ThreadPcs]
    /\ frame \in [Jobs -> Frames \cup {NoFrame}]
    /\ \A j \in Jobs :
        /\ thread[j] = "record" => frame[j].kind = "Lifecycle"
        /\ thread[j] = "log" => \/ frame[j].kind = "Lifecycle"
                                \/ Terminal(frame[j])
TableOK ==
    /\ active \in [Jobs -> JobStates \cup {"none"}]
    /\ cancelled \in [Jobs -> BOOLEAN]
WorkerOK ==
    /\ worker \in [Jobs -> WorkerPcs]
    /\ asks \in [Jobs -> Nat]
PipeOK ==
    /\ stdin \in [Jobs -> {"empty", "request", "response"}]
    /\ pipe \in [Jobs -> Seq(Frames)]
    /\ noise \in [Jobs -> BOOLEAN]
StderrOK == stderr \in [Jobs -> {"none", "open", "closed", "broken"}]
CancelOK ==
    /\ cancel \in [Clients -> {"idle", "requested", "killing", "answered"}]
    /\ target \in [Clients -> Jobs \cup {NoJob}]
    /\ victims \in [Clients -> SUBSET Jobs]
    /\ found \in [Clients -> BOOLEAN]
LogOK == log \in [Jobs -> Seq(JobStates)]
FaultsOK == faults \in Nat

TypeOK ==
    /\ FrontendOK /\ SocketOK /\ ThreadOK /\ TableOK /\ WorkerOK
    /\ PipeOK /\ StderrOK /\ CancelOK /\ LogOK /\ FaultsOK

LastOf(s) == s[Len(s)]

\* A thread that returns Ok has closed the story of its job: the last event
\* in the log is final and names what the worker's last frame, or the lack of
\* one, says; and the entry is gone from the table.
OkClosesJob ==
    \A j \in Jobs : thread[j] = "ok" =>
        /\ active[j] = "none"
        /\ worker[j] = "reaped"
        /\ j \in Logged =>
            /\ log[j] # <<>>
            /\ LastOf(log[j]) = IF Terminal(frame[j]) THEN EventOf(frame[j])
                               ELSE "cancelled"

\* The code 130 that a frontend returns is the daemon's word for a cancel,
\* unless it is the code the worker itself ended with.
ToldCancelled(j) == outcome[j] = "130" /\ frame[j] # Completed("130")

\* What a frontend may return of a job whose log ends with the event e.
ReturnsFor(e) ==
    CASE e = "completed" -> {"exit", "130"}
      [] e = "failed" -> {"failed"}
      [] e = "cancelled" -> {"130"}

\* What the user saw and what the log says never contradict each other: once
\* both know how the job ended they agree, and a frontend is told of a
\* cancel only after its event is on disk.
OutcomeMatchesLog ==
    \A j \in Logged :
        /\ (/\ outcome[j] \in {"exit", "130", "failed"}
            /\ log[j] # <<>>
            /\ LastOf(log[j]) \in FinalStates) => outcome[j] \in ReturnsFor(LastOf(log[j]))
        /\ ToldCancelled(j) => /\ log[j] # <<>>
                               /\ LastOf(log[j]) = "cancelled"

\* A marked job with a living worker still has its pid on the list of a
\* handler that is killing: no job is marked as cancelled and then forgotten,
\* although the marks are set under the lock and the signals sent outside it.
MarkedIsDeadOrDying ==
    \A j \in Jobs : cancelled[j] /\ Alive(j) =>
        \E c \in Clients : cancel[c] = "killing" /\ j \in victims[c]

\* The answer `found` is not given before the worker of the named job is dead:
\* a job that was found is not running when the client reads the answer.
FoundMeansDead ==
    \A c \in Clients :
        cancel[c] = "answered" /\ found[c] => ~Alive(target[c])

\* j is root, or a job started on behalf of root.
Below(j, root) ==
    \A S \in SUBSET Jobs :
        (root \in S /\ \A k \in Jobs : Parent[k] \in S => k \in S) => j \in S

\* The events of each job follow JobLog (whose log holds the logged jobs).
Abstract == INSTANCE JobLog
JobLogSpec == Abstract!Spec

-----------------------------------------------------------------------------
\* Liveness.  The daemon's threads and handlers and the frontends run, a user
\* answers a prompt; a worker gives no guarantee while its job runs (a model
\* may take forever), but it notices closed pipes.

Fairness ==
    /\ \A j \in Jobs :
        /\ WF_vars(Thread(j))
        /\ WF_vars(Copier(j))
        /\ WF_vars(Connect(j))
        /\ WF_vars(ReadFrame(j) \/ ReadEof(j))
        /\ WF_vars(Answer(j))
        /\ WF_vars(ResumeReading(j))
    /\ \A c \in Clients : WF_vars(Canceller(c))

FairSpec == Spec /\ Fairness

\* A job that is marked as cancelled ends for its user: whatever the thread, the
\* worker and the frontend were doing, `ai` returns.
CancelEndsFrontend ==
    \A j \in Jobs : cancelled[j] ~> frontend[j] = "done"

\* Once its worker is dead a job's thread returns, whoever killed the worker
\* and whatever the thread was waiting for.
DeadWorkerFreesThread ==
    \A j \in Jobs : worker[j] = "dead" ~> Finished(j)

\* A job ends as cancelled (in the log or for its frontend) only when someone
\* asked to cancel it or a job above it, and that request found its target.
CancelledOnlyOnRequest ==
    \A j \in Jobs :
        (\/ ToldCancelled(j)
         \/ thread[j] \in {"emit_cancelled", "log_cancelled", "emit_completed"}) =>
            \E c \in Clients : found[c] /\ Below(j, target[c])

\* What a frontend is told of its job is what happened to it: what the log says of it, and
\* a cancel only when somebody asked for one.
OutcomesAreTrue == OutcomeMatchesLog /\ CancelledOnlyOnRequest

=============================================================================
