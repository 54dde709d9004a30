------------------------- MODULE DaemonJobs_proofs -------------------------
(***************************************************************************)
(* Proofs about DaemonJobs, for every set of jobs, operators and bounds.   *)
(***************************************************************************)
EXTENDS DaemonJobs, TLAPS

-----------------------------------------------------------------------------
\* Values

\* The frames the daemon and the worker write are frames.
LEMMA FrameFacts ==
    /\ \A s \in JobStates : Lifecycle(s) \in Frames
    /\ Completed("exit") \in Frames
    /\ Completed("130") \in Frames
    /\ InteractionRequest \in Frames
    /\ TextOutput \in Frames
    /\ Failed \in Frames
  BY DEF Frames

\* The outcome of a terminal frame is one of the three results.
LEMMA OutcomeType ==
    \A f \in Frames : OutcomeOf(f) \in {"exit", "130", "failed"}
  BY DEF OutcomeOf, Frames, Lifecycle, Completed, Failed, TextOutput,
     InteractionRequest

\* A frame that reaches the record or the log has a state to record.
LEMMA EventType ==
    \A f \in Frames \cup {NoFrame} :
        f.kind = "Lifecycle" \/ Terminal(f) => EventOf(f) \in JobStates
  BY DEF Frames, EventOf, Terminal, Lifecycle, Completed, InteractionRequest,
         TextOutput, Failed, NoFrame, JobStates

\* Membership of the values the actions assign.
LEMMA PcFacts ==
    /\ {"queued", "cancelled", "running", "waiting_interaction", "completed",
        "failed"} \subseteq JobStates
    /\ {"emit_queued", "log_queued", "spawn", "register", "send_request",
        "reading", "record", "log", "await", "wait", "join", "remove",
        "emit_cancelled", "log_cancelled", "emit_completed", "ok", "error"}
       \subseteq ThreadPcs
    /\ {"booting", "running", "asking", "awaiting", "completing", "failing",
        "failed", "complaining", "dead", "reaped"} \subseteq WorkerPcs
  BY DEF JobStates, ThreadPcs, WorkerPcs, LiveWorker

-----------------------------------------------------------------------------
\* Updates of one member of a family of sequences, and the three writes

\* Appending a value keeps the family.
LEMMA AppendType ==
    ASSUME NEW T, NEW g \in [Jobs -> Seq(T)], NEW j \in Jobs, NEW v \in T
    PROVE  [g EXCEPT ![j] = Append(@, v)] \in [Jobs -> Seq(T)]
<1>1. Append(g[j], v) \in Seq(T)
  OBVIOUS
<1> QED
  BY <1>1

\* Taking the head off keeps the family.
LEMMA TailType ==
    ASSUME NEW T, NEW g \in [Jobs -> Seq(T)], NEW j \in Jobs, g[j] # <<>>
    PROVE  /\ Head(g[j]) \in T
           /\ [g EXCEPT ![j] = Tail(@)] \in [Jobs -> Seq(T)]
<1>1. Head(g[j]) \in T /\ Tail(g[j]) \in Seq(T)
  OBVIOUS
<1> QED
  BY <1>1

\* write_client_frame: the thread goes on or ends, the socket holds frames.
LEMMA SendClientType ==
    ASSUME SocketOK, NEW j \in Jobs, NEW f \in Frames, NEW next,
           SendClient(j, f, next)
    PROVE  /\ stream' \in [Jobs -> Seq(Frames)]
           /\ thread' = [thread EXCEPT ![j] = next]
              \/ thread' = [thread EXCEPT ![j] = "error"]
<1>1. [stream EXCEPT ![j] = Append(@, f)] \in [Jobs -> Seq(Frames)]
      /\ stream \in [Jobs -> Seq(Frames)]
  BY AppendType DEF SocketOK
<1> QED
  BY <1>1, Zenon DEF SendClient, Gone

\* append_job_lifecycle_event: the same for the log.
LEMMA AppendEventType ==
    ASSUME LogOK, FaultsOK, NEW j \in Jobs, NEW s \in JobStates, NEW next,
           AppendEvent(j, s, next)
    PROVE  /\ LogOK' /\ FaultsOK'
           /\ thread' = [thread EXCEPT ![j] = next]
              \/ thread' = [thread EXCEPT ![j] = "error"]
<1>1. [log EXCEPT ![j] = Append(@, s)] \in [Jobs -> Seq(JobStates)]
  BY AppendType DEF LogOK
<1>2. log' \in [Jobs -> Seq(JobStates)]
  BY <1>1 DEF AppendEvent, LogOK
<1>3. faults' \in Nat
  BY DEF AppendEvent, Fault, FaultsOK
<1>4. thread' = [thread EXCEPT ![j] = next]
      \/ thread' = [thread EXCEPT ![j] = "error"]
  BY Zenon DEF AppendEvent
<1> QED
  BY <1>2, <1>3, <1>4 DEF LogOK, FaultsOK

\* A write of the worker: it goes on or gives up, the pipe holds frames.
LEMMA EmitType ==
    ASSUME PipeOK, NEW j \in Jobs, NEW f \in Frames, NEW next,
           Emit(j, f, next)
    PROVE  /\ pipe' \in [Jobs -> Seq(Frames)]
           /\ worker' = [worker EXCEPT ![j] = next]
              \/ worker' = [worker EXCEPT ![j] = "complaining"]
<1>1. [pipe EXCEPT ![j] = Append(@, f)] \in [Jobs -> Seq(Frames)]
      /\ pipe \in [Jobs -> Seq(Frames)]
  BY AppendType DEF PipeOK
<1> QED
  BY <1>1, Zenon DEF Emit, Finished

-----------------------------------------------------------------------------
\* Type correctness

\* What a step leaves alone keeps its type.
LEMMA KeepType ==
    /\ FrontendOK /\ UNCHANGED frontendVars => FrontendOK'
    /\ SocketOK /\ UNCHANGED socketVars => SocketOK'
    /\ ThreadOK /\ UNCHANGED threadVars => ThreadOK'
    /\ TableOK /\ UNCHANGED tableVars => TableOK'
    /\ WorkerOK /\ UNCHANGED workerVars => WorkerOK'
    /\ PipeOK /\ UNCHANGED pipeVars => PipeOK'
    /\ StderrOK /\ UNCHANGED stderr => StderrOK'
    /\ CancelOK /\ UNCHANGED cancelVars => CancelOK'
    /\ LogOK /\ UNCHANGED log => LogOK'
    /\ FaultsOK /\ UNCHANGED faults => FaultsOK'
<1>1. FrontendOK /\ UNCHANGED frontendVars => FrontendOK'
  BY DEF FrontendOK, frontendVars
<1>2. SocketOK /\ UNCHANGED socketVars => SocketOK'
  BY DEF SocketOK, socketVars
<1>3. ThreadOK /\ UNCHANGED threadVars => ThreadOK'
  BY DEF ThreadOK, threadVars
<1>4. TableOK /\ UNCHANGED tableVars => TableOK'
  BY DEF TableOK, tableVars
<1>5. WorkerOK /\ UNCHANGED workerVars => WorkerOK'
  BY DEF WorkerOK, workerVars
<1>6. PipeOK /\ UNCHANGED pipeVars => PipeOK'
  BY DEF PipeOK, pipeVars
<1>7. CancelOK /\ UNCHANGED cancelVars => CancelOK'
  BY DEF CancelOK, cancelVars
<1> QED
  BY <1>1, <1>2, <1>3, <1>4, <1>5, <1>6, <1>7 DEF StderrOK, LogOK, FaultsOK

\* Types hold initially.
LEMMA InitType == Init => TypeOK
<1> SUFFICES ASSUME Init PROVE TypeOK
  OBVIOUS
<1>1. FrontendOK /\ SocketOK
  BY DEF Init, FrontendOK, SocketOK, FrontendPcs
<1>2. ThreadOK /\ TableOK
  BY DEF Init, ThreadOK, TableOK, ThreadPcs
<1>3. WorkerOK /\ PipeOK /\ StderrOK
  BY DEF Init, WorkerOK, PipeOK, StderrOK, WorkerPcs
<1>4. CancelOK /\ LogOK /\ FaultsOK
  BY DEF Init, CancelOK, LogOK, FaultsOK
<1> QED
  BY <1>1, <1>2, <1>3, <1>4 DEF TypeOK

\* A step of a frontend keeps the types.
LEMMA FrontendType ==
    ASSUME TypeOK, NEW j \in Jobs, Frontend(j)
    PROVE  TypeOK'
<1> USE DEF TypeOK
<1>1. CASE Launch(j)
  <2>1. FrontendOK'
    BY <1>1 DEF FrontendOK, Launch, FrontendPcs
  <2> QED
    BY <1>1, <2>1, KeepType DEF Launch
<1>2. CASE Connect(j)
  <2>1. FrontendOK'
    BY <1>2 DEF FrontendOK, Connect, FrontendPcs
  <2>2. ThreadOK'
    BY <1>2, PcFacts DEF ThreadOK, Connect
  <2> QED
    BY <1>2, <2>1, <2>2, KeepType DEF Connect
<1>3. CASE ReadFrame(j)
  <2>1. Head(stream[j]) \in Frames /\ SocketOK'
    BY <1>3, TailType DEF SocketOK, ReadFrame
  <2>2. FrontendOK'
    BY <1>3, <2>1, OutcomeType DEF FrontendOK, ReadFrame, FrontendPcs
  <2> QED
    BY <1>3, <2>1, <2>2, KeepType DEF ReadFrame
<1>4. CASE Answer(j)
  <2>1. FrontendOK'
    BY <1>4 DEF FrontendOK, Answer, FrontendPcs, Finished
  <2>2. SocketOK'
    BY <1>4 DEF SocketOK, Answer, Finished
  <2> QED
    BY <1>4, <2>1, <2>2, KeepType DEF Answer
<1>5. CASE ReadEof(j)
  <2>1. FrontendOK'
    BY <1>5 DEF FrontendOK, ReadEof, FrontendPcs
  <2> QED
    BY <1>5, <2>1, KeepType DEF ReadEof
<1>6. CASE Interrupt(j)
  <2>1. FrontendOK'
    BY <1>6 DEF FrontendOK, Interrupt, FrontendPcs
  <2>2. CancelOK'
    BY <1>6 DEF CancelOK, Interrupt, Clients
  <2> QED
    BY <1>6, <2>1, <2>2, KeepType DEF Interrupt
<1>7. CASE ResumeReading(j)
  <2>1. FrontendOK'
    BY <1>7 DEF FrontendOK, ResumeReading, FrontendPcs
  <2> QED
    BY <1>7, <2>1, KeepType DEF ResumeReading
<1>8. CASE Vanish(j)
  <2>1. FrontendOK'
    BY <1>8 DEF FrontendOK, Vanish, FrontendPcs
  <2>2. FaultsOK'
    BY <1>8 DEF FaultsOK, Vanish, Fault
  <2> QED
    BY <1>8, <2>1, <2>2, KeepType DEF Vanish
<1> QED
  BY <1>1, <1>2, <1>3, <1>4, <1>5, <1>6, <1>7, <1>8 DEF Frontend

\* A step of a daemon thread keeps the types.
LEMMA ThreadType ==
    ASSUME TypeOK, NEW j \in Jobs, Thread(j)
    PROVE  TypeOK'
<1> USE DEF TypeOK
<1>1. CASE EmitQueued(j)
  <2>1. Lifecycle("queued") \in Frames
    BY <1>1, FrameFacts, PcFacts
  <2>2. /\ stream' \in [Jobs -> Seq(Frames)]
        /\ thread' = [thread EXCEPT ![j] = "log_queued"]
           \/ thread' = [thread EXCEPT ![j] = "error"]
    BY <1>1, <2>1, SendClientType DEF EmitQueued
  <2>3. SocketOK'
    <3>1. UNCHANGED answered
      BY <1>1 DEF EmitQueued
    <3> QED
      BY <3>1, <2>2 DEF SocketOK
  <2>4. ThreadOK'
    BY <1>1, <2>2, PcFacts DEF ThreadOK, EmitQueued
  <2> QED
    BY <1>1, <2>1, <2>2, <2>3, <2>4, KeepType DEF EmitQueued
<1>2. CASE LogQueued(j)
  <2>1. /\ LogOK' /\ FaultsOK'
        /\ thread' = [thread EXCEPT ![j] = "spawn"]
           \/ thread' = [thread EXCEPT ![j] = "error"]
    BY <1>2, PcFacts, AppendEventType DEF LogQueued
  <2>2. ThreadOK'
    BY <1>2, <2>1, PcFacts DEF ThreadOK, LogQueued
  <2>3. UNCHANGED <<frontendVars, socketVars, tableVars, workerVars, pipeVars,
                   stderr, cancelVars>>
    BY <1>2 DEF LogQueued
  <2> QED
    BY <2>1, <2>2, <2>3, KeepType
<1>3. CASE Spawn(j)
  <2>1. ThreadOK'
    BY <1>3, PcFacts DEF ThreadOK, Spawn
  <2>2. WorkerOK'
    BY <1>3, PcFacts DEF WorkerOK, Spawn
  <2>3. FaultsOK'
    BY <1>3 DEF FaultsOK, Spawn, Fault
  <2> QED
    BY <1>3, <2>1, <2>2, <2>3, KeepType DEF Spawn
<1>4. CASE Register(j)
  <2>1. ThreadOK'
    BY <1>4, PcFacts DEF ThreadOK, Register
  <2>2. TableOK'
    BY <1>4, PcFacts DEF TableOK, Register
  <2> QED
    BY <1>4, <2>1, <2>2, KeepType DEF Register
<1>5. CASE SendRequest(j)
  <2>1. ThreadOK'
    BY <1>5, PcFacts DEF ThreadOK, SendRequest, Alive
  <2>2. PipeOK'
    BY <1>5 DEF PipeOK, SendRequest, Alive
  <2>3. StderrOK'
    BY <1>5 DEF StderrOK, SendRequest, Alive
  <2> QED
    BY <1>5, <2>1, <2>2, <2>3, KeepType DEF SendRequest
<1>6. CASE Forward(j)
  <2>1. Head(pipe[j]) \in Frames /\ PipeOK'
    BY <1>6, TailType DEF PipeOK, Forward
  <2>2. AfterForward(Head(pipe[j])) \in ThreadPcs
    BY <1>6, PcFacts DEF AfterForward
  <2>3. SendClient(j, Head(pipe[j]), AfterForward(Head(pipe[j])))
    BY <1>6 DEF Forward
  <2>4. /\ stream' \in [Jobs -> Seq(Frames)]
        /\ thread' = [thread EXCEPT ![j] = AfterForward(Head(pipe[j]))]
           \/ thread' = [thread EXCEPT ![j] = "error"]
    BY <1>6, <2>1, <2>3, SendClientType
  <2>5. SocketOK'
    <3>1. UNCHANGED answered
      BY <1>6 DEF Forward
    <3> QED
      BY <3>1, <2>4 DEF SocketOK
  <2>6. ThreadOK'
    BY <1>6, <2>1, <2>2, <2>4, PcFacts DEF ThreadOK, Forward, AfterForward
  <2> QED
    BY <1>6, <2>1, <2>2, <2>3, <2>4, <2>5, <2>6, KeepType DEF Forward
<1>7. CASE ReadWorkerEof(j)
  <2>1. ThreadOK'
    BY <1>7, PcFacts DEF ThreadOK, ReadWorkerEof
  <2> QED
    BY <1>7, <2>1, KeepType DEF ReadWorkerEof
<1>8. CASE Record(j)
  <2>1. frame[j].arg \in JobStates
    BY <1>8, EventType DEF ThreadOK, Record, EventOf
  <2>2. TableOK'
    BY <1>8, <2>1 DEF TableOK, Record
  <2>3. ThreadOK'
    BY <1>8, PcFacts DEF ThreadOK, Record
  <2> QED
    BY <1>8, <2>1, <2>2, <2>3, KeepType DEF Record
<1>9. CASE LogFrame(j)
  <2>1. EventOf(frame[j]) \in JobStates
    BY <1>9, EventType DEF ThreadOK, LogFrame
  <2>2. \E next \in {"wait", "reading"} : AppendEvent(j, EventOf(frame[j]), next)
    BY <1>9, Zenon DEF LogFrame
  <2>3. /\ LogOK' /\ FaultsOK'
        /\ \E s \in {"wait", "reading", "error"} : thread' = [thread EXCEPT ![j] = s]
    BY <1>9, <2>1, <2>2, AppendEventType
  <2>4. ThreadOK'
    BY <1>9, <2>3, PcFacts DEF ThreadOK, LogFrame
  <2> QED
    BY <1>9, <2>1, <2>2, <2>3, <2>4, KeepType DEF LogFrame
<1>10. CASE RelayAnswer(j)
  <2>1. SocketOK'
    BY <1>10 DEF SocketOK, RelayAnswer
  <2>2. ThreadOK'
    BY <1>10, PcFacts DEF ThreadOK, RelayAnswer, Alive
  <2>3. PipeOK'
    BY <1>10 DEF PipeOK, RelayAnswer, Alive
  <2> QED
    BY <1>10, <2>1, <2>2, <2>3, KeepType DEF RelayAnswer
<1>11. CASE AwaitEof(j)
  <2>1. ThreadOK'
    BY <1>11, PcFacts DEF ThreadOK, AwaitEof
  <2> QED
    BY <1>11, <2>1, KeepType DEF AwaitEof
<1>12. CASE WaitChild(j)
  <2>1. ThreadOK'
    BY <1>12, PcFacts DEF ThreadOK, WaitChild
  <2>2. WorkerOK'
    BY <1>12, PcFacts DEF WorkerOK, WaitChild
  <2> QED
    BY <1>12, <2>1, <2>2, KeepType DEF WaitChild
<1>13. CASE JoinStderr(j)
  <2>1. ThreadOK'
    BY <1>13, PcFacts DEF ThreadOK, JoinStderr
  <2> QED
    BY <1>13, <2>1, KeepType DEF JoinStderr
<1>14. CASE Remove(j)
  <2>1. ThreadOK'
    BY <1>14, PcFacts DEF ThreadOK, Remove
  <2>2. TableOK'
    BY <1>14, PcFacts DEF TableOK, Remove
  <2> QED
    BY <1>14, <2>1, <2>2, KeepType DEF Remove
<1>15. CASE EmitCancelled(j)
  <2>1. Lifecycle("cancelled") \in Frames
    BY <1>15, FrameFacts, PcFacts
  <2>2. /\ stream' \in [Jobs -> Seq(Frames)]
        /\ thread' = [thread EXCEPT ![j] = "log_cancelled"]
           \/ thread' = [thread EXCEPT ![j] = "error"]
    BY <1>15, <2>1, SendClientType DEF EmitCancelled
  <2>3. SocketOK'
    <3>1. UNCHANGED answered
      BY <1>15 DEF EmitCancelled
    <3> QED
      BY <3>1, <2>2 DEF SocketOK
  <2>4. ThreadOK'
    BY <1>15, <2>2, PcFacts DEF ThreadOK, EmitCancelled
  <2> QED
    BY <1>15, <2>1, <2>2, <2>3, <2>4, KeepType DEF EmitCancelled
<1>16. CASE LogCancelled(j)
  <2>1. /\ LogOK' /\ FaultsOK'
        /\ thread' = [thread EXCEPT ![j] = "emit_completed"]
           \/ thread' = [thread EXCEPT ![j] = "error"]
    BY <1>16, PcFacts, AppendEventType DEF LogCancelled
  <2>2. ThreadOK'
    BY <1>16, <2>1, PcFacts DEF ThreadOK, LogCancelled
  <2>3. UNCHANGED <<frontendVars, socketVars, tableVars, workerVars, pipeVars,
                   stderr, cancelVars>>
    BY <1>16 DEF LogCancelled
  <2> QED
    BY <2>1, <2>2, <2>3, KeepType
<1>17. CASE EmitCompleted(j)
  <2>1. Completed("130") \in Frames
    BY <1>17, FrameFacts, PcFacts
  <2>2. /\ stream' \in [Jobs -> Seq(Frames)]
        /\ thread' = [thread EXCEPT ![j] = "ok"]
           \/ thread' = [thread EXCEPT ![j] = "error"]
    BY <1>17, <2>1, SendClientType DEF EmitCompleted
  <2>3. SocketOK'
    <3>1. UNCHANGED answered
      BY <1>17 DEF EmitCompleted
    <3> QED
      BY <3>1, <2>2 DEF SocketOK
  <2>4. ThreadOK'
    BY <1>17, <2>2, PcFacts DEF ThreadOK, EmitCompleted
  <2> QED
    BY <1>17, <2>1, <2>2, <2>3, <2>4, KeepType DEF EmitCompleted
<1> QED
  BY <1>1, <1>2, <1>3, <1>4, <1>5, <1>6, <1>7, <1>8, <1>9,
     <1>10, <1>11, <1>12, <1>13, <1>14, <1>15, <1>16, <1>17 DEF Thread

\* A step of the copier of stderr keeps the types.
LEMMA CopierType ==
    ASSUME TypeOK, NEW j \in Jobs, Copier(j)
    PROVE  TypeOK'
<1> USE DEF TypeOK
<1>1. CASE CopyStderr(j)
  <2>1. [stream EXCEPT ![j] = Append(@, TextOutput)] \in [Jobs -> Seq(Frames)]
    BY <1>1, FrameFacts, AppendType DEF SocketOK
  <2>2. SocketOK'
    BY <1>1, <2>1 DEF SocketOK, CopyStderr, Gone
  <2>3. PipeOK'
    BY <1>1 DEF PipeOK, CopyStderr
  <2>4. StderrOK'
    BY <1>1 DEF StderrOK, CopyStderr, Gone
  <2> QED
    BY <1>1, <2>1, <2>2, <2>3, <2>4, KeepType DEF CopyStderr
<1>2. CASE StderrEof(j)
  <2>1. StderrOK'
    BY <1>2 DEF StderrOK, StderrEof
  <2> QED
    BY <1>2, <2>1, KeepType DEF StderrEof
<1> QED
  BY <1>1, <1>2 DEF Copier

\* A step of a worker keeps the types.
LEMMA WorkerType ==
    ASSUME TypeOK, NEW j \in Jobs, Worker(j)
    PROVE  TypeOK'
<1> USE DEF TypeOK
<1>1. CASE Boot(j)
  <2>1. Lifecycle("running") \in Frames
    BY <1>1, FrameFacts, PcFacts
  <2>2. /\ pipe' \in [Jobs -> Seq(Frames)]
        /\ \E s \in {"running", "failing", "complaining"} : worker' = [worker EXCEPT ![j] = s]
    BY <1>1, <2>1, EmitType DEF PipeOK, Boot
  <2>3. PipeOK'
    BY <1>1, <2>2 DEF PipeOK, Boot
  <2>4. WorkerOK'
    BY <1>1, <2>2, PcFacts DEF WorkerOK, Boot
  <2> QED
    BY <1>1, <2>1, <2>2, <2>3, <2>4, KeepType DEF Boot
<1>2. CASE AnnounceWait(j)
  <2>1. Lifecycle("waiting_interaction") \in Frames
    BY <1>2, FrameFacts, PcFacts
  <2>2. /\ pipe' \in [Jobs -> Seq(Frames)]
        /\ worker' = [worker EXCEPT ![j] = "asking"]
           \/ worker' = [worker EXCEPT ![j] = "complaining"]
    BY <1>2, <2>1, EmitType DEF AnnounceWait
  <2>3. PipeOK'
    <3>1. UNCHANGED <<stdin, noise>>
      BY <1>2 DEF AnnounceWait
    <3> QED
      BY <3>1, <2>2 DEF PipeOK
  <2>4. WorkerOK'
    <3>1. asks' = [asks EXCEPT ![j] = @ + 1]
      BY <1>2 DEF AnnounceWait
    <3>2. asks' \in [Jobs -> Nat]
      BY <3>1 DEF WorkerOK
    <3>3. worker' \in [Jobs -> WorkerPcs]
      BY <2>2, PcFacts DEF WorkerOK
    <3> QED
      BY <3>2, <3>3 DEF WorkerOK
  <2> QED
    BY <1>2, <2>1, <2>2, <2>3, <2>4, KeepType DEF AnnounceWait
<1>3. CASE Ask(j)
  <2>1. InteractionRequest \in Frames
    BY <1>3, FrameFacts, PcFacts
  <2>2. /\ pipe' \in [Jobs -> Seq(Frames)]
        /\ worker' = [worker EXCEPT ![j] = "awaiting"]
           \/ worker' = [worker EXCEPT ![j] = "complaining"]
    BY <1>3, <2>1, EmitType DEF Ask
  <2>3. PipeOK'
    <3>1. UNCHANGED <<stdin, noise>>
      BY <1>3 DEF Ask
    <3> QED
      BY <3>1, <2>2 DEF PipeOK
  <2>4. WorkerOK'
    BY <1>3, <2>2, PcFacts DEF WorkerOK, Ask
  <2> QED
    BY <1>3, <2>1, <2>2, <2>3, <2>4, KeepType DEF Ask
<1>4. CASE GetAnswer(j)
  <2>1. WorkerOK'
    BY <1>4, PcFacts DEF WorkerOK, GetAnswer
  <2>2. PipeOK'
    BY <1>4, PcFacts DEF PipeOK, GetAnswer
  <2> QED
    BY <1>4, <2>1, <2>2, KeepType DEF GetAnswer
<1>5. CASE Succeed(j)
  <2>1. Lifecycle("completed") \in Frames
    BY <1>5, FrameFacts, PcFacts
  <2>2. /\ pipe' \in [Jobs -> Seq(Frames)]
        /\ worker' = [worker EXCEPT ![j] = "completing"]
           \/ worker' = [worker EXCEPT ![j] = "complaining"]
    BY <1>5, <2>1, EmitType DEF Succeed
  <2>3. PipeOK'
    <3>1. UNCHANGED <<stdin, noise>>
      BY <1>5 DEF Succeed
    <3> QED
      BY <3>1, <2>2 DEF PipeOK
  <2>4. WorkerOK'
    BY <1>5, <2>2, PcFacts DEF WorkerOK, Succeed
  <2> QED
    BY <1>5, <2>1, <2>2, <2>3, <2>4, KeepType DEF Succeed
<1>6. CASE Fail(j)
  <2>1. Lifecycle("failed") \in Frames
    BY <1>6, FrameFacts, PcFacts
  <2>2. /\ pipe' \in [Jobs -> Seq(Frames)]
        /\ worker' = [worker EXCEPT ![j] = "failed"]
           \/ worker' = [worker EXCEPT ![j] = "complaining"]
    BY <1>6, <2>1, EmitType DEF Fail
  <2>3. PipeOK'
    <3>1. UNCHANGED <<stdin, noise>>
      BY <1>6 DEF Fail
    <3> QED
      BY <3>1, <2>2 DEF PipeOK
  <2>4. WorkerOK'
    BY <1>6, <2>2, PcFacts DEF WorkerOK, Fail
  <2> QED
    BY <1>6, <2>1, <2>2, <2>3, <2>4, KeepType DEF Fail
<1>7. CASE EmitTerminal(j)
  <2>1. /\ Completed("exit") \in Frames /\ Completed("130") \in Frames
        /\ Failed \in Frames
    BY <1>7, FrameFacts
  <2>2. /\ pipe' \in [Jobs -> Seq(Frames)]
        /\ \E s \in {"dead", "complaining"} : worker' = [worker EXCEPT ![j] = s]
    BY <1>7, <2>1, EmitType DEF EmitTerminal
  <2>3. PipeOK'
    BY <1>7, <2>2 DEF PipeOK, EmitTerminal
  <2>4. WorkerOK'
    BY <1>7, <2>2, PcFacts DEF WorkerOK, EmitTerminal
  <2> QED
    BY <1>7, <2>1, <2>2, <2>3, <2>4, KeepType DEF EmitTerminal
<1>8. CASE Complain(j)
  <2>1. WorkerOK'
    BY <1>8, PcFacts DEF WorkerOK, Complain
  <2>2. PipeOK'
    BY <1>8, PcFacts DEF PipeOK, Complain
  <2> QED
    BY <1>8, <2>1, <2>2, KeepType DEF Complain
<1>9. CASE Crash(j)
  <2>1. WorkerOK'
    BY <1>9, PcFacts DEF WorkerOK, Crash
  <2>2. FaultsOK'
    BY <1>9 DEF FaultsOK, Crash, Fault
  <2> QED
    BY <1>9, <2>1, <2>2, KeepType DEF Crash
<1> QED
  BY <1>1, <1>2, <1>3, <1>4, <1>5, <1>6, <1>7, <1>8, <1>9 DEF Worker

\* A cancel request, its marking and its killing keep the types.
LEMMA CancelType ==
    ASSUME TypeOK, NEW c \in Clients,
           (\E j \in Jobs : c \in Operators /\ OperatorCancel(c, j)) \/ Canceller(c)
    PROVE  TypeOK'
<1> USE DEF TypeOK
<1>1. ASSUME NEW j \in Jobs, OperatorCancel(c, j)
      PROVE  TypeOK'
  <2>1. CancelOK'
    BY <1>1 DEF CancelOK, OperatorCancel
  <2> QED
    BY <1>1, <2>1, KeepType DEF OperatorCancel
<1>2. CASE Mark(c)
  <2>1. Descendants(target[c]) \subseteq Jobs
    BY DEF Descendants, Registered
  <2>2. CancelOK'
    BY <1>2, <2>1 DEF CancelOK, Mark
  <2>3. TableOK'
    BY <1>2, <2>1, PcFacts DEF TableOK, Mark, tableVars
  <2> QED
    BY <1>2, <2>2, <2>3, KeepType DEF Mark
<1>3. ASSUME NEW i \in Jobs, Kill(c, i)
      PROVE  TypeOK'
  <2>1. CancelOK'
    BY <1>3 DEF CancelOK, Kill
  <2>2. WorkerOK'
    BY <1>3, PcFacts DEF WorkerOK, Kill, Alive
  <2> QED
    BY <1>3, <2>1, <2>2, KeepType DEF Kill
<1>4. CASE AnswerCancel(c)
  <2>1. CancelOK'
    BY <1>4 DEF CancelOK, AnswerCancel
  <2> QED
    BY <1>4, <2>1, KeepType DEF AnswerCancel
<1> QED
  BY <1>1, <1>2, <1>3, <1>4 DEF Canceller

\* Every reachable state is well typed: no frame, event or process state
\* outside the ones the code has, for any number of jobs and of cancellers.
THEOREM TypeCorrect == Spec => []TypeOK
<1>1. TypeOK /\ [Next]_vars => TypeOK'
  <2> SUFFICES ASSUME TypeOK, [Next]_vars
               PROVE  TypeOK'
    OBVIOUS
  <2>1. ASSUME NEW j \in Jobs, Frontend(j) \/ Thread(j) \/ Copier(j) \/ Worker(j)
        PROVE  TypeOK'
    BY <2>1, FrontendType, ThreadType, CopierType, WorkerType
  <2>2. ASSUME NEW o \in Operators, NEW j \in Jobs, OperatorCancel(o, j)
        PROVE  TypeOK'
    BY <2>2, CancelType DEF Clients
  <2>3. ASSUME NEW c \in Clients, Canceller(c)
        PROVE  TypeOK'
    BY <2>3, CancelType
  <2>4. CASE Idle \/ UNCHANGED vars
    BY <2>4, KeepType DEF Idle, vars, TypeOK
  <2> QED
    BY <2>1, <2>2, <2>3, <2>4 DEF Next
<1> QED
  BY <1>1, InitType, PTL DEF Spec

-----------------------------------------------------------------------------
\* A thread starts with its frontend's connection.

\* Nothing runs in the daemon for a frontend that has not connected.
Unconnected ==
    \A j \in Jobs : frontend[j] \in {"idle", "launched"} => thread[j] = "idle"

\* A thread that takes a step has started, and moves no other thread and no
\* frontend.
LEMMA ThreadFrame ==
    ASSUME TypeOK, NEW j \in Jobs, Thread(j)
    PROVE  /\ thread[j] # "idle"
           /\ UNCHANGED frontend
           /\ \A i \in Jobs : i # j => thread'[i] = thread[i]
<1> USE DEF TypeOK, ThreadOK, frontendVars, threadVars
<1>1. CASE EmitQueued(j)
  BY <1>1 DEF EmitQueued, SendClient
<1>2. CASE LogQueued(j)
  BY <1>2 DEF LogQueued, AppendEvent
<1>3. CASE Spawn(j)
  BY <1>3 DEF Spawn
<1>4. CASE Register(j)
  BY <1>4 DEF Register
<1>5. CASE SendRequest(j)
  BY <1>5 DEF SendRequest
<1>6. CASE Forward(j)
  BY <1>6 DEF Forward, SendClient
<1>7. CASE ReadWorkerEof(j)
  BY <1>7 DEF ReadWorkerEof
<1>8. CASE Record(j)
  BY <1>8 DEF Record
<1>9. CASE LogFrame(j)
  BY <1>9 DEF LogFrame, AppendEvent
<1>10. CASE RelayAnswer(j)
  BY <1>10 DEF RelayAnswer
<1>11. CASE AwaitEof(j)
  BY <1>11 DEF AwaitEof
<1>12. CASE WaitChild(j)
  BY <1>12 DEF WaitChild
<1>13. CASE JoinStderr(j)
  BY <1>13 DEF JoinStderr
<1>14. CASE Remove(j)
  BY <1>14 DEF Remove
<1>15. CASE EmitCancelled(j)
  BY <1>15 DEF EmitCancelled, SendClient
<1>16. CASE LogCancelled(j)
  BY <1>16 DEF LogCancelled, AppendEvent
<1>17. CASE EmitCompleted(j)
  BY <1>17 DEF EmitCompleted, SendClient
<1> QED
  BY <1>1, <1>2, <1>3, <1>4, <1>5, <1>6, <1>7, <1>8, <1>9,
     <1>10, <1>11, <1>12, <1>13, <1>14, <1>15, <1>16, <1>17 DEF Thread

\* Frontends go forward only, and threads start with Connect.
LEMMA UnconnectedInvariant == Spec => []Unconnected
<1>1. Init => Unconnected
  BY DEF Init, Unconnected
<1>2. TypeOK /\ Unconnected /\ [Next]_vars => Unconnected'
  <2> SUFFICES ASSUME TypeOK, Unconnected, [Next]_vars
               PROVE  Unconnected'
    OBVIOUS
  <2>1. ASSUME NEW j \in Jobs, Frontend(j)
        PROVE  Unconnected'
    <3> USE DEF TypeOK, FrontendOK, ThreadOK, Unconnected, threadVars
    <3>1. CASE Launch(j)
      BY <3>1 DEF Launch
    <3>2. CASE Connect(j)
      BY <3>2 DEF Connect
    <3>3. CASE ReadFrame(j)
      BY <3>3 DEF ReadFrame
    <3>4. CASE Answer(j)
      BY <3>4 DEF Answer
    <3>5. CASE ReadEof(j)
      BY <3>5 DEF ReadEof
    <3>6. CASE Interrupt(j)
      BY <3>6 DEF Interrupt
    <3>7. CASE ResumeReading(j)
      BY <3>7 DEF ResumeReading
    <3>8. CASE Vanish(j)
      BY <3>8 DEF Vanish
    <3> QED
      BY <2>1, <3>1, <3>2, <3>3, <3>4, <3>5, <3>6, <3>7, <3>8 DEF Frontend
  <2>2. ASSUME NEW j \in Jobs, Thread(j)
        PROVE  Unconnected'
    BY <2>2, ThreadFrame DEF Unconnected
  <2>3. ASSUME NEW j \in Jobs, Copier(j)
        PROVE  Unconnected'
    BY <2>3 DEF Copier, CopyStderr, StderrEof, Unconnected, frontendVars,
       threadVars
  <2>4. ASSUME NEW j \in Jobs, Worker(j)
        PROVE  Unconnected'
    <3>1. UNCHANGED <<frontendVars, threadVars>>
      BY <2>4 DEF Worker, Boot, AnnounceWait, Ask, GetAnswer, Succeed, Fail,
         EmitTerminal, Complain, Crash
    <3> QED
      BY <3>1 DEF Unconnected, frontendVars, threadVars
  <2>5. ASSUME NEW c \in Clients,
               (\E j \in Jobs : OperatorCancel(c, j)) \/ Canceller(c)
        PROVE  Unconnected'
    BY <2>5 DEF OperatorCancel, Canceller, Mark, Kill, AnswerCancel,
       Unconnected, frontendVars, threadVars
  <2>6. CASE Idle \/ UNCHANGED vars
    BY <2>6 DEF Idle, vars, Unconnected, frontendVars, threadVars
  <2> QED
    BY <2>1, <2>2, <2>3, <2>4, <2>5, <2>6 DEF Next, Clients
<1> QED
  BY <1>1, <1>2, TypeCorrect, PTL DEF Spec

-----------------------------------------------------------------------------
\* Cancelled jobs die.  Marks are set under the lock and signals sent after it,
\* so neither "marked jobs are dead or on a list" nor "found means dead" is
\* inductive alone: a worker comes to life in Spawn, which must not happen for
\* a job that a handler has found, and a request must not change its target
\* once it has found it.

\* The thread has not put the job into the table yet.
Early == {"idle", "emit_queued", "log_queued", "spawn", "register"}

\* Nothing is known in the table of a job that is not registered yet.
EarlyIsUnknown ==
    \A j \in Jobs : thread[j] \in Early => active[j] = "none" /\ ~cancelled[j]

\* A request that found its target keeps it, and its thread had registered.
FoundIsRegistered ==
    \A c \in Clients : found[c] =>
        /\ cancel[c] \in {"killing", "answered"}
        /\ target[c] \in Jobs
        /\ thread[target[c]] \notin Early

\* A found target that still lives is on its handler's list.
FoundIsListed ==
    \A c \in Clients : found[c] /\ Alive(target[c]) =>
        cancel[c] = "killing" /\ target[c] \in victims[c]

KillInv ==
    EarlyIsUnknown /\ FoundIsRegistered /\ FoundIsListed /\ MarkedIsDeadOrDying

\* The target of a request is among the jobs it marks when it is found.
LEMMA RootIsDescendant ==
    \A r \in Registered : r \in Descendants(r)
  BY DEF Descendants

\* A step that leaves table and requests alone, revives no worker and takes no
\* thread back to before its registration keeps the invariant.
LEMMA QuietStep ==
    ASSUME KillInv, UNCHANGED cancelled, UNCHANGED cancelVars,
           \A i \in Jobs : Alive(i)' => Alive(i),
           \A i \in Jobs : thread'[i] \in Early =>
               thread[i] \in Early /\ active'[i] = active[i]
    PROVE  KillInv'
<1>1. EarlyIsUnknown'
  BY DEF KillInv, EarlyIsUnknown
<1>2. FoundIsRegistered'
  BY DEF KillInv, FoundIsRegistered, cancelVars
<1>3. FoundIsListed'
  BY DEF KillInv, FoundIsRegistered, FoundIsListed, cancelVars
<1>4. MarkedIsDeadOrDying'
  BY DEF KillInv, MarkedIsDeadOrDying, cancelVars
<1> QED
  BY <1>1, <1>2, <1>3, <1>4 DEF KillInv

\* Initially nobody is registered and nobody cancels.
LEMMA InitKill == Init => KillInv
  BY DEF Init, KillInv, EarlyIsUnknown, FoundIsRegistered, FoundIsListed,
     MarkedIsDeadOrDying, Early

\* A step of a frontend keeps it; only Interrupt touches a request.
LEMMA FrontendKill ==
    ASSUME TypeOK, Unconnected, KillInv, NEW j \in Jobs, Frontend(j)
    PROVE  KillInv'
<1>1. CASE Launch(j)
  <2>1. UNCHANGED cancelled /\ UNCHANGED cancelVars
    BY <1>1 DEF Launch, tableVars
  <2>2. \A i \in Jobs : Alive(i)' => Alive(i)
    BY <1>1 DEF TypeOK, WorkerOK, Launch, Alive, LiveWorker, workerVars
  <2>3. \A i \in Jobs : thread'[i] \in Early =>
            thread[i] \in Early /\ active'[i] = active[i]
    BY <1>1 DEF TypeOK, ThreadOK, Launch, Early, threadVars, tableVars
  <2> QED
    BY <2>1, <2>2, <2>3, QuietStep
<1>2. CASE Connect(j)
  <2>1. UNCHANGED cancelled /\ UNCHANGED cancelVars
    BY <1>2 DEF Connect, tableVars
  <2>2. \A i \in Jobs : Alive(i)' => Alive(i)
    BY <1>2 DEF TypeOK, WorkerOK, Connect, Alive, LiveWorker, workerVars
  <2>3. \A i \in Jobs : thread'[i] \in Early =>
            thread[i] \in Early /\ active'[i] = active[i]
    BY <1>2 DEF TypeOK, ThreadOK, Unconnected, Connect, Early, threadVars, tableVars
  <2> QED
    BY <2>1, <2>2, <2>3, QuietStep
<1>3. CASE ReadFrame(j)
  <2>1. UNCHANGED cancelled /\ UNCHANGED cancelVars
    BY <1>3 DEF ReadFrame, tableVars
  <2>2. \A i \in Jobs : Alive(i)' => Alive(i)
    BY <1>3 DEF TypeOK, WorkerOK, ReadFrame, Alive, LiveWorker, workerVars
  <2>3. \A i \in Jobs : thread'[i] \in Early =>
            thread[i] \in Early /\ active'[i] = active[i]
    BY <1>3 DEF TypeOK, ThreadOK, ReadFrame, Early, threadVars, tableVars
  <2> QED
    BY <2>1, <2>2, <2>3, QuietStep
<1>4. CASE Answer(j)
  <2>1. UNCHANGED cancelled /\ UNCHANGED cancelVars
    BY <1>4 DEF Answer, tableVars
  <2>2. \A i \in Jobs : Alive(i)' => Alive(i)
    BY <1>4 DEF TypeOK, WorkerOK, Answer, Alive, LiveWorker, workerVars
  <2>3. \A i \in Jobs : thread'[i] \in Early =>
            thread[i] \in Early /\ active'[i] = active[i]
    BY <1>4 DEF TypeOK, ThreadOK, Answer, Early, threadVars, tableVars
  <2> QED
    BY <2>1, <2>2, <2>3, QuietStep
<1>5. CASE ReadEof(j)
  <2>1. UNCHANGED cancelled /\ UNCHANGED cancelVars
    BY <1>5 DEF ReadEof, tableVars
  <2>2. \A i \in Jobs : Alive(i)' => Alive(i)
    BY <1>5 DEF TypeOK, WorkerOK, ReadEof, Alive, LiveWorker, workerVars
  <2>3. \A i \in Jobs : thread'[i] \in Early =>
            thread[i] \in Early /\ active'[i] = active[i]
    BY <1>5 DEF TypeOK, ThreadOK, ReadEof, Early, threadVars, tableVars
  <2> QED
    BY <2>1, <2>2, <2>3, QuietStep
<1>6. CASE ResumeReading(j)
  <2>1. UNCHANGED cancelled /\ UNCHANGED cancelVars
    BY <1>6 DEF ResumeReading, tableVars
  <2>2. \A i \in Jobs : Alive(i)' => Alive(i)
    BY <1>6 DEF TypeOK, WorkerOK, ResumeReading, Alive, LiveWorker, workerVars
  <2>3. \A i \in Jobs : thread'[i] \in Early =>
            thread[i] \in Early /\ active'[i] = active[i]
    BY <1>6 DEF TypeOK, ThreadOK, ResumeReading, Early, threadVars, tableVars
  <2> QED
    BY <2>1, <2>2, <2>3, QuietStep
<1>7. CASE Vanish(j)
  <2>1. UNCHANGED cancelled /\ UNCHANGED cancelVars
    BY <1>7 DEF Vanish, tableVars
  <2>2. \A i \in Jobs : Alive(i)' => Alive(i)
    BY <1>7 DEF TypeOK, WorkerOK, Vanish, Alive, LiveWorker, workerVars
  <2>3. \A i \in Jobs : thread'[i] \in Early =>
            thread[i] \in Early /\ active'[i] = active[i]
    BY <1>7 DEF TypeOK, ThreadOK, Vanish, Early, threadVars, tableVars
  <2> QED
    BY <2>1, <2>2, <2>3, QuietStep
<1>8. CASE Interrupt(j)
  <2>1. ~found[j] /\ j \in Clients
    BY <1>8 DEF KillInv, FoundIsRegistered, Interrupt, Clients
  <2>2. \A c \in Clients : c # j => cancel'[c] = cancel[c] /\ target'[c] = target[c]
    BY <1>8 DEF Interrupt, TypeOK, CancelOK
  <2>3. cancel'[j] # "killing" /\ cancel[j] # "killing"
    BY <1>8, <2>1 DEF Interrupt, TypeOK, CancelOK
  <2>4. UNCHANGED <<tableVars, workerVars, threadVars, victims, found>>
    BY <1>8 DEF Interrupt
  <2>5. EarlyIsUnknown'
    BY <2>4 DEF KillInv, EarlyIsUnknown, threadVars, tableVars
  <2>6. FoundIsRegistered' /\ FoundIsListed'
    BY <2>1, <2>2, <2>4 DEF KillInv, FoundIsRegistered, FoundIsListed, Alive,
       threadVars, workerVars
  <2>7. MarkedIsDeadOrDying'
    BY <2>2, <2>3, <2>4 DEF KillInv, MarkedIsDeadOrDying, Alive, tableVars,
       workerVars
  <2> QED
    BY <2>5, <2>6, <2>7 DEF KillInv
<1> QED
  BY <1>1, <1>2, <1>3, <1>4, <1>5, <1>6, <1>7, <1>8 DEF Frontend

\* A step of a thread keeps it: Spawn revives no job that was found, and the
\* entry comes and goes with its mark.
LEMMA ThreadKill ==
    ASSUME TypeOK, KillInv, NEW j \in Jobs, Thread(j)
    PROVE  KillInv'
<1>1. CASE EmitQueued(j)
  <2>1. UNCHANGED cancelled /\ UNCHANGED cancelVars
    BY <1>1 DEF EmitQueued, tableVars
  <2>2. \A i \in Jobs : Alive(i)' => Alive(i)
    BY <1>1 DEF TypeOK, WorkerOK, EmitQueued, Alive, LiveWorker, workerVars
  <2>3. \A i \in Jobs : thread'[i] \in Early =>
            thread[i] \in Early /\ active'[i] = active[i]
    BY <1>1 DEF TypeOK, ThreadOK, EmitQueued, Early, threadVars, tableVars, SendClient
  <2> QED
    BY <2>1, <2>2, <2>3, QuietStep
<1>2. CASE LogQueued(j)
  <2>1. UNCHANGED cancelled /\ UNCHANGED cancelVars
    BY <1>2 DEF LogQueued, tableVars
  <2>2. \A i \in Jobs : Alive(i)' => Alive(i)
    BY <1>2 DEF TypeOK, WorkerOK, LogQueued, Alive, LiveWorker, workerVars
  <2>3. \A i \in Jobs : thread'[i] \in Early =>
            thread[i] \in Early /\ active'[i] = active[i]
    BY <1>2 DEF TypeOK, ThreadOK, LogQueued, Early, threadVars, tableVars, AppendEvent
  <2> QED
    BY <2>1, <2>2, <2>3, QuietStep
<1>3. CASE SendRequest(j)
  <2>1. UNCHANGED cancelled /\ UNCHANGED cancelVars
    BY <1>3 DEF SendRequest, tableVars
  <2>2. \A i \in Jobs : Alive(i)' => Alive(i)
    BY <1>3 DEF TypeOK, WorkerOK, SendRequest, Alive, LiveWorker, workerVars
  <2>3. \A i \in Jobs : thread'[i] \in Early =>
            thread[i] \in Early /\ active'[i] = active[i]
    BY <1>3 DEF TypeOK, ThreadOK, SendRequest, Early, threadVars, tableVars
  <2> QED
    BY <2>1, <2>2, <2>3, QuietStep
<1>4. CASE Forward(j)
  <2>1. UNCHANGED cancelled /\ UNCHANGED cancelVars
    BY <1>4 DEF Forward, tableVars
  <2>2. \A i \in Jobs : Alive(i)' => Alive(i)
    BY <1>4 DEF TypeOK, WorkerOK, Forward, Alive, LiveWorker, workerVars
  <2>3. \A i \in Jobs : thread'[i] \in Early =>
            thread[i] \in Early /\ active'[i] = active[i]
    BY <1>4 DEF TypeOK, ThreadOK, Forward, Early, threadVars, tableVars, SendClient, AfterForward
  <2> QED
    BY <2>1, <2>2, <2>3, QuietStep
<1>5. CASE ReadWorkerEof(j)
  <2>1. UNCHANGED cancelled /\ UNCHANGED cancelVars
    BY <1>5 DEF ReadWorkerEof, tableVars
  <2>2. \A i \in Jobs : Alive(i)' => Alive(i)
    BY <1>5 DEF TypeOK, WorkerOK, ReadWorkerEof, Alive, LiveWorker, workerVars
  <2>3. \A i \in Jobs : thread'[i] \in Early =>
            thread[i] \in Early /\ active'[i] = active[i]
    BY <1>5 DEF TypeOK, ThreadOK, ReadWorkerEof, Early, threadVars, tableVars
  <2> QED
    BY <2>1, <2>2, <2>3, QuietStep
<1>6. CASE Record(j)
  <2>1. UNCHANGED cancelled /\ UNCHANGED cancelVars
    BY <1>6 DEF Record, tableVars
  <2>2. \A i \in Jobs : Alive(i)' => Alive(i)
    BY <1>6 DEF TypeOK, WorkerOK, Record, Alive, LiveWorker, workerVars
  <2>3. \A i \in Jobs : thread'[i] \in Early =>
            thread[i] \in Early /\ active'[i] = active[i]
    BY <1>6 DEF TypeOK, ThreadOK, Record, Early, threadVars, tableVars
  <2> QED
    BY <2>1, <2>2, <2>3, QuietStep
<1>7. CASE LogFrame(j)
  <2>1. UNCHANGED cancelled /\ UNCHANGED cancelVars
    BY <1>7 DEF LogFrame, tableVars
  <2>2. \A i \in Jobs : Alive(i)' => Alive(i)
    BY <1>7 DEF TypeOK, WorkerOK, LogFrame, Alive, LiveWorker, workerVars
  <2>3. \A i \in Jobs : thread'[i] \in Early =>
            thread[i] \in Early /\ active'[i] = active[i]
    BY <1>7 DEF TypeOK, ThreadOK, LogFrame, Early, threadVars, tableVars, AppendEvent
  <2> QED
    BY <2>1, <2>2, <2>3, QuietStep
<1>8. CASE RelayAnswer(j)
  <2>1. UNCHANGED cancelled /\ UNCHANGED cancelVars
    BY <1>8 DEF RelayAnswer, tableVars
  <2>2. \A i \in Jobs : Alive(i)' => Alive(i)
    BY <1>8 DEF TypeOK, WorkerOK, RelayAnswer, Alive, LiveWorker, workerVars
  <2>3. \A i \in Jobs : thread'[i] \in Early =>
            thread[i] \in Early /\ active'[i] = active[i]
    BY <1>8 DEF TypeOK, ThreadOK, RelayAnswer, Early, threadVars, tableVars
  <2> QED
    BY <2>1, <2>2, <2>3, QuietStep
<1>9. CASE AwaitEof(j)
  <2>1. UNCHANGED cancelled /\ UNCHANGED cancelVars
    BY <1>9 DEF AwaitEof, tableVars
  <2>2. \A i \in Jobs : Alive(i)' => Alive(i)
    BY <1>9 DEF TypeOK, WorkerOK, AwaitEof, Alive, LiveWorker, workerVars
  <2>3. \A i \in Jobs : thread'[i] \in Early =>
            thread[i] \in Early /\ active'[i] = active[i]
    BY <1>9 DEF TypeOK, ThreadOK, AwaitEof, Early, threadVars, tableVars
  <2> QED
    BY <2>1, <2>2, <2>3, QuietStep
<1>10. CASE WaitChild(j)
  <2>1. UNCHANGED cancelled /\ UNCHANGED cancelVars
    BY <1>10 DEF WaitChild, tableVars
  <2>2. \A i \in Jobs : Alive(i)' => Alive(i)
    BY <1>10 DEF TypeOK, WorkerOK, WaitChild, Alive, LiveWorker, workerVars
  <2>3. \A i \in Jobs : thread'[i] \in Early =>
            thread[i] \in Early /\ active'[i] = active[i]
    BY <1>10 DEF TypeOK, ThreadOK, WaitChild, Early, threadVars, tableVars
  <2> QED
    BY <2>1, <2>2, <2>3, QuietStep
<1>11. CASE JoinStderr(j)
  <2>1. UNCHANGED cancelled /\ UNCHANGED cancelVars
    BY <1>11 DEF JoinStderr, tableVars
  <2>2. \A i \in Jobs : Alive(i)' => Alive(i)
    BY <1>11 DEF TypeOK, WorkerOK, JoinStderr, Alive, LiveWorker, workerVars
  <2>3. \A i \in Jobs : thread'[i] \in Early =>
            thread[i] \in Early /\ active'[i] = active[i]
    BY <1>11 DEF TypeOK, ThreadOK, JoinStderr, Early, threadVars, tableVars
  <2> QED
    BY <2>1, <2>2, <2>3, QuietStep
<1>12. CASE EmitCancelled(j)
  <2>1. UNCHANGED cancelled /\ UNCHANGED cancelVars
    BY <1>12 DEF EmitCancelled, tableVars
  <2>2. \A i \in Jobs : Alive(i)' => Alive(i)
    BY <1>12 DEF TypeOK, WorkerOK, EmitCancelled, Alive, LiveWorker, workerVars
  <2>3. \A i \in Jobs : thread'[i] \in Early =>
            thread[i] \in Early /\ active'[i] = active[i]
    BY <1>12 DEF TypeOK, ThreadOK, EmitCancelled, Early, threadVars, tableVars, SendClient
  <2> QED
    BY <2>1, <2>2, <2>3, QuietStep
<1>13. CASE LogCancelled(j)
  <2>1. UNCHANGED cancelled /\ UNCHANGED cancelVars
    BY <1>13 DEF LogCancelled, tableVars
  <2>2. \A i \in Jobs : Alive(i)' => Alive(i)
    BY <1>13 DEF TypeOK, WorkerOK, LogCancelled, Alive, LiveWorker, workerVars
  <2>3. \A i \in Jobs : thread'[i] \in Early =>
            thread[i] \in Early /\ active'[i] = active[i]
    BY <1>13 DEF TypeOK, ThreadOK, LogCancelled, Early, threadVars, tableVars, AppendEvent
  <2> QED
    BY <2>1, <2>2, <2>3, QuietStep
<1>14. CASE EmitCompleted(j)
  <2>1. UNCHANGED cancelled /\ UNCHANGED cancelVars
    BY <1>14 DEF EmitCompleted, tableVars
  <2>2. \A i \in Jobs : Alive(i)' => Alive(i)
    BY <1>14 DEF TypeOK, WorkerOK, EmitCompleted, Alive, LiveWorker, workerVars
  <2>3. \A i \in Jobs : thread'[i] \in Early =>
            thread[i] \in Early /\ active'[i] = active[i]
    BY <1>14 DEF TypeOK, ThreadOK, EmitCompleted, Early, threadVars, tableVars, SendClient
  <2> QED
    BY <2>1, <2>2, <2>3, QuietStep
<1>15. CASE Spawn(j)
  <2>1. ~cancelled[j] /\ \A c \in Clients : found[c] => target[c] # j
    BY <1>15 DEF KillInv, EarlyIsUnknown, FoundIsRegistered, Spawn, Early
  <2>2. UNCHANGED <<tableVars, cancelVars>>
    BY <1>15 DEF Spawn
  <2>3. \A i \in Jobs : i # j => worker'[i] = worker[i] /\ thread'[i] = thread[i]
    BY <1>15 DEF Spawn, TypeOK, ThreadOK, WorkerOK
  <2>4. EarlyIsUnknown'
    BY <1>15, <2>2, <2>3 DEF KillInv, EarlyIsUnknown, Spawn, Early, tableVars
  <2>5. FoundIsRegistered' /\ FoundIsListed'
    BY <2>1, <2>2, <2>3 DEF KillInv, FoundIsRegistered, FoundIsListed, Alive,
       cancelVars
  <2>6. MarkedIsDeadOrDying'
    BY <2>1, <2>2, <2>3 DEF KillInv, MarkedIsDeadOrDying, Alive, tableVars,
       cancelVars
  <2> QED
    BY <2>4, <2>5, <2>6 DEF KillInv
<1>16. CASE Register(j) \/ Remove(j)
  <2>1. UNCHANGED <<workerVars, cancelVars>>
    BY <1>16 DEF Register, Remove
  <2>2. \A i \in Jobs :
            /\ cancelled'[i] => cancelled[i]
            /\ thread'[i] \in Early => /\ thread[i] \in Early
                                      /\ active'[i] = active[i]
    BY <1>16 DEF Register, Remove, TypeOK, TableOK, ThreadOK, Early
  <2>3. EarlyIsUnknown'
    BY <2>2 DEF KillInv, EarlyIsUnknown
  <2>4. FoundIsRegistered' /\ FoundIsListed'
    BY <2>1, <2>2 DEF KillInv, FoundIsRegistered, FoundIsListed, Alive,
       workerVars, cancelVars
  <2>5. MarkedIsDeadOrDying'
    BY <2>1, <2>2 DEF KillInv, MarkedIsDeadOrDying, Alive, workerVars, cancelVars
  <2> QED
    BY <2>3, <2>4, <2>5 DEF KillInv
<1> QED
  BY <1>1, <1>2, <1>3, <1>4, <1>5, <1>6, <1>7, <1>8, <1>9,
     <1>10, <1>11, <1>12, <1>13, <1>14, <1>15, <1>16 DEF Thread

\* The copier of stderr touches neither table, requests nor workers.
LEMMA CopierKill ==
    ASSUME TypeOK, KillInv, NEW j \in Jobs, Copier(j)
    PROVE  KillInv'
<1>1. CASE CopyStderr(j)
  <2>1. UNCHANGED cancelled /\ UNCHANGED cancelVars
    BY <1>1 DEF CopyStderr, tableVars
  <2>2. \A i \in Jobs : Alive(i)' => Alive(i)
    BY <1>1 DEF TypeOK, WorkerOK, CopyStderr, Alive, LiveWorker, workerVars
  <2>3. \A i \in Jobs : thread'[i] \in Early =>
            thread[i] \in Early /\ active'[i] = active[i]
    BY <1>1 DEF TypeOK, ThreadOK, CopyStderr, Early, threadVars, tableVars
  <2> QED
    BY <2>1, <2>2, <2>3, QuietStep
<1>2. CASE StderrEof(j)
  <2>1. UNCHANGED cancelled /\ UNCHANGED cancelVars
    BY <1>2 DEF StderrEof, tableVars
  <2>2. \A i \in Jobs : Alive(i)' => Alive(i)
    BY <1>2 DEF TypeOK, WorkerOK, StderrEof, Alive, LiveWorker, workerVars
  <2>3. \A i \in Jobs : thread'[i] \in Early =>
            thread[i] \in Early /\ active'[i] = active[i]
    BY <1>2 DEF TypeOK, ThreadOK, StderrEof, Early, threadVars, tableVars
  <2> QED
    BY <2>1, <2>2, <2>3, QuietStep
<1> QED
  BY <1>1, <1>2 DEF Copier

\* A dead worker takes no step.
LEMMA WorkerKill ==
    ASSUME TypeOK, KillInv, NEW j \in Jobs, Worker(j)
    PROVE  KillInv'
<1>1. CASE Boot(j)
  <2>1. UNCHANGED cancelled /\ UNCHANGED cancelVars
    BY <1>1 DEF Boot, tableVars
  <2>2. \A i \in Jobs : Alive(i)' => Alive(i)
    BY <1>1 DEF TypeOK, WorkerOK, Boot, Alive, LiveWorker, workerVars, Emit
  <2>3. \A i \in Jobs : thread'[i] \in Early =>
            thread[i] \in Early /\ active'[i] = active[i]
    BY <1>1 DEF TypeOK, ThreadOK, Boot, Early, threadVars, tableVars
  <2> QED
    BY <2>1, <2>2, <2>3, QuietStep
<1>2. CASE AnnounceWait(j)
  <2>1. UNCHANGED cancelled /\ UNCHANGED cancelVars
    BY <1>2 DEF AnnounceWait, tableVars
  <2>2. \A i \in Jobs : Alive(i)' => Alive(i)
    BY <1>2 DEF TypeOK, WorkerOK, AnnounceWait, Alive, LiveWorker, workerVars, Emit
  <2>3. \A i \in Jobs : thread'[i] \in Early =>
            thread[i] \in Early /\ active'[i] = active[i]
    BY <1>2 DEF TypeOK, ThreadOK, AnnounceWait, Early, threadVars, tableVars
  <2> QED
    BY <2>1, <2>2, <2>3, QuietStep
<1>3. CASE Ask(j)
  <2>1. UNCHANGED cancelled /\ UNCHANGED cancelVars
    BY <1>3 DEF Ask, tableVars
  <2>2. \A i \in Jobs : Alive(i)' => Alive(i)
    BY <1>3 DEF TypeOK, WorkerOK, Ask, Alive, LiveWorker, workerVars, Emit
  <2>3. \A i \in Jobs : thread'[i] \in Early =>
            thread[i] \in Early /\ active'[i] = active[i]
    BY <1>3 DEF TypeOK, ThreadOK, Ask, Early, threadVars, tableVars
  <2> QED
    BY <2>1, <2>2, <2>3, QuietStep
<1>4. CASE GetAnswer(j)
  <2>1. UNCHANGED cancelled /\ UNCHANGED cancelVars
    BY <1>4 DEF GetAnswer, tableVars
  <2>2. \A i \in Jobs : Alive(i)' => Alive(i)
    BY <1>4 DEF TypeOK, WorkerOK, GetAnswer, Alive, LiveWorker, workerVars
  <2>3. \A i \in Jobs : thread'[i] \in Early =>
            thread[i] \in Early /\ active'[i] = active[i]
    BY <1>4 DEF TypeOK, ThreadOK, GetAnswer, Early, threadVars, tableVars
  <2> QED
    BY <2>1, <2>2, <2>3, QuietStep
<1>5. CASE Succeed(j)
  <2>1. UNCHANGED cancelled /\ UNCHANGED cancelVars
    BY <1>5 DEF Succeed, tableVars
  <2>2. \A i \in Jobs : Alive(i)' => Alive(i)
    BY <1>5 DEF TypeOK, WorkerOK, Succeed, Alive, LiveWorker, workerVars, Emit
  <2>3. \A i \in Jobs : thread'[i] \in Early =>
            thread[i] \in Early /\ active'[i] = active[i]
    BY <1>5 DEF TypeOK, ThreadOK, Succeed, Early, threadVars, tableVars
  <2> QED
    BY <2>1, <2>2, <2>3, QuietStep
<1>6. CASE Fail(j)
  <2>1. UNCHANGED cancelled /\ UNCHANGED cancelVars
    BY <1>6 DEF Fail, tableVars
  <2>2. \A i \in Jobs : Alive(i)' => Alive(i)
    BY <1>6 DEF TypeOK, WorkerOK, Fail, Alive, LiveWorker, workerVars, Emit
  <2>3. \A i \in Jobs : thread'[i] \in Early =>
            thread[i] \in Early /\ active'[i] = active[i]
    BY <1>6 DEF TypeOK, ThreadOK, Fail, Early, threadVars, tableVars
  <2> QED
    BY <2>1, <2>2, <2>3, QuietStep
<1>7. CASE EmitTerminal(j)
  <2>1. UNCHANGED cancelled /\ UNCHANGED cancelVars
    BY <1>7 DEF EmitTerminal, tableVars
  <2>2. \A i \in Jobs : Alive(i)' => Alive(i)
    BY <1>7 DEF TypeOK, WorkerOK, EmitTerminal, Alive, LiveWorker, workerVars, Emit
  <2>3. \A i \in Jobs : thread'[i] \in Early =>
            thread[i] \in Early /\ active'[i] = active[i]
    BY <1>7 DEF TypeOK, ThreadOK, EmitTerminal, Early, threadVars, tableVars
  <2> QED
    BY <2>1, <2>2, <2>3, QuietStep
<1>8. CASE Complain(j)
  <2>1. UNCHANGED cancelled /\ UNCHANGED cancelVars
    BY <1>8 DEF Complain, tableVars
  <2>2. \A i \in Jobs : Alive(i)' => Alive(i)
    BY <1>8 DEF TypeOK, WorkerOK, Complain, Alive, LiveWorker, workerVars
  <2>3. \A i \in Jobs : thread'[i] \in Early =>
            thread[i] \in Early /\ active'[i] = active[i]
    BY <1>8 DEF TypeOK, ThreadOK, Complain, Early, threadVars, tableVars
  <2> QED
    BY <2>1, <2>2, <2>3, QuietStep
<1>9. CASE Crash(j)
  <2>1. UNCHANGED cancelled /\ UNCHANGED cancelVars
    BY <1>9 DEF Crash, tableVars
  <2>2. \A i \in Jobs : Alive(i)' => Alive(i)
    BY <1>9 DEF TypeOK, WorkerOK, Crash, Alive, LiveWorker, workerVars
  <2>3. \A i \in Jobs : thread'[i] \in Early =>
            thread[i] \in Early /\ active'[i] = active[i]
    BY <1>9 DEF TypeOK, ThreadOK, Crash, Early, threadVars, tableVars
  <2> QED
    BY <2>1, <2>2, <2>3, QuietStep
<1> QED
  BY <1>1, <1>2, <1>3, <1>4, <1>5, <1>6, <1>7, <1>8, <1>9 DEF Worker

\* Requests: an operator names a target, a handler marks, kills and answers.
LEMMA CancelKill ==
    ASSUME TypeOK, KillInv, NEW c \in Clients,
           (\E j \in Jobs : c \in Operators /\ OperatorCancel(c, j)) \/ Canceller(c)
    PROVE  KillInv'
<1>1. ASSUME NEW j \in Jobs, OperatorCancel(c, j)
      PROVE  KillInv'
  <2>1. ~found[c] /\ cancel'[c] # "killing" /\ cancel[c] # "killing"
    BY <1>1 DEF KillInv, FoundIsRegistered, OperatorCancel, TypeOK, CancelOK
  <2>2. \A d \in Clients : d # c => cancel'[d] = cancel[d] /\ target'[d] = target[d]
    BY <1>1 DEF OperatorCancel, TypeOK, CancelOK
  <2>3. UNCHANGED <<tableVars, workerVars, threadVars, victims, found>>
    BY <1>1 DEF OperatorCancel
  <2>4. EarlyIsUnknown'
    BY <2>3 DEF KillInv, EarlyIsUnknown, threadVars, tableVars
  <2>5. FoundIsRegistered' /\ FoundIsListed'
    BY <2>1, <2>2, <2>3 DEF KillInv, FoundIsRegistered, FoundIsListed, Alive,
       threadVars, workerVars
  <2>6. MarkedIsDeadOrDying'
    BY <2>1, <2>2, <2>3 DEF KillInv, MarkedIsDeadOrDying, Alive, tableVars,
       workerVars
  <2> QED
    BY <2>4, <2>5, <2>6 DEF KillInv
<1>2. CASE Mark(c) /\ target[c] \notin Registered
  <2>1. ~found[c] /\ cancel'[c] # "killing" /\ cancel[c] # "killing"
    BY <1>2 DEF KillInv, FoundIsRegistered, Mark, TypeOK, CancelOK
  <2>2. \A d \in Clients : d # c => cancel'[d] = cancel[d]
    BY <1>2 DEF Mark, TypeOK, CancelOK
  <2>3. UNCHANGED <<tableVars, workerVars, threadVars, target, victims, found>>
    BY <1>2 DEF Mark
  <2>4. EarlyIsUnknown'
    BY <2>3 DEF KillInv, EarlyIsUnknown, threadVars, tableVars
  <2>5. FoundIsRegistered' /\ FoundIsListed'
    BY <2>1, <2>2, <2>3 DEF KillInv, FoundIsRegistered, FoundIsListed, Alive,
       threadVars, workerVars
  <2>6. MarkedIsDeadOrDying'
    BY <2>1, <2>2, <2>3 DEF KillInv, MarkedIsDeadOrDying, Alive, tableVars,
       workerVars
  <2> QED
    BY <2>4, <2>5, <2>6 DEF KillInv
<1>3. CASE Mark(c) /\ target[c] \in Registered
  <2> DEFINE D == Descendants(target[c])
  <2>1. D \subseteq Registered /\ target[c] \in D
    BY <1>3, RootIsDescendant DEF Descendants
  <2>2. /\ cancel' = [cancel EXCEPT ![c] = "killing"]
        /\ victims' = [victims EXCEPT ![c] = D]
        /\ found' = [found EXCEPT ![c] = TRUE]
        /\ active' = [j \in Jobs |-> IF j \in D THEN "cancelled" ELSE active[j]]
        /\ cancelled' = [j \in Jobs |-> cancelled[j] \/ j \in D]
        /\ cancel[c] = "requested"
        /\ UNCHANGED <<workerVars, threadVars, target>>
    BY <1>3 DEF Mark
  <2> HIDE DEF D
  <2>3. \A j \in D : j \in Jobs /\ thread[j] \notin Early
    BY <2>1 DEF KillInv, EarlyIsUnknown, Registered
  <2>4. EarlyIsUnknown'
    BY <2>2, <2>3 DEF KillInv, EarlyIsUnknown, threadVars, TypeOK, TableOK
  <2>5. \A d \in Clients : d # c => /\ cancel'[d] = cancel[d]
                                   /\ victims'[d] = victims[d]
                                   /\ found'[d] = found[d]
    BY <2>2 DEF TypeOK, CancelOK
  <2>6. cancel'[c] = "killing" /\ victims'[c] = D
    BY <2>2 DEF TypeOK, CancelOK
  <2>7. FoundIsRegistered' /\ FoundIsListed'
    BY <2>1, <2>2, <2>3, <2>5, <2>6 DEF KillInv, FoundIsRegistered, FoundIsListed,
       Alive, threadVars, workerVars
  <2>8. MarkedIsDeadOrDying'
    BY <2>2, <2>5, <2>6 DEF KillInv, MarkedIsDeadOrDying, Alive, workerVars
  <2> QED
    BY <2>4, <2>7, <2>8 DEF KillInv
<1>4. ASSUME NEW i \in Jobs, Kill(c, i)
      PROVE  KillInv'
  <2>1. \A j \in Jobs : Alive(j)' => Alive(j) /\ j # i
    BY <1>4 DEF Kill, Alive, TypeOK, WorkerOK, LiveWorker
  <2>2. \A d \in Clients : \A j \in victims[d] : j # i => j \in victims'[d]
    BY <1>4 DEF Kill, TypeOK, CancelOK
  <2>3. UNCHANGED <<tableVars, threadVars, cancel, target, found>>
    BY <1>4 DEF Kill
  <2>4. EarlyIsUnknown'
    BY <2>3 DEF KillInv, EarlyIsUnknown, threadVars, tableVars
  <2>5. FoundIsRegistered'
    BY <2>3 DEF KillInv, FoundIsRegistered, threadVars
  <2>6. FoundIsListed'
    BY <2>1, <2>2, <2>3 DEF KillInv, FoundIsRegistered, FoundIsListed
  <2>7. MarkedIsDeadOrDying'
    BY <2>1, <2>2, <2>3 DEF KillInv, MarkedIsDeadOrDying, tableVars
  <2> QED
    BY <2>4, <2>5, <2>6, <2>7 DEF KillInv
<1>5. CASE AnswerCancel(c)
  <2>1. /\ victims[c] = {}
        /\ cancel' = [cancel EXCEPT ![c] = "answered"]
        /\ UNCHANGED <<tableVars, workerVars, threadVars, target, victims, found>>
    BY <1>5 DEF AnswerCancel
  <2>2. EarlyIsUnknown'
    BY <2>1 DEF KillInv, EarlyIsUnknown, threadVars, tableVars
  <2>3. FoundIsRegistered' /\ FoundIsListed'
    BY <2>1 DEF KillInv, FoundIsRegistered, FoundIsListed, Alive, threadVars,
       workerVars, TypeOK, CancelOK
  <2>4. MarkedIsDeadOrDying'
    BY <2>1 DEF KillInv, MarkedIsDeadOrDying, Alive, tableVars, workerVars,
       TypeOK, CancelOK
  <2> QED
    BY <2>2, <2>3, <2>4 DEF KillInv
<1> QED
  BY <1>1, <1>2, <1>3, <1>4, <1>5 DEF Canceller

\* Every reachable state satisfies the invariant.
LEMMA KillInvariant == Spec => []KillInv
<1>1. TypeOK /\ Unconnected /\ KillInv /\ [Next]_vars => KillInv'
  <2> SUFFICES ASSUME TypeOK, Unconnected, KillInv, [Next]_vars
               PROVE  KillInv'
    OBVIOUS
  <2>1. ASSUME NEW j \in Jobs, Frontend(j) \/ Thread(j) \/ Copier(j) \/ Worker(j)
        PROVE  KillInv'
    BY <2>1, FrontendKill, ThreadKill, CopierKill, WorkerKill
  <2>2. ASSUME NEW o \in Operators, NEW j \in Jobs, OperatorCancel(o, j)
        PROVE  KillInv'
    BY <2>2, CancelKill DEF Clients
  <2>3. ASSUME NEW c \in Clients, Canceller(c)
        PROVE  KillInv'
    BY <2>3, CancelKill
  <2>4. CASE Idle \/ UNCHANGED vars
    <3>1. UNCHANGED <<tableVars, cancelVars, workerVars, threadVars>>
      BY <2>4 DEF Idle, vars
    <3> QED
      BY <3>1, QuietStep DEF tableVars, workerVars, threadVars, Alive
  <2> QED
    BY <2>1, <2>2, <2>3, <2>4 DEF Next
<1> QED
  BY <1>1, InitKill, TypeCorrect, UnconnectedInvariant, PTL DEF Spec

\* However many jobs, nested or not, and cancel requests are under way: a
\* marked job is dead, or some handler is about to kill its worker.
THEOREM MarkedDies == Spec => []MarkedIsDeadOrDying
<1>1. KillInv => MarkedIsDeadOrDying
  BY DEF KillInv
<1> QED
  BY <1>1, KillInvariant, PTL

\* A cancel request that reports `found` has ended the worker of its job.
THEOREM FoundIsDead == Spec => []FoundMeansDead
<1>1. KillInv => FoundMeansDead
  BY DEF KillInv, FoundIsListed, FoundMeansDead
<1> QED
  BY <1>1, KillInvariant, PTL

-----------------------------------------------------------------------------
\* The story of a job.  The log, the client's stream and the exit code are all
\* told from the frames the worker writes, so the invariant follows a frame
\* from the worker's state through the pipe and the thread's hand to the log.

\* The states a job passes while it may still go on.
Open == {"queued", "running", "waiting_interaction"}
Going == {"running", "waiting_interaction"}

\* The frames of a worker that has announced itself and has not ended.
Midway == {Lifecycle("running"), Lifecycle("waiting_interaction"), InteractionRequest}

\* The worker writes g after f; NoFrame stands before the first frame.
MayFollow(f, g) ==
    \/ f = NoFrame /\ g \in {Lifecycle("running"), Lifecycle("failed")}
    \/ f \in Midway /\ g \in {Lifecycle("waiting_interaction"), InteractionRequest,
                              Lifecycle("completed"), Lifecycle("failed")}
    \/ f = Lifecycle("completed") /\ g \in {Completed("exit"), Completed("130")}
    \/ f = Lifecycle("failed") /\ g = Failed

\* The frames of s follow each other and the frame f.
Linked(f, s) ==
    \A i \in DOMAIN s : MayFollow(IF i = 1 THEN f ELSE s[i - 1], s[i])
LastFrom(f, s) == IF s = <<>> THEN f ELSE s[Len(s)]

\* What the worker's last frame is at each of its states while it may write.
WorkerInPhase(j) ==
    LET f == LastFrom(frame[j], pipe[j]) IN
    ~Finished(j) =>
        /\ worker[j] = "booting" => f = NoFrame
        /\ worker[j] \in {"running", "asking", "awaiting"} => f \in Midway
        /\ worker[j] = "failing" => f \in Midway \cup {NoFrame}
        /\ worker[j] = "completing" => f = Lifecycle("completed")
        /\ worker[j] = "failed" => f = Lifecycle("failed")

\* Nothing has been written before the worker is spawned, and nothing been
\* read before its request is sent.
NotBegun(j) ==
    /\ thread[j] \in {"idle", "emit_queued", "log_queued", "spawn"} =>
           worker[j] = "none" /\ pipe[j] = <<>>
    /\ thread[j] \in Early \cup {"send_request"} => frame[j] = NoFrame

\* What the log may end with before the event of the frame f is in it, and
\* after a frame that is not terminal has been dealt with.
LogBefore(f) ==
    CASE f \in {NoFrame, Lifecycle("running")} -> {"queued"}
      [] f \in {Lifecycle("failed"), Failed} -> Open
      [] OTHER -> Going
LogAfter(f) ==
    CASE f = NoFrame -> {"queued"}
      [] f = Lifecycle("failed") -> Open
      [] OTHER -> Going

LogEnd(j) == IF log[j] = <<>> THEN "absent" ELSE LastOf(log[j])
Closing == {"wait", "join", "remove"}
Cancelling == {"emit_cancelled", "log_cancelled", "emit_completed"}

\* What a logged job's log ends with, at each place of its thread.
LogFollows(j) ==
    j \in Logged =>
        /\ thread[j] \in {"idle", "emit_queued", "log_queued"} => LogEnd(j) = "absent"
        /\ thread[j] \in {"spawn", "register", "send_request"} => LogEnd(j) = "queued"
        /\ thread[j] = "reading" => LogEnd(j) \in LogAfter(frame[j])
        /\ thread[j] \in {"record", "log", "await"} => LogEnd(j) \in LogBefore(frame[j])
        /\ thread[j] \in Closing \cup {"ok"} /\ Terminal(frame[j]) =>
               LogEnd(j) = EventOf(frame[j])
        /\ thread[j] \in Closing /\ ~Terminal(frame[j]) => LogEnd(j) \in Open
        /\ thread[j] \in {"emit_cancelled", "log_cancelled"} => LogEnd(j) \in Open
        /\ thread[j] = "emit_completed" => LogEnd(j) = "cancelled"
        /\ thread[j] = "ok" /\ ~Terminal(frame[j]) => LogEnd(j) = "cancelled"
        /\ thread[j] = "error" /\ Terminal(frame[j]) =>
               LogEnd(j) \in Open \cup {EventOf(frame[j])}

\* The frame a thread has in hand at each of its places.
FrameInHand(j) ==
    /\ frame[j] \in Midway \cup {NoFrame, Lifecycle("completed"), Lifecycle("failed"),
                                 Completed("exit"), Completed("130"), Failed}
    /\ thread[j] = "record" => frame[j].kind = "Lifecycle"
    /\ thread[j] = "log" => \/ frame[j] \in Midway \ {InteractionRequest}
                            \/ Terminal(frame[j])
    /\ thread[j] = "await" => frame[j] = InteractionRequest
    /\ thread[j] = "reading" => ~Terminal(frame[j])
    /\ thread[j] \in Cancelling => ~Terminal(frame[j])

\* A terminal frame that the client has or will read is the one in the
\* thread's hand, or the exit code of a job that was cancelled.
Tells(j, f) ==
    \/ f = frame[j] /\ thread[j] \in Closing \cup {"log", "ok", "error"}
    \/ f = Completed("130") /\ thread[j] = "ok" /\ ~Terminal(frame[j])
StreamTells(j) ==
    \A i \in DOMAIN stream[j] : Terminal(stream[j][i]) => Tells(j, stream[j][i])
OutcomeTells(j) ==
    outcome[j] \in {"exit", "130", "failed"} =>
        \E f \in Frames : Terminal(f) /\ outcome[j] = OutcomeOf(f) /\ Tells(j, f)

\* A thread that has waited for its worker has reaped it, and one that has
\* removed its entry never finds it again.
Ended(j) ==
    /\ thread[j] \in {"join", "remove", "ok"} \cup Cancelling => worker[j] = "reaped"
    /\ thread[j] \in {"ok"} \cup Cancelling => active[j] = "none"

\* Somebody asked to cancel the job or one above it.
AskedFor(j) == \E c \in Clients : found[c] /\ Below(j, target[c])
MarkedWasAskedFor(j) ==
    cancelled[j] \/ thread[j] \in Cancelling \/ (thread[j] = "ok" /\ ~Terminal(frame[j]))
        => AskedFor(j)

Story(j) ==
    /\ Linked(frame[j], pipe[j]) /\ WorkerInPhase(j) /\ NotBegun(j)
    /\ LogFollows(j) /\ FrameInHand(j) /\ StreamTells(j) /\ OutcomeTells(j)
    /\ Ended(j) /\ MarkedWasAskedFor(j)
StoryInv == \A j \in Jobs : Story(j)

-----------------------------------------------------------------------------
\* Frames that follow each other

\* The frames are told apart by what they carry.
LEMMA FrameKinds ==
    /\ \A f \in Midway : ~Terminal(f)
    /\ ~Terminal(NoFrame) /\ ~Terminal(TextOutput)
    /\ \A s \in JobStates : ~Terminal(Lifecycle(s))
    /\ Terminal(Completed("exit")) /\ Terminal(Completed("130")) /\ Terminal(Failed)
    /\ EventOf(Completed("exit")) = "completed" /\ EventOf(Failed) = "failed"
    /\ EventOf(Completed("130")) = "completed"
    /\ EventOf(Lifecycle("running")) = "running"
    /\ EventOf(Lifecycle("waiting_interaction")) = "waiting_interaction"
    /\ OutcomeOf(Completed("exit")) = "exit"
    /\ OutcomeOf(Completed("130")) = "130"
    /\ OutcomeOf(Failed) = "failed"
    /\ Completed("exit") # Completed("130") /\ Failed # Completed("130")
  BY DEF Midway, Terminal, EventOf, OutcomeOf, Lifecycle, Completed, Failed, NoFrame,
     TextOutput, InteractionRequest

\* What comes after a frame in hand, and what the thread does with it: a
\* worker's terminal frame is an exit code or Failed.
LEMMA FollowFacts ==
    ASSUME NEW f, NEW g, MayFollow(f, g)
    PROVE  /\ ~Terminal(f)
           /\ \/ /\ g \in {Lifecycle("running"), Lifecycle("waiting_interaction"),
                           Lifecycle("completed"), Lifecycle("failed")}
                 /\ g.kind = "Lifecycle" /\ ~Terminal(g)
                 /\ AfterForward(g) = "record"
              \/ /\ g = InteractionRequest /\ ~Terminal(g)
                 /\ AfterForward(g) = "await"
              \/ /\ g \in {Completed("exit"), Completed("130"), Failed} /\ Terminal(g)
                 /\ AfterForward(g) = "log"
           /\ LogAfter(f) \subseteq LogBefore(g)
  BY DEF MayFollow, Midway, Terminal, AfterForward, LogAfter, LogBefore, Open, Going,
     Lifecycle, Completed, Failed, NoFrame, InteractionRequest

\* Writing a frame that follows the last one.
LEMMA LinkedAppend ==
    ASSUME NEW T, NEW s \in Seq(T), NEW f, NEW g \in T,
           Linked(f, s), MayFollow(LastFrom(f, s), g)
    PROVE  Linked(f, Append(s, g)) /\ LastFrom(f, Append(s, g)) = g
<1> DEFINE t == Append(s, g)
<1>1. /\ t \in Seq(T) /\ Len(t) = Len(s) + 1 /\ t[Len(s) + 1] = g
      /\ \A i \in 1..Len(s) : t[i] = s[i]
      /\ DOMAIN t = 1..(Len(s) + 1) /\ DOMAIN s = 1..Len(s) /\ Len(s) \in Nat
  OBVIOUS
<1>2. s = <<>> <=> Len(s) = 0
  OBVIOUS
<1>3. t # <<>>
  BY <1>1
<1> HIDE DEF t
<1>4. LastFrom(f, t) = g
  BY <1>1, <1>3 DEF LastFrom
<1>5. ASSUME NEW i \in DOMAIN t
      PROVE  MayFollow(IF i = 1 THEN f ELSE t[i - 1], t[i])
  <2>1. CASE i <= Len(s)
    <3>1. i \in DOMAIN s /\ t[i] = s[i] /\ (i # 1 => t[i - 1] = s[i - 1])
      BY <1>1, <2>1
    <3> QED
      BY <3>1 DEF Linked
  <2>2. CASE i = Len(s) + 1
    <3>1. (IF i = 1 THEN f ELSE t[i - 1]) = LastFrom(f, s)
      BY <1>1, <1>2, <2>2 DEF LastFrom
    <3> QED
      BY <1>1, <2>2, <3>1
  <2> QED
    BY <1>1, <2>1, <2>2
<1> QED
  BY <1>4, <1>5 DEF Linked, t

\* Reading the first frame.
LEMMA LinkedTail ==
    ASSUME NEW T, NEW s \in Seq(T), NEW f, s # <<>>, Linked(f, s)
    PROVE  /\ MayFollow(f, Head(s))
           /\ Linked(Head(s), Tail(s))
           /\ LastFrom(Head(s), Tail(s)) = LastFrom(f, s)
<1> DEFINE t == Tail(s)
<1>1. /\ t \in Seq(T) /\ Len(t) = Len(s) - 1 /\ Head(s) = s[1]
      /\ \A i \in 1..Len(t) : t[i] = s[i + 1]
      /\ DOMAIN t = 1..Len(t) /\ DOMAIN s = 1..Len(s) /\ Len(s) \in Nat
      /\ Len(s) # 0
  OBVIOUS
<1>2. t = <<>> <=> Len(t) = 0
  BY <1>1
<1> HIDE DEF t
<1>3. MayFollow(f, Head(s))
  BY <1>1 DEF Linked
<1>4. LastFrom(Head(s), t) = LastFrom(f, s)
  BY <1>1, <1>2 DEF LastFrom
<1>5. ASSUME NEW i \in DOMAIN t
      PROVE  MayFollow(IF i = 1 THEN Head(s) ELSE t[i - 1], t[i])
  <2>1. i + 1 \in DOMAIN s /\ t[i] = s[i + 1] /\ (i + 1) - 1 = i /\ i + 1 # 1
    BY <1>1
  <2>2. (IF i = 1 THEN Head(s) ELSE t[i - 1]) = s[i]
    BY <1>1
  <2> QED
    BY <2>1, <2>2 DEF Linked
<1> QED
  BY <1>3, <1>4, <1>5 DEF Linked, t

\* A property of all members is kept by an append and by a tail.
LEMMA AppendMembers ==
    ASSUME NEW T, NEW s \in Seq(T), NEW v \in T
    PROVE  \A i \in DOMAIN Append(s, v) :
               Append(s, v)[i] = v \/ (\E k \in DOMAIN s : Append(s, v)[i] = s[k])
<1>1. /\ DOMAIN Append(s, v) = 1..(Len(s) + 1) /\ DOMAIN s = 1..Len(s)
      /\ Append(s, v)[Len(s) + 1] = v /\ Len(s) \in Nat
      /\ \A i \in 1..Len(s) : Append(s, v)[i] = s[i]
  OBVIOUS
<1>2. \A i \in 1..(Len(s) + 1) : i = Len(s) + 1 \/ i \in 1..Len(s)
  BY <1>1
<1> QED
  BY <1>1, <1>2

LEMMA TailMembers ==
    ASSUME NEW T, NEW s \in Seq(T), s # <<>>
    PROVE  /\ \A i \in DOMAIN Tail(s) : \E k \in DOMAIN s : Tail(s)[i] = s[k]
           /\ 1 \in DOMAIN s /\ Head(s) = s[1]
<1>1. /\ DOMAIN Tail(s) = 1..(Len(s) - 1) /\ DOMAIN s = 1..Len(s)
      /\ Len(s) \in Nat /\ Len(s) # 0 /\ Head(s) = s[1]
      /\ \A i \in 1..(Len(s) - 1) : Tail(s)[i] = s[i + 1]
  OBVIOUS
<1>2. \A i \in 1..(Len(s) - 1) : i + 1 \in 1..Len(s)
  BY <1>1
<1> QED
  BY <1>1, <1>2

-----------------------------------------------------------------------------
\* Steps that keep the story of a job

\* The request that asked for a cancellation stays on record.
Recorded == \A c \in Clients : found[c] => found'[c] /\ target'[c] = target[c]

\* A job none of whose variables a step changes keeps its story.
LEMMA SameStory ==
    ASSUME NEW j \in Jobs, Story(j), Recorded,
           frame'[j] = frame[j], pipe'[j] = pipe[j], thread'[j] = thread[j],
           worker'[j] = worker[j], log'[j] = log[j], outcome'[j] = outcome[j],
           stream'[j] = stream[j], active'[j] = active[j],
           cancelled'[j] => cancelled[j] \/ AskedFor(j)
    PROVE  Story(j)'
<1>1. AskedFor(j) => AskedFor(j)'
  BY DEF AskedFor, Recorded
<1>2. Linked(frame[j], pipe[j])' /\ WorkerInPhase(j)' /\ NotBegun(j)'
  BY Zenon DEF Story, Linked, WorkerInPhase, NotBegun, LastFrom, Finished
<1>3. LogFollows(j)' /\ FrameInHand(j)'
  BY DEF Story, LogFollows, LogEnd, LastOf, FrameInHand
<1>4. StreamTells(j)' /\ OutcomeTells(j)'
  BY DEF Story, StreamTells, OutcomeTells, Tells
<1>5. Ended(j)' /\ MarkedWasAskedFor(j)'
  BY <1>1 DEF Story, Ended, MarkedWasAskedFor
<1> QED
  BY <1>2, <1>3, <1>4, <1>5 DEF Story

\* A frontend that returns without a result keeps the story too.
LEMMA LostStory ==
    ASSUME NEW j \in Jobs, Story(j), Recorded,
           frame'[j] = frame[j], pipe'[j] = pipe[j], thread'[j] = thread[j],
           worker'[j] = worker[j], log'[j] = log[j], outcome'[j] = "lost",
           stream'[j] = stream[j], active'[j] = active[j],
           cancelled'[j] = cancelled[j]
    PROVE  Story(j)'
<1>1. AskedFor(j) => AskedFor(j)'
  BY DEF AskedFor, Recorded
<1>2. Linked(frame[j], pipe[j])' /\ WorkerInPhase(j)' /\ NotBegun(j)'
  BY Zenon DEF Story, Linked, WorkerInPhase, NotBegun, LastFrom, Finished
<1>3. LogFollows(j)' /\ FrameInHand(j)'
  BY DEF Story, LogFollows, LogEnd, LastOf, FrameInHand
<1>4. StreamTells(j)' /\ OutcomeTells(j)'
  BY DEF Story, StreamTells, OutcomeTells, Tells, FinalStates
<1>5. Ended(j)' /\ MarkedWasAskedFor(j)'
  BY <1>1 DEF Story, Ended, MarkedWasAskedFor
<1> QED
  BY <1>2, <1>3, <1>4, <1>5 DEF Story

\* A thread that gives up on an error, wherever it is, leaves a true story: no
\* event follows, and what was told is what was in its hand.
LEMMA ErrorStory ==
    ASSUME NEW j \in Jobs, Story(j), Recorded,
           thread[j] \in ThreadPcs \ {"ok"}, thread'[j] = "error",
           frame'[j] = frame[j], pipe'[j] = pipe[j],
           worker'[j] = worker[j], log'[j] = log[j], outcome'[j] = outcome[j],
           stream'[j] = stream[j], active'[j] = active[j],
           cancelled'[j] => cancelled[j]
    PROVE  Story(j)'
<1>1. AskedFor(j) => AskedFor(j)'
  BY DEF AskedFor, Recorded
<1>2. Linked(frame[j], pipe[j])' /\ WorkerInPhase(j)' /\ NotBegun(j)'
  BY Zenon DEF Story, Linked, WorkerInPhase, NotBegun, LastFrom, Finished, Early
<1>3. LogFollows(j)' /\ FrameInHand(j)'
  <2>1. Terminal(frame[j]) =>
            thread[j] \in Closing \cup {"log", "error"} /\ frame[j] # NoFrame
    BY FrameKinds DEF Story, FrameInHand, NotBegun, Early, ThreadPcs, Closing, Terminal,
       Cancelling, InteractionRequest
  <2>2. Terminal(frame[j]) => LogBefore(frame[j]) \subseteq Open
    BY FrameKinds DEF LogBefore, Open, Going
  <2>3. LogFollows(j)'
    BY <2>1, <2>2 DEF Story, LogFollows, LogEnd, LastOf, Closing
  <2> QED
    BY <2>3 DEF Story, FrameInHand, Cancelling
<1>4. StreamTells(j)' /\ OutcomeTells(j)'
  <2>1. \A f : Tells(j, f) => Tells(j, f)'
    BY DEF Tells, ThreadPcs
  <2> QED
    BY <2>1, Zenon DEF Story, StreamTells, OutcomeTells
<1>5. Ended(j)' /\ MarkedWasAskedFor(j)'
  BY <1>1 DEF Story, Ended, MarkedWasAskedFor, Cancelling
<1> QED
  BY <1>2, <1>3, <1>4, <1>5 DEF Story

-----------------------------------------------------------------------------
\* The worker's steps

\* A worker that writes a frame which follows its last one.
LEMMA EmitStory ==
    ASSUME TypeOK, NEW j \in Jobs, Story(j), Recorded,
           NEW f \in Frames, NEW next, Emit(j, f, next),
           Alive(j), next \in LiveWorker \cup {"dead"},
           ~Finished(j) => MayFollow(LastFrom(frame[j], pipe[j]), f),
           next = "booting" => f = NoFrame,
           next \in {"running", "asking", "awaiting"} => f \in Midway,
           next = "failing" => f \in Midway \cup {NoFrame},
           next = "completing" => f = Lifecycle("completed"),
           next = "failed" => f = Lifecycle("failed"),
           UNCHANGED <<threadVars, log, outcome, stream, tableVars>>
    PROVE  Story(j)'
<1>1. /\ frame'[j] = frame[j] /\ thread'[j] = thread[j] /\ log'[j] = log[j]
      /\ outcome'[j] = outcome[j] /\ stream'[j] = stream[j]
      /\ active'[j] = active[j] /\ cancelled'[j] = cancelled[j]
  BY DEF threadVars, tableVars
<1>2. AskedFor(j) => AskedFor(j)'
  BY DEF AskedFor, Recorded
<1>3. worker[j] \in LiveWorker /\ worker'[j] \in LiveWorker \cup {"dead"}
  BY DEF Emit, Alive, TypeOK, WorkerOK, LiveWorker
<1>4. Linked(frame[j], pipe[j])' /\ WorkerInPhase(j)'
  <2>1. CASE Finished(j)
    BY <1>1, <2>1, Zenon DEF Emit, Story, Linked, WorkerInPhase, Finished
  <2>2. CASE ~Finished(j)
    <3>1. pipe'[j] = Append(pipe[j], f) /\ worker'[j] = next
      BY <2>2 DEF Emit, TypeOK, PipeOK, WorkerOK
    <3>2. pipe[j] \in Seq(Frames) /\ Linked(frame[j], pipe[j])
      BY DEF TypeOK, PipeOK, Story
    <3>3. /\ Linked(frame[j], Append(pipe[j], f))
          /\ LastFrom(frame[j], Append(pipe[j], f)) = f
      BY <2>2, <3>2, LinkedAppend
    <3> QED
      BY <1>1, <3>1, <3>3, Zenon DEF WorkerInPhase, Finished, Linked, LastFrom
  <2> QED
    BY <2>1, <2>2
<1>5. NotBegun(j)' /\ Ended(j)'
  BY <1>1, <1>3 DEF Story, NotBegun, Ended, LiveWorker
<1>6. LogFollows(j)' /\ FrameInHand(j)'
  BY <1>1 DEF Story, LogFollows, LogEnd, LastOf, FrameInHand
<1>7. StreamTells(j)' /\ OutcomeTells(j)' /\ MarkedWasAskedFor(j)'
  BY <1>1, <1>2 DEF Story, StreamTells, OutcomeTells, Tells, MarkedWasAskedFor
<1> QED
  BY <1>4, <1>5, <1>6, <1>7 DEF Story

\* A worker that goes on without writing, or dies.
LEMMA QuietWorkerStory ==
    ASSUME TypeOK, NEW j \in Jobs, Story(j), Recorded, Alive(j),
           \/ worker'[j] \in {"complaining", "dead"}
           \/ worker[j] = "booting" /\ worker'[j] = "failing"
           \/ worker[j] = "awaiting" /\ worker'[j] \in {"running", "failing"},
           UNCHANGED <<threadVars, pipe, log, outcome, stream, tableVars>>
    PROVE  Story(j)'
<1>1. /\ frame'[j] = frame[j] /\ thread'[j] = thread[j] /\ log'[j] = log[j]
      /\ outcome'[j] = outcome[j] /\ stream'[j] = stream[j] /\ pipe'[j] = pipe[j]
      /\ active'[j] = active[j] /\ cancelled'[j] = cancelled[j]
  BY DEF threadVars, tableVars
<1>2. AskedFor(j) => AskedFor(j)'
  BY DEF AskedFor, Recorded
<1>4. Linked(frame[j], pipe[j])' /\ WorkerInPhase(j)'
  BY <1>1 DEF Story, Linked, WorkerInPhase, Finished, LastFrom
<1>5. NotBegun(j)' /\ Ended(j)'
  BY <1>1 DEF Story, NotBegun, Ended, LiveWorker, Alive
<1>6. LogFollows(j)' /\ FrameInHand(j)'
  BY <1>1 DEF Story, LogFollows, LogEnd, LastOf, FrameInHand
<1>7. StreamTells(j)' /\ OutcomeTells(j)' /\ MarkedWasAskedFor(j)'
  BY <1>1, <1>2 DEF Story, StreamTells, OutcomeTells, Tells, MarkedWasAskedFor
<1> QED
  BY <1>4, <1>5, <1>6, <1>7 DEF Story

\* A step of a worker keeps the story of its job: it writes its frames in order.
LEMMA WorkerStory ==
    ASSUME TypeOK, NEW j \in Jobs, Story(j), Worker(j)
    PROVE  Story(j)'
<1> DEFINE l == LastFrom(frame[j], pipe[j])
<1>1. UNCHANGED <<threadVars, log, outcome, stream, tableVars, cancelVars>>
  BY DEF Worker, Boot, AnnounceWait, Ask, GetAnswer, Succeed, Fail, EmitTerminal,
     Complain, Crash, frontendVars, socketVars
<1>2. Recorded /\ UNCHANGED <<threadVars, log, outcome, stream, tableVars>>
  BY <1>1 DEF Recorded, cancelVars
<1>3. CASE Boot(j)
  <2>1. Alive(j) /\ (~Finished(j) => MayFollow(l, Lifecycle("running")))
    BY <1>3 DEF Boot, Alive, LiveWorker, Story, WorkerInPhase, MayFollow
  <2>2. CASE worker' = [worker EXCEPT ![j] = "failing"] /\ UNCHANGED pipe
    <3>1. worker[j] = "booting" /\ worker'[j] = "failing"
      BY <1>3, <2>2 DEF Boot, TypeOK, WorkerOK
    <3> QED
      BY <1>2, <2>1, <2>2, <3>1, QuietWorkerStory
  <2>3. CASE Emit(j, Lifecycle("running"), "running")
    <3>1. "running" \in LiveWorker /\ Lifecycle("running") \in Midway
          /\ Lifecycle("running") \in Frames
      BY FrameFacts, PcFacts DEF LiveWorker, Midway
    <3> QED
      BY <1>2, <2>1, <2>3, <3>1, EmitStory
  <2> QED
    BY <1>3, <2>2, <2>3 DEF Boot
<1>4. CASE AnnounceWait(j)
  <2>1. Alive(j) /\ (~Finished(j) => MayFollow(l, Lifecycle("waiting_interaction")))
    BY <1>4 DEF AnnounceWait, Alive, LiveWorker, Story, WorkerInPhase, MayFollow
  <2>2. /\ "asking" \in LiveWorker /\ Lifecycle("waiting_interaction") \in Midway
        /\ Lifecycle("waiting_interaction") \in Frames
    BY FrameFacts, PcFacts DEF LiveWorker, Midway
  <2>3. Emit(j, Lifecycle("waiting_interaction"), "asking")
    BY <1>4 DEF AnnounceWait
  <2> QED
    BY <1>2, <2>1, <2>2, <2>3, EmitStory
<1>5. CASE Ask(j)
  <2>1. Alive(j) /\ (~Finished(j) => MayFollow(l, InteractionRequest))
    BY <1>5 DEF Ask, Alive, LiveWorker, Story, WorkerInPhase, MayFollow
  <2>2. /\ "awaiting" \in LiveWorker /\ InteractionRequest \in Midway
        /\ InteractionRequest \in Frames
    BY FrameFacts DEF LiveWorker, Midway
  <2>3. Emit(j, InteractionRequest, "awaiting")
    BY <1>5 DEF Ask
  <2> QED
    BY <1>2, <2>1, <2>2, <2>3, EmitStory
<1>6. CASE GetAnswer(j)
  <2>1. /\ Alive(j) /\ UNCHANGED pipe
        /\ worker[j] = "awaiting" /\ worker'[j] \in {"running", "failing"}
    BY <1>6 DEF GetAnswer, Alive, LiveWorker, TypeOK, WorkerOK
  <2> QED
    BY <1>2, <2>1, QuietWorkerStory
<1>7. CASE Succeed(j)
  <2>1. Alive(j) /\ (~Finished(j) => MayFollow(l, Lifecycle("completed")))
    BY <1>7 DEF Succeed, Alive, LiveWorker, Story, WorkerInPhase, MayFollow
  <2>2. "completing" \in LiveWorker /\ Lifecycle("completed") \in Frames
    BY FrameFacts, PcFacts DEF LiveWorker
  <2>3. Emit(j, Lifecycle("completed"), "completing")
    BY <1>7 DEF Succeed
  <2> QED
    BY <1>2, <2>1, <2>2, <2>3, EmitStory
<1>8. CASE Fail(j)
  <2>1. Alive(j) /\ (~Finished(j) => MayFollow(l, Lifecycle("failed")))
    BY <1>8 DEF Fail, Alive, LiveWorker, Story, WorkerInPhase, MayFollow
  <2>2. "failed" \in LiveWorker /\ Lifecycle("failed") \in Frames
    BY FrameFacts, PcFacts DEF LiveWorker
  <2>3. Emit(j, Lifecycle("failed"), "failed")
    BY <1>8 DEF Fail
  <2> QED
    BY <1>2, <2>1, <2>2, <2>3, EmitStory
<1>9. CASE EmitTerminal(j)
  <2>1. PICK f \in {Completed("exit"), Completed("130"), Failed},
             next \in {"dead", "complaining"} :
            /\ Emit(j, f, next) /\ Alive(j)
            /\ ~Finished(j) => MayFollow(l, f)
    BY <1>9 DEF EmitTerminal, Alive, LiveWorker, Story, WorkerInPhase, MayFollow
  <2>2. f \in Frames /\ next \in LiveWorker \cup {"dead"}
    BY FrameFacts DEF LiveWorker
  <2> QED
    BY <1>2, <2>1, <2>2, EmitStory
<1>10. CASE Complain(j)
  <2>1. Alive(j) /\ UNCHANGED pipe /\ worker'[j] = "dead"
    BY <1>10 DEF Complain, Alive, LiveWorker, TypeOK, WorkerOK
  <2> QED
    BY <1>2, <2>1, QuietWorkerStory
<1>11. CASE Crash(j)
  <2>1. Alive(j) /\ UNCHANGED pipe /\ worker'[j] = "dead"
    BY <1>11 DEF Crash, TypeOK, WorkerOK, pipeVars
  <2> QED
    BY <1>2, <2>1, QuietWorkerStory
<1> QED
  BY <1>3, <1>4, <1>5, <1>6, <1>7, <1>8, <1>9, <1>10, <1>11 DEF Worker

-----------------------------------------------------------------------------
\* The frontend's steps

\* What the client was told stays true when every terminal frame that was
\* told is told after the step; a frame written may be terminal only if it tells.
LEMMA ToldStays ==
    ASSUME TypeOK, NEW j \in Jobs, Story(j),
           \A g : Terminal(g) /\ Tells(j, g) => Tells(j, g)'
    PROVE  /\ stream'[j] = stream[j] => StreamTells(j)'
           /\ outcome'[j] = outcome[j] => OutcomeTells(j)'
           /\ \A f \in Frames : /\ stream'[j] = Append(stream[j], f)
                                /\ Terminal(f) => Tells(j, f)'
                                => StreamTells(j)'
<1>1. stream'[j] = stream[j] => StreamTells(j)'
  BY DEF Story, StreamTells
<1>2. outcome'[j] = outcome[j] => OutcomeTells(j)'
  BY DEF Story, OutcomeTells
<1>3. ASSUME NEW f \in Frames, stream'[j] = Append(stream[j], f),
             Terminal(f) => Tells(j, f)'
      PROVE  StreamTells(j)'
  <2>1. stream[j] \in Seq(Frames)
    BY DEF TypeOK, SocketOK
  <2>2. \A i \in DOMAIN stream'[j] :
            \/ stream'[j][i] = f
            \/ \E k \in DOMAIN stream[j] : stream'[j][i] = stream[j][k]
    BY <2>1, <1>3, AppendMembers
  <2>3. \A k \in DOMAIN stream[j] : \A g :
            g = stream[j][k] /\ Terminal(g) => Tells(j, g)'
    BY DEF Story, StreamTells
  <2>4. \A g : (\E i \in DOMAIN stream'[j] : g = stream'[j][i]) /\ Terminal(g)
            => Tells(j, g)'
    BY <1>3, <2>2, <2>3
  <2> QED
    BY <2>4 DEF StreamTells
<1> QED
  BY <1>1, <1>2, <1>3

\* Reading a frame: a terminal one becomes the outcome.
LEMMA ReadStory ==
    ASSUME TypeOK, NEW j \in Jobs, Story(j), ReadFrame(j)
    PROVE  Story(j)'
<1> PICK f : f = Head(stream[j])
  OBVIOUS
<1>1. /\ frame'[j] = frame[j] /\ thread'[j] = thread[j] /\ log'[j] = log[j]
      /\ pipe'[j] = pipe[j] /\ worker'[j] = worker[j]
      /\ active'[j] = active[j] /\ cancelled'[j] = cancelled[j]
  BY DEF ReadFrame, threadVars, tableVars, workerVars, pipeVars
<1>2. AskedFor(j) => AskedFor(j)'
  BY DEF AskedFor, ReadFrame, cancelVars
<1>3. stream[j] \in Seq(Frames) /\ stream[j] # <<>> /\ stream'[j] = Tail(stream[j])
  BY DEF ReadFrame, TypeOK, SocketOK
<1>4. /\ \A i \in DOMAIN stream'[j] : \E k \in DOMAIN stream[j] :
             stream'[j][i] = stream[j][k]
      /\ 1 \in DOMAIN stream[j] /\ f = stream[j][1] /\ f \in Frames
  BY <1>3, TailMembers
<1>5. \A g : Tells(j, g) => Tells(j, g)'
  BY <1>1 DEF Tells
<1>6. StreamTells(j)'
  BY <1>4, <1>5 DEF Story, StreamTells
<1>7. OutcomeTells(j)'
  <2>1. CASE Terminal(f)
    <3>1. outcome'[j] = OutcomeOf(f)
      BY <2>1 DEF ReadFrame, TypeOK, FrontendOK
    <3>2. Tells(j, f)'
      BY <2>1, <1>4, <1>5, Zenon DEF Story, StreamTells
    <3> QED
      BY <2>1, <3>1, <3>2, <1>4 DEF OutcomeTells
  <2>2. CASE ~Terminal(f)
    <3>1. outcome'[j] = outcome[j]
      BY <2>2 DEF ReadFrame, TypeOK, FrontendOK
    <3> QED
      BY <3>1, <1>5 DEF Story, OutcomeTells
  <2> QED
    BY <2>1, <2>2
<1>8. Linked(frame[j], pipe[j])' /\ WorkerInPhase(j)' /\ NotBegun(j)'
  BY <1>1, Zenon DEF Story, Linked, WorkerInPhase, NotBegun, LastFrom, Finished
<1>9. LogFollows(j)' /\ FrameInHand(j)'
  BY <1>1 DEF Story, LogFollows, LogEnd, LastOf, FrameInHand
<1>10. Ended(j)' /\ MarkedWasAskedFor(j)'
  BY <1>1, <1>2 DEF Story, Ended, MarkedWasAskedFor
<1> QED
  BY <1>6, <1>7, <1>8, <1>9, <1>10 DEF Story

\* Connecting starts the thread, before anything has happened to the job.
LEMMA ConnectStory ==
    ASSUME TypeOK, Unconnected, NEW j \in Jobs, Story(j), Connect(j)
    PROVE  Story(j)'
<1>1. /\ frame'[j] = frame[j] /\ thread'[j] = "emit_queued" /\ log'[j] = log[j]
      /\ thread[j] = "idle"
      /\ pipe'[j] = pipe[j] /\ worker'[j] = worker[j] /\ stream'[j] = stream[j]
      /\ active'[j] = active[j] /\ cancelled'[j] = cancelled[j]
      /\ outcome'[j] = outcome[j]
  BY DEF Connect, Unconnected, TypeOK, ThreadOK, socketVars, tableVars, workerVars,
     pipeVars
<1>2. AskedFor(j) => AskedFor(j)'
  BY DEF AskedFor, Connect, cancelVars
<1>3. \A g : Terminal(g) /\ Tells(j, g) => Tells(j, g)'
  BY <1>1 DEF Tells, Closing
<1>4. StreamTells(j)' /\ OutcomeTells(j)'
  BY <1>1, <1>3, ToldStays
<1>5. Linked(frame[j], pipe[j])' /\ WorkerInPhase(j)' /\ NotBegun(j)'
  BY <1>1, Zenon DEF Story, Linked, WorkerInPhase, NotBegun, LastFrom, Finished, Early
<1>6. LogFollows(j)' /\ FrameInHand(j)'
  BY <1>1 DEF Story, LogFollows, LogEnd, LastOf, FrameInHand, Closing, Cancelling
<1>7. Ended(j)' /\ MarkedWasAskedFor(j)'
  BY <1>1, <1>2 DEF Story, Ended, MarkedWasAskedFor, Cancelling
<1> QED
  BY <1>4, <1>5, <1>6, <1>7 DEF Story

\* A step of a frontend keeps the story of its job.
LEMMA FrontendStory ==
    ASSUME TypeOK, Unconnected, KillInv, NEW j \in Jobs, Story(j), Frontend(j)
    PROVE  Story(j)'
<1>1. CASE Connect(j) \/ ReadFrame(j)
  BY <1>1, ConnectStory, ReadStory
<1>2. CASE Launch(j) \/ ResumeReading(j) \/ Interrupt(j)
  <2>1. UNCHANGED <<outcome, socketVars, threadVars, tableVars, workerVars, pipeVars, log>>
    BY <1>2 DEF Launch, ResumeReading, Interrupt
  <2>2. Recorded
    BY <1>2 DEF Launch, ResumeReading, Interrupt, Recorded, cancelVars, KillInv,
       FoundIsRegistered, TypeOK, CancelOK
  <2> QED
    BY <2>1, <2>2, SameStory DEF socketVars, threadVars, tableVars, workerVars, pipeVars
<1>3. CASE Answer(j) \/ ReadEof(j) \/ Vanish(j)
  <2>1. UNCHANGED <<stream, threadVars, tableVars, workerVars, pipeVars, log, cancelVars>>
    BY <1>3 DEF Answer, ReadEof, Vanish, socketVars
  <2>2. outcome'[j] \in {outcome[j], "lost"}
    BY <1>3 DEF Answer, ReadEof, Vanish, TypeOK, FrontendOK
  <2>3. Recorded
    BY <2>1 DEF Recorded, cancelVars
  <2> QED
    BY <2>1, <2>2, <2>3, SameStory, LostStory
       DEF threadVars, tableVars, workerVars, pipeVars
<1> QED
  BY <1>1, <1>2, <1>3 DEF Frontend

-----------------------------------------------------------------------------
\* The thread's steps

\* write_client_frame, read at the job: the frame is written, or the thread ends.
LEMMA SendFacts ==
    ASSUME TypeOK, NEW j \in Jobs, NEW f, NEW next, SendClient(j, f, next)
    PROVE  \/ thread'[j] = "error" /\ stream'[j] = stream[j]
           \/ thread'[j] = next /\ stream'[j] = Append(stream[j], f)
  BY DEF SendClient, TypeOK, ThreadOK, SocketOK

\* append_job_lifecycle_event, read at the job.
LEMMA AppendFacts ==
    ASSUME TypeOK, NEW j \in Jobs, NEW s \in JobStates, NEW next,
           AppendEvent(j, s, next)
    PROVE  \/ thread'[j] = "error" /\ log'[j] = log[j]
           \/ /\ thread'[j] = next
              /\ j \in Logged => LogEnd(j)' = s
<1>1. log[j] \in Seq(JobStates)
  BY DEF TypeOK, LogOK
<1>2. Append(log[j], s) # <<>> /\ LastOf(Append(log[j], s)) = s
  BY <1>1 DEF LastOf
<1>3. CASE thread' = [thread EXCEPT ![j] = "error"] /\ UNCHANGED log
  BY <1>3 DEF TypeOK, ThreadOK
<1>4. CASE /\ thread' = [thread EXCEPT ![j] = next]
           /\ log' = [log EXCEPT ![j] = IF j \in Logged THEN Append(@, s) ELSE @]
  <2>1. thread'[j] = next /\ (j \in Logged => log'[j] = Append(log[j], s))
    BY <1>4 DEF TypeOK, ThreadOK, LogOK
  <2> QED
    BY <2>1, <1>2 DEF LogEnd, LastOf
<1> QED
  BY <1>3, <1>4 DEF AppendEvent

\* What a step of the thread leaves alone at its job when it moves the thread
\* and neither reads a frame nor waits for its worker.
Aside(j) ==
    /\ frame'[j] = frame[j] /\ pipe'[j] = pipe[j]
    /\ worker'[j] = worker[j] /\ outcome'[j] = outcome[j]

\* A thread that goes on, and has not ended, keeps what does not speak of the
\* log, of the stream and of the table.
LEMMA OnwardStory ==
    ASSUME NEW j \in Jobs, Story(j), Aside(j), thread[j] \notin {"ok", "error"},
           thread'[j] \notin {"idle", "emit_queued", "log_queued", "spawn"},
           thread'[j] \in Early \cup {"send_request"} =>
               thread[j] \in Early \cup {"send_request"}
    PROVE  Linked(frame[j], pipe[j])' /\ WorkerInPhase(j)' /\ NotBegun(j)'
<1>1. Linked(frame[j], pipe[j])'
  BY DEF Story, Linked, Aside
<1>2. WorkerInPhase(j)'
  BY Zenon DEF Story, WorkerInPhase, Aside, LastFrom, Finished
<1>3. NotBegun(j)'
  BY DEF Story, NotBegun, Aside
<1> QED
  BY <1>1, <1>2, <1>3

\* Announcing and logging the queued job.
LEMMA QueuedStory ==
    ASSUME TypeOK, NEW j \in Jobs, Story(j), EmitQueued(j) \/ LogQueued(j)
    PROVE  Story(j)'
<1>1. /\ Recorded /\ Aside(j) /\ active'[j] = active[j] /\ cancelled'[j] = cancelled[j]
  BY DEF EmitQueued, LogQueued, Recorded, Aside, cancelVars, tableVars, workerVars,
     pipeVars, frontendVars
<1>2. AskedFor(j) => AskedFor(j)'
  BY <1>1 DEF AskedFor, Recorded
<1>3. thread[j] \in {"emit_queued", "log_queued"}
  BY DEF EmitQueued, LogQueued
<1>4. \A g : Terminal(g) /\ Tells(j, g) => Tells(j, g)'
  BY <1>3 DEF Tells, Closing
<1>5. \/ /\ thread[j] = "emit_queued" /\ thread'[j] = "log_queued"
         /\ stream'[j] = Append(stream[j], Lifecycle("queued")) /\ log'[j] = log[j]
      \/ /\ thread[j] = "log_queued" /\ thread'[j] = "spawn"
         /\ stream'[j] = stream[j] /\ (j \in Logged => LogEnd(j)' = "queued")
      \/ thread'[j] = "error" /\ stream'[j] = stream[j] /\ log'[j] = log[j]
  BY SendFacts, AppendFacts, PcFacts DEF EmitQueued, LogQueued, socketVars
<1>6. CASE thread'[j] = "error"
  <2>1. stream'[j] = stream[j] /\ log'[j] = log[j]
    BY <1>5, <1>6
  <2> QED
    BY <1>1, <1>3, <1>6, <2>1, ErrorStory DEF Aside, ThreadPcs
<1>7. CASE thread'[j] # "error"
  <2>1. thread'[j] \in {"log_queued", "spawn"}
    BY <1>5, <1>7
  <2>2. Linked(frame[j], pipe[j])' /\ WorkerInPhase(j)' /\ NotBegun(j)'
    <3>1. Linked(frame[j], pipe[j])'
      BY <1>1 DEF Story, Linked, Aside
    <3>2. WorkerInPhase(j)'
      BY <1>1, <1>3, Zenon DEF Story, WorkerInPhase, Aside, LastFrom, Finished
    <3> QED
      BY <1>1, <1>3, <2>1, <3>1, <3>2 DEF Story, NotBegun, Aside, Early
  <2>3. LogFollows(j)'
    BY <1>5, <1>7 DEF Story, LogFollows, LogEnd, LastOf, Closing, Cancelling
  <2>4. FrameInHand(j)'
    BY <1>1, <2>1 DEF Story, FrameInHand, Aside, Cancelling
  <2>5. StreamTells(j)' /\ OutcomeTells(j)'
    <3>1. Lifecycle("queued") \in Frames /\ ~Terminal(Lifecycle("queued"))
      BY FrameFacts, FrameKinds, PcFacts
    <3> QED
      BY <1>1, <1>4, <1>5, <1>7, <3>1, ToldStays DEF Aside
  <2>6. Ended(j)' /\ MarkedWasAskedFor(j)'
    BY <1>1, <1>2, <1>3, <2>1 DEF Story, Ended, MarkedWasAskedFor, Cancelling
  <2> QED
    BY <2>2, <2>3, <2>4, <2>5, <2>6 DEF Story
<1> QED
  BY <1>6, <1>7

\* Spawning the worker: nothing has been written yet.
LEMMA SpawnStory ==
    ASSUME TypeOK, NEW j \in Jobs, Story(j), Spawn(j)
    PROVE  Story(j)'
<1>1. /\ Recorded /\ active'[j] = active[j] /\ cancelled'[j] = cancelled[j]
      /\ frame'[j] = frame[j] /\ pipe'[j] = pipe[j] /\ log'[j] = log[j]
      /\ stream'[j] = stream[j] /\ outcome'[j] = outcome[j] /\ thread[j] = "spawn"
  BY DEF Spawn, Recorded, cancelVars, tableVars, pipeVars, socketVars, frontendVars
<1>2. AskedFor(j) => AskedFor(j)'
  BY <1>1 DEF AskedFor, Recorded
<1>3. \/ thread'[j] = "register" /\ worker'[j] = "booting"
      \/ thread'[j] = "error" /\ worker'[j] = worker[j]
  BY DEF Spawn, TypeOK, ThreadOK, WorkerOK
<1>4. CASE thread'[j] = "error" /\ worker'[j] = worker[j]
  BY <1>1, <1>4, ErrorStory DEF ThreadPcs
<1>5. CASE thread'[j] = "register" /\ worker'[j] = "booting"
  <2>1. Linked(frame[j], pipe[j])' /\ NotBegun(j)'
    BY <1>1, <1>5 DEF Story, Linked, NotBegun, Early
  <2>2. WorkerInPhase(j)'
    BY <1>1, <1>5 DEF Story, WorkerInPhase, NotBegun, LastFrom, Early
  <2>3. LogFollows(j)' /\ FrameInHand(j)'
    BY <1>1, <1>5 DEF Story, LogFollows, LogEnd, LastOf, FrameInHand, Closing,
       Cancelling
  <2>4. \A g : Terminal(g) /\ Tells(j, g) => Tells(j, g)'
    BY <1>1 DEF Tells, Closing
  <2>5. StreamTells(j)' /\ OutcomeTells(j)'
    BY <1>1, <2>4, ToldStays
  <2>6. Ended(j)' /\ MarkedWasAskedFor(j)'
    BY <1>1, <1>2, <1>5 DEF Story, Ended, MarkedWasAskedFor, Cancelling
  <2> QED
    BY <2>1, <2>2, <2>3, <2>5, <2>6 DEF Story
<1> QED
  BY <1>3, <1>4, <1>5

\* Registering the job, sending its request, handing over an answer and joining
\* the copier write neither frames nor events: they go on, or end with an error.
LEMMA PassingStory ==
    ASSUME TypeOK, NEW j \in Jobs, Story(j),
           Register(j) \/ SendRequest(j) \/ RelayAnswer(j) \/ AwaitEof(j) \/ JoinStderr(j)
    PROVE  Story(j)'
<1>1. /\ Recorded /\ Aside(j) /\ log'[j] = log[j] /\ stream'[j] = stream[j]
      /\ cancelled'[j] => cancelled[j]
  BY DEF Register, SendRequest, RelayAnswer, AwaitEof, JoinStderr, Recorded, Aside,
     cancelVars, tableVars, workerVars, pipeVars, frontendVars, socketVars, threadVars,
     TypeOK, TableOK
<1>2. AskedFor(j) => AskedFor(j)'
  BY <1>1 DEF AskedFor, Recorded
<1>3. \/ /\ thread[j] = "register" /\ thread'[j] = "send_request"
      \/ /\ thread[j] = "send_request" /\ thread'[j] = "reading"
         /\ active'[j] = active[j]
      \/ /\ thread[j] = "await" /\ thread'[j] = "reading" /\ active'[j] = active[j]
      \/ /\ thread[j] = "join" /\ thread'[j] = "remove" /\ active'[j] = active[j]
      \/ /\ thread[j] \in ThreadPcs \ {"ok"} /\ thread'[j] = "error"
         /\ active'[j] = active[j]
  BY DEF Register, SendRequest, RelayAnswer, AwaitEof, JoinStderr, TypeOK, ThreadOK,
     tableVars, ThreadPcs
<1>4. CASE thread'[j] = "error"
  BY <1>1, <1>3, <1>4, ErrorStory DEF Aside
<1>5. CASE thread'[j] # "error"
  <2>1. Linked(frame[j], pipe[j])' /\ WorkerInPhase(j)' /\ NotBegun(j)'
    BY <1>1, <1>3, <1>5, OnwardStory DEF Early
  <2>2. LogEnd(j)' = LogEnd(j) /\ frame'[j] = frame[j]
    BY <1>1 DEF LogEnd, LastOf, Aside
  <2>3. InteractionRequest \notin {NoFrame, Lifecycle("running"), Lifecycle("failed"), Failed}
    BY DEF InteractionRequest, NoFrame, Lifecycle, Failed
  <2>4. LogFollows(j)'
    <3>1. thread[j] = "send_request" => LogAfter(frame[j]) = {"queued"}
      BY DEF Story, NotBegun, LogAfter, Early, NoFrame, Lifecycle
    <3>2. thread[j] = "await" => LogAfter(frame[j]) = LogBefore(frame[j])
      BY <2>3 DEF Story, FrameInHand, LogAfter, LogBefore
    <3> QED
      BY <1>3, <1>5, <2>2, <3>1, <3>2 DEF Story, LogFollows, Closing
  <2>5. FrameInHand(j)'
    <3>1. thread[j] \in {"register", "send_request", "await"} => ~Terminal(frame[j])
      BY FrameKinds DEF Story, FrameInHand, NotBegun, Early, Midway
    <3> QED
      BY <1>3, <1>5, <2>2, <3>1 DEF Story, FrameInHand, Cancelling
  <2>6. \A g : Terminal(g) /\ Tells(j, g) => Tells(j, g)'
    BY <1>3, <1>5, <2>2 DEF Tells, Closing
  <2>7. StreamTells(j)' /\ OutcomeTells(j)'
    BY <1>1, <2>6, ToldStays DEF Aside
  <2>8. Ended(j)' /\ MarkedWasAskedFor(j)'
    BY <1>1, <1>2, <1>3, <1>5 DEF Story, Ended, MarkedWasAskedFor, Cancelling, Aside
  <2> QED
    BY <2>1, <2>4, <2>5, <2>7, <2>8 DEF Story
<1> QED
  BY <1>4, <1>5

\* Reading a frame of the worker and writing it to the client.
LEMMA ForwardStory ==
    ASSUME TypeOK, NEW j \in Jobs, Story(j), Forward(j)
    PROVE  Story(j)'
<1> PICK f : f = Head(pipe[j])
  OBVIOUS
<1>1. /\ thread[j] = "reading" /\ frame'[j] = f /\ pipe'[j] = Tail(pipe[j])
      /\ pipe[j] \in Seq(Frames) /\ pipe[j] # <<>> /\ f \in Frames
      /\ outcome'[j] = outcome[j] /\ worker'[j] = worker[j] /\ log'[j] = log[j]
      /\ active'[j] = active[j] /\ cancelled'[j] = cancelled[j] /\ Recorded
  BY DEF Forward, TypeOK, PipeOK, ThreadOK, frontendVars, workerVars, tableVars,
     cancelVars, Recorded
<1>2. AskedFor(j) => AskedFor(j)'
  BY <1>1 DEF AskedFor, Recorded
<1>3. /\ MayFollow(frame[j], f) /\ Linked(f, Tail(pipe[j]))
      /\ LastFrom(f, Tail(pipe[j])) = LastFrom(frame[j], pipe[j])
  BY <1>1, LinkedTail DEF Story
<1>4. /\ ~Terminal(frame[j])
      /\ \/ /\ f \in {Lifecycle("running"), Lifecycle("waiting_interaction"),
                      Lifecycle("completed"), Lifecycle("failed")}
            /\ f.kind = "Lifecycle" /\ ~Terminal(f) /\ AfterForward(f) = "record"
         \/ f = InteractionRequest /\ ~Terminal(f) /\ AfterForward(f) = "await"
         \/ /\ f \in {Completed("exit"), Completed("130"), Failed}
            /\ Terminal(f) /\ AfterForward(f) = "log"
      /\ LogAfter(frame[j]) \subseteq LogBefore(f)
  BY <1>3, FollowFacts
<1>5. \/ thread'[j] = "error" /\ stream'[j] = stream[j]
      \/ thread'[j] = AfterForward(f) /\ stream'[j] = Append(stream[j], f)
  BY SendFacts DEF Forward
<1>6. Linked(frame[j], pipe[j])'
  BY <1>1, <1>3, Zenon DEF Linked
<1>7. WorkerInPhase(j)'
  <2>1. LastFrom(frame'[j], pipe'[j]) = LastFrom(frame[j], pipe[j])
    BY <1>1, <1>3, Zenon
  <2>2. ~Finished(j)
    BY <1>1 DEF Finished
  <2> QED
    BY <1>1, <2>1, <2>2, Zenon DEF Story, WorkerInPhase, LastFrom
<1>8. NotBegun(j)'
  BY <1>4, <1>5 DEF NotBegun, Early
<1>9. LogFollows(j)'
  <2>1. LogEnd(j)' = LogEnd(j) /\ (j \in Logged => LogEnd(j) \in LogBefore(f))
    BY <1>1, <1>4 DEF LogEnd, LastOf, Story, LogFollows
  <2>2. Terminal(f) => LogBefore(f) \subseteq Open
    BY <1>4, FrameKinds DEF LogBefore, Open, Going
  <2> QED
    BY <1>1, <1>4, <1>5, <2>1, <2>2 DEF LogFollows, Closing
<1>10. FrameInHand(j)'
  <2>1. {Lifecycle("running"), Lifecycle("waiting_interaction")} \subseteq
            Midway \ {InteractionRequest}
    BY DEF Midway, Lifecycle, InteractionRequest
  <2> QED
    BY <1>1, <1>4, <1>5, <2>1, FrameKinds DEF FrameInHand, Midway, Cancelling
<1>11. \A g : Terminal(g) /\ Tells(j, g) => Tells(j, g)'
  BY <1>1 DEF Tells, Closing
<1>12. Terminal(f) => (thread'[j] = "log" \/ thread'[j] = "error")
  BY <1>4, <1>5
<1>13. Terminal(f) => Tells(j, f)'
  BY <1>1, <1>12 DEF Tells
<1>14. StreamTells(j)' /\ OutcomeTells(j)'
  BY <1>1, <1>5, <1>11, <1>13, ToldStays
<1>15. Ended(j)' /\ MarkedWasAskedFor(j)'
  BY <1>1, <1>2, <1>4, <1>5 DEF Story, Ended, MarkedWasAskedFor, Cancelling
<1> QED
  BY <1>6, <1>7, <1>8, <1>9, <1>10, <1>14, <1>15 DEF Story

\* The worker's output ends without a terminal frame; it is dead.
LEMMA EofStory ==
    ASSUME TypeOK, NEW j \in Jobs, Story(j), ReadWorkerEof(j)
    PROVE  Story(j)'
<1>1. /\ thread[j] = "reading" /\ thread'[j] = "wait" /\ frame'[j] = NoFrame
      /\ pipe'[j] = <<>> /\ stream'[j] = stream[j] /\ ~Alive(j)
      /\ outcome'[j] = outcome[j] /\ worker'[j] = worker[j] /\ log'[j] = log[j]
      /\ active'[j] = active[j] /\ cancelled'[j] = cancelled[j] /\ Recorded
  BY DEF ReadWorkerEof, TypeOK, ThreadOK, frontendVars, workerVars, tableVars,
     cancelVars, pipeVars, socketVars, Recorded
<1>2. AskedFor(j) => AskedFor(j)'
  BY <1>1 DEF AskedFor, Recorded
<1>3. Linked(frame[j], pipe[j])' /\ NotBegun(j)'
  BY <1>1 DEF Linked, NotBegun, Early
<1>4. WorkerInPhase(j)'
  BY <1>1 DEF WorkerInPhase, Alive, LiveWorker
<1>5. LogFollows(j)'
  <2>1. LogEnd(j)' = LogEnd(j) /\ LogAfter(frame[j]) \subseteq Open
    BY <1>1 DEF LogEnd, LastOf, LogAfter, Open, Going
  <2> QED
    BY <1>1, <2>1, FrameKinds DEF Story, LogFollows, Closing
<1>6. FrameInHand(j)'
  BY <1>1 DEF FrameInHand, Cancelling
<1>7. \A g : Terminal(g) /\ Tells(j, g) => Tells(j, g)'
  BY <1>1 DEF Tells, Closing
<1>8. StreamTells(j)' /\ OutcomeTells(j)'
  BY <1>1, <1>7, ToldStays
<1>9. Ended(j)' /\ MarkedWasAskedFor(j)'
  BY <1>1, <1>2 DEF Story, Ended, MarkedWasAskedFor, Cancelling
<1> QED
  BY <1>3, <1>4, <1>5, <1>6, <1>8, <1>9 DEF Story

\* Recording a Lifecycle frame and logging a frame.
LEMMA RecordStory ==
    ASSUME TypeOK, NEW j \in Jobs, Story(j), Record(j) \/ LogFrame(j)
    PROVE  Story(j)'
<1>1. /\ Recorded /\ Aside(j) /\ stream'[j] = stream[j] /\ cancelled'[j] = cancelled[j]
      /\ thread[j] \in {"record", "log"}
  BY DEF Record, LogFrame, Recorded, Aside, cancelVars, tableVars, workerVars, pipeVars,
     frontendVars, socketVars
<1>2. AskedFor(j) => AskedFor(j)'
  BY <1>1 DEF AskedFor, Recorded
<1>3. \A g : Terminal(g) /\ Tells(j, g) /\ thread'[j] \in {"wait", "reading", "log"}
             /\ (thread'[j] = "wait" \/ ~Terminal(frame[j])) => Tells(j, g)'
  BY <1>1 DEF Tells, Closing, Aside
<1>4. CASE Record(j)
  <2>1. /\ thread[j] = "record" /\ log'[j] = log[j] /\ frame'[j] = frame[j]
        /\ thread'[j] = IF frame[j].arg \in {"completed", "failed"} THEN "reading" ELSE "log"
    BY <1>4, <1>1 DEF Record, TypeOK, ThreadOK, Aside
  <2>2. \/ /\ frame[j] \in Midway \ {InteractionRequest} /\ thread'[j] = "log"
        \/ /\ frame[j] \in {Lifecycle("completed"), Lifecycle("failed")}
           /\ thread'[j] = "reading" /\ LogAfter(frame[j]) = LogBefore(frame[j])
    BY <2>1 DEF Story, FrameInHand, Midway, Lifecycle, Completed, Failed, NoFrame,
       InteractionRequest, LogAfter, LogBefore
  <2>3. ~Terminal(frame[j])
    BY <2>2, FrameKinds, PcFacts
  <2>4. Linked(frame[j], pipe[j])' /\ WorkerInPhase(j)' /\ NotBegun(j)'
    BY <1>1, <2>1, <2>2, OnwardStory DEF Early
  <2>5. LogFollows(j)'
    <3>1. LogEnd(j)' = LogEnd(j)
      BY <2>1 DEF LogEnd, LastOf
    <3> QED
      BY <2>1, <2>2, <2>3, <3>1 DEF Story, LogFollows, Closing
  <2>6. FrameInHand(j)'
    BY <2>1, <2>2, <2>3 DEF Story, FrameInHand, Cancelling
  <2>7. StreamTells(j)' /\ OutcomeTells(j)'
    BY <1>1, <1>3, <2>2, <2>3, ToldStays DEF Aside
  <2>8. Ended(j)' /\ MarkedWasAskedFor(j)'
    BY <1>1, <1>2, <2>2 DEF Story, Ended, MarkedWasAskedFor, Cancelling
  <2> QED
    BY <2>4, <2>5, <2>6, <2>7, <2>8 DEF Story
<1>5. CASE LogFrame(j)
  <2>1. EventOf(frame[j]) \in JobStates /\ thread[j] = "log" /\ active'[j] = active[j]
    BY <1>5, EventType DEF LogFrame, TypeOK, ThreadOK, tableVars
  <2>2. frame[j] \in Midway \ {InteractionRequest} \/ Terminal(frame[j])
    BY <2>1 DEF Story, FrameInHand
  <2>3. \/ thread'[j] = "error" /\ log'[j] = log[j]
        \/ /\ thread'[j] = IF Terminal(frame[j]) THEN "wait" ELSE "reading"
           /\ j \in Logged => LogEnd(j)' = EventOf(frame[j])
    BY <1>5, <2>1, AppendFacts DEF LogFrame
  <2>4. CASE thread'[j] = "error" /\ log'[j] = log[j]
    BY <1>1, <2>1, <2>4, ErrorStory DEF Aside, ThreadPcs
  <2>5. CASE /\ thread'[j] = IF Terminal(frame[j]) THEN "wait" ELSE "reading"
             /\ j \in Logged => LogEnd(j)' = EventOf(frame[j])
    <3>1. Linked(frame[j], pipe[j])' /\ WorkerInPhase(j)' /\ NotBegun(j)'
      BY <1>1, <2>5, OnwardStory DEF Early
    <3>2. frame[j] \in Midway \ {InteractionRequest} =>
              EventOf(frame[j]) \in LogAfter(frame[j])
      BY FrameKinds DEF Midway, LogAfter, Going, Lifecycle, NoFrame
    <3>3. LogFollows(j)'
      BY <1>1, <2>2, <2>5, <3>2 DEF LogFollows, Closing, Aside
    <3>4. FrameInHand(j)'
      BY <1>1, <2>5 DEF Story, FrameInHand, Cancelling, Aside
    <3>5. StreamTells(j)' /\ OutcomeTells(j)'
      BY <1>1, <1>3, <2>5, ToldStays DEF Aside
    <3>6. Ended(j)' /\ MarkedWasAskedFor(j)'
      BY <1>1, <1>2, <2>5 DEF Story, Ended, MarkedWasAskedFor, Cancelling
    <3> QED
      BY <3>1, <3>3, <3>4, <3>5, <3>6 DEF Story
  <2> QED
    BY <2>3, <2>4, <2>5
<1> QED
  BY <1>4, <1>5

\* Collecting the dead worker.
LEMMA WaitStory ==
    ASSUME TypeOK, NEW j \in Jobs, Story(j), WaitChild(j)
    PROVE  Story(j)'
<1>1. /\ thread[j] = "wait" /\ thread'[j] = "join" /\ worker'[j] = "reaped"
      /\ frame'[j] = frame[j] /\ pipe'[j] = pipe[j] /\ stream'[j] = stream[j]
      /\ outcome'[j] = outcome[j] /\ log'[j] = log[j]
      /\ active'[j] = active[j] /\ cancelled'[j] = cancelled[j] /\ Recorded
  BY DEF WaitChild, TypeOK, ThreadOK, WorkerOK, frontendVars, tableVars, cancelVars,
     pipeVars, socketVars, Recorded
<1>2. AskedFor(j) => AskedFor(j)'
  BY <1>1 DEF AskedFor, Recorded
<1>3. Linked(frame[j], pipe[j])' /\ NotBegun(j)' /\ WorkerInPhase(j)'
  BY <1>1 DEF Story, Linked, NotBegun, Early, WorkerInPhase
<1>4. LogFollows(j)' /\ FrameInHand(j)'
  BY <1>1 DEF Story, LogFollows, LogEnd, LastOf, FrameInHand, Closing, Cancelling
<1>5. \A g : Terminal(g) /\ Tells(j, g) => Tells(j, g)'
  BY <1>1 DEF Tells, Closing
<1>6. StreamTells(j)' /\ OutcomeTells(j)'
  BY <1>1, <1>5, ToldStays
<1>7. Ended(j)' /\ MarkedWasAskedFor(j)'
  BY <1>1, <1>2 DEF Story, Ended, MarkedWasAskedFor, Cancelling
<1> QED
  BY <1>3, <1>4, <1>6, <1>7 DEF Story

\* Removing the entry: the thread knows whether its job was cancelled.
LEMMA RemoveStory ==
    ASSUME TypeOK, NEW j \in Jobs, Story(j), Remove(j)
    PROVE  Story(j)'
<1>1. /\ thread[j] = "remove" /\ Aside(j) /\ stream'[j] = stream[j]
      /\ thread'[j] = IF Terminal(frame[j]) THEN "ok"
                      ELSE IF cancelled[j] THEN "emit_cancelled" ELSE "error"
      /\ log'[j] = log[j] /\ active'[j] = "none" /\ ~cancelled'[j] /\ Recorded
  BY DEF Remove, TypeOK, ThreadOK, TableOK, frontendVars, workerVars, cancelVars,
     pipeVars, socketVars, Recorded, Aside
<1>2. AskedFor(j) => AskedFor(j)'
  BY <1>1 DEF AskedFor, Recorded
<1>3. Linked(frame[j], pipe[j])' /\ WorkerInPhase(j)' /\ NotBegun(j)'
  BY <1>1, OnwardStory DEF Early
<1>4. LogFollows(j)' /\ FrameInHand(j)'
  BY <1>1 DEF Story, LogFollows, LogEnd, LastOf, FrameInHand, Closing, Cancelling,
     Aside
<1>5. \A g : Terminal(g) /\ Tells(j, g) => Tells(j, g)'
  BY <1>1 DEF Tells, Closing, Aside
<1>6. StreamTells(j)' /\ OutcomeTells(j)'
  BY <1>1, <1>5, ToldStays DEF Aside
<1>7. Ended(j)' /\ MarkedWasAskedFor(j)'
  BY <1>1, <1>2 DEF Story, Ended, MarkedWasAskedFor, Cancelling, Aside
<1> QED
  BY <1>3, <1>4, <1>6, <1>7 DEF Story

\* Telling the client and the log that the job was cancelled.
LEMMA CancelledStory ==
    ASSUME TypeOK, NEW j \in Jobs, Story(j),
           EmitCancelled(j) \/ LogCancelled(j) \/ EmitCompleted(j)
    PROVE  Story(j)'
<1>1. /\ Recorded /\ Aside(j) /\ active'[j] = active[j] /\ cancelled'[j] = cancelled[j]
      /\ thread[j] \in Cancelling
  BY DEF EmitCancelled, LogCancelled, EmitCompleted, Recorded, Aside, cancelVars,
     tableVars, workerVars, pipeVars, frontendVars, Cancelling
<1>2. AskedFor(j) => AskedFor(j)'
  BY <1>1 DEF AskedFor, Recorded
<1>3. \A g : Terminal(g) /\ Tells(j, g) => Tells(j, g)'
  BY <1>1 DEF Tells, Closing, Cancelling
<1>4. \/ /\ thread[j] = "emit_cancelled" /\ thread'[j] = "log_cancelled"
         /\ stream'[j] = Append(stream[j], Lifecycle("cancelled")) /\ log'[j] = log[j]
      \/ /\ thread[j] = "log_cancelled" /\ thread'[j] = "emit_completed"
         /\ stream'[j] = stream[j] /\ (j \in Logged => LogEnd(j)' = "cancelled")
      \/ /\ thread[j] = "emit_completed" /\ thread'[j] = "ok"
         /\ stream'[j] = Append(stream[j], Completed("130")) /\ log'[j] = log[j]
      \/ thread'[j] = "error" /\ stream'[j] = stream[j] /\ log'[j] = log[j]
  BY SendFacts, AppendFacts, PcFacts DEF EmitCancelled, LogCancelled, EmitCompleted,
     socketVars
<1>5. CASE thread'[j] = "error"
  <2>1. stream'[j] = stream[j] /\ log'[j] = log[j]
    BY <1>4, <1>5
  <2> QED
    BY <1>1, <1>5, <2>1, ErrorStory DEF Aside, ThreadPcs, Cancelling
<1>6. CASE thread'[j] # "error"
  <2>1. /\ thread'[j] \in {"log_cancelled", "emit_completed", "ok"}
        /\ ~Terminal(frame[j]) /\ frame'[j] = frame[j]
    BY <1>1, <1>4, <1>6 DEF Story, FrameInHand, Aside
  <2>2. Linked(frame[j], pipe[j])' /\ WorkerInPhase(j)' /\ NotBegun(j)'
    BY <1>1, <2>1, OnwardStory DEF Early, Cancelling
  <2>3. LogFollows(j)'
    BY <1>4, <1>6, <2>1 DEF Story, LogFollows, LogEnd, LastOf, Closing, Cancelling
  <2>4. FrameInHand(j)'
    BY <2>1 DEF Story, FrameInHand, Cancelling
  <2>5. StreamTells(j)' /\ OutcomeTells(j)'
    <3>1. Lifecycle("cancelled") \in Frames /\ ~Terminal(Lifecycle("cancelled"))
          /\ Completed("130") \in Frames
      BY FrameFacts, FrameKinds, PcFacts
    <3>2. thread'[j] = "ok" => Tells(j, Completed("130"))'
      BY <2>1 DEF Tells
    <3>3. OutcomeTells(j)'
      BY <1>1, <1>3, ToldStays DEF Aside
    <3>4. CASE stream'[j] = Append(stream[j], Completed("130")) /\ thread'[j] = "ok"
      <4>1. \A f \in Frames : f = Completed("130") => Tells(j, f)'
        BY <3>2, <3>4, Zenon
      <4> QED
        BY <1>3, <3>1, <3>3, <3>4, <4>1, ToldStays
    <3>5. CASE stream'[j] = Append(stream[j], Lifecycle("cancelled"))
               \/ stream'[j] = stream[j]
      BY <1>3, <3>1, <3>3, <3>5, ToldStays
    <3> QED
      BY <1>4, <1>6, <3>4, <3>5
  <2>6. Ended(j)' /\ MarkedWasAskedFor(j)'
    BY <1>1, <1>2, <2>1 DEF Story, Ended, MarkedWasAskedFor, Cancelling, Aside
  <2> QED
    BY <2>2, <2>3, <2>4, <2>5, <2>6 DEF Story
<1> QED
  BY <1>5, <1>6

\* A step of a thread keeps the story of its job.
LEMMA ThreadStory ==
    ASSUME TypeOK, NEW j \in Jobs, Story(j), Thread(j)
    PROVE  Story(j)'
  BY QueuedStory, SpawnStory, PassingStory, ForwardStory, EofStory, RecordStory,
     WaitStory, RemoveStory, CancelledStory DEF Thread

\* The copier of stderr writes only text.
LEMMA CopierStory ==
    ASSUME TypeOK, NEW j \in Jobs, Story(j), Copier(j)
    PROVE  Story(j)'
<1>1. /\ Recorded /\ frame'[j] = frame[j] /\ pipe'[j] = pipe[j] /\ thread'[j] = thread[j]
      /\ worker'[j] = worker[j] /\ log'[j] = log[j] /\ outcome'[j] = outcome[j]
      /\ active'[j] = active[j] /\ cancelled'[j] = cancelled[j]
      /\ \/ stream'[j] = stream[j]
         \/ stream'[j] = Append(stream[j], TextOutput)
  BY DEF Copier, CopyStderr, StderrEof, Recorded, threadVars, tableVars, workerVars,
     pipeVars, cancelVars, frontendVars, socketVars, TypeOK, SocketOK
<1>2. CASE stream'[j] = stream[j]
  BY <1>1, <1>2, SameStory
<1>3. CASE stream'[j] = Append(stream[j], TextOutput)
  <2>1. AskedFor(j) => AskedFor(j)'
    BY <1>1 DEF AskedFor, Recorded
  <2>2. Linked(frame[j], pipe[j])' /\ WorkerInPhase(j)' /\ NotBegun(j)'
    BY <1>1, Zenon DEF Story, Linked, WorkerInPhase, NotBegun, LastFrom, Finished
  <2>3. LogFollows(j)' /\ FrameInHand(j)'
    BY <1>1 DEF Story, LogFollows, LogEnd, LastOf, FrameInHand
  <2>4. \A g : Terminal(g) /\ Tells(j, g) => Tells(j, g)'
    BY <1>1 DEF Tells
  <2>5. StreamTells(j)' /\ OutcomeTells(j)'
    BY <1>1, <1>3, <2>4, FrameFacts, FrameKinds, ToldStays
  <2>6. Ended(j)' /\ MarkedWasAskedFor(j)'
    BY <1>1, <2>1 DEF Story, Ended, MarkedWasAskedFor
  <2> QED
    BY <2>2, <2>3, <2>5, <2>6 DEF Story
<1> QED
  BY <1>1, <1>2, <1>3

-----------------------------------------------------------------------------
\* The handler's steps

\* The entries a cancellation marks belong to jobs below its target.
LEMMA DescendantsAreBelow ==
    ASSUME NEW root, NEW j \in Descendants(root), root \in Registered
    PROVE  Below(j, root)
<1> SUFFICES ASSUME NEW S \in SUBSET Jobs, root \in S,
                    \A k \in Jobs : Parent[k] \in S => k \in S
             PROVE  j \in S
  BY DEF Below
<1> DEFINE R == S \cap Registered
<1>1. R \in SUBSET Registered /\ root \in R
  OBVIOUS
<1>2. \A k \in Registered : Parent[k] \in R => k \in R
  BY DEF Registered
<1>3. j \in R
  BY <1>1, <1>2 DEF Descendants
<1> QED
  BY <1>3

\* A request keeps the story of every job: a mark has somebody who asked.
LEMMA CancelStory ==
    ASSUME TypeOK, KillInv, StoryInv, NEW c \in Clients,
           (\E j \in Jobs : c \in Operators /\ OperatorCancel(c, j)) \/ Canceller(c),
           NEW j \in Jobs
    PROVE  Story(j)'
<1>1. /\ UNCHANGED <<frontendVars, socketVars, threadVars, asks, pipeVars, log>>
      /\ Recorded /\ Story(j)
  BY DEF OperatorCancel, Canceller, Mark, Kill, AnswerCancel, workerVars, Recorded,
     KillInv, FoundIsRegistered, TypeOK, CancelOK, StoryInv, cancelVars
<1>2. /\ frame'[j] = frame[j] /\ pipe'[j] = pipe[j] /\ thread'[j] = thread[j]
      /\ log'[j] = log[j] /\ outcome'[j] = outcome[j] /\ stream'[j] = stream[j]
  BY <1>1 DEF frontendVars, socketVars, threadVars, pipeVars
<1>3. CASE Mark(c) /\ target[c] \in Registered
  <2> DEFINE D == Descendants(target[c])
  <2>1. /\ found'[c] = TRUE /\ target'[c] = target[c] /\ worker'[j] = worker[j]
        /\ active'[j] = IF j \in D THEN "cancelled" ELSE active[j]
        /\ cancelled'[j] = (cancelled[j] \/ j \in D)
    BY <1>3 DEF Mark, workerVars, TypeOK, CancelOK
  <2>2. AskedFor(j) => AskedFor(j)'
    BY <1>1 DEF AskedFor, Recorded
  <2>3. j \in D => AskedFor(j)'
    BY <1>3, <2>1, DescendantsAreBelow DEF AskedFor, Below
  <2>4. j \in D => active[j] # "none"
    BY DEF Descendants, Registered
  <2>5. Linked(frame[j], pipe[j])' /\ WorkerInPhase(j)' /\ NotBegun(j)'
    BY <1>1, <1>2, <2>1, Zenon DEF Story, Linked, WorkerInPhase, NotBegun, LastFrom,
       Finished
  <2>6. LogFollows(j)' /\ FrameInHand(j)'
    BY <1>1, <1>2 DEF Story, LogFollows, LogEnd, LastOf, FrameInHand
  <2>7. StreamTells(j)' /\ OutcomeTells(j)'
    BY <1>1, <1>2 DEF Story, StreamTells, OutcomeTells, Tells
  <2>8. Ended(j)' /\ MarkedWasAskedFor(j)'
    BY <1>1, <1>2, <2>1, <2>2, <2>3, <2>4 DEF Story, Ended, MarkedWasAskedFor
  <2> QED
    BY <2>5, <2>6, <2>7, <2>8 DEF Story
<1>4. CASE \E i \in Jobs : Kill(c, i)
  <2>1. PICK i \in Jobs : Kill(c, i)
    BY <1>4
  <2>2. UNCHANGED tableVars
    BY <2>1 DEF Kill
  <2>3. CASE i = j /\ Alive(j)
    <3>1. worker'[j] = "dead"
      BY <2>1, <2>3 DEF Kill, TypeOK, WorkerOK
    <3> QED
      BY <1>1, <2>2, <2>3, <3>1, QuietWorkerStory DEF frontendVars, socketVars, pipeVars
  <2>4. CASE ~(i = j /\ Alive(j))
    <3>1. worker'[j] = worker[j]
      BY <2>1, <2>4 DEF Kill, TypeOK, WorkerOK
    <3> QED
      BY <1>1, <1>2, <2>2, <3>1, SameStory DEF tableVars
  <2> QED
    BY <2>3, <2>4
<1>5. CASE \/ \E i \in Jobs : OperatorCancel(c, i)
           \/ Mark(c) /\ target[c] \notin Registered
           \/ AnswerCancel(c)
  <2>1. UNCHANGED <<tableVars, workerVars>>
    BY <1>5 DEF OperatorCancel, Mark, AnswerCancel
  <2> QED
    BY <1>1, <1>2, <2>1, SameStory DEF tableVars, workerVars
<1> QED
  BY <1>3, <1>4, <1>5 DEF Canceller

-----------------------------------------------------------------------------
\* Every job's story is kept by every step

\* A step of one job's processes leaves the variables of the others alone.
LEMMA OthersStory ==
    ASSUME TypeOK, Unconnected, KillInv, StoryInv, NEW i \in Jobs, NEW j \in Jobs, i # j,
           Frontend(j) \/ Thread(j) \/ Copier(j) \/ Worker(j)
    PROVE  Story(i)'
<1>1. Recorded
  <2>1. CASE Frontend(j)
    BY <2>1 DEF Frontend, Launch, Connect, ReadFrame, Answer, ReadEof, Interrupt,
       ResumeReading, Vanish, Recorded, cancelVars, KillInv, FoundIsRegistered, TypeOK,
       CancelOK
  <2>2. CASE Thread(j)
    BY <2>2 DEF Thread, EmitQueued, LogQueued, Spawn, Register, SendRequest, Forward,
       ReadWorkerEof, Record, LogFrame, RelayAnswer, AwaitEof, WaitChild, JoinStderr,
       Remove, EmitCancelled, LogCancelled, EmitCompleted, Recorded, cancelVars
  <2>3. CASE Copier(j) \/ Worker(j)
    BY <2>3 DEF Copier, CopyStderr, StderrEof, Worker, Boot, AnnounceWait, Ask, GetAnswer,
       Succeed, Fail, EmitTerminal, Complain, Crash, Recorded, cancelVars
  <2> QED
    BY <2>1, <2>2, <2>3
<1>2. /\ frame'[i] = frame[i] /\ thread'[i] = thread[i]
      /\ active'[i] = active[i] /\ cancelled'[i] = cancelled[i]
  <2>1. CASE Frontend(j)
    BY <2>1 DEF Frontend, Launch, Connect, ReadFrame, Answer, ReadEof, Interrupt,
       ResumeReading, Vanish, threadVars, tableVars, TypeOK, ThreadOK
  <2>2. CASE Thread(j)
    <3> USE DEF SendClient, AppendEvent, threadVars, tableVars, TypeOK, ThreadOK, TableOK
    <3>1. CASE EmitQueued(j) \/ LogQueued(j) \/ Spawn(j) \/ Register(j) \/ SendRequest(j)
      BY <3>1 DEF EmitQueued, LogQueued, Spawn, Register, SendRequest
    <3>2. CASE Forward(j) \/ ReadWorkerEof(j) \/ Record(j) \/ LogFrame(j)
      BY <3>2 DEF Forward, ReadWorkerEof, Record, LogFrame
    <3>3. CASE RelayAnswer(j) \/ AwaitEof(j) \/ WaitChild(j) \/ JoinStderr(j) \/ Remove(j)
      BY <3>3 DEF RelayAnswer, AwaitEof, WaitChild, JoinStderr, Remove
    <3>4. CASE EmitCancelled(j) \/ LogCancelled(j) \/ EmitCompleted(j)
      BY <3>4 DEF EmitCancelled, LogCancelled, EmitCompleted
    <3> QED
      BY <2>2, <3>1, <3>2, <3>3, <3>4 DEF Thread
  <2>3. CASE Copier(j) \/ Worker(j)
    BY <2>3 DEF Copier, CopyStderr, StderrEof, Worker, Boot, AnnounceWait, Ask, GetAnswer,
       Succeed, Fail, EmitTerminal, Complain, Crash, threadVars, tableVars
  <2> QED
    BY <2>1, <2>2, <2>3
<1>3. pipe'[i] = pipe[i] /\ worker'[i] = worker[i]
  <2> USE DEF TypeOK, PipeOK, WorkerOK
  <2>1. CASE Frontend(j) \/ Copier(j)
    BY <2>1 DEF Frontend, Launch, Connect, ReadFrame, Answer, ReadEof, Interrupt,
       ResumeReading, Vanish, Copier, CopyStderr, StderrEof, pipeVars, workerVars
  <2>2. CASE Thread(j)
    BY <2>2 DEF Thread, EmitQueued, LogQueued, Spawn, Register, SendRequest, Forward,
       ReadWorkerEof, Record, LogFrame, RelayAnswer, AwaitEof, WaitChild, JoinStderr,
       Remove, EmitCancelled, LogCancelled, EmitCompleted, pipeVars, workerVars
  <2>3. CASE Worker(j)
    BY <2>3 DEF Worker, Boot, AnnounceWait, Ask, GetAnswer, Succeed, Fail, EmitTerminal,
       Complain, Crash, Emit, pipeVars
  <2> QED
    BY <2>1, <2>2, <2>3
<1>4. log'[i] = log[i] /\ outcome'[i] = outcome[i] /\ stream'[i] = stream[i]
  <2> USE DEF TypeOK, LogOK, FrontendOK, SocketOK, frontendVars, socketVars
  <2>1. CASE Frontend(j)
    BY <2>1 DEF Frontend, Launch, Connect, ReadFrame, Answer, ReadEof, Interrupt,
       ResumeReading, Vanish
  <2>2. CASE Thread(j)
    <3> USE DEF SendClient, AppendEvent
    <3>1. CASE EmitQueued(j) \/ LogQueued(j) \/ Spawn(j) \/ Register(j) \/ SendRequest(j)
      BY <3>1 DEF EmitQueued, LogQueued, Spawn, Register, SendRequest
    <3>2. CASE Forward(j) \/ ReadWorkerEof(j) \/ Record(j) \/ LogFrame(j)
      BY <3>2 DEF Forward, ReadWorkerEof, Record, LogFrame
    <3>3. CASE RelayAnswer(j) \/ AwaitEof(j) \/ WaitChild(j) \/ JoinStderr(j) \/ Remove(j)
      BY <3>3 DEF RelayAnswer, AwaitEof, WaitChild, JoinStderr, Remove
    <3>4. CASE EmitCancelled(j) \/ LogCancelled(j) \/ EmitCompleted(j)
      BY <3>4 DEF EmitCancelled, LogCancelled, EmitCompleted
    <3> QED
      BY <2>2, <3>1, <3>2, <3>3, <3>4 DEF Thread
  <2>3. CASE Copier(j) \/ Worker(j)
    BY <2>3 DEF Copier, CopyStderr, StderrEof, Worker, Boot, AnnounceWait, Ask, GetAnswer,
       Succeed, Fail, EmitTerminal, Complain, Crash
  <2> QED
    BY <2>1, <2>2, <2>3
<1> QED
  BY <1>1, <1>2, <1>3, <1>4, SameStory DEF StoryInv

\* Every reachable state tells a true story of each job.
LEMMA StoryInvariant == Spec => []StoryInv
<1>1. Init => StoryInv
  <2> SUFFICES ASSUME Init, NEW j \in Jobs
               PROVE  Story(j)
    BY DEF StoryInv
  <2>1. /\ frame[j] = NoFrame /\ pipe[j] = <<>> /\ thread[j] = "idle"
        /\ worker[j] = "none" /\ log[j] = <<>> /\ outcome[j] = "none"
        /\ stream[j] = <<>> /\ ~cancelled[j]
    BY DEF Init
  <2>2. Linked(frame[j], pipe[j]) /\ WorkerInPhase(j) /\ NotBegun(j)
    BY <2>1 DEF Linked, WorkerInPhase, NotBegun
  <2>3. LogFollows(j) /\ FrameInHand(j)
    BY <2>1 DEF LogFollows, LogEnd, FrameInHand, Closing, Cancelling
  <2>4. StreamTells(j) /\ OutcomeTells(j) /\ Ended(j) /\ MarkedWasAskedFor(j)
    BY <2>1 DEF StreamTells, OutcomeTells, Ended, MarkedWasAskedFor, FinalStates,
       Cancelling
  <2> QED
    BY <2>2, <2>3, <2>4 DEF Story
<1>2. TypeOK /\ Unconnected /\ KillInv /\ StoryInv /\ [Next]_vars => StoryInv'
  <2> SUFFICES ASSUME TypeOK, Unconnected, KillInv, StoryInv, [Next]_vars, NEW i \in Jobs
               PROVE  Story(i)'
    BY DEF StoryInv
  <2>1. Story(i)
    BY DEF StoryInv
  <2>2. ASSUME NEW j \in Jobs, Frontend(j) \/ Thread(j) \/ Copier(j) \/ Worker(j)
        PROVE  Story(i)'
    <3>1. CASE i = j
      BY <2>1, <2>2, <3>1, FrontendStory, ThreadStory, CopierStory, WorkerStory
    <3>2. CASE i # j
      BY <2>2, <3>2, OthersStory
    <3> QED
      BY <3>1, <3>2
  <2>3. ASSUME NEW o \in Operators, NEW j \in Jobs, OperatorCancel(o, j)
        PROVE  Story(i)'
    BY <2>3, CancelStory DEF Clients
  <2>4. ASSUME NEW c \in Clients, Canceller(c)
        PROVE  Story(i)'
    BY <2>4, CancelStory
  <2>5. CASE Idle \/ UNCHANGED vars
    <3>1. UNCHANGED vars
      BY <2>5 DEF Idle
    <3> QED
      BY <2>1, <3>1, SameStory DEF vars, frontendVars, socketVars, threadVars, tableVars,
         workerVars, pipeVars, cancelVars, Recorded
  <2> QED
    BY <2>2, <2>3, <2>4, <2>5 DEF Next
<1> QED
  BY <1>1, <1>2, TypeCorrect, UnconnectedInvariant, KillInvariant, PTL DEF Spec

\* A thread that returns Ok has closed the story of its job in the log, reaped
\* its worker and removed its entry, whatever was cancelled meanwhile.
THEOREM OkClosesTheJob == Spec => []OkClosesJob
<1>1. StoryInv => OkClosesJob
  <2> SUFFICES ASSUME StoryInv, NEW j \in Jobs, thread[j] = "ok"
               PROVE  /\ active[j] = "none"
                      /\ worker[j] = "reaped"
                      /\ j \in Logged =>
                            /\ log[j] # <<>>
                            /\ LastOf(log[j]) = IF Terminal(frame[j])
                                               THEN EventOf(frame[j]) ELSE "cancelled"
    BY DEF OkClosesJob
  <2>1. active[j] = "none" /\ worker[j] = "reaped"
    BY DEF StoryInv, Story, Ended
  <2>2. j \in Logged =>
            LogEnd(j) = IF Terminal(frame[j]) THEN EventOf(frame[j]) ELSE "cancelled"
    BY DEF StoryInv, Story, LogFollows
  <2>3. Terminal(frame[j]) => EventOf(frame[j]) # "absent"
    BY FrameKinds, PcFacts DEF StoryInv, Story, FrameInHand
  <2> QED
    BY <2>1, <2>2, <2>3 DEF LogEnd
<1> QED
  BY <1>1, StoryInvariant, PTL

\* What a frontend returns agrees with the log, and it is told of a cancel
\* only when its event is on disk and somebody asked for it.
THEOREM OutcomesTold == Spec => []OutcomesAreTrue
<1>1. StoryInv => OutcomesAreTrue
  <2> SUFFICES ASSUME StoryInv, NEW j \in Jobs
               PROVE  /\ j \in Logged =>
                          /\ (/\ outcome[j] \in {"exit", "130", "failed"}
                              /\ log[j] # <<>>
                              /\ LastOf(log[j]) \in FinalStates)
                                 => outcome[j] \in ReturnsFor(LastOf(log[j]))
                          /\ ToldCancelled(j) => /\ log[j] # <<>>
                                                 /\ LastOf(log[j]) = "cancelled"
                      /\ (\/ ToldCancelled(j)
                          \/ thread[j] \in {"emit_cancelled", "log_cancelled",
                                            "emit_completed"})
                             => AskedFor(j)
    <3>1. Logged \subseteq Jobs
      BY JobsAssumption DEF JobsAssumption
    <3> QED
      BY <3>1 DEF OutcomesAreTrue, OutcomeMatchesLog, CancelledOnlyOnRequest, AskedFor
  <2>1. Story(j)
    BY DEF StoryInv
  <2>2. ASSUME outcome[j] \in {"exit", "130", "failed"}
        PROVE  \/ /\ outcome[j] = "130" /\ thread[j] = "ok"
                  /\ ~Terminal(frame[j])
               \/ /\ Terminal(frame[j]) /\ outcome[j] \in ReturnsFor(EventOf(frame[j]))
                  /\ EventOf(frame[j]) \in {"completed", "failed"}
                  /\ ~ToldCancelled(j)
                  /\ thread[j] \in Closing \cup {"log", "ok", "error"}
    <3>1. PICK f \in Frames : Terminal(f) /\ outcome[j] = OutcomeOf(f) /\ Tells(j, f)
      BY <2>1, <2>2 DEF Story, OutcomeTells
    <3>2. frame[j] \in Midway \cup {NoFrame, Lifecycle("completed"), Lifecycle("failed"),
                                    Completed("exit"), Completed("130"), Failed}
      BY <2>1 DEF Story, FrameInHand
    <3>3. CASE f = frame[j] /\ thread[j] \in Closing \cup {"log", "ok", "error"}
      <4>1. frame[j] \in {Completed("exit"), Completed("130"), Failed}
        BY <3>1, <3>2, <3>3, FrameKinds, PcFacts
      <4>2. /\ outcome[j] \in ReturnsFor(EventOf(frame[j]))
            /\ EventOf(frame[j]) \in {"completed", "failed"}
        BY <3>1, <3>3, <4>1, FrameKinds DEF ReturnsFor
      <4>3. ~ToldCancelled(j)
        BY <3>1, <3>3, <4>1, FrameKinds DEF ToldCancelled
      <4> QED
        BY <3>1, <3>3, <4>2, <4>3
    <3>4. CASE f = Completed("130") /\ thread[j] = "ok" /\ ~Terminal(frame[j])
      BY <3>1, <3>4, FrameKinds
    <3> QED
      BY <3>1, <3>3, <3>4 DEF Tells
  <2>3. ASSUME j \in Logged, outcome[j] \in {"exit", "130", "failed"}
        PROVE  /\ log[j] # <<>> /\ LastOf(log[j]) \in FinalStates
                      => outcome[j] \in ReturnsFor(LastOf(log[j]))
               /\ ToldCancelled(j) => /\ log[j] # <<>>
                                      /\ LastOf(log[j]) = "cancelled"
    <3>1. CASE thread[j] = "ok" /\ ~Terminal(frame[j]) /\ outcome[j] = "130"
      BY <2>1, <2>3, <3>1 DEF Story, LogFollows, LogEnd, ReturnsFor
    <3>2. CASE /\ Terminal(frame[j]) /\ outcome[j] \in ReturnsFor(EventOf(frame[j]))
               /\ EventOf(frame[j]) \in {"completed", "failed"}
               /\ ~ToldCancelled(j)
               /\ thread[j] \in Closing \cup {"log", "ok", "error"}
      <4>1. LogBefore(frame[j]) \subseteq Open
        BY <3>2, FrameKinds DEF LogBefore, Open, Going
      <4>2. LogEnd(j) \in Open \cup {EventOf(frame[j])}
        BY <2>1, <2>3, <3>2, <4>1 DEF Story, LogFollows
      <4>3. log[j] # <<>> /\ LastOf(log[j]) \in FinalStates
                => LastOf(log[j]) = EventOf(frame[j])
        BY <4>2 DEF LogEnd, Open, FinalStates
      <4> QED
        BY <3>2, <4>3
    <3> QED
      BY <2>2, <2>3, <3>1, <3>2
  <2>4. ToldCancelled(j) \/ thread[j] \in Cancelling => AskedFor(j)
    BY <2>1, <2>2 DEF Story, MarkedWasAskedFor, ToldCancelled
  <2> QED
    BY <2>3, <2>4 DEF Cancelling, ToldCancelled
<1> QED
  BY <1>1, StoryInvariant, PTL

-----------------------------------------------------------------------------
\* The refinement of JobLog

\* What ends the log is the state JobLog reads from it.
LEMMA CurrentIsLogEnd == \A j : Abstract!Current(j) = LogEnd(j)
  BY DEF Abstract!Current, LogEnd, LastOf

\* An append is a step of JobLog when its event may follow the last one.
LEMMA AppendAdvances ==
    ASSUME TypeOK, NEW j \in Jobs, NEW s, NEW next, AppendEvent(j, s, next),
           j \in Logged => s \in Abstract!After(LogEnd(j))
    PROVE  Abstract!Next \/ UNCHANGED log
<1>1. CASE j \in Logged /\ log' = [log EXCEPT ![j] = Append(@, s)]
  <2>1. s \in Abstract!After(Abstract!Current(j))
    BY <1>1, CurrentIsLogEnd
  <2> QED
    BY <1>1, <2>1 DEF Abstract!Next, Abstract!Advance
<1>2. CASE j \notin Logged \/ UNCHANGED log
  <2>1. j \notin Logged /\ log' = [log EXCEPT ![j] = @] => UNCHANGED log
    BY DEF TypeOK, LogOK
  <2> QED
    BY <1>2, <2>1 DEF AppendEvent
<1> QED
  BY <1>1, <1>2 DEF AppendEvent

\* What JobLog lets follow.
LEMMA AfterFacts ==
    /\ "queued" \in Abstract!After("absent")
    /\ "running" \in Abstract!After("queued")
    /\ \A s \in Open : {"failed", "cancelled"} \subseteq Abstract!After(s)
    /\ \A s \in Going : {"waiting_interaction", "completed"} \subseteq Abstract!After(s)
  BY DEF Abstract!After, Abstract!Final, Open, Going

\* Every step of the daemon is a step of the log of JobLog, or no step of it.
LEMMA StepOfLog ==
    TypeOK /\ StoryInv /\ [Next]_vars => [Abstract!Next]_log
<1> SUFFICES ASSUME TypeOK, StoryInv, [Next]_vars
             PROVE  Abstract!Next \/ UNCHANGED log
  OBVIOUS
<1>1. ASSUME NEW j \in Jobs, Thread(j)
      PROVE  Abstract!Next \/ UNCHANGED log
  <2>1. Story(j)
    BY DEF StoryInv
  <2>2. CASE LogQueued(j)
    <3>1. j \in Logged => LogEnd(j) = "absent"
      BY <2>1, <2>2 DEF LogQueued, Story, LogFollows
    <3> QED
      BY <2>2, <3>1, AfterFacts, AppendAdvances DEF LogQueued
  <2>3. CASE LogFrame(j)
    <3>1. /\ frame[j] \in Midway \ {InteractionRequest} \/ Terminal(frame[j])
          /\ j \in Logged => LogEnd(j) \in LogBefore(frame[j])
      BY <2>1, <2>3 DEF LogFrame, Story, LogFollows, FrameInHand
    <3>2. Terminal(frame[j]) => frame[j] \in {Completed("exit"), Completed("130"), Failed}
      BY <2>1, FrameKinds, PcFacts DEF Story, FrameInHand
    <3>3. /\ LogBefore(Lifecycle("running")) = {"queued"}
          /\ LogBefore(Lifecycle("waiting_interaction")) = Going
          /\ LogBefore(Completed("exit")) = Going
          /\ LogBefore(Completed("130")) = Going
          /\ LogBefore(Failed) = Open
      BY DEF LogBefore, Lifecycle, Completed, Failed, NoFrame
    <3>4. j \in Logged => EventOf(frame[j]) \in Abstract!After(LogEnd(j))
      BY <3>1, <3>2, <3>3, FrameKinds, AfterFacts DEF Midway
    <3>5. \E next : AppendEvent(j, EventOf(frame[j]), next)
      BY <2>3 DEF LogFrame
    <3> QED
      BY <3>4, <3>5, AppendAdvances
  <2>4. CASE LogCancelled(j)
    <3>1. j \in Logged => LogEnd(j) \in Open
      BY <2>1, <2>4 DEF LogCancelled, Story, LogFollows
    <3> QED
      BY <2>4, <3>1, AfterFacts, AppendAdvances DEF LogCancelled
  <2>5. CASE ~(LogQueued(j) \/ LogFrame(j) \/ LogCancelled(j))
    BY <1>1, <2>5 DEF Thread, EmitQueued, Spawn, Register, SendRequest, Forward,
       ReadWorkerEof, Record, RelayAnswer, AwaitEof, WaitChild, JoinStderr, Remove,
       EmitCancelled, EmitCompleted
  <2> QED
    BY <2>2, <2>3, <2>4, <2>5
<1>2. ASSUME NEW j \in Jobs, Frontend(j) \/ Copier(j) \/ Worker(j)
      PROVE  UNCHANGED log
  BY <1>2 DEF Frontend, Launch, Connect, ReadFrame, Answer, ReadEof, Interrupt,
     ResumeReading, Vanish, Copier, CopyStderr, StderrEof, Worker, Boot, AnnounceWait, Ask,
     GetAnswer, Succeed, Fail, EmitTerminal, Complain, Crash
<1>3. ASSUME NEW c \in Clients, (\E j \in Jobs : OperatorCancel(c, j)) \/ Canceller(c)
      PROVE  UNCHANGED log
  BY <1>3 DEF OperatorCancel, Canceller, Mark, Kill, AnswerCancel
<1>4. CASE Idle \/ UNCHANGED vars
  BY <1>4 DEF Idle, vars
<1> QED
  BY <1>1, <1>2, <1>3, <1>4 DEF Next, Clients

\* The events of every job form a path of JobLog: from queued on, at most one
\* final state, and nothing after it.
THEOREM JobsFollowJobLog == Spec => JobLogSpec
<1>1. Init => Abstract!Init
  BY DEF Init, Abstract!Init
<1> QED
  BY <1>1, StepOfLog, TypeCorrect, StoryInvariant, PTL
     DEF Spec, JobLogSpec, Abstract!Spec

=============================================================================
