------------------------------ MODULE QueryRun ------------------------------
(***************************************************************************)
(* The runs of `ai` in one session (AiUseCase::run_query_impl).  A run     *)
(* builds its messages from a query, or resumes from agent_state.json;     *)
(* AgentLoop starts query loops until its judge is content; QueryLoop      *)
(* calls the model, executes the tools it asks for, and stops at a limit   *)
(* of turns or of tool results; then the run saves, logs and derives.      *)
(*                                                                         *)
(* The user starts runs one after another, answers prompts, or interrupts  *)
(* the worker, which only sets a flag that is read around the model's      *)
(* stream.  Anything that writes or asks another process may fail.         *)
(***************************************************************************)
EXTENDS ToolPolicy, Integers, Sequences, FiniteSets

CONSTANTS
    Modes,         \* how `ai` may be started: a set of settings
    ToolCalls,     \* what the model may ask for: a tool, and a command for run_shell
    CallsPerTurn,  \* bound: tool calls in one response of the model
    MaxRuns,       \* bound: runs of `ai` in the session
    MaxContinues,  \* bound: times a user answers "y" to "Continue?"
    MaxFaults      \* bound: failures of files, event store, model and sinks

\* non_interactive (negated), query_retry, max_turns, max_additional_tool_calls and
\* max_queries, from the command line, the environment and the defaults; the settings
\* of the policy and the rules of command_rules.txt.
IsMode(m) ==
    /\ DOMAIN m = {"interactive", "retry", "turns", "calls", "queries", "policy", "rules"}
    /\ m.interactive \in BOOLEAN /\ m.retry \in {"plan", "act", "auto"}
    /\ {m.turns, m.calls} \subseteq Nat /\ m.queries \in Nat \ {0}
    /\ ValidSettings(m.policy)
    /\ m.rules \in [allow : SUBSET Patterns, refuse : SUBSET Patterns]

RunAssumption ==
    /\ Modes # {} /\ \A m \in Modes : IsMode(m)
    /\ ToolCalls # {} /\ \A c \in ToolCalls : c.command \in Commands
    /\ {CallsPerTurn, MaxRuns, MaxContinues, MaxFaults} \subseteq Nat

ASSUME RunAssumption

VARIABLES
    pc,          \* the next step of the run
    mode,        \* the settings of the run
    base,        \* `messages` of run_query_impl
    msgs,        \* the messages of the query loop
    query,       \* query loops begun by the agent loop
    turn,        \* turns begun by the query loop
    limit,       \* max_tool_calls of the query loop
    before,      \* before_tool_results
    text,        \* the assistant's last text
    pending,     \* tool calls of the response still to be handled
    rescue,      \* what try_save_agent_state_on_error is to save
    interrupted, \* the flag of SigintChecker
    saved,       \* agent_state.json
    log,         \* what the run appends to events.jsonl
    result,      \* how the run ended
    hit,         \* the failures of the environment it met, by kind
    issued,      \* tool calls the model has asked for
    permitted,   \* calls that policy or user let through
    runs,        \* runs launched so far
    continues, faults

loopVars == <<msgs, query, turn, limit, before, text, pending>>
diskVars == <<saved, log>>
callVars == <<issued, permitted>>
endVars == <<result, hit>>
vars == <<pc, mode, base, loopVars, rescue, interrupted, diskVars, endVars,
          callVars, runs, continues, faults>>

-----------------------------------------------------------------------------
\* Values

\* Msg.  A tool call and its result carry the call_id; "followup" is the standard
\* followup of a judge, "system" one of the judge's own.  What comes before the
\* query (system instruction, history, context) is left out.
Message(role, of) == [role |-> role, of |-> of]
Calls == Nat \ {0}
\* What an assistant says, told apart as the judge does.
Texts == {"none", "answer", "question", "commands"}

\* What may fail: the making of the messages; the event store, artifacts and other
\* files of the session; agent_state.json; and all else, which is model, judge,
\* policy, sinks, prompts and settings.
Failures == {"prepare", "files", "state", "other"}

\* agent_state.json before its first write.
NoState == <<Message("none", 0)>>

\* count_tool_results.
Results(ms) == Cardinality({i \in 1..Len(ms) : ms[i].role = "result"})

Assistant(t, calls) ==
    IF t = "none" /\ calls = <<>> THEN <<>> ELSE <<Message("assistant", 0)>>

\* The reason a run has to stop at a limit with nothing to show for it.
Mute(ms) == ms # <<>> /\ ms[Len(ms)].role = "result" /\ text = "none"

Init ==
    /\ pc = "idle" /\ mode \in Modes
    /\ base = <<>> /\ msgs = <<>>
    /\ query = 0 /\ turn = 0 /\ limit = 0 /\ before = 0
    /\ text = "none" /\ pending = <<>> /\ rescue = <<>>
    /\ interrupted = FALSE
    /\ saved = NoState /\ log = <<>>
    /\ result = "none" /\ hit = {}
    /\ issued = 0 /\ permitted = {}
    /\ runs = 0 /\ continues = 0 /\ faults = 0

-----------------------------------------------------------------------------
\* Steps that all actions are made of

Event(kind, call) == [kind |-> kind, call |-> call]
AppendEvent(kind, call) == log' = Append(log, Event(kind, call))

\* Nothing of the loops outlives the process.
End(how) ==
    /\ pc' = "idle"
    /\ result' = how
    /\ msgs' = <<>> /\ query' = 0 /\ turn' = 0 /\ limit' = 0 /\ before' = 0
    /\ text' = "none" /\ pending' = <<>> /\ rescue' = <<>>
    /\ continues' = 0

\* A failure of the environment.
Fault(kind) ==
    /\ faults < MaxFaults
    /\ faults' = faults + 1
    /\ hit' = hit \cup {kind}
NoFault == UNCHANGED <<hit, faults>>

\* An error that `?` returns from run_query_impl at once.
Quit(kind) ==
    /\ Fault(kind)
    /\ End("error")

\* An error of the agent loop: it keeps nothing of the loop's messages.
LoopError ==
    /\ pc' = "report"
    /\ rescue' = base
    /\ UNCHANGED <<mode, base, loopVars, interrupted, saved, result, callVars,
                   runs, continues>>
LoopFault == LoopError /\ UNCHANGED log /\ (Fault("other") \/ Fault("files"))

-----------------------------------------------------------------------------
\* Before the agent loop

\* A new process: `ai <message>` or `ai --continue`.
Launch ==
    /\ pc = "idle"
    /\ runs < MaxRuns
    /\ runs' = runs + 1
    /\ UNCHANGED mode
    /\ interrupted' = FALSE
    /\ log' = <<>> /\ result' = "running" /\ hit' = {} /\ permitted' = {}
    /\ UNCHANGED <<loopVars, rescue, saved, continues, faults>>

Query ==
    /\ Launch
    /\ base' = <<Message("user", 0)>>
    /\ issued' = 0
    /\ pc' = "prepare"

\* Without a file: "No continuation state".
Resume ==
    /\ Launch
    /\ saved # NoState
    /\ base' = saved
    /\ pc' = "create"
    /\ UNCHANGED issued

\* save_user, prepare (whose user may refuse to send) and the building of the context
\* pack; a run that fails here tells at most the event hub.
Prepare ==
    /\ pc = "prepare"
    /\ \/ pc' = "egress" /\ NoFault /\ UNCHANGED <<loopVars, rescue, result, continues>>
       \/ Quit("prepare")
    /\ UNCHANGED <<mode, base, interrupted, diskVars, callVars, runs>>

\* The egress policy: allowed, or blocked (also when it would need an approval),
\* or it cannot be evaluated, which lets the messages pass.  Attachments are
\* stored and the pack is logged.
Egress ==
    /\ pc = "egress"
    /\ \/ /\ \/ pc' = "create" /\ NoFault
             \/ pc' = "report" /\ NoFault
             \/ pc' = "report" /\ Fault("files")   \* artifact_store.store
          /\ UNCHANGED <<loopVars, rescue, result, continues>>
       \/ Quit("files")
    /\ UNCHANGED <<mode, base, interrupted, diskVars, callVars, runs>>

CreateStream ==
    /\ pc = "create"
    /\ \/ /\ pc' = "start"
          /\ UNCHANGED <<mode, base, loopVars, rescue, interrupted, diskVars, endVars,
                         callVars, runs, continues, faults>>
       \/ LoopFault

\* The head of AgentLoop::run and of its first run_until_done.
BeginLoops(ms) ==
    /\ msgs' = ms
    /\ query' = 1
    /\ turn' = 0
    /\ before' = Results(ms)
    /\ limit' = Results(ms) + mode.calls
    /\ text' = "none"
    /\ pending' = <<>>
    /\ pc' = "turn"

\* run.started, then the rules of commands.
Start ==
    /\ pc = "start"
    /\ \/ /\ AppendEvent("run.started", 0)
          /\ BeginLoops(base)
          /\ NoFault
          /\ UNCHANGED <<rescue, result, continues>>
       \/ /\ AppendEvent("run.started", 0)      \* resolve_command_rules_path
          /\ Fault("other")
          /\ pc' = "report"
          /\ rescue' = base
          /\ UNCHANGED <<loopVars, result, continues>>
       \/ Quit("files") /\ UNCHANGED log
    /\ UNCHANGED <<mode, base, interrupted, saved, callVars, runs>>

-----------------------------------------------------------------------------
\* QueryLoop

\* What no step of the query loop and no answer to it changes.
outerVars == <<mode, base, interrupted, saved, runs, continues>>
countVars == <<query, turn, limit, before>>

\* The limit of tool results is tested before a turn and after its tools.
AtCallLimit == Results(msgs) >= limit
AskModel == pc = "turn" /\ turn < mode.turns /\ ~AtCallLimit

\* What is left of the limit.
Room == limit - Results(msgs)

\* The model's response: text and n tool calls, of which only as many are kept
\* as the limit leaves.
TakeResponse(t, n) ==
    LET calls == [i \in 1..n |-> issued + i]
    IN /\ AskModel
       /\ turn' = turn + 1
       /\ text' = t
       /\ msgs' = msgs \o Assistant(t, calls)
       /\ pending' = SubSeq(calls, 1, IF n < Room THEN n ELSE Room)
       /\ issued' = issued + n
       /\ pc' = IF n > 0 THEN "calls" ELSE "judge"
       /\ UNCHANGED <<outerVars, query, limit, before, rescue, log, endVars, permitted,
                      faults>>

\* The callback of the stream looks at the flag before it takes an event.
Respond(t, n) == ~interrupted /\ TakeResponse(t, n)

\* Out of turns, or of calls before the first turn.
StopAtLimit ==
    /\ pc = "turn"
    /\ \/ turn = mode.turns /\ pc' = (IF turn > 0 THEN "final" ELSE "limit")
       \/ turn < mode.turns /\ AtCallLimit /\ pc' = (IF Mute(msgs) THEN "final" ELSE "limit")
    /\ UNCHANGED <<outerVars, loopVars, rescue, log, endVars, callVars, faults>>

\* The stream or a sink ends with an error, or the callback sees the flag.
StreamFails ==
    /\ AskModel \/ pc = "final"
    /\ LoopFault \/ (interrupted /\ LoopError /\ NoFault /\ UNCHANGED log)

\* The finalization: one more response, without tools.
Finalize(t) ==
    /\ pc = "final"
    /\ ~interrupted
    /\ msgs' = msgs \o Assistant(t, <<>>)
    /\ text' = IF t = "none" THEN "notice" ELSE t
    /\ pc' = "limit"
    /\ UNCHANGED <<outerVars, countVars, pending, rescue, log, endVars, callVars, faults>>

-----------------------------------------------------------------------------
\* Tool calls of one response

Call == Head(pending)
\* The result of the call that is in hand goes to the messages.
PutResult ==
    /\ msgs' = Append(msgs, Message("result", Call))
    /\ pending' = Tail(pending)
    /\ pc' = "calls"
    /\ UNCHANGED <<countVars, text>>

VerdictOf(call) == Verdict(mode.policy, RulesOf(mode.policy, mode.rules), call,
                           mode.interactive)

\* The policy's verdict on what the model has asked for.
Evaluate ==
    /\ pc = "calls"
    /\ pending # <<>>
    /\ \/ /\ msgs' = Append(msgs, Message("call", Call))
          /\ LET verdicts == {VerdictOf(c) : c \in ToolCalls}
             IN \/ "allow" \in verdicts /\ pc' = "execute"
                   /\ permitted' = permitted \cup {Call}
                \/ "deny" \in verdicts /\ pc' = "denied" /\ UNCHANGED permitted
                \/ "ask" \in verdicts /\ pc' = "asking" /\ UNCHANGED permitted
          /\ UNCHANGED <<outerVars, countVars, text, pending, rescue, log, endVars, issued,
                         faults>>
       \/ LoopFault

\* Slip: the model is not told of a refusal.
DenySilently ==
    /\ pc = "denied"
    /\ pending' = Tail(pending)
    /\ pc' = "calls"
    /\ UNCHANGED <<outerVars, countVars, msgs, text, rescue, log, endVars, callVars, faults>>

\* A refusal is a result as well.
Deny ==
    /\ pc = "denied"
    /\ \/ PutResult /\ UNCHANGED <<outerVars, rescue, log, endVars, callVars, faults>>
       \/ LoopFault

\* StreamingToolApproval waits for the frontend's answer and looks at no flag.
Approve ==
    /\ pc = "asking"
    /\ \/ pc' = "execute" /\ permitted' = permitted \cup {Call}
          /\ UNCHANGED <<outerVars, loopVars, rescue, log, endVars, issued, faults>>
       \/ pc' = "denied"
          /\ UNCHANGED <<outerVars, loopVars, rescue, log, endVars, callVars, faults>>
       \/ LoopFault

Execute ==
    /\ pc = "execute"
    /\ \/ /\ AppendEvent("tool.call.started", Call)
          /\ pc' = "executing"
          /\ UNCHANGED <<outerVars, loopVars, rescue, endVars, callVars, faults>>
       \/ LoopFault

\* The tool returns a result, or an error that becomes one.  Whatever fails after
\* the call, its result is lost with the loop's messages.
ToolReturns ==
    /\ pc = "executing"
    /\ \/ /\ AppendEvent("tool.call.ended", Call)
          /\ \/ PutResult /\ UNCHANGED <<outerVars, rescue, endVars, callVars, faults>>
             \/ LoopError /\ Fault("other")      \* a sink
       \/ LoopError /\ Fault("files") /\ UNCHANGED log

EndTurn ==
    /\ pc = "calls"
    /\ pending = <<>>
    /\ pc' = IF ~AtCallLimit THEN "turn" ELSE IF Mute(msgs) THEN "final" ELSE "limit"
    /\ UNCHANGED <<outerVars, loopVars, rescue, log, endVars, callVars, faults>>

-----------------------------------------------------------------------------
\* AgentLoop

\* What a judge may say: the heuristic looks for commands that were suggested
\* and not executed; in the mode auto a model is asked where it has no doubt.
Acted == Results(msgs) > before
Verdicts ==
    LET heuristic == IF Acted \/ text \in {"none", "answer"} THEN "done"
                     ELSE IF text = "question" THEN "need_user_input" ELSE "retry"
    IN CASE mode.retry = "plan" -> {"done"}
         [] mode.retry = "act"  -> {heuristic}
         [] mode.retry = "auto" -> IF heuristic = "done" /\ ~Acted
                                   THEN {"done", "retry", "own"} ELSE {heuristic}

\* inject_followup_system: the standard followup has a marker, and with it in the
\* messages no other followup is added.
Followup(v) ==
    IF \E i \in 1..Len(msgs) : msgs[i] = Message("followup", 0)
    THEN msgs
    ELSE Append(msgs, Message(IF v = "retry" THEN "followup" ELSE "system", 0))

\* Whether another query may follow.
MoreQueries == query < mode.queries

Judge ==
    /\ pc = "judge"
    /\ \E v \in IF MoreQueries THEN Verdicts ELSE {"done"} :
          IF v \in {"retry", "own"}
          THEN /\ msgs' = Followup(v)
               /\ query' = query + 1
               /\ turn' = 0
               /\ before' = Results(msgs)
               /\ limit' = Results(msgs) + mode.calls
               /\ text' = "none"
               /\ pc' = "turn"
          ELSE pc' = "clear" /\ UNCHANGED <<msgs, countVars, text>>
    /\ UNCHANGED <<outerVars, pending, rescue, log, endVars, callVars, faults>>

\* The model that is asked as a judge fails, or what it says cannot be read.
JudgeFails ==
    /\ pc = "judge" /\ mode.retry = "auto" /\ MoreQueries
    /\ "own" \in Verdicts
    /\ LoopFault

-----------------------------------------------------------------------------
\* After the agent loop

\* ask_continue; a user who cannot be asked does not continue.
AskContinue ==
    /\ pc = "limit"
    /\ \/ /\ mode.interactive
          /\ continues < MaxContinues
          /\ continues' = continues + 1
          /\ base' = msgs
          /\ BeginLoops(msgs)
          /\ NoFault
          /\ UNCHANGED rescue
       \/ pc' = "save" /\ NoFault /\ UNCHANGED <<base, loopVars, rescue, continues>>
       \/ /\ Fault("other")
          /\ pc' = "report"
          /\ rescue' = msgs
          /\ UNCHANGED <<base, loopVars, continues>>
    /\ UNCHANGED <<mode, interrupted, diskVars, result, callVars, runs>>

\* What the last part of a run leaves alone while it goes on, and when it ends.
GoOn(next) == pc' = next /\ NoFault /\ UNCHANGED <<loopVars, rescue, result, continues>>
restVars == <<mode, base, interrupted, callVars, runs>>

\* Done: clear_resume_keep_pending writes an empty list.
ClearResume ==
    /\ pc = "clear"
    /\ \/ saved' = <<>> /\ GoOn("answer done")
       \/ Quit("state") /\ UNCHANGED saved
    /\ UNCHANGED <<restVars, log>>

\* A limit: the messages are saved for a resume.
SaveForResume ==
    /\ pc = "save"
    /\ \/ saved' = msgs /\ GoOn("answer limit")
       \/ Quit("state") /\ UNCHANGED saved
    /\ UNCHANGED <<restVars, log>>

\* save_assistant if there is text, truncate_console_log and the lifecycle hooks
\* (whose failures are ignored), then run.completed.
Complete(at, next) ==
    /\ pc = at
    /\ \/ AppendEvent("run.completed", 0) /\ GoOn(next)
       \/ Quit("files") /\ UNCHANGED log
    /\ UNCHANGED <<restVars, saved>>
CompleteDone == Complete("answer done", "derive done")
CompleteLimit == Complete("answer limit", "derive limit")

\* rebuild_derived; its failure turns a completed run into an error.
Derive ==
    /\ \/ pc = "derive done" /\ End("done") /\ NoFault
       \/ pc = "derive limit" /\ End("limit") /\ NoFault
       \/ pc \in {"derive done", "derive limit"} /\ Quit("files")
    /\ UNCHANGED <<restVars, diskVars>>

\* Slip: the run is failed for the event hub only.
ReportToHub == pc = "report" /\ GoOn("rescue") /\ UNCHANGED <<restVars, diskVars>>

\* The error path: run.failed, then try_save_agent_state_on_error, whose failure
\* is ignored, as is that of rebuild_derived.
Report ==
    /\ pc = "report"
    /\ \/ AppendEvent("run.failed", 0) /\ GoOn("rescue")
       \/ Quit("files") /\ UNCHANGED log
    /\ UNCHANGED <<restVars, saved>>

\* Slip: an empty list of messages is saved as well.
RescueAlways ==
    /\ pc = "rescue"
    /\ saved' = <<>>
    /\ End("error")
    /\ NoFault
    /\ UNCHANGED <<restVars, log>>

Rescue ==
    /\ pc = "rescue"
    /\ \/ /\ saved' = IF rescue = <<>> THEN saved ELSE rescue
          /\ End("error")
          /\ NoFault
       \/ rescue # <<>> /\ UNCHANGED saved /\ Quit("state")
    /\ UNCHANGED <<restVars, log>>

\* SIGINT reaches the worker.
Interrupt ==
    /\ pc # "idle"
    /\ ~interrupted
    /\ interrupted' = TRUE
    /\ UNCHANGED <<pc, mode, base, loopVars, rescue, diskVars, endVars, callVars, runs,
                   continues, faults>>

\* All runs are over.
Idle == pc = "idle" /\ runs = MaxRuns /\ UNCHANGED vars

-----------------------------------------------------------------------------
\* Only a judge tells texts apart: not one that comes with tool calls, nor in the
\* last query or at a limit.
Plain == {"none", "answer"}
Responds ==
    \/ \E t \in IF query < mode.queries THEN Texts ELSE Plain : Respond(t, 0)
    \/ \E t \in Plain, n \in 1..CallsPerTurn : Respond(t, n)
Finalizes == \E t \in Plain : Finalize(t)

\* The steps the program takes by itself; model and tools answer in the end, as does a
\* user who is asked for an approval.
Works ==
    \/ Prepare \/ Egress \/ CreateStream \/ Start
    \/ Responds \/ StopAtLimit \/ StreamFails \/ Finalizes
    \/ Evaluate \/ Deny \/ Execute \/ ToolReturns \/ EndTurn
    \/ Judge \/ JudgeFails \/ AskContinue \/ ClearResume \/ SaveForResume
    \/ CompleteDone \/ CompleteLimit \/ Derive \/ Report \/ Rescue

Next == Works \/ Query \/ Resume \/ Approve \/ Interrupt \/ Idle

Spec == Init /\ [][Next]_vars
FairSpec == Spec /\ WF_vars(Works) /\ WF_vars(Approve)

-----------------------------------------------------------------------------
\* Properties

IsMessage(m) ==
    /\ DOMAIN m = {"role", "of"}
    /\ m.role \in {"user", "system", "followup", "assistant", "call", "result"}
    /\ m.of \in Nat

\* Each variable holds values of its kind; the messages are lists of messages.
TypeOK ==
    /\ pc \in {"idle", "prepare", "egress", "create", "start", "turn", "final",
               "calls", "denied", "asking", "execute", "executing", "judge", "limit",
               "clear", "save", "answer done", "answer limit", "derive done",
               "derive limit", "report", "rescue"}
    /\ mode \in Modes
    /\ saved = NoState \/ \A i \in 1..Len(saved) : IsMessage(saved[i])
    /\ \A ms \in {base, msgs, rescue} : \A i \in 1..Len(ms) : IsMessage(ms[i])
    /\ query \in 0..mode.queries /\ turn \in 0..mode.turns
    /\ {limit, before, issued, continues, faults} \subseteq Nat
    /\ text \in Texts \cup {"notice"}
    /\ \A i \in 1..Len(pending) : pending[i] \in Calls
    /\ interrupted \in BOOLEAN
    /\ permitted \subseteq Calls
    /\ result \in {"none", "running", "done", "limit", "error"} /\ hit \subseteq Failures

\* In a list of messages a call is followed by its own result, and a result
\* follows its own call.
Paired(ms) ==
    \A i \in 1..Len(ms) :
        /\ ms[i].role = "call" => /\ i < Len(ms)
                                  /\ ms[i + 1] = Message("result", ms[i].of)
        /\ ms[i].role = "result" => /\ i > 1
                                    /\ ms[i - 1] = Message("call", ms[i].of)

\* Whatever a model is sent and whatever a resume starts from has exactly one
\* result for every tool call, right behind it: denied, refused, failed and
\* successful calls alike, and also after errors and interrupts in the middle of
\* a response.  Providers refuse a history in which a call has no result.
CallsAreAnswered ==
    /\ pc \in {"turn", "final", "judge", "limit"} => Paired(msgs)
    /\ Paired(saved) /\ Paired(base)

Started == {i \in 1..Len(log) : log[i].kind = "tool.call.started"}

\* A query loop never has more tool results than its limit, no tool is called
\* without a permission of policy or user, and none is called twice: neither by a
\* response with more calls than are left, nor after a retry or a continuation.
ToolsStayInBounds ==
    /\ pc \in {"turn", "calls", "judge", "limit"} => Results(msgs) <= limit
    /\ \A i \in Started : log[i].call \in permitted
    /\ \A i, k \in Started : log[i].call = log[k].call => i = k

\* Tool calls are answered once, and run once if at all.
CallsAreHandled == CallsAreAnswered /\ ToolsStayInBounds

Began == \E i \in 1..Len(log) : log[i].kind = "run.started"
LastIs(kind) == log # <<>> /\ log[Len(log)].kind = kind

\* The log tells how a run ended: it has at most one terminal event, which is its
\* last one; a run that returned Ok is completed there; a run that returned an
\* error, also one of the model, the judge, a policy or a sink, is failed there, unless
\* its messages could not be made or a file could not be written; and the end of
\* every tool call is logged next after its start, also if the run is interrupted
\* or fails elsewhere meanwhile, unless the event store failed.
RunIsLogged ==
    LET n == Len(log)
    IN /\ \A i \in 1..n : log[i].kind \in {"run.completed", "run.failed"} => i = n
       /\ result \in {"done", "limit"} => LastIs("run.completed")
       /\ result = "error" /\ hit \subseteq {"other"} => LastIs("run.failed")
       /\ \A i \in Started : \/ i < n /\ log[i + 1] = Event("tool.call.ended", log[i].call)
                             \/ i = n /\ result = "running"
                             \/ "files" \in hit

\* agent_state.json holds all that the run began its last agent loop with.
Resumable == Len(saved) >= Len(base) /\ SubSeq(saved, 1, Len(base)) = base

\* agent_state.json and the log agree on a run that began its loops, whatever failed
\* between saving, logging and deriving: a run that is logged as failed can be resumed
\* unless that very file could not be written, and one that is logged as completed is
\* saved or has nothing left to resume, as its result says if it has one.
UnfinishedCanResume ==
    (pc = "idle" /\ Began) =>
        /\ LastIs("run.failed") => Resumable \/ "state" \in hit
        /\ LastIs("run.completed") => Resumable \/ saved = <<>>
        /\ result = "limit" => Resumable
        /\ result = "done" => saved = <<>>

\* An interrupt ends a run: the calls of the response in hand are still handled, for
\* approvals and tools do not look at the flag, but no other response is taken, and the
\* run comes to its end once the user has answered what it asks.
InterruptEndsRun ==
    /\ [][interrupted /\ interrupted' => issued' = issued]_vars
    /\ interrupted ~> (pc = "idle")

=============================================================================
