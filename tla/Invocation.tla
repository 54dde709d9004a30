----------------------------- MODULE Invocation -----------------------------
(***************************************************************************)
(* One call of `ai`, from its arguments to its exit code, and the calls it *)
(* leads to: hooks, task scripts and shell commands may run `ai` again.    *)
(*                                                                         *)
(* chain is the line of calls that wait for each other, the first one the  *)
(* user's, the last one active.  A level is a front end (dispatch,         *)
(* daemon_client) and, from "begun" on, its worker (run_request, Runner).  *)
(* What the daemon does between the two is in DaemonJobs: here a job is    *)
(* started or the front end fails.                                         *)
(*                                                                         *)
(* An environment is [job, depth, max, home, session, tty, fixed, above]:  *)
(* AISH_JOB_ID, AISH_JOB_DEPTH, AISH_MAX_BACKEND_JOB_DEPTH, AISH_HOME,     *)
(* AISH_SESSION, AISH_FRONTEND_TTY, AISH_BACKEND_JOB_ID, and the cwd with  *)
(* the directories above it.  A hook with the result "calls" runs `ai` and *)
(* prints something if that succeeds.                                      *)
(***************************************************************************)
EXTENDS Resolution

CONSTANTS
    Bad,           \* an environment variable that is no number
    Terminal,      \* the path of a terminal
    Disks,         \* what the catalog directories may hold
    RootCalls,     \* the user's calls: [env, terminal, screen, args]
    ChildArgs,     \* the arguments of calls from scripts, hooks and commands
    Saved,         \* sessions with an agent state
    Codes,         \* exit codes of scripts
    DefaultLimit,  \* DEFAULT_MAX_BACKEND_JOB_DEPTH
    MaxSteps,      \* bound: calls and questions of one level
    MaxLevels      \* bound: levels, more than the limits allow

LocalKinds == {"help", "completion", "list-tasks", "list-modes"}
ListKinds == {"profiles", "tools", "policy", "config", "rebuild"}
RunKinds == {"resume", "task", "query"}
Kinds == LocalKinds \cup ListKinds \cup RunKinds \cup {"wrong"}

InvocationAssumption ==
    /\ \A a \in ChildArgs \cup {c.args : c \in RootCalls} : a.kind \in Kinds
    /\ {DefaultLimit, MaxSteps, MaxLevels} \subseteq Nat /\ MaxLevels > 0
    /\ None \notin Nat /\ \A c \in RootCalls : c.env.depth \in Nat \cup {None, Bad}
    \* A script is in a directory.
    /\ \A d \in Disks : \A s \in d.scripts : s[1] \in d.dirs

ASSUME InvocationAssumption

VARIABLES
    disk,   \* stays as it is
    chain   \* the levels

invocationVars == <<disk, chain>>

-----------------------------------------------------------------------------
\* Levels

Level(env, terminal, screen, args) ==
    [env |-> env, terminal |-> terminal, screen |-> screen, args |-> args,
     at |-> "front",                  \* see the actions
     req |-> None, wenv |-> None,     \* the request, and the worker's environment
     called |-> 0, said |-> FALSE,    \* calling hooks: run so far, one printed something
     system |-> None, origin |-> None,\* the system prompt and the task's root
     profile |-> None,
     script |-> None,                 \* the root of the script that runs
     steps |-> 0,
     ask |-> None, by |-> None,       \* an open question; who answered the last one
     unsafe |-> None,                 \* who let a command run that is not on the list
     code |-> None]

top == chain[Len(chain)]
Put(l) == chain' = [chain EXCEPT ![Len(chain)] = l] /\ UNCHANGED disk
Over(l, code) == Put([l EXCEPT !.at = "over", !.code = code])

\* An error of the worker reaches the front end as a message: exit code 64 for all.
Fail(l) == Over(l, 64)

At(place) == chain # <<>> /\ top.at = place

InvocationInit ==
    /\ disk \in Disks
    /\ \E c \in RootCalls : chain = <<Level(c.env, c.terminal, c.screen, c.args)>>

-----------------------------------------------------------------------------
\* The front end

\* parse_args_from_os, and what needs no backend.
Local ==
    /\ At("front")
    /\ top.args.kind \in LocalKinds \cup {"wrong"}
    /\ Over(top, IF top.args.kind = "wrong" THEN 64 ELSE 0)

NumberOk(x) == x # Bad
Depth(env) == IF env.depth = None THEN 0 ELSE env.depth

\* resolve_frontend_tty_path: the one handed down goes first.
TtyOf(l) ==
    IF l.env.tty # None THEN l.env.tty
    ELSE IF l.terminal \/ l.screen THEN Terminal ELSE None

\* A generated id is the time in nanoseconds: no waiting call has the same.
JobId(l) == IF l.env.fixed # None THEN l.env.fixed ELSE Len(chain)

Request(l) ==
    [job |-> JobId(l), parent |-> l.env.job, depth |-> Depth(l.env), max |-> l.env.max,
     session |-> l.env.session, home |-> l.env.home, tty |-> TtyOf(l), above |-> l.env.above]

\* build_run_request.
BuildRequest ==
    /\ At("front")
    /\ top.args.kind \in ListKinds \cup RunKinds
    /\ IF NumberOk(top.env.depth) /\ NumberOk(top.env.max)
       THEN Put([top EXCEPT !.at = "built", !.req = Request(top)])
       ELSE Fail(top)

\* run_via_backend: no daemon, or the request is written and a worker has it.
Connect ==
    /\ At("built")
    /\ Put([top EXCEPT !.at = "sent"]) \/ Fail(top)

-----------------------------------------------------------------------------
\* The worker: run_request

Limit(req) == IF req.max = None THEN DefaultLimit ELSE req.max

TooDeep(req) == req.depth > Limit(req)

ApplyNoDepth(req) ==
    [job |-> req.job, depth |-> req.depth, max |-> req.max, home |-> req.home,
     session |-> req.session, tty |-> req.tty, fixed |-> None, above |-> req.above]
\* ProcessContextGuard::apply; other variables are those of the daemon.
Apply(req) ==
    [job |-> req.job, depth |-> req.depth + 1, max |-> req.max, home |-> req.home,
     session |-> req.session, tty |-> req.tty, fixed |-> None, above |-> req.above]

\* Slip: a request that is too deep is dropped without an answer.
BeginInSilence ==
    /\ At("sent")
    /\ ~TooDeep(top.req)
    /\ \/ Put([top EXCEPT !.at = IF top.args.kind \in ListKinds THEN "list" ELSE "mode",
                          !.wenv = Apply(top.req)])
       \/ Fail(top)
\* The cwd of the request may be gone.
Begin ==
    /\ At("sent")
    /\ \/ /\ ~TooDeep(top.req)
          /\ Put([top EXCEPT !.at = IF top.args.kind \in ListKinds THEN "list" ELSE "mode",
                             !.wenv = Apply(top.req)])
       \/ Fail(top)

\* The commands that only show something; rebuilding is for a session.
List ==
    /\ At("list")
    /\ IF \/ top.args.kind = "profiles"
             /\ disk.profiles[ConfigBase(top.wenv)].status = "broken"
          \/ top.args.kind = "rebuild" /\ top.wenv.session = None
       THEN Fail(top)
       ELSE Over(top, 0) \/ (top.args.kind = "rebuild" /\ Fail(top))

\* prepare_config: the mode.
ReadMode ==
    /\ At("mode")
    /\ LET given == [system |-> top.args.system, profile |-> top.args.profile]
           mode == ModeOf(disk, top.wenv, top.args.mode)
           merged == IF top.args.mode = None THEN given ELSE MergeMode(given, mode.sets)
       IN IF top.args.mode # None /\ mode.status \in {"invalid", "broken"}
          THEN Fail(top)
          ELSE Put([top EXCEPT !.system = merged.system, !.profile = merged.profile,
                               !.at = IF merged.system # None THEN "ready" ELSE "hooks"])

\* The calling hooks of all places in their order.
CallingHooks(env) ==
    LET roots == Locations(disk, env, "hooks")
        Calls(i, h) == h \in DOMAIN disk.hooks[roots[i]] /\ disk.hooks[roots[i]][h] = "calls"
    IN  Cardinality({x \in (1..Len(roots)) \X (1..3) : Calls(x[1], x[2])})

\* What the disk's hooks come to when the calling ones have run.
HooksDone(l) ==
    [disk EXCEPT !.hooks =
        [r \in DOMAIN disk.hooks |->
            [h \in DOMAIN disk.hooks[r] |->
                IF disk.hooks[r][h] # "calls" THEN disk.hooks[r][h]
                ELSE IF l.said THEN "text" ELSE "fails"]]]

\* prepare_config: the system prompt; no text at all leaves it open.
Prompt ==
    /\ At("hooks")
    /\ top.called = CallingHooks(top.wenv)
    /\ LET task == top.args.kind = "task"
           sources == IF task THEN PromptSources(HooksDone(top), top.wenv, top.args.name)
                      ELSE HookSource(HooksDone(top), top.wenv)
       IN Put([top EXCEPT !.at = "ready",
                          !.system = IF sources = <<>> THEN None ELSE sources,
                          !.origin = IF task THEN FindOrigin(disk, top.wenv, top.args.name)
                                     ELSE None])

-----------------------------------------------------------------------------
\* The worker: Runner::run

Blank(args) == args.kind = "query" \/ (args.kind = "task" /\ args.name = " ")
ProviderFound(l) == ProviderOf(disk, l.wenv, l.profile) \notin {"broken", "unknown"}
HasState(l) == l.wenv.session \in Saved

\* run_dry_run and dry_run_query.
DryRun ==
    /\ At("ready") /\ top.args.dry
    /\ IF \/ Blank(top.args) \/ ~ProviderFound(top)
          \/ top.args.kind = "resume" /\ ~HasState(top)
       THEN Fail(top) ELSE Over(top, 0)

\* TaskUseCase::run: the script, if there is one.
StartScript ==
    /\ At("ready") /\ ~top.args.dry
    /\ top.args.kind = "task"
    /\ LET root == ScriptRoot(disk, top.wenv, top.args.name)
       IN root # None /\ Put([top EXCEPT !.at = "script", !.script = root])

\* A query, a task without a script, or the rest of a run.
StartRun ==
    /\ At("ready") /\ ~top.args.dry
    /\ top.args.kind = "task" => ScriptRoot(disk, top.wenv, top.args.name) = None
    /\ IF Blank(top.args) \/ ~ProviderFound(top) \/ (top.args.kind = "resume" /\ ~HasState(top))
       THEN Fail(top) ELSE Put([top EXCEPT !.at = "agent"])

\* The script's code is the call's.
ScriptEnds ==
    /\ At("script")
    /\ \E code \in Codes : Over(top, code)

\* QueryRun has the rest of what a run does.
RunEnds ==
    /\ At("agent")
    /\ Over(top, 0) \/ Fail(top)

-----------------------------------------------------------------------------
\* Calls of `ai` from below

\* Hooks and commands have no stdin, and a script has the worker's, the pipe of frames;
\* they may still give `ai` the terminal they know of.
Call ==
    /\ Len(chain) < MaxLevels
    /\ \/ At("hooks") /\ top.called < CallingHooks(top.wenv)
       \/ (At("script") \/ At("agent")) /\ top.steps < MaxSteps
    /\ \E args \in ChildArgs, terminal \in {FALSE} \cup {x \in {TRUE} : top.wenv.tty # None} :
          chain' = Append([chain EXCEPT ![Len(chain)].called =
                                            IF top.at = "hooks" THEN @ + 1 ELSE @,
                                        ![Len(chain)].steps =
                                            IF top.at = "hooks" THEN @ ELSE @ + 1],
                          Level(top.wenv, terminal, FALSE, args))
    /\ UNCHANGED disk

\* The caller goes on.
Return ==
    /\ At("over") /\ Len(chain) > 1
    /\ LET n == Len(chain) - 1
           heard == chain[n].at = "hooks" /\ top.code = 0
       IN chain' = [SubSeq(chain, 1, n) EXCEPT ![n].said = @ \/ heard]
    /\ UNCHANGED disk

-----------------------------------------------------------------------------
\* Questions

\* A command that is not on the list, a turn limit, a hit of leakscan.  --no-interactive
\* settles the first and the last one in the worker, but not the second: the prompt
\* that run_request hands over goes first.
Ask ==
    /\ At("agent") /\ top.steps < MaxSteps
    /\ \E q \in {"approval", "continue", "sensitive"} :
          /\ top.args.quiet => q = "continue"
          /\ Put([top EXCEPT !.at = "asking", !.ask = q, !.steps = @ + 1])

\* Slip: only a quiet call is answered for.
AutoAnsweredIfQuiet(l) == l.env.depth # None /\ ~l.terminal /\ l.args.quiet
\* nested_non_interactive_response.
AutoAnswered(l) == l.env.depth # None /\ ~l.terminal

\* The worker takes the answer; a command that was let through is run.
Answered(yes, by) ==
    LET l == [top EXCEPT !.ask = None, !.by = by,
                         !.unsafe = IF top.ask = "approval" /\ yes THEN by ELSE @]
    IN  CASE top.ask = "approval"  -> Put([l EXCEPT !.at = "agent"])
          [] top.ask = "continue"  -> IF yes THEN Put([l EXCEPT !.at = "agent"])
                                      ELSE Over(l, 0) \/ Fail(l)
          [] top.ask = "sensitive" -> \/ Put([l EXCEPT !.at = "agent"])
                                      \/ ~yes /\ Fail(l)

AutoAnswer ==
    /\ At("asking") /\ AutoAnswered(top)
    /\ Answered(FALSE, "rule")

\* The end of the input counts as Enter.
Means(question, line) ==
    CASE question = "approval"  -> line \in {"enter", "end"}
      [] question = "continue"  -> line = "y"
      [] question = "sensitive" -> line \in {"y", "enter", "end", "m"}

\* At the terminal, on the terminal that was handed down, or from stdin if there is
\* none, where the input may just end.
Person ==
    /\ At("asking") /\ ~AutoAnswered(top)
    /\ \E line \in {"y", "m", "n", "enter", "end"} :
          Answered(Means(top.ask, line),
                   IF line = "end" /\ TtyOf(top) = None THEN "nobody" ELSE "person")

\* The terminal cannot be opened: an error of the front end itself.
TerminalGone ==
    /\ At("asking") /\ ~AutoAnswered(top)
    /\ ~top.terminal /\ TtyOf(top) # None
    /\ Over(top, 74)

-----------------------------------------------------------------------------
Proceed == \/ Local \/ BuildRequest \/ Connect
           \/ Begin \/ List \/ ReadMode \/ Prompt
           \/ DryRun \/ StartScript \/ StartRun \/ ScriptEnds \/ RunEnds
           \/ Call \/ Return \/ Ask \/ AutoAnswer
InvocationNext == Proceed \/ Person \/ TerminalGone

InvocationSpec == InvocationInit /\ [][InvocationNext]_invocationVars
                      /\ WF_invocationVars(Proceed)

-----------------------------------------------------------------------------
\* Properties

InvocationDone == chain = <<>> \/ (Len(chain) = 1 /\ top.at = "over")
Prompting == At("asking") /\ ~AutoAnswered(top)

\* Whoever calls, a worker is one level below the worker that waits for it, names its
\* job as the parent, and works for the same session with the same home, limit and
\* terminal; all of it went through the environment of a process in between, a request
\* and the environment of the worker.
LineageHolds ==
    \A i \in 2..Len(chain) :
        LET above == chain[i - 1]
            l == chain[i]
        IN  l.req # None =>
               /\ l.req.parent = above.req.job
               /\ l.req.depth = above.req.depth + 1
               /\ l.req.session = above.req.session
               /\ l.req.home = above.req.home
               /\ l.req.max = above.req.max
               /\ above.req.tty # None => l.req.tty = above.req.tty

\* In a call below another one that has no terminal, nobody is ever asked, and no command
\* that is not on the list runs.
NestedIsDenied ==
    \A i \in 2..Len(chain) :
        ~chain[i].terminal => /\ chain[i].by \in {None, "rule"}
                              /\ chain[i].unsafe = None
                              /\ ~(i = Len(chain) /\ Prompting)

\* The script that runs is the one of the task whose prompt was put together: the two are
\* looked up by two components at two times (a name with blanks around it is taken as it
\* is by the one and without them by the other).
PromptOfTheTask ==
    \A i \in 1..Len(chain) :
        LET l == chain[i]
        IN  l.script # None /\ Parse(l.args.name) = l.args.name /\ l.args.system = None =>
               l.script = l.origin \/ (l.origin = None /\ l.args.mode # None)

=============================================================================
