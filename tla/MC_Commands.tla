----------------------------- MODULE MC_Commands -----------------------------
(***************************************************************************)
(* Small instances of AishCommand and ContextSend for TLC.  The two share  *)
(* no variable: a behaviour is one of                                      *)
(*   - a terminal in which aish and `ai` are typed, on a plain disk;       *)
(*   - one call of `ai` with all its arguments, on every disk;             *)
(*   - one context pack,                                                   *)
(* while the other part is at rest.                                        *)
(***************************************************************************)
EXTENDS AishCommand, ContextSend, TLC

\* AishCommand

MCPlain == {"build", "review"}
MCTrimmed == (" build" :> "build")
MCBuiltin == {"gemini", "echo"}

Task(name) == [NoArgs("task") EXCEPT !.name = name]

UserEnv == [LoginEnv EXCEPT !.session = <<"given", 0>>]
Call0(env, terminal, screen, args) ==
    [env |-> env, terminal |-> terminal, screen |-> screen, args |-> args]

MCRootCalls ==
    {Call0(UserEnv, TRUE, TRUE, a) :
        a \in {NoArgs(k) : k \in Kinds \ {"task"}} \cup
              {Task("build"), Task(" build"), Task("a/b"), Task(" "),
               [Task("review") EXCEPT !.dry = TRUE, !.profile = "lost"],
               [Task("review") EXCEPT !.mode = "fast", !.dry = TRUE],
               [Task("review") EXCEPT !.mode = "odd"],
               [Task("review") EXCEPT !.quiet = TRUE, !.system = <<"given">>],
               [NoArgs("resume") EXCEPT !.dry = TRUE]}}
    \cup {Call0([UserEnv EXCEPT !.depth = d, !.max = m, !.home = "home", !.fixed = f,
                                !.session = None], FALSE, s, Task("build")) :
             d \in {None, Bad, 1}, m \in {None, 1}, f \in {None, "j"}, s \in BOOLEAN}
    \cup {Call0(UserEnv, FALSE, s, a) : s \in BOOLEAN, a \in {Task("a/b"), NoArgs("resume")}}

MCChildArgs == {Task("build"), Task("a/b"), [Task("a/b") EXCEPT !.quiet = TRUE]}

Full ==
    [dirs |-> {<<"xdg", "config/task.d">>, <<"home", "config/task.d">>, <<"home", "task.d">>,
               <<"xdg", "hooks">>, <<"user", "hooks">>, <<"up", ".aish">>, <<"up", "hooks">>,
               <<"up", "packages">>, <<"pkg", "tasks">>, <<"up", "skills">>},
     scripts |-> {<<<<"xdg", "config/task.d">>, "build", "file">>,
                  <<<<"home", "task.d">>, "build", "directory">>,
                  <<<<"pkg", "tasks">>, "build", "directory">>,
                  <<<<"pkg", "tasks">>, "review", "file">>},
     odd |-> {<<<<"xdg", "config/task.d">>, "review">>},
     prompts |-> {<<<<"pkg", "tasks">>, "review", "file">>},
     specs |-> (<<<<"pkg", "tasks">>, "review", "file">> :>
                    [broken |-> FALSE, skills |-> <<"care">>]),
     skills |-> (<<<<"up", "skills">>, "care">> :> "text"),
     packages |-> (<<"up", "packages">> :> <<"pkg">>),
     system |-> {"pkg"},
     hooks |-> (<<"xdg", "hooks">> :> <<"fails">>) @@ (<<"user", "hooks">> :> <<"silent">>)
                   @@ (<<"up", "hooks">> :> <<"text">>),
     modes |-> (<<"xdg", "fast">> :> [broken |-> FALSE, sets |-> [profile |-> "echo"]])
                   @@ (<<"xdg", "odd">> :> [broken |-> TRUE, sets |-> <<>>]),
     profiles |-> [b \in {"xdg", "home"} |->
                      [status |-> "read", names |-> {"echo"}, default |-> "echo"]]]
Calling == [Full EXCEPT !.hooks = (<<"xdg", "hooks">> :> <<"calls">>)
                   @@ (<<"user", "hooks">> :> <<"silent">>) @@ (<<"up", "hooks">> :> <<>>),
               !.profiles = [b \in {"xdg", "home"} |->
                      [status |-> "missing", names |-> {}, default |-> None]]]
Spoilt == [Full EXCEPT !.hooks = [r \in DOMAIN Full.hooks |-> <<>>],
               !.profiles = [b \in {"xdg", "home"} |->
                      [status |-> "broken", names |-> {}, default |-> None]]]
MCDisks == {Full, Calling, Spoilt}

\* What is typed in a terminal.
Line(name, sub) == [via |-> "aish", name |-> name, sub |-> sub, s |-> None, d |-> None,
                    id |-> None, args |-> NoArgs("query")]
MCTyped ==
    {Line(n, None) : n \in {"shell", "resume", "rollout", "unmute", "clear", "help"}}
    \cup {Line("shell", "status"), Line("policy", "explain")}
    \cup {[Line("ai", None) EXCEPT !.via = "ai"], [Line("ai", None) EXCEPT !.s = <<"given", 0>>],
          [Line("sessions", "rebuild-derived") EXCEPT !.id = 1],
          [Line("resume", None) EXCEPT !.id = 1]}
    \cup {[Line(n, None) EXCEPT !.s = <<"given", 0>>] : n \in {"shell", "mute", "rollout"}}
    \cup {[Line("shell", None) EXCEPT !.d = "home"]}
MCForeign == {<<"given", 0>>}
MCShifted == Task("a/b")
\* The names of three moments as they are listed.
MCByteOrder == (0 :> 0) @@ (1 :> 3) @@ (2 :> 1) @@ (3 :> 2)

\* ContextSend

Ordinary == <<"plain">>
Secret == <<"secret", "plain">>
Long == <<"secret", "plain", "secret">>
\* More than the budget by itself.
Sermon == [n \in 1..8 |-> "plain"]

Old == ChatMessage("user", Ordinary)
Reply(text) == ChatMessage("assistant", text)
QueryOf(text) == ChatMessage("user", text)
Histories == {<<QueryOf(Secret)>>,
              <<Old, Reply(Secret), QueryOf(Ordinary)>>,
              <<Old, Reply(Ordinary), Old, QueryOf(Long)>>}

Dir(name, ignored) == [kind |-> "dir", name |-> name, ignored |-> ignored]
File(text, large, readable) ==
    [kind |-> "file", ignored |-> FALSE, large |-> large, text |-> text, readable |-> readable]
Note(keywords, subject, text, readable) ==
    [keywords |-> keywords, subject |-> subject, text |-> text, readable |-> readable]

MCTree == ("root" :> <<Dir("target", TRUE), Dir("below", FALSE), File(Secret, FALSE, TRUE)>>)
          @@ ("target" :> <<File(Ordinary, FALSE, TRUE)>>)
          @@ ("below" :> <<File(Long, TRUE, TRUE), File(<<>>, FALSE, FALSE),
                           File(Long, FALSE, TRUE)>>)
Bare == [git |-> FALSE, changed |-> <<>>, session |-> FALSE, console |-> Ordinary,
         listed |-> TRUE, together |-> FALSE, project |-> <<>>, global |-> <<>>,
         tree |-> ("root" :> <<>>)]
Rich == [git |-> TRUE, session |-> TRUE, listed |-> TRUE, together |-> FALSE, tree |-> MCTree,
         changed |-> <<File(Secret, FALSE, FALSE), File(Long, FALSE, TRUE)>>,
         console |-> Long,
         project |-> <<Note({"secret"}, <<>>, Secret, TRUE)>>,
         global |-> <<Note({"secret", "plain"}, <<"secret">>, Long, FALSE)>>]
MCPlaces == {Bare, Rich, [Rich EXCEPT !.together = TRUE, !.changed = <<>>],
             [Rich EXCEPT !.listed = FALSE, !.console = <<>>]}
MCWords == {<<>>, <<"secret">>, <<"is", "plain">>}
\* A query that leakscan took out of the history leaves it without; one of blanks has no
\* words.
MCInputs ==
    [history : Histories, words : MCWords, place : MCPlaces, instruction : {<<>>}]
    \cup [history : {<<>>, <<Old, Reply(Secret)>>, <<Old, Old, QueryOf(Ordinary)>>},
          words : {<<"secret">>}, place : {Bare, Rich},
          instruction : {<<Ordinary>>, <<Secret>>, <<Sermon>>}]
MCLimits == [files |-> 2, lines |-> 2, consoleLines |-> 2, consoleChars |-> 2,
             memories |-> 1, memoryLines |-> 1, scanned |-> 3, hits |-> 2]
Filtering(strategy, screen, egress) ==
    [strategy |-> strategy, screen |-> screen, egress |-> egress, rules |-> TRUE]
MCConfigs == {Filtering("tail", "none", "none"), Filtering("tail", "mask", "mask"),
              Filtering("tail", "deny", "mask"), Filtering("tail", "allow", "deny"),
              Filtering("tail", "allow", "mask"),
              Filtering("legacy", "mask", "allow"),
              [Filtering("tail", "mask", "mask") EXCEPT !.rules = FALSE]}
MCBudget == [messages |-> 4, chars |-> 9]
MCAddonsBudget == [messages |-> 2, chars |-> 7]

-----------------------------------------------------------------------------
SendAtRest ==
    /\ input = CHOOSE in \in Inputs : TRUE
    /\ config = CHOOSE c \in Configs : TRUE
    /\ baseline = <<>> /\ candidates = <<>>
    /\ stage = "sent" /\ todo = <<>> /\ outcome = NoOutcome /\ pack = NoPack
    /\ child = "none" /\ running = FALSE /\ success = FALSE
    /\ unsent = <<>> /\ stdin = <<>> /\ stdout = <<>> /\ answer = <<>>
    /\ spoilt = {} /\ failures = MaxFailures + 1
CommandsAtRest ==
    /\ disk = Spoilt /\ chain = <<>>
    /\ shells = <<>> /\ sessions = [p \in {} |-> NewSession]
    /\ cmd = None /\ other = Away /\ lone = {} /\ signalled = None
    /\ pids = 0 /\ ids = 0 /\ typed = MaxTyped /\ killed = 0

Terminal0 == AishInit /\ disk = Spoilt
OneCall ==
    /\ InvocationInit
    /\ shells = <<>> /\ sessions = [p \in {} |-> NewSession]
    /\ cmd = None /\ other = Away /\ lone = {} /\ signalled = None
    /\ pids = 0 /\ ids = 0 /\ typed = MaxTyped /\ killed = 0

MCInit == ((Terminal0 \/ OneCall) /\ SendAtRest) \/ (CommandsAtRest /\ SendInit)
MCNext == (AishNext /\ UNCHANGED sendVars) \/ (SendNext /\ UNCHANGED allVars)
MCSpec == /\ MCInit /\ [][MCNext]_<<sendVars, allVars>>
          /\ WF_allVars(Serves)

=============================================================================
