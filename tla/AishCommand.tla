----------------------------- MODULE AishCommand -----------------------------
(***************************************************************************)
(* What a user types in a terminal: `aish` with its commands, and `ai`.    *)
(* `aish` starts a shell that records its terminal in a session and hands  *)
(* the session down by the environment; in that shell the user types the   *)
(* next command, which may start a shell again.                            *)
(*                                                                         *)
(* shells is the stack of the recorders of this terminal with the shell of *)
(* each.  A command becomes a call of `ai` (Invocation), a shell, or it is *)
(* done.  Its path to the session it works with is the subject here; what  *)
(* it does there is in ConsoleRecorder, SessionHistory and Backend.        *)
(*                                                                         *)
(* On another terminal a shell is started in one of the same sessions, at  *)
(* any time between the steps of a command here.                           *)
(*                                                                         *)
(* A session is named <<root, n>>: the directory it is in and its name,    *)
(* where names that aish makes up are numbered by the time they stand for. *)
(***************************************************************************)
EXTENDS Invocation

CONSTANTS
    Typed,       \* the command lines: [via, name, sub, s, d, id, args]
    Shifted,     \* what `ai` gets of `aish -s DIR ai ...`: DIR is its task
    ByteOrder,   \* the place of the n-th name in a listing
    Foreign,     \* directories that may be there before the first command
    MaxTyped,    \* bound: command lines
    MaxIds,      \* bound: names that are made up
    MaxKills     \* bound: processes that are killed, shells that do not start

SubCommands == [n \in {"shell", "sessions", "policy", "config", "history", "memory", "daemon",
                       "plugins", "tools", "ai", "resume", "init", "clear", "rollout", "mute",
                       "unmute", "truncate_console_log", "help"} |->
    CASE n = "shell"                   -> {None, "status"}
      [] n = "sessions"                -> {None, "rebuild-derived"}
      [] n \in {"policy", "config"}    -> {None, "explain"}
      [] n = "history"                 -> {None, "ls", "get"}
      [] n = "memory"                  -> {None, "list", "get", "remove"}
      [] n \in {"plugins", "tools"}    -> {None, "list"}
      [] n = "daemon"                  -> {"start", "ensure", "ping", "status", "jobs", "stop",
                                           "cancel"}
      [] OTHER                         -> {None}]
\* Sessions are named with -s, or are below the XDG directory or a -d.
Homes == {NoHome} \cup {c.d : c \in Typed}
Paths == ({c.s : c \in Typed} \ {None}) \cup (({"xdg"} \cup Homes) \X (0..MaxIds))
\* Environments of shells and commands, and commands.
Envs == [job : {None}, depth : {None}, max : {1}, home : Homes, session : {None} \cup Paths,
         tty : {None}, fixed : {None}, above : {<<"cwd", "up">>}]
Commands == [line : Typed, env : Envs, path : {None} \cup Paths,
             at : {"ai", "start", "make", "version", "made"},
             kind : {"shell", "resume", "answer", "look", "explain", "rebuild", "clear", "history",
                     "signal", "mute", "unmute"}]
AishAssumption ==
    /\ \A c \in Typed : /\ c.via \in {"aish", "ai"}
                         /\ c.name \in DOMAIN SubCommands /\ c.sub \in SubCommands[c.name]
    /\ \A p \in Paths : p[2] \in 0..MaxIds
    /\ ByteOrder \in [0..MaxIds -> 0..MaxIds]
    /\ \A n, m \in 0..MaxIds : ByteOrder[n] = ByteOrder[m] => n = m
    /\ Foreign \subseteq Paths
    /\ {MaxTyped, MaxIds, MaxKills} \subseteq Nat
    /\ None \notin Paths \cup Commands

ASSUME AishAssumption

VARIABLES
    shells,     \* [session, env, pid] each, the innermost one last
    sessions,   \* the session directories: [version, record, cut, bare]
    cmd,        \* the command that runs, or None
    other,      \* what runs on the other terminal: [at, path, pid]
    lone,       \* recorders since whose start no other came to their session or went
    signalled,  \* the last signal: [own, from, lone, to, there], or None
    pids,       \* processes so far that became recorders
    ids,        \* names made up so far
    typed, killed

countVars == <<pids, ids, typed, killed>>
aishVars == <<shells, sessions, cmd, other, lone, signalled, countVars>>
nearVars == <<other, lone>>
allVars == <<invocationVars, aishVars>>

-----------------------------------------------------------------------------
\* What is typed, and how it gets to `ai` or to aish

LoginEnv == [job |-> None, depth |-> None, max |-> 1, home |-> NoHome, session |-> None,
             tty |-> None, fixed |-> None, above |-> <<"cwd", "up">>]
HereEnv == IF shells = <<>> THEN LoginEnv ELSE shells[Len(shells)].env
Here == IF shells = <<>> THEN 0 ELSE shells[Len(shells)].pid

NoArgs(kind) == [kind |-> kind, name |-> None, mode |-> None, system |-> None,
                 profile |-> None, quiet |-> FALSE, dry |-> FALSE]
\* shell_attachment.json, and the file AISH_PID.
NoRecord == [pid |-> None, attached |-> FALSE, file |-> None]
AttachedTo(pid) == [pid |-> pid, attached |-> TRUE, file |-> pid]

\* run: the arguments from the third on, whatever the second one is.
ForwardedToAi(c) == IF c.via = "aish" /\ c.s # None THEN Shifted ELSE c.args

\* matches_to_config.
ConfigOf(c) ==
    [name |-> IF c.name = "shell" /\ c.sub = None THEN None ELSE c.name,
     sub  |-> IF c.name \in {"plugins", "tools"} /\ c.sub = None THEN "list" ELSE c.sub]

\* config_to_command and parse_with_args, by what the commands do to a session.
CommandOf(config) ==
    CASE config.name = None                                    -> "shell"
      [] config.name = "help"                                  -> "answer"
      [] config.name = "sessions" /\ config.sub # None         -> "rebuild"
      [] config.name \in {"policy", "config"} /\ config.sub # None -> "explain"
      [] config.name \in {"sessions", "shell"}                 -> "look"
      [] config.name \in {"clear", "resume"}                   -> config.name
      [] config.name = "history" /\ config.sub # None          -> "history"
      [] config.name \in {"rollout", "truncate_console_log"}    -> "signal"
      [] config.name \in {"mute", "unmute"}                     -> config.name
      [] OTHER                                                 -> "answer"
Does(kind) == cmd # None /\ cmd.at = "start" /\ cmd.kind \in kind

\* run_with_outcome: -d sets AISH_HOME.
OwnEnv(c, env) == IF c.d # None THEN [env EXCEPT !.home = c.d] ELSE env

Type ==
    /\ cmd = None /\ chain = <<>>
    /\ typed < MaxTyped /\ ids < MaxIds
    /\ \E c \in Typed :
          /\ cmd' = [line |-> c, kind |-> CommandOf(ConfigOf(c)),
                     env |-> OwnEnv(c, HereEnv), path |-> None,
                     at |-> IF c.name = "ai" THEN "ai" ELSE "start"]
          /\ chain' = IF c.name = "ai"
                      THEN <<Level(HereEnv, TRUE, TRUE, ForwardedToAi(c))>> ELSE <<>>
    /\ typed' = typed + 1
    /\ signalled' = None
    /\ UNCHANGED <<disk, shells, sessions, nearVars, pids, ids, killed>>

Ends == cmd' = None
Arrived(place) == cmd # None /\ cmd.at = place
Goes(place) == cmd' = [cmd EXCEPT !.at = place]

\* Help and completion, errors of the arguments, and what has no session: memory,
\* plugins, tools, daemon (see Backend) and init.
AnswerAtOnce ==
    /\ Does({"answer"})
    /\ Ends
    /\ UNCHANGED <<invocationVars, shells, sessions, nearVars, signalled, countVars>>

\* entry_run_ai_policy_explain, entry_run_ai_config_explain: -s is not handed on.
Explain ==
    /\ Does({"explain"})
    /\ chain' = <<Level(cmd.env, TRUE, TRUE, NoArgs("policy"))>>
    /\ Goes("ai")
    /\ UNCHANGED <<disk, shells, sessions, nearVars, signalled, countVars>>

\* The call of `ai` is over, and the command with it.
AiReturns ==
    /\ Arrived("ai") /\ Len(chain) = 1 /\ top.at = "over"
    /\ chain' = <<>>
    /\ Ends
    /\ UNCHANGED <<disk, shells, sessions, nearVars, signalled, countVars>>

-----------------------------------------------------------------------------
\* The session of a command

\* is_session_explicitly_specified.
Explicit == \/ cmd.line.s # None \/ cmd.line.d # None
            \/ cmd.env.session # None \/ cmd.env.home # NoHome

\* resolve_session_dir: the option, AISH_SESSION, or a new name among the sessions of
\* the home.
SessionDir ==
    IF cmd.line.s # None THEN cmd.line.s
    ELSE IF cmd.env.session # None THEN cmd.env.session
    ELSE <<ConfigBase(cmd.env), ids + 1>>
NewIds == IF cmd.line.s = None /\ cmd.env.session = None THEN ids + 1 ELSE ids

\* sessions, shell status: they only read; clear and history want a session to be named.
ReadOnly ==
    /\ Does({"look"}) \/ (Does({"clear", "history"}) /\ ~Explicit)
    /\ Ends
    /\ ids' = IF cmd.kind = "look" THEN NewIds ELSE ids
    /\ UNCHANGED <<invocationVars, shells, sessions, nearVars, signalled, pids, typed, killed>>

Resolve ==
    /\ Does({"shell", "signal", "mute", "unmute", "clear", "history"})
    /\ cmd.kind \in {"clear", "history"} => Explicit
    /\ cmd' = [cmd EXCEPT !.at = "make", !.path = SessionDir]
    /\ ids' = NewIds
    /\ UNCHANGED <<invocationVars, shells, sessions, nearVars, signalled, pids, typed, killed>>

\* The last one in a listing by name.
Latest(paths) == CHOOSE p \in paths : \A q \in paths : ByteOrder[q[2]] <= ByteOrder[p[2]]

\* ResumeUseCase::run: by its name or the last one, next to the session that a command
\* would work with.
ResumeSession ==
    /\ Does({"resume"})
    /\ LET root == SessionDir[1]
           beside == {p \in DOMAIN sessions : p[1] = root}
           asked == IF cmd.line.id = None THEN beside ELSE beside \cap {<<root, cmd.line.id>>}
       IN IF asked = {} THEN Ends
          ELSE cmd' = [cmd EXCEPT !.at = "make", !.path = Latest(asked)]
    /\ ids' = NewIds
    /\ UNCHANGED <<invocationVars, shells, sessions, nearVars, signalled, pids, typed, killed>>

\* entry_run_ai_sessions_rebuild_derived: `ai` in this process, with the session and the
\* home in its environment.
Rebuild ==
    /\ Does({"rebuild"})
    /\ LET target == IF cmd.line.id = None THEN SessionDir
                     ELSE <<SessionDir[1], cmd.line.id>>
           env == [cmd.env EXCEPT !.session = target, !.home = ConfigBase(cmd.env)]
       IN chain' = <<Level(env, TRUE, TRUE, NoArgs("rebuild"))>>
    /\ Goes("ai")
    /\ ids' = NewIds
    /\ UNCHANGED <<disk, shells, sessions, nearVars, signalled, pids, typed, killed>>

-----------------------------------------------------------------------------
\* Session::new

NewSession == [version |-> FALSE, record |-> NoRecord, cut |-> FALSE, bare |-> FALSE]
\* What may be there: a session, and a directory without a version.
OldSessions == {[NewSession EXCEPT !.version = TRUE], [NewSession EXCEPT !.bare = TRUE]}

\* create_dir_all.
WithDir(path) == [p \in DOMAIN sessions \cup {path} |->
                     IF p \in DOMAIN sessions THEN sessions[p] ELSE NewSession]
\* Whoever looks first and finds no directory writes the version.
AfterDir(path) == IF path \in DOMAIN sessions THEN "made" ELSE "version"

\* Slip: whether the directory is new is looked up when it has been made.
MakeDirThenLook ==
    /\ Arrived("make")
    /\ \/ sessions' = WithDir(cmd.path) /\ Goes("made")
       \/ Ends /\ UNCHANGED sessions
    /\ UNCHANGED <<invocationVars, shells, nearVars, signalled, countVars>>
\* It may fail.
MakeDir ==
    /\ Arrived("make")
    /\ \/ sessions' = WithDir(cmd.path) /\ Goes(AfterDir(cmd.path))
       \/ Ends /\ UNCHANGED sessions
    /\ UNCHANGED <<invocationVars, shells, nearVars, signalled, countVars>>

WriteVersion ==
    /\ Arrived("version")
    /\ \/ sessions' = [sessions EXCEPT ![cmd.path].version = TRUE] /\ Goes("made")
       \/ sessions' = [sessions EXCEPT ![cmd.path].cut = TRUE] /\ Ends
    /\ UNCHANGED <<invocationVars, shells, nearVars, signalled, countVars>>

-----------------------------------------------------------------------------
\* What is done in the session

\* unmute, clear, history: see ConsoleRecorder and SessionHistory.
DoneThere ==
    /\ Arrived("made") /\ cmd.kind \in {"unmute", "clear", "history"}
    /\ Ends
    /\ UNCHANGED <<invocationVars, shells, sessions, nearVars, signalled, countVars>>

\* mute: attaches whoever is in AISH_PID.
Mute ==
    /\ Arrived("made") /\ cmd.kind = "mute"
    /\ LET holder == sessions[cmd.path].record.file
       IN sessions' = IF holder = None THEN sessions
                      ELSE [sessions EXCEPT ![cmd.path].record = AttachedTo(holder)]
    /\ Ends
    /\ UNCHANGED <<invocationVars, shells, nearVars, signalled, countVars>>

\* The recorders that run, and those in a session.
Recorders == {[session |-> shells[i].session, pid |-> shells[i].pid] : i \in 1..Len(shells)}
             \cup (IF other.at = "in" THEN {[session |-> other.path, pid |-> other.pid]} ELSE {})
PidsIn(path) == {rec.pid : rec \in {x \in Recorders : x.session = path}}

\* rollout, truncate_console_log: to the recorder of the attachment, if one is attached;
\* it is no error if that is gone.
SendTo ==
    /\ Arrived("made") /\ cmd.kind = "signal"
    /\ LET record == sessions[cmd.path].record
       IN signalled' = [own |-> cmd.line.s = None, from |-> Here,
                        lone |-> shells # <<>> /\ Here \in lone,
                        to |-> IF record.attached THEN record.pid ELSE None,
                        there |-> PidsIn(cmd.path)]
    /\ Ends
    /\ UNCHANGED <<invocationVars, shells, sessions, nearVars, countVars>>

\* run_shell: what the shell inherits.
ChildEnv(env, path) == [env EXCEPT !.session = path]

\* run_shell: attach, then the shell on its own terminal.
Enter ==
    /\ Arrived("made") /\ cmd.kind \in {"shell", "resume"}
    /\ sessions' = [sessions EXCEPT ![cmd.path].record = AttachedTo(pids + 1)]
    /\ shells' = Append(shells, [session |-> cmd.path, env |-> ChildEnv(cmd.env, cmd.path),
                                 pid |-> pids + 1])
    /\ lone' = (lone \ PidsIn(cmd.path)) \cup {pids + 1}
    /\ pids' = pids + 1
    /\ Ends
    /\ UNCHANGED <<invocationVars, other, signalled, ids, typed, killed>>

\* The terminal or the shell cannot be had: the guard detaches, AISH_PID stays.
StartFails ==
    /\ Arrived("made") /\ cmd.kind \in {"shell", "resume"}
    /\ killed < MaxKills
    /\ killed' = killed + 1
    /\ sessions' = [sessions EXCEPT ![cmd.path].record = [NoRecord EXCEPT !.file = pids + 1]]
    /\ lone' = lone \ PidsIn(cmd.path)
    /\ pids' = pids + 1
    /\ Ends
    /\ UNCHANGED <<invocationVars, shells, other, signalled, ids, typed>>

PathOf(shell) == shell.session
WithoutLast(stack) == SubSeq(stack, 1, Len(stack) - 1)

\* Slip: the attachment is left as it is.
LeaveAttached ==
    /\ cmd = None /\ shells # <<>>
    /\ lone' = lone \ PidsIn(PathOf(shells[Len(shells)]))
    /\ shells' = WithoutLast(shells)
    /\ UNCHANGED <<invocationVars, sessions, cmd, other, signalled, countVars>>
\* The shell ends: AISH_PID goes and the attachment is detached, whoever holds it.
Leave ==
    /\ cmd = None /\ shells # <<>>
    /\ sessions' = [sessions EXCEPT ![PathOf(shells[Len(shells)])].record = NoRecord]
    /\ lone' = lone \ PidsIn(PathOf(shells[Len(shells)]))
    /\ shells' = WithoutLast(shells)
    /\ UNCHANGED <<invocationVars, cmd, other, signalled, countVars>>

-----------------------------------------------------------------------------
\* The other terminal: `aish -s` and `aish resume`, as above.

Away == [at |-> "none", path |-> None, pid |-> None]
Namable == {c.s : c \in Typed} \ {None}

OtherMakes ==
    /\ other.at = "none"
    /\ typed < MaxTyped
    /\ \E path \in DOMAIN sessions \cup Namable :
          /\ other' = [Away EXCEPT !.at = AfterDir(path), !.path = path]
          /\ sessions' = WithDir(path)
    /\ typed' = typed + 1
    /\ UNCHANGED <<invocationVars, shells, cmd, lone, signalled, pids, ids, killed>>

OtherVersion ==
    /\ other.at = "version"
    /\ sessions' = [sessions EXCEPT ![other.path].version = TRUE]
    /\ other' = [other EXCEPT !.at = "made"]
    /\ UNCHANGED <<invocationVars, shells, cmd, lone, signalled, countVars>>

OtherEnters ==
    /\ other.at = "made"
    /\ sessions' = [sessions EXCEPT ![other.path].record = AttachedTo(pids + 1)]
    /\ other' = [other EXCEPT !.at = "in", !.pid = pids + 1]
    /\ lone' = (lone \ PidsIn(other.path)) \cup {pids + 1}
    /\ pids' = pids + 1
    /\ UNCHANGED <<invocationVars, shells, cmd, signalled, ids, typed, killed>>

OtherLeaves ==
    /\ other.at = "in"
    /\ sessions' = [sessions EXCEPT ![other.path].record = NoRecord]
    /\ lone' = lone \ PidsIn(other.path)
    /\ other' = Away
    /\ UNCHANGED <<invocationVars, shells, cmd, signalled, countVars>>

OtherTerminal == OtherMakes \/ OtherVersion \/ OtherEnters \/ OtherLeaves

-----------------------------------------------------------------------------
\* Kills

KillCommand ==
    /\ cmd # None /\ cmd.at \in {"make", "version", "made"}
    /\ killed < MaxKills
    /\ killed' = killed + 1
    /\ sessions' = IF cmd.at = "version" THEN [sessions EXCEPT ![cmd.path].cut = TRUE]
                   ELSE sessions
    /\ Ends
    /\ UNCHANGED <<invocationVars, shells, nearVars, signalled, pids, ids, typed>>

\* A recorder, and with its terminal the shell.
KillRecorder ==
    /\ cmd = None /\ shells # <<>>
    /\ killed < MaxKills
    /\ killed' = killed + 1
    /\ shells' = WithoutLast(shells)
    /\ UNCHANGED <<invocationVars, sessions, cmd, nearVars, signalled, pids, ids, typed>>

KillOther ==
    /\ other.at # "none"
    /\ killed < MaxKills
    /\ killed' = killed + 1
    /\ sessions' = IF other.at = "version" THEN [sessions EXCEPT ![other.path].cut = TRUE]
                   ELSE sessions
    /\ other' = Away
    /\ UNCHANGED <<invocationVars, shells, cmd, lone, signalled, pids, ids, typed>>

-----------------------------------------------------------------------------
AishInit ==
    /\ disk \in Disks /\ chain = <<>>
    /\ \E there \in SUBSET Foreign : sessions \in [there -> OldSessions]
    /\ shells = <<>> /\ cmd = None /\ other = Away /\ lone = {} /\ signalled = None
    /\ pids = 0 /\ ids = 0 /\ typed = 0 /\ killed = 0

CommandWorks == \/ AnswerAtOnce \/ Explain \/ AiReturns \/ ReadOnly \/ Resolve \/ ResumeSession
                \/ Rebuild \/ MakeDir \/ WriteVersion \/ DoneThere \/ Mute \/ SendTo \/ Enter
Serves == (Proceed /\ UNCHANGED aishVars) \/ CommandWorks
AishNext ==
    \/ Serves
    \/ (Person \/ TerminalGone) /\ UNCHANGED aishVars
    \/ Type \/ Leave \/ StartFails \/ OtherTerminal
    \/ KillCommand \/ KillRecorder \/ KillOther

AishSpec == AishInit /\ [][AishNext]_allVars /\ WF_allVars(Serves)

-----------------------------------------------------------------------------
\* Properties

\* Whatever way `ai` is started in a shell, and however deep below it, it works for the
\* session of that shell unless the command line names another one: all went through the
\* environment of the shell, that of a command, requests, and those of workers.
HandedDown ==
    /\ LineageHolds
    /\ (/\ cmd # None /\ cmd.line.s = None /\ cmd.line.id = None
        /\ shells # <<>> /\ chain # <<>> /\ chain[1].req # None) =>
          chain[1].req.session = PathOf(shells[Len(shells)])

\* Who makes a session and has not written its version yet.
BeingMade(path) == \/ other.at = "version" /\ other.path = path
                   \/ cmd # None /\ cmd.at = "version" /\ cmd.path = path

\* A session that a shell runs in is refused by `ai` for want of a version only while the
\* process that made it is about to write it, if that was cut short, or if the directory
\* was there without one; such a directory never gets a version from aish, whoever names
\* or resumes it.  No sequence of commands on two terminals leads elsewhere.
MadeSessionsWork ==
    /\ \A rec \in Recorders :
          LET p == rec.session
          IN  p \in DOMAIN sessions /\ \/ sessions[p].version \/ BeingMade(p)
                                       \/ sessions[p].cut \/ sessions[p].bare
    /\ \A p \in DOMAIN sessions : sessions[p].bare => ~sessions[p].version

\* A signal that is sent without naming a session reaches the recorder of the shell it is
\* sent from, unless another one came to the same session since that shell started, or
\* went from it; and whoever shares a session, a signal goes to a process that records it,
\* unless a recorder was killed or its shell did not start.
OwnRecorderSignalled ==
    signalled # None =>
        /\ (signalled.own /\ signalled.lone) => signalled.to = signalled.from
        /\ (killed = 0 /\ signalled.to # None) => signalled.to \in signalled.there

\* A command, with all calls below it, comes to an end or waits for a person.
EveryCallEnds == []<>((cmd = None /\ InvocationDone) \/ Prompting)

=============================================================================
