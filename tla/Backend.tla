------------------------------ MODULE Backend ------------------------------
(***************************************************************************)
(* The daemon as a process, and the front ends that use or control it.     *)
(*                                                                         *)
(* `aish daemon start` removes the socket file, binds it and accepts       *)
(* connections until it is asked to stop or interrupted; then it removes   *)
(* the socket file and ends when its handlers have (apps/daemon:           *)
(* server/mod.rs run_server, handle_connection).  `aish memory` sends its  *)
(* command to the daemon, which runs it in the context of the client (cwd  *)
(* and AISH_HOME of the whole process are switched, under a lock:          *)
(* daemon_bridge.rs); when the daemon cannot be reached the command runs   *)
(* in the front end (daemon_access.rs).  `aish daemon ping | ensure |      *)
(* stop` and the start-up of `ai` (daemon_client.rs:                       *)
(* ensure_backend_available) look for a daemon and may start one.          *)
(*                                                                         *)
(* The memories themselves are those of MemoryStore.                       *)
(***************************************************************************)
EXTENDS MemoryStore

CONSTANTS
    Daemons,      \* processes that may run `aish daemon start`
    Foreign,      \* those whose answer to a ping is not accepted
    NoDaemon, NoFront,
    OwnContext,   \* the context a daemon is started in
    Commands,     \* the commands each front end may be given
    MaxTries,     \* bound: polls of a front end (50 of ensure, 20 of stop)
    MaxFaults     \* bound: kills, interrupts and directories that go away

BackendAssumption ==
    /\ Foreign \subseteq Daemons
    /\ NoDaemon \notin Daemons /\ NoFront \notin Fronts
    /\ OwnContext \in Contexts /\ OwnContext.cwd # NoCwd
    /\ {MaxTries, MaxFaults} \subseteq Nat
    /\ \A c \in Commands : c.ids \in Seq(Ids)

ASSUME BackendAssumption

VARIABLES
    path,      \* the daemon whose socket is at the socket path, if any
    st,        \* where each daemon is
    flag,      \* the shutdown flag of each daemon
    ctx,       \* cwd and environment of each daemon
    lock,      \* the front end whose handler holds process_lock
    prev,      \* prev_cwd and the environment the guard puts back
    strayed,   \* history: daemons whose cwd could not be put back
    cmd,       \* the command of each front end, with its ids
    fpc,       \* where each front end is
    conn,      \* the daemon it is connected to
    handler,   \* its handler in that daemon
    answer,    \* the answer in its socket
    tries,     \* polls so far
    started,   \* whether its `daemon ensure` started a daemon
    verdict,   \* how its command ended
    runs,      \* history: how often its command was carried out
    faults     \* kills, interrupts and lost directories so far

daemonVars == <<path, st, flag, ctx, lock, prev, strayed>>
frontVars == <<cmd, fpc, conn, handler, answer, tries, started, verdict, runs>>
vars == <<memVars, daemonVars, frontVars, faults>>

Kind(f) == cmd[f].kind
Memory == {"list", "get", "remove"}

\* A socket that is bound and not yet closed: connect succeeds.
Listens(d) == st[d] \in {"up", "draining"}
Reachable == path # NoDaemon /\ Listens(path)

\* Connection tasks run until the runtime is dropped.
Answers(d) == st[d] \in {"up", "draining"}

Init ==
    /\ MemInit
    /\ path = NoDaemon
    /\ st \in [Daemons -> {"off", "ended"}]
    /\ flag = [d \in Daemons |-> FALSE]
    /\ ctx = [d \in Daemons |-> OwnContext]
    /\ lock = [d \in Daemons |-> NoFront]
    /\ prev = [d \in Daemons |-> OwnContext]
    /\ strayed = {}
    /\ cmd \in [Fronts -> Commands]
    /\ fpc = [f \in Fronts |-> "new"]
    /\ conn = [f \in Fronts |-> NoDaemon]
    /\ handler = [f \in Fronts |-> "none"]
    /\ answer = [f \in Fronts |-> "none"]
    /\ tries = [f \in Fronts |-> 0]
    /\ started = [f \in Fronts |-> FALSE]
    /\ verdict = [f \in Fronts |-> "none"]
    /\ runs = [f \in Fronts |-> 0]
    /\ faults = 0

Ends(f, v) ==
    /\ fpc' = [fpc EXCEPT ![f] = "done"]
    /\ verdict' = [verdict EXCEPT ![f] = v]

Moves(f, place) ==
    /\ fpc' = [fpc EXCEPT ![f] = place]
    /\ UNCHANGED verdict

-----------------------------------------------------------------------------
(* The daemon: run_server.                                                 *)

StartDaemon(d) ==
    /\ st[d] = "off"
    /\ st' = [st EXCEPT ![d] = "starting"]
    /\ UNCHANGED <<memVars, path, flag, ctx, lock, prev, strayed, frontVars,
                   faults>>

\* The socket file is removed, whoever it belongs to.
ClearPath(d) ==
    /\ st[d] = "starting"
    /\ path' = NoDaemon
    /\ st' = [st EXCEPT ![d] = "cleared"]
    /\ UNCHANGED <<memVars, flag, ctx, lock, prev, strayed, frontVars, faults>>

\* Another daemon may have bound the path meanwhile.
Bind(d) ==
    /\ st[d] = "cleared"
    /\ path' = IF path = NoDaemon THEN d ELSE path
    /\ st' = [st EXCEPT ![d] = IF path = NoDaemon THEN "up" ELSE "ended"]
    /\ UNCHANGED <<memVars, flag, ctx, lock, prev, strayed, frontVars, faults>>

\* The accept loop ends when the flag is set, or at Ctrl-C.
BreakLoop(d) ==
    /\ st[d] = "up"
    /\ \/ flag[d] /\ UNCHANGED faults
       \/ faults < MaxFaults /\ faults' = faults + 1
    /\ st' = [st EXCEPT ![d] = "draining"]
    /\ UNCHANGED <<memVars, path, flag, ctx, lock, prev, strayed, frontVars>>

\* The socket file is removed, again whoever it belongs to; the listener and
\* the connections are dropped.
RemoveSocket(d) ==
    /\ st[d] = "draining"
    /\ path' = NoDaemon
    /\ st' = [st EXCEPT ![d] = "closing"]
    /\ UNCHANGED <<memVars, flag, ctx, lock, prev, strayed, frontVars, faults>>

\* The drop of the runtime waits for the handlers that run.
EndDaemon(d) ==
    /\ st[d] = "closing"
    /\ \A f \in Fronts : conn[f] = d => handler[f] \in {"none", "over"}
    /\ st' = [st EXCEPT ![d] = "ended"]
    /\ UNCHANGED <<memVars, path, flag, ctx, lock, prev, strayed, frontVars,
                   faults>>

\* SIGKILL: the socket file stays.
KillDaemon(d) ==
    /\ st[d] \notin {"off", "ended"}
    /\ faults < MaxFaults
    /\ faults' = faults + 1
    /\ st' = [st EXCEPT ![d] = "ended"]
    /\ handler' = [f \in Fronts |-> IF conn[f] = d /\ handler[f] # "none"
                                    THEN "over" ELSE handler[f]]
    /\ IF lock[d] # NoFront /\ Busy(lock[d]) THEN Killed(lock[d]) ELSE UNCHANGED memVars
    /\ UNCHANGED <<path, flag, ctx, lock, prev, strayed, cmd, fpc, conn, answer,
                   tries, started, verdict, runs>>

-----------------------------------------------------------------------------
(* Connections: handle_connection and the client's side of a request.      *)

\* The daemon reads the request.  A ping and a stop are answered at once, a
\* command for the memories gets a blocking thread of its own.
Accept(d, f) ==
    /\ st[d] = "up"
    /\ conn[f] = d
    /\ fpc[f] = "sent"
    /\ Moves(f, "served")
    /\ flag' = [flag EXCEPT ![d] = @ \/ Kind(f) = "stop"]
    /\ handler' = [handler EXCEPT ![f] = IF Kind(f) \in Memory THEN "waiting" ELSE @]
    /\ answer' = [answer EXCEPT ![f] =
                    CASE Kind(f) \in Memory -> "none"
                      [] Kind(f) = "stop" -> "ok"
                      [] OTHER -> IF d \in Foreign THEN "notok" ELSE "ok"]
    /\ UNCHANGED <<memVars, path, st, ctx, lock, prev, strayed, cmd, conn, tries,
                   started, runs, faults>>

\* set_current_dir and set_var, for a client that may have no cwd to go to.
Switched(old, new) == [new EXCEPT !.cwd = IF @ = NoCwd THEN old.cwd ELSE @]

\* Slip: the lock is let go when the context has been switched.
ApplyContextOnly(d, f) ==
    /\ conn[f] = d
    /\ handler[f] = "waiting"
    /\ lock[d] = NoFront
    /\ prev' = [prev EXCEPT ![d] = ctx[d]]
    /\ ctx' = [ctx EXCEPT ![d] = Switched(@, Context[f])]
    /\ handler' = [handler EXCEPT ![f] = "holding"]
    /\ runs' = [runs EXCEPT ![f] = @ + 1]
    /\ Goes(f, Asked(Kind(f), cmd[f].ids))
    /\ UNCHANGED <<meta, entries, written, saved, touched, removed, path, st, flag,
                   lock, strayed, cmd, fpc, conn, answer, tries, started, verdict, faults>>

\* ProcessContextGuard::apply: the lock is taken and the process switched to
\* the context of the client; or the cwd of the daemon or of the client is
\* gone, and the lock let go.
ApplyContext(d, f) ==
    /\ conn[f] = d
    /\ handler[f] = "waiting"
    /\ lock[d] = NoFront
    /\ \/ /\ lock' = [lock EXCEPT ![d] = f]
          /\ prev' = [prev EXCEPT ![d] = ctx[d]]
          /\ ctx' = [ctx EXCEPT ![d] = Switched(@, Context[f])]
          /\ handler' = [handler EXCEPT ![f] = "holding"]
          /\ runs' = [runs EXCEPT ![f] = @ + 1]
          /\ Goes(f, Asked(Kind(f), cmd[f].ids))
          /\ UNCHANGED answer
       \/ /\ handler' = [handler EXCEPT ![f] = "over"]
          /\ answer' = [answer EXCEPT ![f] = IF Answers(d) THEN "err" ELSE @]
          /\ UNCHANGED <<work, overlap, lock, prev, ctx, runs>>
    /\ UNCHANGED <<meta, entries, written, saved, touched, removed, path, st, flag,
                   strayed, cmd, fpc, conn, tries, started, verdict, faults>>

\* The handler works in the daemon, in the context that has at the time.
Handle(d, f) ==
    /\ conn[f] = d
    /\ handler[f] = "holding"
    /\ Resolve(f, ctx[d]) \/ UseStep(f)
    /\ UNCHANGED <<daemonVars, frontVars, faults>>

\* The environment is put back; the cwd too, unless the directory is gone,
\* which is ignored.
PutsBack(d) ==
    \/ ctx' = [ctx EXCEPT ![d] = prev[d]] /\ UNCHANGED <<strayed, faults>>
    \/ /\ faults < MaxFaults
       /\ faults' = faults + 1
       /\ ctx' = [ctx EXCEPT ![d] = [prev[d] EXCEPT !.cwd = ctx[d].cwd]]
       /\ strayed' = strayed \union {d}

\* Slip: the lock is kept when the command has failed.
ReleaseOnSuccess(d, f) ==
    /\ conn[f] = d
    /\ handler[f] = "holding"
    /\ ~Busy(f)
    /\ lock' = [lock EXCEPT ![d] = IF work[f].at = "ok" THEN NoFront ELSE @]
    /\ PutsBack(d)
    /\ handler' = [handler EXCEPT ![f] = "over"]
    /\ answer' = [answer EXCEPT ![f] = IF Answers(d) THEN work[f].at ELSE @]
    /\ UNCHANGED <<memVars, path, st, flag, prev, cmd, fpc, conn, tries, started,
                   verdict, runs>>

\* The guard is dropped: the context is put back, the lock let go, and the
\* result written unless the runtime has gone.
Release(d, f) ==
    /\ conn[f] = d
    /\ handler[f] = "holding"
    /\ ~Busy(f)
    /\ lock' = [lock EXCEPT ![d] = NoFront]
    /\ PutsBack(d)
    /\ handler' = [handler EXCEPT ![f] = "over"]
    /\ answer' = [answer EXCEPT ![f] = IF Answers(d) THEN work[f].at ELSE @]
    /\ UNCHANGED <<memVars, path, st, flag, prev, cmd, fpc, conn, tries, started,
                   verdict, runs>>

\* The work of a memory command begins in the front end itself.
RunsLocally(f) ==
    /\ Moves(f, "local")
    /\ runs' = [runs EXCEPT ![f] = @ + 1]
    /\ Goes(f, Asked(Kind(f), cmd[f].ids))
    /\ UNCHANGED <<meta, entries, written, saved, touched, removed>>

\* connect, for a memory command: without a daemon it runs in the front end.
ConnectMemory(f) ==
    /\ fpc[f] = "new"
    /\ Kind(f) \in Memory
    /\ IF Reachable
       THEN /\ conn' = [conn EXCEPT ![f] = path]
            /\ Moves(f, "sent")
            /\ UNCHANGED <<memVars, runs>>
       ELSE RunsLocally(f) /\ UNCHANGED conn
    /\ UNCHANGED <<daemonVars, cmd, handler, answer, tries, started, faults>>

\* The daemon went before it read the request.  For a memory command the read
\* fails with ECONNRESET, which is_backend_unavailable takes for no daemon, or
\* the write with EPIPE, which it does not.
Dropped(f) ==
    /\ fpc[f] = "sent"
    /\ ~Listens(conn[f])
    /\ \/ Ends(f, "err") /\ UNCHANGED <<memVars, runs>>
       \/ Kind(f) \in Memory /\ RunsLocally(f)
    /\ UNCHANGED <<daemonVars, cmd, conn, handler, answer, tries, started, faults>>

\* Slip: an end of file counts as a daemon that is not there.
CutOffRetries(f) ==
    /\ fpc[f] = "served"
    /\ answer[f] = "none"
    /\ ~Answers(conn[f])
    /\ RunsLocally(f)
    /\ UNCHANGED <<daemonVars, cmd, conn, handler, answer, tries, started, faults>>

\* The daemon went after it read the request: the client reads an end of file.
CutOff(f) ==
    /\ fpc[f] = "served"
    /\ answer[f] = "none"
    /\ ~Answers(conn[f])
    /\ Ends(f, "err")
    /\ UNCHANGED <<memVars, daemonVars, cmd, conn, handler, answer, tries, started,
                   runs, faults>>

\* The answer to a memory command or a ping.
Receive(f) ==
    /\ fpc[f] = "served"
    /\ answer[f] # "none"
    /\ Kind(f) \in Memory \union {"ping"}
    /\ Ends(f, IF answer[f] = "ok" THEN "ok" ELSE "err")
    /\ UNCHANGED <<memVars, daemonVars, cmd, conn, handler, answer, tries, started,
                   runs, faults>>

Local(f) ==
    /\ fpc[f] = "local"
    /\ \/ /\ Resolve(f, Context[f]) \/ UseStep(f)
          /\ UNCHANGED <<fpc, verdict, faults>>
       \/ /\ ~Busy(f)
          /\ Ends(f, work[f].at)
          /\ UNCHANGED <<memVars, faults>>
       \/ /\ faults < MaxFaults
          /\ faults' = faults + 1
          /\ Killed(f)
          /\ Ends(f, "killed")
    /\ UNCHANGED <<daemonVars, cmd, conn, handler, answer, tries, started, runs>>

\* `ai` processes save memories; any of them may be killed.
Save(s) ==
    /\ \/ SaveStep(s) /\ UNCHANGED faults
       \/ /\ faults < MaxFaults
          /\ faults' = faults + 1
          /\ Killed(s)
    /\ UNCHANGED <<daemonVars, frontVars>>

-----------------------------------------------------------------------------
(* Control: `aish daemon ping | ensure | stop`, and the start of `ai`.     *)

\* ensure_backend_available: a connection is enough; without one `aish daemon
\* ensure` is run, unless AISH_NO_AUTOSTART is set.
ProbeBackend(f) ==
    /\ Kind(f) = "ai"
    /\ fpc[f] = "new"
    /\ IF Reachable THEN Ends(f, "ok")
       ELSE Ends(f, "err") \/ Moves(f, "ping")
    /\ UNCHANGED <<memVars, daemonVars, cmd, conn, handler, answer, tries, started,
                   runs, faults>>

\* run_ping connects, as the first step of ping, ensure and stop; a refused
\* connection is an error of the command.
ConnectControl(f) ==
    /\ \/ fpc[f] = "new" /\ Kind(f) \in {"ping", "ensure", "stop"}
       \/ fpc[f] = "ping"
    /\ IF Reachable
       THEN /\ conn' = [conn EXCEPT ![f] = path]
            /\ Moves(f, "sent")
       ELSE Ends(f, "err") /\ UNCHANGED conn
    /\ answer' = [answer EXCEPT ![f] = "none"]
    /\ UNCHANGED <<memVars, daemonVars, cmd, handler, tries, started, runs, faults>>

\* A daemon that answers: `ensure` is done, and `ai` connects once more.
\* Otherwise the first ping starts a daemon, which may end at once; a later one
\* is repeated for 5 s.
EnsureAnswered(f) ==
    /\ Kind(f) \in {"ensure", "ai"}
    /\ fpc[f] = "served"
    /\ \/ /\ answer[f] = "ok"
          /\ IF Kind(f) = "ensure" THEN Ends(f, "ok") ELSE Moves(f, "verify")
          /\ UNCHANGED <<st, tries, started>>
       \/ /\ answer[f] = "notok" /\ ~started[f]
          /\ \/ \E d \in Daemons : st[d] = "off" /\ st' = [st EXCEPT ![d] = "starting"]
             \/ UNCHANGED st
          /\ started' = [started EXCEPT ![f] = TRUE]
          /\ Moves(f, "ping")
          /\ UNCHANGED tries
       \/ /\ answer[f] = "notok" /\ started[f]
          /\ tries' = [tries EXCEPT ![f] = @ + 1]
          /\ IF tries[f] < MaxTries THEN Moves(f, "ping") ELSE Ends(f, "err")
          /\ UNCHANGED <<st, started>>
    /\ UNCHANGED <<memVars, path, flag, ctx, lock, prev, strayed, cmd, conn,
                   handler, answer, runs, faults>>

VerifyBackend(f) ==
    /\ fpc[f] = "verify"
    /\ Ends(f, IF Reachable THEN "ok" ELSE "err")
    /\ UNCHANGED <<memVars, daemonVars, cmd, conn, handler, answer, tries, started,
                   runs, faults>>

\* run_stop: after the answer the socket path is watched until it is gone.
StopAnswered(f) ==
    /\ Kind(f) = "stop"
    /\ \/ fpc[f] = "served" /\ answer[f] = "ok"
       \/ fpc[f] = "watch"
    /\ tries' = [tries EXCEPT ![f] = @ + 1]
    /\ IF path = NoDaemon THEN Ends(f, "ok")
       ELSE IF tries[f] < MaxTries THEN Moves(f, "watch")
       ELSE Ends(f, "err")
    /\ UNCHANGED <<memVars, daemonVars, cmd, conn, handler, answer, started, runs,
                   faults>>

-----------------------------------------------------------------------------

DaemonStep(d) ==
    \/ ClearPath(d) \/ Bind(d) \/ BreakLoop(d) \/ RemoveSocket(d) \/ EndDaemon(d)
    \/ \E f \in Fronts : Accept(d, f)

HandlerStep(f) ==
    \E d \in Daemons : ApplyContext(d, f) \/ Handle(d, f) \/ Release(d, f)

FrontStep(f) ==
    \/ ConnectMemory(f) \/ Dropped(f) \/ CutOff(f) \/ Receive(f) \/ Local(f)
    \/ ProbeBackend(f) \/ ConnectControl(f) \/ EnsureAnswered(f)
    \/ VerifyBackend(f) \/ StopAnswered(f)

Next ==
    \/ \E d \in Daemons : StartDaemon(d) \/ KillDaemon(d) \/ DaemonStep(d)
    \/ \E f \in Fronts : HandlerStep(f) \/ FrontStep(f)
    \/ \E s \in Savers : Save(s)

Spec == Init /\ [][Next]_vars

\* What goes on by itself: the accept loop, the threads of the daemon and the
\* front ends; nobody has to start a daemon, to save a memory, or to fail.
Progress ==
    \/ \E d \in Daemons :
          \/ ClearPath(d) \/ Bind(d) \/ RemoveSocket(d) \/ EndDaemon(d)
          \/ flag[d] /\ BreakLoop(d)
          \/ \E f \in Fronts : Accept(d, f)
    \/ \E f \in Fronts : HandlerStep(f) \/ FrontStep(f)

\* All of it is scheduled by the operating system.  No part can go on for ever
\* (the polls are counted), so that one condition serves for each of them.
Fairness == WF_vars(Progress)

FairSpec == Spec /\ Fairness

-----------------------------------------------------------------------------

TypeOK ==
    /\ MemTypeOK
    /\ path \in Daemons \union {NoDaemon}
    /\ st \in [Daemons -> {"off", "starting", "cleared", "up", "draining", "closing", "ended"}]
    /\ ctx \in [Daemons -> Contexts]
    /\ lock \in [Daemons -> Fronts \union {NoFront}]
    /\ prev \in [Daemons -> Contexts]
    /\ strayed \subseteq Daemons
    /\ conn \in [Fronts -> Daemons \union {NoDaemon}]
    /\ runs \in [Fronts -> Nat]

\* The directories a command has found are those of its client.  A client
\* without a cwd brings a daemon its environment only: it is served in the
\* directory the daemon is in.
WorksFor(f) ==
    \/ work[f].places \in {Idle.places, Places(Context[f])}
    \/ /\ Context[f].cwd = NoCwd
       /\ handler[f] \in {"holding", "over"}
       /\ \/ work[f].places = Places(Switched(OwnContext, Context[f]))
          \/ /\ conn[f] \in strayed
             /\ work[f].places.global = Global[Context[f].home]

\* A command works on the directories of its own client, in whichever process
\* it runs and whatever else the daemon does at the time, and a daemon with no
\* command in it is in the environment it was started in, and in the directory
\* unless it once could not go back (ProcessContextGuard switches cwd and
\* environment of the whole process).
WorksInOwnContext ==
    /\ \A f \in Fronts : WorksFor(f)
    /\ \A d \in Daemons :
          (\A f \in Fronts : conn[f] = d => handler[f] # "holding") =>
              \/ st[d] = "ended"
              \/ /\ ctx[d].home = OwnContext.home
                 /\ ctx[d] = OwnContext \/ d \in strayed

\* A command for the memories is carried out at most once, by the daemon or by
\* the front end, however the daemon ends; a command that reports success was
\* carried out to its end (is_backend_unavailable must not hold of an error
\* that can come after the daemon has read the request).
RunAtMostOnce ==
    \A f \in Fronts :
        /\ runs[f] <= 1
        /\ fpc[f] = "local" => handler[f] = "none"
        /\ (verdict[f] = "ok" /\ Kind(f) \in Memory) => work[f].at = "ok"

\* Every command ends, though no request has a timeout: no handler is stuck at
\* the lock, and a daemon that goes away drops its connections.
EveryCommandEnds ==
    <>(\A f \in Fronts : fpc[f] = "done")

=============================================================================
