----------------------------- MODULE MC_Backend -----------------------------
(***************************************************************************)
(* A small instance of Backend: a project with a memory, a client in a     *)
(* directory that is gone, and two daemons, started in another project, of *)
(* which one is of another version.                                        *)
(***************************************************************************)
EXTENDS Backend, TLC

CONSTANTS f, g, s, o, d, e, proj, other, glob  \* fronts, saver, old memory, daemons, directories

In(cwd) == [cwd |-> cwd, home |-> "home"]
InAndOut == f :> In("inside") @@ g :> In(NoCwd) @@ s :> In("inside")
Elsewhere == In("elsewhere")
ProjectOf == "inside" :> proj @@ "elsewhere" :> other @@ NoCwd :> NoDir
GlobalOf == "home" :> glob
OldIn == o :> glob

Cmd(kind, ids) == [kind |-> kind, ids |-> ids]
Removals == {Cmd("remove", <<o>>), Cmd("remove", <<s, o>>)}
Reads == {Cmd("list", <<>>), Cmd("get", <<o>>)}
Controls == {Cmd(k, <<>>) : k \in {"ping", "ensure", "stop", "ai"}}
AllCommands == Removals \union Reads \union Controls

Off(n) == Cardinality({x \in Daemons : st[x] = "off"}) = n

\* The files: two commands beside a process that saves, with no daemon.
Files ==
    /\ Off(0)
    /\ cmd[f] = Cmd("remove", <<s, o>>)
    /\ cmd[g] \in {Cmd("remove", <<o>>), Cmd("list", <<>>)}
    /\ work[s] = Idle

\* The handlers: two commands for the memories and one daemon.
Handlers ==
    /\ st[e] = "off" /\ Off(1)
    /\ cmd[f] \in Removals \union Reads
    /\ cmd[g] = Cmd("remove", <<o>>)
    /\ work[s] = Absent

\* The daemons: they are started, looked for and stopped, beside a command.
Control ==
    /\ Off(2)
    /\ cmd[f] \in Controls
    /\ cmd[g] \in {Cmd("remove", <<o>>), Cmd("stop", <<>>)}
    /\ work[s] = Absent

MCInit == Init /\ (Files \/ Handlers \/ Control)
MCSpec == MCInit /\ [][Next]_vars /\ Fairness

=============================================================================
