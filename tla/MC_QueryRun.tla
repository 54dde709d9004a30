---------------------------- MODULE MC_QueryRun ----------------------------
(***************************************************************************)
(* A small instance of QueryRun for TLC.                                   *)
(***************************************************************************)
EXTENDS QueryRun, TLC

MCExternal == ("issue" :> [capabilities |-> {"network"}, hint |-> "allow"]
               @@ "post" :> [capabilities |-> {"network", "data_egress"}, hint |-> "none"])
MCCommands == {"ls", "lsblk", "make"}
MCMatches == ("ls" :> {"ls"} @@ "make" :> {"make"})
MCBegins == ("ls" :> {"ls", "lsblk"} @@ "make" :> {"make"})
MCToolCalls == [tool : {"run_shell", "read_file", "write_file", "issue", "post", "unknown"},
                command : MCCommands]

\* The settings of a user, of a project, of the environment and of a command line.
NoLayer == [f \in {} |-> ""]
User == [default |-> "allow", byCapability |-> ("network" :> "require_approval")]
Project == [byTool |-> ("write_file" :> "deny" @@ "run_shell" :> "allow"), allowlist |-> {"ls"}]
WrongFile == [default |-> "sometimes"]
WithMake == [added |-> {"make"}]
Bare == [added |-> {}]
NoRules == [allow |-> {}, refuse |-> {}]

StartedWith(interactive, retry, turns, calls, queries, policy, rules) ==
    [interactive |-> interactive, retry |-> retry, turns |-> turns, calls |-> calls,
     queries |-> queries, policy |-> policy, rules |-> rules]

\* A user at a terminal who may continue at the limit; a run without a user that is
\* retried, one that meets the limit of turns, and one that may call no tool.
SomeModes ==
    {StartedWith(TRUE, "act", 1, 1, 1, Settings(User, Project, NoLayer, Bare), NoRules),
     StartedWith(FALSE, "auto", 2, 1, 2, Settings(NoLayer, NoLayer, NoLayer, WithMake),
                 [allow |-> {"make"}, refuse |-> {"ls"}]),
     StartedWith(FALSE, "plan", 2, 3, 1, Settings(User, WrongFile, NoLayer, Bare), NoRules),
     StartedWith(FALSE, "plan", 1, 0, 1, Settings(User, Project, [shell |-> "deny"], Bare),
                 NoRules)}

=============================================================================
