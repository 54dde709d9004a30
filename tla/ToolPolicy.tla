----------------------------- MODULE ToolPolicy -----------------------------
(***************************************************************************)
(* How `ai` decides about a tool call.  Settings come from defaults, the   *)
(* user's file, the project's file, the environment and the command line;  *)
(* they give every tool a mode; the rules of StdPolicyEngine turn it into  *)
(* a verdict; and run_shell, when it is called, looks at the command once  *)
(* more.  All of this is functions, which QueryRun evaluates.              *)
(***************************************************************************)
EXTENDS Integers

CONSTANTS
    External,  \* tools of plugins, by name: their capabilities and the hint of a mode
    Commands,  \* what run_shell may be asked to run
    Begins,    \* for a pattern, the commands whose first token starts with it
    Matches    \* for a pattern, the commands that a command rule of that pattern matches

ToolModes == {"allow", "require_approval", "deny"}
Capabilities == {"fs_read", "fs_write", "exec", "network", "data_egress"}

PolicyAssumption ==
    /\ \A t \in DOMAIN External : /\ External[t].capabilities \subseteq Capabilities
                                  /\ External[t].hint \in ToolModes \cup {"none"}
    /\ DOMAIN Begins = DOMAIN Matches

ASSUME PolicyAssumption

Patterns == DOMAIN Matches

-----------------------------------------------------------------------------
\* Settings: the mode and the allowlist of run_shell, modes by capability and by
\* tool, and the mode of the built-in tools that have none

Defaults ==
    [shell |-> "require_approval", allowlist |-> Patterns \cap {"ls", "cat", "rg"},
     byCapability |-> [k \in {} |-> "deny"], byTool |-> [t \in {} |-> "deny"],
     default |-> "require_approval"]

\* What a layer sets replaces what the layers below it have set, as a whole.
Override(cfg, layer) ==
    [f \in DOMAIN cfg |-> IF f \in DOMAIN layer THEN layer[f] ELSE cfg[f]]

\* apply_parsed: the entry of run_shell in the table of tools is the mode of the
\* shell as well.
ApplyFile(cfg, file) ==
    LET new == Override(cfg, file)
    IN  IF "byTool" \in DOMAIN file /\ "run_shell" \in DOMAIN file.byTool
        THEN [new EXCEPT !.shell = file.byTool["run_shell"]]
        ELSE new

\* apply_cli: the command line only adds to the allowlist.
ApplyCli(cfg, cli) ==
    [Override(cfg, cli) EXCEPT !.allowlist = cfg.allowlist \cup cli.added]

\* validate_policy_values.
ValidSettings(cfg) ==
    /\ {cfg.shell, cfg.default} \subseteq ToolModes
    /\ \A k \in DOMAIN cfg.byCapability : cfg.byCapability[k] \in ToolModes
    /\ \A t \in DOMAIN cfg.byTool : cfg.byTool[t] \in ToolModes

\* policy_config: where the result is not valid all layers are given up.
Settings(user, project, env, cli) ==
    LET cfg == ApplyCli(Override(ApplyFile(ApplyFile(Defaults, user), project), env), cli)
    IN  IF ValidSettings(cfg) THEN cfg ELSE Defaults

-----------------------------------------------------------------------------
\* The mode of a tool

Readers == {"read_file", "grep", "history_get", "history_search", "get_memory_content",
            "search_memory"}
Writers == {"write_file", "replace_file", "save_memory"}
Executors == {"run_shell", "queue_shell_suggestion"}
Builtin == Readers \cup Writers \cup Executors

\* builtin_capability_kind and the hints of a plugin; the name of a plugin's tool
\* may be one of a built-in tool.
CapabilitiesOf(tool) ==
    (IF tool \in Readers THEN {"fs_read"} ELSE IF tool \in Writers THEN {"fs_write"}
     ELSE IF tool \in Executors THEN {"exec"} ELSE {})
    \cup (IF tool \in DOMAIN External THEN External[tool].capabilities ELSE {})

Severity(m) == IF m = "deny" THEN 3 ELSE IF m = "require_approval" THEN 2 ELSE 1

\* resolve_mode_from_capability_kinds: the strictest.
CapabilityModes(cfg, tool) ==
    {cfg.byCapability[k] : k \in CapabilitiesOf(tool) \cap DOMAIN cfg.byCapability}
Strictest(ms) == CHOOSE m \in ms : \A n \in ms : Severity(n) <= Severity(m)

\* resolve_mode.
ModeOf(cfg, tool) ==
    IF tool = "run_shell"
    THEN IF tool \in DOMAIN cfg.byTool THEN cfg.byTool[tool] ELSE cfg.shell
    ELSE IF tool \in DOMAIN cfg.byTool THEN cfg.byTool[tool]
    ELSE IF CapabilityModes(cfg, tool) # {} THEN Strictest(CapabilityModes(cfg, tool))
    ELSE IF tool \in DOMAIN External /\ External[tool].hint # "none" THEN External[tool].hint
    ELSE IF tool \in DOMAIN External \/ tool \notin Builtin THEN "require_approval"
    ELSE cfg.default

-----------------------------------------------------------------------------
\* The verdict

\* What run_query_impl makes of command_rules.txt: the allowlist is added.
RulesOf(cfg, file) == [file EXCEPT !.allow = @ \cup cfg.allowlist]

\* is_command_allowed: a rule that refuses comes before all that allow.
CommandAllowed(rules, c) ==
    /\ \A p \in rules.refuse : c \notin Matches[p]
    /\ \E p \in rules.allow : c \in Matches[p]

\* is_shell_command_allowed: one of the two lists is enough.
ShellAllowed(cfg, rules, c) ==
    \/ \E p \in cfg.allowlist : c \in Begins[p]
    \/ CommandAllowed(rules, c)

\* Where nobody can be asked, asking is refusing.
Ask(interactive) == IF interactive THEN "ask" ELSE "deny"

\* evaluate_tool_call: ShellAllowlistRule has the last word on run_shell,
\* ToolModeRule on the others.
Verdict(cfg, rules, call, interactive) ==
    IF call.tool = "run_shell"
    THEN IF ShellAllowed(cfg, rules, call.command) THEN "allow" ELSE Ask(interactive)
    ELSE IF ModeOf(cfg, call.tool) = "require_approval" THEN Ask(interactive)
    ELSE ModeOf(cfg, call.tool)

\* ShellTool::call: what no user has approved must be allowed by the rules.
ShellRuns(rules, c, approved) == approved \/ CommandAllowed(rules, c)

=============================================================================
