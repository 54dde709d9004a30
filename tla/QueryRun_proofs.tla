-------------------------- MODULE QueryRun_proofs --------------------------
(***************************************************************************)
(* Proofs about ToolPolicy, the verdicts on tool calls, QueryRun, for      *)
(* every set of modes and of tool calls, every policy and every bound;     *)
(* about the end of the history that ContextPack keeps; and about          *)
(* ContextSend, what of a query's context the model is sent.               *)
(***************************************************************************)
EXTENDS QueryRun, ContextSend, SequenceFacts, FiniteSetTheorems, WellFoundedInduction, TLAPS

-----------------------------------------------------------------------------
\* The verdicts of ToolPolicy, for all tools, commands, patterns and settings: modes

\* Among some modes there is a strictest one.
LEMMA StrictestExists ==
    ASSUME NEW ms, ms \subseteq ToolModes, ms # {}
    PROVE  /\ Strictest(ms) \in ms
           /\ \A n \in ms : Severity(n) <= Severity(Strictest(ms))
<1>1. \E m \in ms : \A n \in ms : Severity(n) <= Severity(m)
  <2>1. \A n \in ms : n = "deny" \/ n = "require_approval" \/ n = "allow"
    BY DEF ToolModes
  <2>2. Severity("deny") = 3 /\ Severity("require_approval") = 2 /\ Severity("allow") = 1
    BY DEF Severity
  <2>3. CASE "deny" \in ms
    <3>1. \A n \in ms : Severity(n) <= Severity("deny")
      BY <2>1, <2>2
    <3> QED BY <2>3, <3>1
  <2>4. CASE "deny" \notin ms /\ "require_approval" \in ms
    <3>1. \A n \in ms : Severity(n) <= Severity("require_approval")
      BY <2>1, <2>2, <2>4
    <3> QED BY <2>4, <3>1
  <2>5. CASE "deny" \notin ms /\ "require_approval" \notin ms
    <3>1. "allow" \in ms /\ \A n \in ms : Severity(n) <= Severity("allow")
      BY <2>1, <2>2, <2>5
    <3> QED BY <3>1
  <2> QED BY <2>3, <2>4, <2>5
<1> QED BY <1>1 DEF Strictest

\* Every tool has one of the three modes, whatever the settings, provided that they
\* are valid: resolve_mode has no other way out.
LEMMA ModeIsAMode ==
    ASSUME NEW cfg, ValidSettings(cfg), NEW tool
    PROVE  ModeOf(cfg, tool) \in ToolModes
<1>1. ASSUME CapabilityModes(cfg, tool) # {}
      PROVE  Strictest(CapabilityModes(cfg, tool)) \in ToolModes
  <2>1. CapabilityModes(cfg, tool) \subseteq ToolModes
    BY DEF CapabilityModes, ValidSettings
  <2> QED BY <1>1, <2>1, StrictestExists
<1>2. cfg.shell \in ToolModes /\ cfg.default \in ToolModes
  BY DEF ValidSettings
<1>3. ASSUME tool \in DOMAIN cfg.byTool PROVE cfg.byTool[tool] \in ToolModes
  BY <1>3 DEF ValidSettings
<1>4. ASSUME tool \in DOMAIN External, External[tool].hint # "none"
      PROVE  External[tool].hint \in ToolModes
  BY <1>4, PolicyAssumption DEF PolicyAssumption
<1>5. "require_approval" \in ToolModes
  BY DEF ToolModes
<1> QED BY <1>1, <1>2, <1>3, <1>4, <1>5 DEF ModeOf

\* The mode of a tool with several capabilities is the strictest of theirs: a capability
\* whose mode is deny denies the tool unless the tool has a mode of its own.
THEOREM StrictestCapability ==
    ASSUME NEW cfg, ValidSettings(cfg), NEW tool, tool # "run_shell",
           tool \notin DOMAIN cfg.byTool,
           NEW k \in CapabilitiesOf(tool), k \in DOMAIN cfg.byCapability
    PROVE  Severity(cfg.byCapability[k]) <= Severity(ModeOf(cfg, tool))
<1> DEFINE ms == CapabilityModes(cfg, tool)
<1>1. cfg.byCapability[k] \in ms
  BY DEF CapabilityModes
<1>2. ms \subseteq ToolModes
  BY DEF CapabilityModes, ValidSettings
<1>3. ModeOf(cfg, tool) = Strictest(ms)
  BY <1>1 DEF ModeOf
<1> HIDE DEF ms
<1> QED BY <1>1, <1>2, <1>3, StrictestExists

-----------------------------------------------------------------------------
\* Verdicts

\* evaluate_tool_call never asks where nobody can answer, so that the query loop's own
\* test of non_interactive on RequireApproval finds nothing left to deny.
THEOREM NobodyIsAsked ==
    ASSUME NEW cfg, ValidSettings(cfg), NEW rules, NEW call
    PROVE  /\ Verdict(cfg, rules, call, TRUE) \in {"allow", "deny", "ask"}
           /\ Verdict(cfg, rules, call, FALSE) \in {"allow", "deny"}
<1>1. ModeOf(cfg, call.tool) \in ToolModes
  BY ModeIsAMode
<1> QED BY <1>1 DEF Verdict, Ask, ToolModes

\* "unknown tool は fail-closed": a name that is neither built in nor of a plugin, and
\* that no setting speaks of, is never called without an approval.
THEOREM UnknownIsNotAllowed ==
    ASSUME NEW cfg, NEW rules, NEW call, NEW interactive \in BOOLEAN,
           call.tool \notin Builtin, call.tool \notin DOMAIN External,
           call.tool \notin DOMAIN cfg.byTool
    PROVE  Verdict(cfg, rules, call, interactive) = Ask(interactive)
<1>1. call.tool # "run_shell"
  BY DEF Builtin, Executors
<1>2. CapabilitiesOf(call.tool) = {}
  BY DEF CapabilitiesOf, Builtin
<1>3. ModeOf(cfg, call.tool) = "require_approval"
  BY <1>1, <1>2 DEF ModeOf, CapabilityModes
<1> QED BY <1>1, <1>3 DEF Verdict

\* What a layer of settings lets a tool do without asking: nothing, neither by its name, nor
\* by a capability, nor by default.
AllowsNothing(layer) ==
    /\ "byTool" \in DOMAIN layer => \A t \in DOMAIN layer.byTool : layer.byTool[t] # "allow"
    /\ "byCapability" \in DOMAIN layer =>
          \A k \in DOMAIN layer.byCapability : layer.byCapability[k] # "allow"
    /\ "default" \in DOMAIN layer => layer.default # "allow"

Fields == {"shell", "allowlist", "byCapability", "byTool", "default"}
IsConfig(cfg) == cfg = [f \in Fields |-> cfg[f]]

LEMMA OverrideAllowsNothing ==
    ASSUME NEW cfg, IsConfig(cfg), AllowsNothing(cfg), NEW layer, AllowsNothing(layer)
    PROVE  IsConfig(Override(cfg, layer)) /\ AllowsNothing(Override(cfg, layer))
<1> DEFINE new == Override(cfg, layer)
<1>1. DOMAIN cfg = Fields
  BY DEF IsConfig
<1>2. new = [f \in Fields |-> IF f \in DOMAIN layer THEN layer[f] ELSE cfg[f]]
  BY <1>1 DEF Override
<1>3. /\ DOMAIN new = Fields /\ IsConfig(new)
      /\ new.byTool = IF "byTool" \in DOMAIN layer THEN layer.byTool ELSE cfg.byTool
      /\ new.byCapability = IF "byCapability" \in DOMAIN layer THEN layer.byCapability
                                                              ELSE cfg.byCapability
      /\ new.default = IF "default" \in DOMAIN layer THEN layer.default ELSE cfg.default
  BY <1>2 DEF IsConfig, Fields
<1> HIDE DEF new
<1>4. AllowsNothing(new)
  BY <1>1, <1>3 DEF AllowsNothing, Fields
<1> QED BY <1>3, <1>4 DEF new

LEMMA FileAllowsNothing ==
    ASSUME NEW cfg, IsConfig(cfg), AllowsNothing(cfg), NEW file, AllowsNothing(file)
    PROVE  IsConfig(ApplyFile(cfg, file)) /\ AllowsNothing(ApplyFile(cfg, file))
<1> DEFINE new == Override(cfg, file)
<1>1. IsConfig(new) /\ AllowsNothing(new)
  BY OverrideAllowsNothing
<1> HIDE DEF new
<1>2. ASSUME NEW m
      PROVE  /\ IsConfig([new EXCEPT !.shell = m])
             /\ AllowsNothing([new EXCEPT !.shell = m])
  <2>1. PICK other : other = [new EXCEPT !.shell = m]
    OBVIOUS
  <2>2. DOMAIN new = Fields
    BY <1>1 DEF IsConfig
  <2>3. /\ IsConfig(other) /\ DOMAIN other = Fields /\ other.byTool = new.byTool
        /\ other.byCapability = new.byCapability /\ other.default = new.default
    BY <2>1, <2>2 DEF IsConfig, Fields
  <2> QED BY <1>1, <2>1, <2>2, <2>3 DEF AllowsNothing
<1> QED BY <1>1, <1>2 DEF ApplyFile, new

LEMMA CliAllowsNothing ==
    ASSUME NEW cfg, IsConfig(cfg), AllowsNothing(cfg), NEW cli, AllowsNothing(cli)
    PROVE  AllowsNothing(ApplyCli(cfg, cli))
<1> DEFINE new == Override(cfg, cli)
<1>1. IsConfig(new) /\ AllowsNothing(new)
  BY OverrideAllowsNothing
<1> HIDE DEF new
<1>2. PICK other : other = [new EXCEPT !.allowlist = cfg.allowlist \cup cli.added]
  OBVIOUS
<1>3. DOMAIN new = Fields
  BY <1>1 DEF IsConfig
<1>4. /\ DOMAIN other = Fields /\ other.byTool = new.byTool
      /\ other.byCapability = new.byCapability /\ other.default = new.default
  BY <1>2, <1>3 DEF Fields
<1>5. AllowsNothing(other)
  BY <1>1, <1>3, <1>4 DEF AllowsNothing
<1> QED BY <1>2, <1>5 DEF ApplyCli, new

LEMMA DefaultsAllowNothing == IsConfig(Defaults) /\ AllowsNothing(Defaults)
                              /\ ValidSettings(Defaults)
<1>1. PICK d : d = Defaults
  OBVIOUS
<1>2. /\ DOMAIN d = Fields /\ IsConfig(d) /\ DOMAIN d.byTool = {} /\ DOMAIN d.byCapability = {}
      /\ d.default = "require_approval" /\ d.shell = "require_approval"
  BY <1>1 DEF Defaults, Fields, IsConfig
<1> QED BY <1>1, <1>2 DEF AllowsNothing, ValidSettings, ToolModes

\* What runs unasked somebody has allowed: if no layer of the settings allows a tool by its
\* name, by a capability or by default (as where nothing is set), then a verdict allows nothing but
\* a plugin's tool that says so of itself, and a command that the lists of run_shell name.
\* This holds through all five layers, and where they are not valid together.
THEOREM UnaskedIsAllowed ==
    ASSUME NEW user, NEW project, NEW env, NEW cli, AllowsNothing(user),
           AllowsNothing(project), AllowsNothing(env), AllowsNothing(cli),
           NEW rules, NEW call, NEW interactive \in BOOLEAN,
           Verdict(Settings(user, project, env, cli), rules, call, interactive) = "allow"
    PROVE  \/ /\ call.tool = "run_shell"
              /\ ShellAllowed(Settings(user, project, env, cli), rules, call.command)
           \/ call.tool \in DOMAIN External /\ External[call.tool].hint = "allow"
<1> DEFINE one == ApplyFile(Defaults, user)
           two == ApplyFile(one, project)
           three == Override(two, env)
           four == ApplyCli(three, cli)
<1>1. IsConfig(one) /\ AllowsNothing(one)
  BY DefaultsAllowNothing, FileAllowsNothing
<1> HIDE DEF one
<1>2. IsConfig(two) /\ AllowsNothing(two)
  BY <1>1, FileAllowsNothing
<1> HIDE DEF two
<1>3. IsConfig(three) /\ AllowsNothing(three)
  BY <1>2, OverrideAllowsNothing
<1> HIDE DEF three
<1>4. AllowsNothing(four)
  BY <1>3, CliAllowsNothing
<1> HIDE DEF four
<1>5. PICK cfg, tool : cfg = Settings(user, project, env, cli) /\ tool = call.tool
  OBVIOUS
<1>6. Settings(user, project, env, cli) = IF ValidSettings(four) THEN four ELSE Defaults
  BY DEF Settings, one, two, three, four
<1>7. AllowsNothing(cfg) /\ ValidSettings(cfg) /\ DOMAIN cfg = Fields
  <2>1. DOMAIN Defaults = Fields
    BY DefaultsAllowNothing DEF IsConfig
  <2>2. DOMAIN four = Fields
    BY <1>3 DEF four, ApplyCli, Override, IsConfig
  <2> QED BY <1>4, <1>5, <1>6, <2>1, <2>2, DefaultsAllowNothing
<1>8. /\ \A t \in DOMAIN cfg.byTool : cfg.byTool[t] # "allow"
      /\ \A k \in DOMAIN cfg.byCapability : cfg.byCapability[k] # "allow"
      /\ cfg.default # "allow"
  BY <1>7 DEF AllowsNothing, Fields
<1>9. Ask(interactive) # "allow"
  BY DEF Ask
<1>10. CASE tool = "run_shell"
  BY <1>5, <1>9, <1>10 DEF Verdict
<1>11. CASE tool # "run_shell"
  <2>1. ModeOf(cfg, tool) = "allow"
    BY <1>5, <1>9, <1>11 DEF Verdict
  <2>2. ASSUME CapabilityModes(cfg, tool) # {}
        PROVE  Strictest(CapabilityModes(cfg, tool)) # "allow"
    <3>1. CapabilityModes(cfg, tool) \subseteq ToolModes
      BY <1>7 DEF CapabilityModes, ValidSettings
    <3>2. \A m \in CapabilityModes(cfg, tool) : m # "allow"
      BY <1>8 DEF CapabilityModes
    <3> QED BY <2>2, <3>1, <3>2, StrictestExists
  <2>3. tool \in DOMAIN External /\ External[tool].hint = "allow"
    BY <1>8, <1>11, <2>1, <2>2 DEF ModeOf
  <2> QED BY <1>5, <2>3
<1> QED BY <1>10, <1>11

-----------------------------------------------------------------------------
\* The inductive invariant

Roles == {"user", "system", "followup", "assistant", "call", "result"}
Messages == [role : Roles, of : Nat]
Kinds == {"run.started", "run.completed", "run.failed", "tool.call.started",
          "tool.call.ended"}
Events == [kind : Kinds, call : Nat]

\* The places of a run: before its loops, in them with no call in hand, with a call
\* in hand, and after them.
Early == {"prepare", "egress", "create", "start"}
Between == {"turn", "final", "calls", "judge", "limit", "clear", "save"}
InHand == {"denied", "asking", "execute", "executing"}
Late == {"answer done", "answer limit", "derive done", "derive limit", "report", "rescue"}

Shape ==
    /\ pc \in {"idle"} \cup Early \cup Between \cup InHand \cup Late
    /\ mode \in Modes
    /\ base \in Seq(Messages) /\ msgs \in Seq(Messages) /\ rescue \in Seq(Messages)
    /\ saved = NoState \/ saved \in Seq(Messages)
    /\ pending \in Seq(Calls) /\ log \in Seq(Events)
    /\ query \in 0..mode.queries /\ turn \in 0..mode.turns
    /\ limit \in Nat /\ before \in Nat /\ issued \in Nat
    /\ continues \in Nat /\ faults \in Nat
    /\ text \in Texts \cup {"notice"}
    /\ interrupted \in BOOLEAN
    /\ permitted \subseteq Calls
    /\ result \in {"none", "running", "done", "limit", "error"} /\ hit \subseteq Failures

\* A call is put down together with its result, except the one in hand.
Answered ==
    /\ Paired(base) /\ Paired(saved) /\ Paired(rescue)
    /\ pc \in Between => Paired(msgs)
    /\ pc \in InHand =>
          /\ pending # <<>>
          /\ \E ms \in Seq(Messages) :
                Paired(ms) /\ msgs = Append(ms, Message("call", Head(pending)))

\* The calls that are left fit in the limit, ...
Fitting ==
    /\ pc \in {"turn", "final", "judge", "limit"} => Results(msgs) <= limit
    /\ pc \in InHand \cup {"calls"} => Results(msgs) + Len(pending) <= limit

\* ... and they are in order and newer than those that were started.
Ordered ==
    /\ pc \in {"execute", "executing"} => Head(pending) \in permitted
    /\ \A i \in Started : log[i].call \in permitted /\ log[i].call <= issued
    /\ \A i, k \in Started : log[i].call = log[k].call => i = k
    /\ pc \in InHand \cup {"calls"} =>
          /\ \A k \in 1..Len(pending) : pending[k] <= issued
          /\ \A j, k \in 1..Len(pending) : j < k => pending[j] < pending[k]
          /\ \A i \in Started, k \in 1..Len(pending) :
                log[i].call < pending[k] \/ (pc = "executing" /\ k = 1)

Terminal == {"run.completed", "run.failed"}
EndsWith(kind) == Len(log) > 0 /\ log[Len(log)].kind = kind

\* The run is logged as ended at the places after its last event, and only there.
EndLogged ==
    /\ result = "running" <=> pc # "idle"
    /\ \A i \in 1..Len(log) : log[i].kind \in Terminal => i = Len(log)
    /\ pc \notin {"idle", "derive done", "derive limit", "rescue"} =>
          \A i \in 1..Len(log) : log[i].kind \notin Terminal
    /\ pc \in {"derive done", "derive limit"} => EndsWith("run.completed")
    /\ pc = "rescue" => EndsWith("run.failed")
    /\ result \in {"done", "limit"} => EndsWith("run.completed")
    /\ result = "error" /\ hit \subseteq {"other"} => EndsWith("run.failed")

\* Every start of a call is followed by its end, except that of the call in hand.
CallsLogged ==
    "files" \in hit \/ \A i \in Started :
              \/ i < Len(log) /\ log[i + 1] = Event("tool.call.ended", log[i].call)
              \/ i = Len(log) /\ pc = "executing" /\ log[i].call = Head(pending)

BeginsWith(ms, first) == Len(ms) >= Len(first) /\ SubSeq(ms, 1, Len(first)) = first

\* What a run that is over has left, by its last event and its result.
Left ==
    /\ EndsWith("run.failed") => BeginsWith(saved, base) \/ "state" \in hit
    /\ EndsWith("run.completed") => BeginsWith(saved, base) \/ saved = <<>>
    /\ result = "limit" => BeginsWith(saved, base)
    /\ result = "done" => saved = <<>>

\* What the loops began with is kept until it is saved.
Kept ==
    /\ pc \in Early => log = <<>>
    /\ pc \in Between \cup InHand => BeginsWith(msgs, base)
    /\ pc \in {"answer done", "derive done"} => saved = <<>>
    /\ pc \in {"answer limit", "derive limit"} => BeginsWith(saved, base)
    /\ pc \in {"report", "rescue"} => ~Began \/ BeginsWith(rescue, base)
    /\ pc = "idle" /\ Began => Left

Inv == Shape /\ Answered /\ Fitting /\ Ordered /\ EndLogged /\ CallsLogged /\ Kept

-----------------------------------------------------------------------------
\* Lists of messages

LEMMA ModesAre == \A m \in Modes : IsMode(m)
  BY RunAssumption DEF RunAssumption

\* A message that is neither a call nor a result leaves the others paired.
LEMMA PairedAppend ==
    ASSUME NEW ms \in Seq(Messages), Paired(ms),
           NEW m \in Messages, m.role \notin {"call", "result"}
    PROVE  Paired(Append(ms, m))
  BY DEF Paired

LEMMA PairedBoth ==
    ASSUME NEW ms \in Seq(Messages), Paired(ms), NEW c \in Nat
    PROVE  Paired(Append(Append(ms, Message("call", c)), Message("result", c)))
<1> DEFINE call == Message("call", c)
           end == Message("result", c)
<1>1. call \in Messages /\ end \in Messages /\ call.role = "call" /\ call.of = c
      /\ end.role = "result" /\ end.of = c
  BY DEF Messages, Roles, Message
<1> HIDE DEF call, end
<1>2. \A r \in Nat : Message("call", r) = [role |-> "call", of |-> r]
  BY DEF Message
<1> DEFINE new == Append(Append(ms, call), end)
<1>3. /\ new \in Seq(Messages) /\ Len(new) = Len(ms) + 2
      /\ \A i \in 1..Len(ms) : new[i] = ms[i]
      /\ new[Len(ms) + 1] = call /\ new[Len(ms) + 2] = end
  BY <1>1
<1> HIDE DEF new
<1>4. ASSUME NEW i \in 1..Len(new), new[i].role = "call"
      PROVE  i < Len(new) /\ new[i + 1] = Message("result", new[i].of)
  <2>1. CASE i \in 1..Len(ms)
    BY <1>3, <1>4, <2>1 DEF Paired
  <2>2. CASE i = Len(ms) + 1
    BY <1>1, <1>3, <2>2 DEF end
  <2>3. CASE i = Len(ms) + 2
    BY <1>1, <1>3, <1>4, <2>3
  <2> QED BY <1>3, <2>1, <2>2, <2>3
<1>5. ASSUME NEW i \in 1..Len(new), new[i].role = "result"
      PROVE  i > 1 /\ new[i - 1] = Message("call", new[i].of)
  <2>1. CASE i \in 1..Len(ms)
    BY <1>3, <1>5, <2>1 DEF Paired
  <2>2. CASE i = Len(ms) + 1
    BY <1>1, <1>3, <1>5, <2>2
  <2>3. CASE i = Len(ms) + 2
    BY <1>1, <1>3, <2>3 DEF call
  <2> QED BY <1>3, <2>1, <2>2, <2>3
<1>6. Paired(new)
  BY <1>4, <1>5 DEF Paired
<1> QED BY <1>6 DEF new, call, end

\* The number of results.
LEMMA ResultsType ==
    ASSUME NEW ms \in Seq(Messages)
    PROVE  Results(ms) \in Nat
<1>1. IsFiniteSet(1..Len(ms))
  BY FS_Interval
<1> QED BY <1>1, FS_Subset, FS_CardinalityType DEF Results

LEMMA ResultsAppend ==
    ASSUME NEW ms \in Seq(Messages), NEW m \in Messages
    PROVE  Results(Append(ms, m)) = IF m.role = "result" THEN Results(ms) + 1
                                                        ELSE Results(ms)
<1> DEFINE at == {i \in 1..Len(ms) : ms[i].role = "result"}
           new == {i \in 1..Len(Append(ms, m)) : Append(ms, m)[i].role = "result"}
<1>1. IsFiniteSet(at)
  BY FS_Interval, FS_Subset
<1>2. Len(ms) + 1 \notin at
  OBVIOUS
<1>3. new = IF m.role = "result" THEN at \cup {Len(ms) + 1} ELSE at
  OBVIOUS
<1>4. Cardinality(at \cup {Len(ms) + 1}) = Cardinality(at) + 1
  BY <1>1, <1>2, FS_AddElement
<1> QED BY <1>3, <1>4 DEF Results

LEMMA AssistantAdds ==
    ASSUME NEW ms \in Seq(Messages), NEW t, NEW calls
    PROVE  \/ ms \o Assistant(t, calls) = ms
           \/ ms \o Assistant(t, calls) = Append(ms, Message("assistant", 0))
<1> DEFINE m == Message("assistant", 0)
<1>1. ms \o <<>> = ms
  OBVIOUS
<1>2. m \in Messages
  BY DEF Message, Messages, Roles
<1> HIDE DEF m
<1>3. ms \o <<m>> = Append(ms, m)
  BY <1>2
<1> QED BY <1>1, <1>3 DEF Assistant, m

LEMMA BeginsAppend ==
    ASSUME NEW ms \in Seq(Messages), NEW first \in Seq(Messages), BeginsWith(ms, first),
           NEW m \in Messages
    PROVE  BeginsWith(Append(ms, m), first)
  BY DEF BeginsWith

LEMMA BeginsSelf ==
    ASSUME NEW ms \in Seq(Messages)
    PROVE  BeginsWith(ms, ms)
  BY DEF BeginsWith

-----------------------------------------------------------------------------
\* Ends and errors

\* A failure is one of a kind, and is kept in mind.
LEMMA FaultIs ==
    ASSUME Inv, NEW kind \in Failures, Fault(kind)
    PROVE  /\ hit' = hit \cup {kind} /\ hit' \subseteq Failures /\ kind \in hit'
           /\ hit \subseteq hit' /\ faults' \in Nat
  BY DEF Fault, Inv, Shape

\* The last event of a run that is not over: none of its ends, unless that is logged.
LEMMA LastEvent ==
    ASSUME Inv, pc # "idle"
    PROVE  /\ EndsWith("run.failed") => pc = "rescue"
           /\ EndsWith("run.completed") => pc \in {"derive done", "derive limit"}
<1>1. \A end \in Terminal : EndsWith(end) => pc \in {"derive done", "derive limit", "rescue"}
  <2>1. log \in Seq(Events)
    BY DEF Inv, Shape
  <2>2. Len(log) \in Nat /\ (Len(log) > 0 => Len(log) \in 1..Len(log))
    BY <2>1
  <2>3. SUFFICES ASSUME NEW end \in Terminal, EndsWith(end),
                        pc \notin {"derive done", "derive limit", "rescue"}
                 PROVE  FALSE
    OBVIOUS
  <2>4. Len(log) > 0 /\ log[Len(log)].kind = end
    BY <2>3 DEF EndsWith
  <2>5. \A i \in 1..Len(log) : log[i].kind \notin Terminal
    BY <2>3 DEF Inv, EndLogged
  <2> QED BY <2>2, <2>3, <2>4, <2>5
<1>2. /\ pc \in {"derive done", "derive limit"} => log[Len(log)].kind = "run.completed"
      /\ pc = "rescue" => log[Len(log)].kind = "run.failed"
  BY DEF Inv, EndLogged, EndsWith
<1> QED BY <1>1, <1>2 DEF EndsWith, Terminal

\* An error that ends the run at once: it is a failure, and the files are as they were.
LEMMA QuitKeeps ==
    ASSUME Inv, pc # "idle", NEW kind \in {"prepare", "files", "state"}, Quit(kind),
           UNCHANGED <<restVars, diskVars>>,
           pc = "rescue" => kind = "state", pc # "executing"
    PROVE  Inv'
<1>1. /\ pc' = "idle" /\ result' = "error"
      /\ msgs' = <<>> /\ query' = 0 /\ turn' = 0 /\ limit' = 0 /\ before' = 0
      /\ text' = "none" /\ pending' = <<>> /\ rescue' = <<>>
      /\ continues' = 0
  BY DEF Quit, End
<1>2. /\ mode' = mode /\ base' = base /\ interrupted' = interrupted /\ saved' = saved
      /\ log' = log /\ issued' = issued /\ permitted' = permitted
  BY DEF restVars, diskVars, callVars
<1>3. /\ hit' \subseteq Failures /\ kind \in hit' /\ hit \subseteq hit' /\ faults' \in Nat
  BY FaultIs DEF Quit, Failures
<1>4. Shape'
  BY <1>1, <1>2, <1>3, ModesAre DEF Inv, Shape, IsMode, Texts
<1>5. Answered'
  BY <1>1, <1>2 DEF Inv, Answered, Paired, Between, InHand
<1>6. Fitting' /\ Ordered'
  BY <1>1, <1>2 DEF Inv, Fitting, Ordered, InHand, Started
<1>7. EndLogged'
  BY <1>1, <1>2, <1>3 DEF Inv, EndLogged, EndsWith
<1>8. CallsLogged'
  <2>1. \/ "files" \in hit'
        \/ \A i \in Started :
              i < Len(log) /\ log[i + 1] = Event("tool.call.ended", log[i].call)
    BY <1>3 DEF Inv, CallsLogged
  <2> QED BY <1>2, <2>1 DEF CallsLogged, Started
<1>9. Kept'
  <2>1. /\ EndsWith("run.failed")' => "state" \in hit'
        /\ EndsWith("run.completed")' => BeginsWith(saved, base) \/ saved = <<>>
    <3>1. EndsWith("run.failed")' = EndsWith("run.failed")
          /\ EndsWith("run.completed")' = EndsWith("run.completed")
      BY <1>2 DEF EndsWith
    <3> QED BY <1>3, <3>1, LastEvent DEF Inv, Kept
  <2>2. Left'
    BY <1>1, <1>2, <2>1 DEF Left, BeginsWith
  <2> QED BY <1>1, <2>2 DEF Kept, Early, Between, InHand
<1> QED BY <1>4, <1>5, <1>6, <1>7, <1>8, <1>9 DEF Inv

\* An error of the agent loop: what the loops began with is to be saved.
LEMMA LoopErrorKeeps ==
    ASSUME Inv, LoopError, UNCHANGED log,
           pc \in {"create", "turn", "final", "calls", "judge"} \cup InHand,
           Fault("other") \/ Fault("files") \/ NoFault,
           pc = "executing" => Fault("files")
    PROVE  Inv'
<1>1. /\ pc' = "report" /\ rescue' = base
      /\ mode' = mode /\ base' = base /\ interrupted' = interrupted /\ saved' = saved
      /\ log' = log /\ result' = result /\ issued' = issued /\ permitted' = permitted
      /\ runs' = runs /\ continues' = continues /\ UNCHANGED loopVars
  BY DEF LoopError, callVars
<1>2. /\ msgs' = msgs /\ query' = query /\ turn' = turn /\ limit' = limit
      /\ before' = before /\ text' = text /\ pending' = pending
  BY <1>1 DEF loopVars
<1>3. /\ hit' \subseteq Failures /\ hit \subseteq hit' /\ faults' \in Nat
      /\ pc = "executing" => "files" \in hit'
  BY FaultIs DEF Failures, NoFault, Inv, Shape
<1>4. Shape'
  BY <1>1, <1>2, <1>3 DEF Inv, Shape, Late
<1>5. Answered'
  BY <1>1, <1>2 DEF Inv, Answered, Paired, Between, InHand
<1>6. Fitting' /\ Ordered'
  BY <1>1, <1>2 DEF Inv, Fitting, Ordered, InHand, Started
<1>7. EndLogged'
  BY <1>1, <1>2 DEF Inv, EndLogged, EndsWith, InHand, Shape
<1>8. CallsLogged'
  BY <1>1, <1>2, <1>3 DEF Inv, CallsLogged, Started
<1>9. BeginsWith(base, base)
  BY BeginsSelf DEF Inv, Shape
<1>10. Kept'
  BY <1>1, <1>2, <1>9 DEF Kept, BeginsWith, Early, Between, InHand
<1> QED BY <1>4, <1>5, <1>6, <1>7, <1>8, <1>10 DEF Inv

\* The same, of an error that the loops only meet when no tool runs.
LEMMA LoopFaultKeeps ==
    ASSUME Inv, LoopFault,
           pc \in {"create", "turn", "final", "calls", "judge", "denied", "asking", "execute"}
    PROVE  Inv'
  BY LoopErrorKeeps DEF LoopFault, InHand

-----------------------------------------------------------------------------
\* Before the loops

LEMMA InitHolds == Init => Inv
<1> SUFFICES ASSUME Init PROVE Inv
  OBVIOUS
<1> USE DEF Init
<1>1. Shape
  <2>1. msgs \in Seq(Messages) /\ pending \in Seq(Calls) /\ log \in Seq(Events)
    OBVIOUS
  <2>2. 0 \in 0..mode.queries /\ 0 \in 0..mode.turns
    BY ModesAre DEF IsMode
  <2>3. base \in Seq(Messages) /\ rescue \in Seq(Messages)
    OBVIOUS
  <2> QED BY <2>1, <2>2, <2>3 DEF Shape, Texts
<1>2. Paired(NoState) /\ Paired(<<>>)
  BY DEF Paired, NoState, Message
<1>3. Answered
  BY <1>2 DEF Answered, Between, InHand
<1>4. Fitting /\ Ordered /\ EndLogged /\ CallsLogged /\ Kept
  BY DEF Fitting, Ordered, EndLogged, CallsLogged, Kept, InHand, Started, Early, Between, Began
<1> QED BY <1>1, <1>3, <1>4 DEF Inv

\* A new process, whose messages are paired, has an empty log.
LEMMA LaunchKeeps ==
    ASSUME Inv, Launch, base' \in Seq(Messages), Paired(base'), pc' \in {"prepare", "create"},
           issued' \in Nat
    PROVE  Inv'
<1>1. /\ pc = "idle" /\ mode' = mode /\ log' = <<>> /\ result' = "running"
      /\ permitted' = {} /\ interrupted' = FALSE /\ hit' = {}
      /\ UNCHANGED loopVars
      /\ rescue' = rescue /\ saved' = saved /\ continues' = continues /\ faults' = faults
  BY DEF Launch
<1>2. /\ msgs' = msgs /\ query' = query /\ turn' = turn /\ limit' = limit
      /\ before' = before /\ text' = text /\ pending' = pending
  BY <1>1 DEF loopVars
<1>3. log' \in Seq(Events) /\ \A i \in 1..Len(log') : FALSE
  BY <1>1
<1>4. Shape'
  BY <1>1, <1>2, <1>3 DEF Inv, Shape, Early
<1>5. Answered'
  BY <1>1, <1>2 DEF Inv, Answered, Paired, Between, InHand
<1>6. Fitting' /\ Ordered' /\ CallsLogged'
  BY <1>1, <1>2 DEF Fitting, Ordered, CallsLogged, InHand, Started
<1>7. EndLogged'
  BY <1>1, <1>3 DEF EndLogged
<1>8. Kept'
  BY <1>1, <1>3 DEF Kept, InHand, Between, Began
<1> QED BY <1>4, <1>5, <1>6, <1>7, <1>8 DEF Inv

LEMMA QueryKeeps ==
    ASSUME Inv, Query
    PROVE  Inv'
<1>1. <<Message("user", 0)>> \in Seq(Messages) /\ Paired(<<Message("user", 0)>>)
  BY DEF Message, Messages, Roles, Paired
<1> QED BY <1>1, LaunchKeeps DEF Query

LEMMA ResumeKeeps ==
    ASSUME Inv, Resume
    PROVE  Inv'
  BY LaunchKeeps DEF Resume, Inv, Shape, Answered, Launch, Paired

\* A step from one place before the loops to the next, or to the error path.
LEMMA EarlyKeeps ==
    ASSUME Inv, pc \in Early, pc' \in Early \cup {"report"},
           UNCHANGED <<restVars, diskVars, loopVars, rescue, result, continues>>,
           Fault("files") \/ NoFault
    PROVE  Inv'
<1>1. /\ mode' = mode /\ base' = base /\ interrupted' = interrupted /\ saved' = saved
      /\ log' = log /\ result' = result /\ issued' = issued /\ permitted' = permitted
      /\ continues' = continues /\ rescue' = rescue
      /\ msgs' = msgs /\ query' = query /\ turn' = turn /\ limit' = limit
      /\ before' = before /\ text' = text /\ pending' = pending
  BY DEF restVars, diskVars, callVars, loopVars
<1>2. hit' \subseteq Failures /\ faults' \in Nat
  BY FaultIs DEF Failures, NoFault, Inv, Shape
<1>3. log = <<>>
  BY DEF Inv, Kept
<1>4. \A i \in 1..Len(log) : FALSE
  BY <1>3
<1>5. Shape'
  BY <1>1, <1>2 DEF Inv, Shape, Early, Late
<1>6. Answered'
  BY <1>1 DEF Inv, Answered, Paired, Between, InHand, Early
<1>7. Fitting' /\ Ordered' /\ CallsLogged'
  BY <1>1, <1>3 DEF Fitting, Ordered, CallsLogged, InHand, Started, Early
<1>8. result = "running"
  BY DEF Inv, EndLogged, Early
<1>9. EndLogged'
  BY <1>1, <1>4, <1>8 DEF EndLogged, Early
<1>10. Kept'
  BY <1>1, <1>3, <1>4 DEF Kept, Early, Between, InHand, Began
<1> QED BY <1>5, <1>6, <1>7, <1>9, <1>10 DEF Inv

LEMMA PrepareKeeps ==
    ASSUME Inv, Prepare
    PROVE  Inv'
  BY EarlyKeeps, QuitKeeps DEF Prepare, restVars, diskVars, callVars, Early

LEMMA EgressKeeps ==
    ASSUME Inv, Egress
    PROVE  Inv'
  BY EarlyKeeps, QuitKeeps DEF Egress, restVars, diskVars, callVars, Early

LEMMA CreateStreamKeeps ==
    ASSUME Inv, CreateStream
    PROVE  Inv'
<1>1. CASE LoopFault
  BY <1>1, LoopFaultKeeps DEF CreateStream
<1>2. CASE ~LoopFault
  BY <1>2, EarlyKeeps
  DEF CreateStream, restVars, diskVars, callVars, endVars, loopVars, Early, NoFault
<1> QED BY <1>1, <1>2

-----------------------------------------------------------------------------
\* The loops

\* What most steps of the loops leave alone.
Quiet == UNCHANGED <<outerVars, rescue, endVars, faults>>

LEMMA QuietIs ==
    ASSUME Quiet
    PROVE  /\ mode' = mode /\ base' = base /\ interrupted' = interrupted /\ saved' = saved
           /\ continues' = continues /\ rescue' = rescue /\ faults' = faults
           /\ result' = result /\ hit' = hit
  BY DEF Quiet, outerVars, endVars

\* BeginLoops makes a state that fits, whatever the messages are.
LEMMA BeginLoopsFits ==
    ASSUME Inv, NEW ms \in Seq(Messages), BeginLoops(ms), mode' = mode
    PROVE  /\ pc' = "turn" /\ msgs' = ms /\ text' = "none" /\ pending' = <<>>
           /\ query' \in 0..mode.queries /\ turn' \in 0..mode.turns
           /\ limit' \in Nat /\ before' \in Nat
           /\ Fitting'
<1>1. Results(ms) \in Nat
  BY ResultsType
<1>2. mode \in Modes /\ IsMode(mode)
  BY ModesAre DEF Inv, Shape
<1>3. mode.calls \in Nat /\ mode.turns \in Nat /\ mode.queries \in Nat \ {0}
  BY <1>2 DEF IsMode
<1>4. /\ pc' = "turn" /\ msgs' = ms /\ text' = "none" /\ pending' = <<>>
      /\ query' = 1 /\ turn' = 0 /\ before' = Results(ms)
      /\ limit' = Results(ms) + mode.calls
  BY DEF BeginLoops
<1>5. Results(msgs)' = Results(ms)
  BY <1>4 DEF Results
<1>6. Fitting'
  BY <1>1, <1>3, <1>4, <1>5 DEF Fitting, InHand
<1> QED BY <1>1, <1>3, <1>4, <1>6

\* run.started is the first event.
LEMMA StartKeeps ==
    ASSUME Inv, Start
    PROVE  Inv'
<1> DEFINE e == Event("run.started", 0)
<1>1. pc = "start" /\ log = <<>> /\ base \in Seq(Messages) /\ Paired(base)
      /\ BeginsWith(base, base) /\ result = "running"
  BY BeginsSelf DEF Start, Inv, Kept, Early, Shape, Answered, EndLogged
<1>2. e \in Events /\ e.kind = "run.started"
  BY DEF Event, Events, Kinds
<1> HIDE DEF e
<1>3. ASSUME log' = Append(log, e)
      PROVE  /\ log' \in Seq(Events) /\ Len(log') = 1
             /\ \A i \in 1..Len(log') : log'[i].kind = "run.started"
  BY <1>1, <1>2, <1>3
<1>4. /\ mode' = mode /\ base' = base /\ interrupted' = interrupted /\ saved' = saved
      /\ issued' = issued /\ permitted' = permitted
  BY DEF Start, callVars
<1>5. ASSUME log' = Append(log, e), BeginLoops(base), NoFault,
             UNCHANGED <<rescue, result, continues>>
      PROVE  Inv'
  <2>1. /\ pc' = "turn" /\ msgs' = base /\ text' = "none" /\ pending' = <<>>
        /\ query' \in 0..mode.queries /\ turn' \in 0..mode.turns
        /\ limit' \in Nat /\ before' \in Nat
        /\ Fitting'
    BY <1>1, <1>4, <1>5, BeginLoopsFits
  <2>2. hit' = hit /\ faults' = faults /\ rescue' = rescue /\ result' = result
        /\ continues' = continues
    BY <1>5 DEF NoFault
  <2>3. /\ log' \in Seq(Events) /\ \A i \in 1..Len(log') : log'[i].kind = "run.started"
    BY <1>3, <1>5
  <2>4. Shape'
    BY <1>1, <1>4, <2>1, <2>2, <2>3 DEF Inv, Shape, Between, Texts
  <2>5. Answered'
    BY <1>1, <1>4, <2>1, <2>2 DEF Inv, Answered, Paired, InHand
  <2>6. Started' = {}
    BY <2>3 DEF Started
  <2>7. Ordered' /\ CallsLogged'
    BY <2>1, <2>6 DEF Ordered, CallsLogged, InHand
  <2>8. EndLogged'
    BY <1>1, <2>1, <2>2, <2>3 DEF EndLogged, Terminal
  <2>9. Kept'
    BY <1>1, <1>4, <2>1 DEF Kept, BeginsWith, Early
  <2> QED BY <2>1, <2>4, <2>5, <2>7, <2>8, <2>9 DEF Inv
<1>6. ASSUME log' = Append(log, e), Fault("other"), pc' = "report", rescue' = base,
             UNCHANGED <<loopVars, result, continues>>
      PROVE  Inv'
  <2>1. /\ msgs' = msgs /\ query' = query /\ turn' = turn /\ limit' = limit
        /\ before' = before /\ text' = text /\ pending' = pending
        /\ result' = result /\ continues' = continues
    BY <1>6 DEF loopVars
  <2>2. hit' \subseteq Failures /\ faults' \in Nat
    BY <1>6, FaultIs DEF Failures
  <2>3. /\ log' \in Seq(Events) /\ \A i \in 1..Len(log') : log'[i].kind = "run.started"
    BY <1>3, <1>6
  <2>4. Shape'
    BY <1>1, <1>4, <1>6, <2>1, <2>2, <2>3 DEF Inv, Shape, Late
  <2>5. Answered'
    BY <1>1, <1>4, <1>6 DEF Inv, Answered, Paired, Between, InHand
  <2>6. Started' = {}
    BY <2>3 DEF Started
  <2>7. Fitting' /\ Ordered' /\ CallsLogged'
    BY <1>6, <2>6 DEF Fitting, Ordered, CallsLogged, InHand
  <2>8. EndLogged'
    BY <1>1, <1>6, <2>1, <2>3 DEF EndLogged, Terminal
  <2>9. Kept'
    BY <1>1, <1>4, <1>6 DEF Kept, BeginsWith, Early, Between, InHand
  <2> QED BY <2>4, <2>5, <2>7, <2>8, <2>9 DEF Inv
<1>7. ASSUME Quit("files"), UNCHANGED log
      PROVE  Inv'
  BY <1>1, <1>4, <1>7, QuitKeeps DEF Start, restVars, diskVars, callVars
<1> QED BY <1>5, <1>6, <1>7 DEF Start, AppendEvent, e

\* A step with new messages at its end that are neither calls nor results, from one
\* place of the loops without a call in hand to another.
LEMMA LoopKeeps ==
    ASSUME Inv, Quiet, UNCHANGED <<log, permitted>>,
           pc \in Between, pc' \in Between \ {"calls"},
           issued' \in Nat, issued' >= issued,
           msgs' \in Seq(Messages), Paired(msgs'), BeginsWith(msgs', base),
           pending' \in Seq(Calls), text' \in Texts \cup {"notice"},
           query' \in 0..mode.queries, turn' \in 0..mode.turns,
           limit' \in Nat, before' \in Nat,
           pc' \in {"turn", "final", "judge", "limit"} => Results(msgs') <= limit'
    PROVE  Inv'
<1>1. /\ mode' = mode /\ base' = base /\ interrupted' = interrupted /\ saved' = saved
      /\ continues' = continues /\ rescue' = rescue /\ faults' = faults
      /\ result' = result /\ hit' = hit /\ log' = log /\ permitted' = permitted
  BY QuietIs
<1>2. Shape'
  BY <1>1 DEF Inv, Shape, Between
<1>3. Answered'
  BY <1>1 DEF Inv, Answered, Paired, InHand, Between
<1>4. Fitting'
  BY DEF Fitting, InHand, Results, Between
<1>5. Started' = Started /\ \A i \in Started : log[i].call \in Nat
  <2>1. log \in Seq(Events) /\ Started \subseteq 1..Len(log)
    BY DEF Inv, Shape, Started
  <2>2. \A i \in 1..Len(log) : log[i] \in Events
    BY <2>1
  <2>3. \A i \in 1..Len(log) : log[i].call \in Nat
    BY <2>2 DEF Events
  <2> QED BY <1>1, <2>1, <2>3 DEF Started
<1>6. issued \in Nat
  BY DEF Inv, Shape
<1>7. Ordered'
  BY <1>1, <1>5, <1>6 DEF Inv, Ordered, InHand, Between
<1>8. EndLogged'
  BY <1>1 DEF Inv, EndLogged, EndsWith, Between
<1>9. CallsLogged'
  BY <1>1, <1>5 DEF Inv, CallsLogged, Between
<1>10. Kept'
  BY <1>1 DEF Inv, Kept, BeginsWith, Early, Between, InHand
<1> QED BY <1>2, <1>3, <1>4, <1>7, <1>8, <1>9, <1>10 DEF Inv

\* What an assistant says leaves the messages as they should be.
LEMMA AssistantKeeps ==
    ASSUME Inv, pc \in Between, NEW t, NEW calls, msgs' = msgs \o Assistant(t, calls)
    PROVE  /\ msgs' \in Seq(Messages) /\ Paired(msgs') /\ BeginsWith(msgs', base)
           /\ Results(msgs') = Results(msgs)
<1> DEFINE m == Message("assistant", 0)
<1>1. m \in Messages /\ m.role = "assistant"
  BY DEF Message, Messages, Roles
<1>2. msgs \in Seq(Messages) /\ base \in Seq(Messages) /\ Paired(msgs)
      /\ BeginsWith(msgs, base)
  BY DEF Inv, Shape, Answered, Kept
<1>3. msgs' = msgs \/ msgs' = Append(msgs, m)
  BY <1>2, AssistantAdds
<1> HIDE DEF m
<1>4. CASE msgs' = msgs
  BY <1>2, <1>4
<1>5. CASE msgs' = Append(msgs, m)
  BY <1>1, <1>2, <1>5, PairedAppend, BeginsAppend, ResultsAppend
<1> QED BY <1>3, <1>4, <1>5

\* The calls of a response are new, and those that are kept fit.
LEMMA KeptCalls ==
    ASSUME Inv, pc = "turn", ~AtCallLimit, NEW n \in Nat
    PROVE  LET calls == [i \in 1..n |-> issued + i]
               keep == IF n < Room THEN n ELSE Room
           IN  /\ SubSeq(calls, 1, keep) \in Seq(Calls)
               /\ Len(SubSeq(calls, 1, keep)) = keep
               /\ keep \in 0..n /\ keep <= limit - Results(msgs)
               /\ \A k \in 1..keep : SubSeq(calls, 1, keep)[k] = issued + k
<1> DEFINE calls == [i \in 1..n |-> issued + i]
           keep == IF n < Room THEN n ELSE Room
<1>1. Results(msgs) \in Nat /\ limit \in Nat /\ issued \in Nat
  BY ResultsType DEF Inv, Shape
<1>2. Room \in Nat /\ Room = limit - Results(msgs)
  BY <1>1 DEF Room, AtCallLimit
<1>3. keep \in 0..n /\ keep <= Room
  BY <1>2
<1>4. calls \in Seq(Calls) /\ Len(calls) = n /\ \A k \in 1..n : calls[k] = issued + k
  BY <1>1 DEF Calls
<1> HIDE DEF calls, keep
<1>5. /\ SubSeq(calls, 1, keep) \in Seq(Calls) /\ Len(SubSeq(calls, 1, keep)) = keep
      /\ \A k \in 1..keep : SubSeq(calls, 1, keep)[k] = calls[k]
  BY <1>3, <1>4
<1>6. \A k \in 1..keep : SubSeq(calls, 1, keep)[k] = issued + k
  BY <1>3, <1>4, <1>5
<1> QED BY <1>2, <1>3, <1>5, <1>6 DEF calls, keep

LEMMA RespondKeeps ==
    ASSUME Inv, NEW t \in Texts, NEW n \in Nat, Respond(t, n)
    PROVE  Inv'
<1> DEFINE calls == [i \in 1..n |-> issued + i]
           keep == IF n < Room THEN n ELSE Room
<1>1. pc = "turn" /\ turn < mode.turns /\ ~AtCallLimit /\ pc \in Between
  BY DEF Respond, TakeResponse, AskModel, Between
<1>2. /\ Quiet /\ log' = log /\ permitted' = permitted /\ query' = query /\ limit' = limit
      /\ before' = before
      /\ turn' = turn + 1 /\ text' = t /\ issued' = issued + n
      /\ pc' = IF n > 0 THEN "calls" ELSE "judge"
      /\ msgs' = msgs \o Assistant(t, calls)
      /\ pending' = SubSeq(calls, 1, keep)
  BY DEF Respond, TakeResponse, Quiet
<1>3. /\ pending' \in Seq(Calls) /\ Len(pending') = keep /\ keep \in 0..n
      /\ keep <= limit - Results(msgs) /\ \A k \in 1..keep : pending'[k] = issued + k
  BY <1>1, <1>2, KeptCalls
<1>4. /\ msgs' \in Seq(Messages) /\ Paired(msgs') /\ BeginsWith(msgs', base)
      /\ Results(msgs') = Results(msgs)
  BY <1>1, <1>2, AssistantKeeps
<1> HIDE DEF keep, calls
<1>5. /\ issued \in Nat /\ limit \in Nat /\ before \in Nat /\ query \in 0..mode.queries
      /\ turn \in 0..mode.turns /\ Results(msgs) \in Nat /\ log \in Seq(Events)
  BY ResultsType DEF Inv, Shape
<1>6. mode.turns \in Nat
  BY ModesAre DEF Inv, Shape, IsMode
<1>7. /\ issued' \in Nat /\ issued' >= issued /\ turn' \in 0..mode.turns
      /\ text' \in Texts \cup {"notice"}
  BY <1>1, <1>2, <1>5, <1>6
<1>8. CASE n = 0
  <2>1. Results(msgs') <= limit'
    BY <1>2, <1>3, <1>4, <1>5
  <2>2. pc' = "judge"
    BY <1>2, <1>8
  <2>3. UNCHANGED <<log, permitted>> /\ pc' \in Between \ {"calls"}
    BY <1>2, <2>2 DEF Between
  <2>4. /\ query' \in 0..mode.queries /\ limit' \in Nat /\ before' \in Nat
    BY <1>2, <1>5
  <2> QED BY <1>1, <1>2, <1>3, <1>4, <1>7, <2>1, <2>3, <2>4, LoopKeeps
<1>9. CASE n > 0
  <2>1. pc' = "calls"
    BY <1>2, <1>9
  <2>2. /\ mode' = mode /\ base' = base /\ interrupted' = interrupted /\ saved' = saved
        /\ continues' = continues /\ rescue' = rescue /\ faults' = faults
        /\ result' = result /\ hit' = hit
    BY <1>2, QuietIs
  <2>3. Shape'
    BY <1>2, <1>3, <1>4, <1>7, <2>1, <2>2 DEF Inv, Shape, Between
  <2>4. Answered'
    BY <1>4, <2>1, <2>2 DEF Inv, Answered, Paired, InHand
  <2>5. Results(msgs)' = Results(msgs)
    BY <1>4 DEF Results
  <2>6. Fitting'
    BY <1>2, <1>3, <1>5, <2>1, <2>5 DEF Fitting, InHand
  <2>7. /\ Started' = Started
        /\ \A i \in Started : log[i].call <= issued /\ log[i].call \in Nat
    <3>1. \A i \in 1..Len(log) : log[i] \in Events
      BY <1>5
    <3>2. \A i \in 1..Len(log) : log[i].call \in Nat
      BY <3>1 DEF Events
    <3> QED BY <1>2, <3>2 DEF Inv, Ordered, Started
  <2>8. Ordered'
    <3>1. \A k \in 1..Len(pending') : pending'[k] = issued + k /\ k \in 1..n
      BY <1>3
    <3>2. ASSUME NEW i \in Started', NEW k \in 1..Len(pending')
          PROVE  log'[i].call < pending'[k]
      <4>1. log' = log /\ i \in Started
        BY <1>2, <2>7
      <4>2. log[i].call <= issued /\ log[i].call \in Nat /\ k \in Nat \ {0}
        BY <2>7, <4>1
      <4>3. log[i].call < issued + k
        BY <1>5, <4>2
      <4> QED BY <3>1, <4>1, <4>3
    <3>3. ASSUME NEW k \in 1..Len(pending')
          PROVE  pending'[k] <= issued'
      <4>1. issued' = issued + n /\ pending'[k] = issued + k /\ k \in 1..n
        BY <1>2, <3>1
      <4> QED BY <1>5, <4>1
    <3>4. \A j, k \in 1..Len(pending') : j < k => pending'[j] < pending'[k]
      BY <1>5, <3>1
    <3>5. \A i \in Started' : log'[i].call \in permitted' /\ log'[i].call <= issued'
      BY <1>2, <1>5, <2>7 DEF Inv, Ordered
    <3>6. \A i, k \in Started' : log'[i].call = log'[k].call => i = k
      BY <1>2, <2>7 DEF Inv, Ordered
    <3> QED BY <2>1, <3>2, <3>3, <3>4, <3>5, <3>6 DEF Ordered
  <2>9. EndLogged'
    BY <1>1, <1>2, <2>1, <2>2 DEF Inv, EndLogged, EndsWith
  <2>10. CallsLogged'
    BY <1>1, <1>2, <2>2, <2>7 DEF Inv, CallsLogged
  <2>11. Kept'
    BY <1>4, <2>1, <2>2 DEF Kept, BeginsWith, Early
  <2> QED BY <2>3, <2>4, <2>6, <2>8, <2>9, <2>10, <2>11 DEF Inv
<1> QED BY <1>8, <1>9

LEMMA StopAtLimitKeeps ==
    ASSUME Inv, StopAtLimit
    PROVE  Inv'
<1>1. pc = "turn" /\ pc' \in {"final", "limit"} /\ Quiet
      /\ UNCHANGED <<loopVars, log, permitted, issued>>
  BY DEF StopAtLimit, Quiet, callVars
<1>2. /\ msgs' = msgs /\ query' = query /\ turn' = turn /\ limit' = limit
      /\ before' = before /\ text' = text /\ pending' = pending /\ issued' = issued
  BY <1>1 DEF loopVars
<1>3. /\ msgs \in Seq(Messages) /\ pending \in Seq(Calls) /\ text \in Texts \cup {"notice"}
      /\ query \in 0..mode.queries /\ turn \in 0..mode.turns
      /\ limit \in Nat /\ before \in Nat /\ issued \in Nat
  BY DEF Inv, Shape
<1>4. Paired(msgs) /\ BeginsWith(msgs, base) /\ Results(msgs) <= limit
  BY <1>1 DEF Inv, Answered, Kept, Fitting, Between
<1> QED BY <1>1, <1>2, <1>3, <1>4, LoopKeeps DEF Between

LEMMA EndTurnKeeps ==
    ASSUME Inv, EndTurn
    PROVE  Inv'
<1>1. pc = "calls" /\ pc' \in {"turn", "final", "limit"} /\ Quiet /\ pending = <<>>
      /\ UNCHANGED <<loopVars, log, permitted, issued>>
  BY DEF EndTurn, Quiet, callVars
<1>2. /\ msgs' = msgs /\ query' = query /\ turn' = turn /\ limit' = limit
      /\ before' = before /\ text' = text /\ pending' = pending /\ issued' = issued
  BY <1>1 DEF loopVars
<1>3. /\ msgs \in Seq(Messages) /\ pending \in Seq(Calls) /\ text \in Texts \cup {"notice"}
      /\ query \in 0..mode.queries /\ turn \in 0..mode.turns
      /\ limit \in Nat /\ before \in Nat /\ issued \in Nat
  BY DEF Inv, Shape
<1>4. Results(msgs) \in Nat /\ Results(msgs) + Len(pending) <= limit /\ Len(pending) = 0
  BY <1>1, <1>3, ResultsType DEF Inv, Fitting
<1>5. Paired(msgs) /\ BeginsWith(msgs, base) /\ Results(msgs) <= limit
  BY <1>1, <1>3, <1>4 DEF Inv, Answered, Kept, Between
<1> QED BY <1>1, <1>2, <1>3, <1>5, LoopKeeps DEF Between

LEMMA StreamFailsKeeps ==
    ASSUME Inv, StreamFails
    PROVE  Inv'
<1>1. pc \in {"turn", "final"}
  BY DEF StreamFails, AskModel
<1> QED BY <1>1, LoopErrorKeeps DEF StreamFails, LoopFault, InHand

LEMMA FinalizeKeeps ==
    ASSUME Inv, NEW t \in Texts, Finalize(t)
    PROVE  Inv'
<1>1. pc = "final" /\ pc' = "limit" /\ Quiet /\ UNCHANGED <<log, permitted, issued, pending>>
      /\ query' = query /\ turn' = turn /\ limit' = limit /\ before' = before
      /\ text' \in Texts \cup {"notice"} /\ msgs' = msgs \o Assistant(t, <<>>)
  BY DEF Finalize, Quiet, callVars, countVars
<1>2. /\ msgs' \in Seq(Messages) /\ Paired(msgs') /\ BeginsWith(msgs', base)
      /\ Results(msgs') = Results(msgs)
  BY <1>1, AssistantKeeps DEF Between
<1>3. /\ pending \in Seq(Calls) /\ query \in 0..mode.queries /\ turn \in 0..mode.turns
      /\ limit \in Nat /\ before \in Nat /\ issued \in Nat
  BY DEF Inv, Shape
<1>4. Results(msgs') <= limit'
  BY <1>1, <1>2 DEF Inv, Fitting
<1> QED BY <1>1, <1>2, <1>3, <1>4, LoopKeeps DEF Between

\* A judge that is not content adds a followup.
LEMMA FollowupAdds ==
    ASSUME Inv, pc = "judge", NEW v
    PROVE  /\ Followup(v) \in Seq(Messages) /\ Paired(Followup(v))
           /\ BeginsWith(Followup(v), base) /\ Results(Followup(v)) = Results(msgs)
<1>1. msgs \in Seq(Messages) /\ base \in Seq(Messages) /\ Paired(msgs)
      /\ BeginsWith(msgs, base)
  BY DEF Inv, Shape, Answered, Kept, Between
<1>2. ASSUME NEW m \in {Message("followup", 0), Message("system", 0)}
      PROVE  /\ Append(msgs, m) \in Seq(Messages) /\ Paired(Append(msgs, m))
             /\ BeginsWith(Append(msgs, m), base) /\ Results(Append(msgs, m)) = Results(msgs)
  <2>1. m \in Messages /\ m.role \notin {"call", "result"}
    BY <1>2 DEF Message, Messages, Roles
  <2> QED BY <1>1, <2>1, PairedAppend, BeginsAppend, ResultsAppend
<1>3. \/ Followup(v) = msgs
      \/ Followup(v) = Append(msgs, Message("followup", 0))
      \/ Followup(v) = Append(msgs, Message("system", 0))
  BY DEF Followup
<1> QED BY <1>1, <1>2, <1>3

LEMMA JudgeKeeps ==
    ASSUME Inv, Judge
    PROVE  Inv'
<1>1. pc = "judge" /\ Quiet /\ UNCHANGED <<log, permitted, issued, pending>>
  BY DEF Judge, Quiet, callVars
<1>2. /\ pending \in Seq(Calls) /\ query \in 0..mode.queries /\ turn \in 0..mode.turns
      /\ limit \in Nat /\ before \in Nat /\ issued \in Nat /\ msgs \in Seq(Messages)
      /\ text \in Texts \cup {"notice"} /\ Results(msgs) \in Nat
  BY ResultsType DEF Inv, Shape
<1>3. mode.queries \in Nat /\ mode.turns \in Nat /\ mode.calls \in Nat
  BY ModesAre DEF Inv, Shape, IsMode
<1>4. PICK v \in IF MoreQueries THEN Verdicts ELSE {"done"} :
          IF v \in {"retry", "own"}
          THEN /\ msgs' = Followup(v)
               /\ query' = query + 1
               /\ turn' = 0
               /\ before' = Results(msgs)
               /\ limit' = Results(msgs) + mode.calls
               /\ text' = "none"
               /\ pc' = "turn"
          ELSE pc' = "clear" /\ UNCHANGED <<msgs, countVars, text>>
  BY DEF Judge
<1>5. CASE v \in {"retry", "own"}
  <2>1. MoreQueries
    BY <1>4, <1>5
  <2>2. query' \in 0..mode.queries
    BY <1>2, <1>3, <1>4, <1>5, <2>1 DEF MoreQueries
  <2>3. /\ msgs' \in Seq(Messages) /\ Paired(msgs') /\ BeginsWith(msgs', base)
        /\ Results(msgs') = Results(msgs)
    BY <1>1, <1>4, <1>5, FollowupAdds
  <2>4. /\ Results(msgs') <= limit' /\ limit' \in Nat /\ before' \in Nat
        /\ turn' \in 0..mode.turns
    BY <1>2, <1>3, <1>4, <1>5, <2>3
  <2>5. text' \in Texts \cup {"notice"} /\ pc' \in Between \ {"calls"} /\ pc \in Between
    BY <1>1, <1>4, <1>5 DEF Texts, Between
  <2> QED BY <1>1, <1>2, <2>2, <2>3, <2>4, <2>5, LoopKeeps
<1>6. CASE v \notin {"retry", "own"}
  <2>1. /\ pc' = "clear" /\ msgs' = msgs /\ query' = query /\ turn' = turn /\ limit' = limit
        /\ before' = before /\ text' = text
    BY <1>4, <1>6 DEF countVars
  <2>2. Paired(msgs) /\ BeginsWith(msgs, base)
    BY <1>1 DEF Inv, Answered, Kept, Between
  <2> QED BY <1>1, <1>2, <2>1, <2>2, LoopKeeps DEF Between
<1> QED BY <1>5, <1>6

LEMMA JudgeFailsKeeps ==
    ASSUME Inv, JudgeFails
    PROVE  Inv'
  BY LoopFaultKeeps DEF JudgeFails

-----------------------------------------------------------------------------
\* Tool calls

\* What the steps of a call leave alone.
Calm == Quiet /\ UNCHANGED <<countVars, text, issued>>

LEMMA CalmIs ==
    ASSUME Inv, Calm
    PROVE  /\ mode' = mode /\ base' = base /\ interrupted' = interrupted /\ saved' = saved
           /\ continues' = continues /\ rescue' = rescue /\ faults' = faults
           /\ result' = result /\ hit' = hit /\ query' = query /\ turn' = turn
           /\ limit' = limit /\ before' = before /\ text' = text /\ issued' = issued
  BY QuietIs DEF Calm, countVars

\* A step that neither starts nor ends a call: the log stays.
LEMMA StepOfCall ==
    ASSUME Inv, Calm, log' = log, pc \in InHand \cup {"calls"}, pc # "executing",
           pc' \in {"calls", "denied", "asking", "execute"},
           permitted \subseteq permitted', permitted' \subseteq Calls,
           pc' = "execute" => Head(pending') \in permitted',
           msgs' \in Seq(Messages), pending' \in Seq(Calls), BeginsWith(msgs', base),
           pc' = "calls" => Paired(msgs'),
           pc' \in InHand =>
              /\ pending' # <<>>
              /\ \E ms \in Seq(Messages) :
                    Paired(ms) /\ msgs' = Append(ms, Message("call", Head(pending'))),
           Results(msgs') + Len(pending') <= limit,
           pending' = pending \/ (pending # <<>> /\ pending' = Tail(pending))
    PROVE  Inv'
<1>1. /\ mode' = mode /\ base' = base /\ interrupted' = interrupted /\ saved' = saved
      /\ continues' = continues /\ rescue' = rescue /\ faults' = faults
      /\ result' = result /\ hit' = hit /\ query' = query /\ turn' = turn
      /\ limit' = limit /\ before' = before /\ text' = text /\ issued' = issued
  BY CalmIs
<1>2. Shape'
  BY <1>1 DEF Inv, Shape, Between, InHand
<1>3. Answered'
  BY <1>1 DEF Inv, Answered, Paired, Between, InHand
<1>4. Fitting'
  BY <1>1 DEF Fitting, InHand, Results
<1>5. Started' = Started
  BY DEF Started
<1>6. Ordered'
  <2>1. /\ \A k \in 1..Len(pending) : pending[k] <= issued
        /\ \A j, k \in 1..Len(pending) : j < k => pending[j] < pending[k]
        /\ \A i \in Started, k \in 1..Len(pending) : log[i].call < pending[k]
        /\ \A i \in Started : log[i].call \in permitted /\ log[i].call <= issued
        /\ \A i, k \in Started : log[i].call = log[k].call => i = k
    BY DEF Inv, Ordered
  <2>2. /\ \A k \in 1..Len(pending') : pending'[k] <= issued
        /\ \A j, k \in 1..Len(pending') : j < k => pending'[j] < pending'[k]
        /\ \A i \in Started, k \in 1..Len(pending') : log[i].call < pending'[k]
    <3>1. CASE pending' = pending
      BY <2>1, <3>1
    <3>2. CASE pending # <<>> /\ pending' = Tail(pending)
      <4>1. pending \in Seq(Calls)
        BY DEF Inv, Shape
      <4>2. /\ Len(pending') = Len(pending) - 1 /\ Len(pending) \in Nat
            /\ \A k \in 1..Len(pending') : pending'[k] = pending[k + 1]
        BY <3>2, <4>1
      <4>3. \A k \in 1..Len(pending') : k \in Nat /\ k + 1 \in 1..Len(pending)
        BY <4>2
      <4>4. \A j, k \in 1..Len(pending') : j < k => j + 1 < k + 1
        OBVIOUS
      <4> QED BY <2>1, <4>2, <4>3, <4>4
    <3> QED BY <3>1, <3>2
  <2> QED BY <1>1, <1>5, <2>1, <2>2 DEF Ordered
<1>7. EndLogged'
  BY <1>1 DEF Inv, EndLogged, EndsWith, InHand
<1>8. CallsLogged'
  BY <1>1, <1>5 DEF Inv, CallsLogged
<1>9. Kept'
  BY <1>1 DEF Kept, BeginsWith, Early
<1> QED BY <1>2, <1>3, <1>4, <1>6, <1>7, <1>8, <1>9 DEF Inv

\* The messages with a result for the call in hand.
LEMMA PutResultKeeps ==
    ASSUME Inv, pc \in InHand, PutResult
    PROVE  /\ pc' = "calls" /\ pending # <<>> /\ pending' = Tail(pending)
           /\ pending' \in Seq(Calls) /\ Len(pending') = Len(pending) - 1
           /\ msgs' \in Seq(Messages) /\ Paired(msgs') /\ BeginsWith(msgs', base)
           /\ Results(msgs') + Len(pending') <= limit
<1> DEFINE c == Head(pending)
           end == Message("result", c)
<1>1. /\ pending # <<>> /\ pending \in Seq(Calls) /\ msgs \in Seq(Messages)
      /\ base \in Seq(Messages) /\ BeginsWith(msgs, base)
      /\ Results(msgs) + Len(pending) <= limit /\ limit \in Nat
  BY DEF Inv, Shape, Answered, Kept, Fitting
<1>2. c \in Nat
  BY <1>1 DEF Calls
<1>3. end \in Messages /\ end.role = "result"
  BY <1>2 DEF Messages, Roles, Message
<1>4. PICK ms \in Seq(Messages) : Paired(ms) /\ msgs = Append(ms, Message("call", c))
  BY DEF Inv, Answered
<1>5. /\ pc' = "calls" /\ pending' = Tail(pending) /\ msgs' = Append(msgs, end)
  BY DEF PutResult, Call
<1>6. Paired(msgs')
  BY <1>2, <1>4, <1>5, PairedBoth
<1> HIDE DEF c, end
<1>7. msgs' \in Seq(Messages) /\ BeginsWith(msgs', base)
  BY <1>1, <1>3, <1>5, BeginsAppend
<1>8. Results(msgs) \in Nat /\ Results(msgs') = Results(msgs) + 1
  BY <1>1, <1>3, <1>5, ResultsType, ResultsAppend
<1>9. pending' \in Seq(Calls) /\ Len(pending') = Len(pending) - 1 /\ Len(pending) \in Nat
  BY <1>1, <1>5
<1>10. Results(msgs') + Len(pending') <= limit
  BY <1>1, <1>8, <1>9
<1> QED BY <1>1, <1>5, <1>6, <1>7, <1>9, <1>10

LEMMA EvaluateKeeps ==
    ASSUME Inv, Evaluate
    PROVE  Inv'
<1>1. CASE LoopFault
  BY <1>1, LoopFaultKeeps DEF Evaluate
<1>2. CASE ~LoopFault
  <2> DEFINE c == Head(pending)
             call == Message("call", c)
  <2>1. /\ pc = "calls" /\ pending # <<>> /\ Calm /\ log' = log /\ pending' = pending
        /\ msgs' = Append(msgs, call)
        /\ pc' \in {"denied", "asking", "execute"}
        /\ permitted \subseteq permitted' /\ permitted' \subseteq permitted \cup {c}
        /\ pc' = "execute" => c \in permitted'
    BY <1>2 DEF Evaluate, Calm, Quiet, Call
  <2>2. /\ pending \in Seq(Calls) /\ msgs \in Seq(Messages) /\ base \in Seq(Messages)
        /\ permitted \subseteq Calls /\ Paired(msgs) /\ BeginsWith(msgs, base)
        /\ Results(msgs) + Len(pending) <= limit
    BY <2>1 DEF Inv, Shape, Answered, Kept, Fitting, Between
  <2>3. c \in Calls /\ c \in Nat
    BY <2>1, <2>2 DEF Calls
  <2>4. call \in Messages /\ call.role = "call"
    BY <2>3 DEF Messages, Roles, Message
  <2>5. \E ms \in Seq(Messages) :
            Paired(ms) /\ msgs' = Append(ms, Message("call", Head(pending')))
    BY <2>1, <2>2
  <2> HIDE DEF c, call
  <2>6. /\ msgs' \in Seq(Messages) /\ BeginsWith(msgs', base)
        /\ Results(msgs') = Results(msgs)
    BY <2>1, <2>2, <2>4, BeginsAppend, ResultsAppend
  <2>7. Results(msgs') + Len(pending') <= limit /\ pending' # <<>> /\ pending' \in Seq(Calls)
    BY <2>1, <2>2, <2>6
  <2>8. permitted' \subseteq Calls /\ pc' # "calls"
    BY <2>1, <2>2, <2>3
  <2>9. pc' = "execute" => Head(pending') \in permitted'
    BY <2>1 DEF c
  <2> QED BY <2>1, <2>5, <2>6, <2>7, <2>8, <2>9, StepOfCall DEF InHand
<1> QED BY <1>1, <1>2

LEMMA DenyKeeps ==
    ASSUME Inv, Deny
    PROVE  Inv'
<1>1. CASE LoopFault
  BY <1>1, LoopFaultKeeps DEF Deny
<1>2. CASE PutResult /\ UNCHANGED <<outerVars, rescue, log, endVars, callVars, faults>>
  <2>1. pc = "denied" /\ Calm /\ log' = log /\ permitted' = permitted
    BY <1>2 DEF Deny, Calm, Quiet, PutResult, callVars
  <2>2. permitted \subseteq Calls
    BY DEF Inv, Shape
  <2> QED BY <1>2, <2>1, <2>2, PutResultKeeps, StepOfCall DEF InHand
<1> QED BY <1>1, <1>2 DEF Deny

LEMMA ApproveKeeps ==
    ASSUME Inv, Approve
    PROVE  Inv'
<1>1. CASE LoopFault
  BY <1>1, LoopFaultKeeps DEF Approve
<1>2. CASE ~LoopFault
  <2>1. /\ pc = "asking" /\ Calm /\ log' = log /\ msgs' = msgs /\ pending' = pending
        /\ pc' \in {"execute", "denied"}
        /\ permitted \subseteq permitted'
        /\ permitted' \subseteq permitted \cup {Head(pending)}
        /\ pc' = "execute" => Head(pending) \in permitted'
    BY <1>2 DEF Approve, Calm, Quiet, loopVars, countVars, callVars, Call
  <2>2. /\ pending \in Seq(Calls) /\ pending # <<>> /\ msgs \in Seq(Messages)
        /\ permitted \subseteq Calls /\ BeginsWith(msgs, base)
        /\ Results(msgs) + Len(pending) <= limit
        /\ \E ms \in Seq(Messages) :
              Paired(ms) /\ msgs = Append(ms, Message("call", Head(pending)))
    BY <2>1 DEF Inv, Shape, Answered, Kept, Fitting, InHand
  <2>3. Head(pending) \in Calls
    BY <2>2
  <2>4. permitted' \subseteq Calls
    BY <2>1, <2>2, <2>3
  <2> QED BY <2>1, <2>2, <2>4, StepOfCall DEF InHand
<1> QED BY <1>1, <1>2

\* What the log becomes by one event.
LEMMA LogGrows ==
    ASSUME Inv, NEW kind \in Kinds, NEW c \in Nat, AppendEvent(kind, c)
    PROVE  /\ log' \in Seq(Events) /\ Len(log') = Len(log) + 1 /\ Len(log) \in Nat
           /\ \A i \in 1..Len(log) : log'[i] = log[i]
           /\ log'[Len(log')].kind = kind /\ log'[Len(log')].call = c
           /\ log'[Len(log')] = Event(kind, c)
           /\ Started' = IF kind = "tool.call.started" THEN Started \cup {Len(log) + 1}
                                                       ELSE Started
           /\ Len(log') > 0 /\ \A i \in 1..Len(log') : i \in 1..Len(log) \/ i = Len(log')
           /\ \A i \in Started :
                 i < Len(log) /\ log[i + 1] = Event("tool.call.ended", log[i].call) =>
                    i < Len(log') /\ log'[i + 1] = Event("tool.call.ended", log'[i].call)
<1> DEFINE e == Event(kind, c)
<1>1. e \in Events /\ e.kind = kind /\ e.call = c
  BY DEF Event, Events
<1>2. log \in Seq(Events) /\ log' = Append(log, e)
  BY DEF Inv, Shape, AppendEvent
<1> HIDE DEF e
<1>3. /\ log' \in Seq(Events) /\ Len(log') = Len(log) + 1 /\ Len(log) \in Nat
      /\ \A i \in 1..Len(log) : log'[i] = log[i]
      /\ log'[Len(log')] = e
  BY <1>1, <1>2
<1>4. Started' = IF kind = "tool.call.started" THEN Started \cup {Len(log) + 1} ELSE Started
  <2>1. 1..Len(log') = 1..Len(log) \cup {Len(log) + 1}
    BY <1>3
  <2> QED BY <1>1, <1>3, <2>1 DEF Started
<1>5. Len(log') > 0 /\ \A i \in 1..Len(log') : i \in 1..Len(log) \/ i = Len(log')
  BY <1>3
<1>6. ASSUME NEW i \in Started, i < Len(log),
             log[i + 1] = Event("tool.call.ended", log[i].call)
      PROVE  i < Len(log') /\ log'[i + 1] = Event("tool.call.ended", log'[i].call)
  BY <1>3, <1>6 DEF Started
<1> QED BY <1>1, <1>3, <1>4, <1>5, <1>6 DEF e

\* What the places at which calls are handled have in common.
LEMMA InHandIs ==
    ASSUME Inv, pc \in InHand
    PROVE  /\ pending \in Seq(Calls) /\ pending # <<>> /\ msgs \in Seq(Messages)
           /\ base \in Seq(Messages) /\ BeginsWith(msgs, base) /\ permitted \subseteq Calls
           /\ Results(msgs) + Len(pending) <= limit
           /\ Head(pending) \in Calls /\ Head(pending) = pending[1]
           /\ 1 \in 1..Len(pending) /\ Head(pending) \in Nat
           /\ \E ms \in Seq(Messages) :
                 Paired(ms) /\ msgs = Append(ms, Message("call", Head(pending)))
<1>1. /\ pending \in Seq(Calls) /\ pending # <<>> /\ msgs \in Seq(Messages)
      /\ base \in Seq(Messages) /\ BeginsWith(msgs, base) /\ permitted \subseteq Calls
      /\ Results(msgs) + Len(pending) <= limit
  BY DEF Inv, Shape, Answered, Kept, Fitting
<1>2. Head(pending) \in Calls /\ Head(pending) = pending[1] /\ 1 \in 1..Len(pending)
  BY <1>1
<1>3. Head(pending) \in Nat
  BY <1>2 DEF Calls
<1>4. \E ms \in Seq(Messages) :
          Paired(ms) /\ msgs = Append(ms, Message("call", Head(pending)))
  BY DEF Inv, Answered
<1> QED BY <1>1, <1>2, <1>3, <1>4

LEMMA ExecuteKeeps ==
    ASSUME Inv, Execute
    PROVE  Inv'
<1>1. CASE LoopFault
  BY <1>1, LoopFaultKeeps DEF Execute
<1>2. CASE ~LoopFault
  <2> DEFINE c == Head(pending)
  <2>1. /\ pc = "execute" /\ pc' = "executing" /\ Calm /\ msgs' = msgs
        /\ pending' = pending /\ permitted' = permitted /\ AppendEvent("tool.call.started", c)
    BY <1>2 DEF Execute, Calm, Quiet, loopVars, countVars, callVars, Call
  <2>2. /\ mode' = mode /\ base' = base /\ interrupted' = interrupted /\ saved' = saved
        /\ continues' = continues /\ rescue' = rescue /\ faults' = faults
        /\ result' = result /\ hit' = hit /\ query' = query /\ turn' = turn
        /\ limit' = limit /\ before' = before /\ text' = text /\ issued' = issued
    BY <2>1, CalmIs
  <2>3. /\ pending \in Seq(Calls) /\ pending # <<>> /\ c = pending[1] /\ c \in Nat
        /\ 1 \in 1..Len(pending) /\ BeginsWith(msgs, base)
        /\ Results(msgs) + Len(pending) <= limit
        /\ \E ms \in Seq(Messages) : Paired(ms) /\ msgs = Append(ms, Message("call", c))
    BY <2>1, InHandIs DEF InHand
  <2> HIDE DEF c
  <2>4. /\ log' \in Seq(Events) /\ Len(log') = Len(log) + 1 /\ Len(log) \in Nat
        /\ \A i \in 1..Len(log) : log'[i] = log[i]
        /\ log'[Len(log')].kind = "tool.call.started" /\ log'[Len(log')].call = c
        /\ Started' = Started \cup {Len(log) + 1} /\ Started \subseteq 1..Len(log)
    BY <2>1, <2>3, LogGrows DEF Kinds, Started
  <2>5. Shape'
    BY <2>1, <2>2, <2>4 DEF Inv, Shape, InHand
  <2>6. Answered'
    BY <2>1, <2>2, <2>3 DEF Inv, Answered, Paired, Between, c
  <2>7. Fitting'
    BY <2>1, <2>2, <2>3 DEF Fitting, InHand, Results
  <2>8. Ordered'
    <3>1. /\ \A k \in 1..Len(pending) : pending[k] <= issued
          /\ \A j, k \in 1..Len(pending) : j < k => pending[j] < pending[k]
          /\ \A i \in Started, k \in 1..Len(pending) : log[i].call < pending[k]
          /\ \A i \in Started : log[i].call \in permitted /\ log[i].call <= issued
          /\ \A i, k \in Started : log[i].call = log[k].call => i = k
          /\ c \in permitted
      BY <2>1 DEF Inv, Ordered, InHand, c
    <3>2. \A i \in Started' : \/ i \in Started /\ log'[i] = log[i]
                              \/ i = Len(log) + 1 /\ log'[i].call = c
      BY <2>4
    <3>3. \A i \in Started : log[i].call # c
      <4>1. \A i \in Started : log[i].call \in Nat /\ log[i].call < c
        <5>1. \A i \in 1..Len(log) : log[i] \in Events
          BY DEF Inv, Shape
        <5> QED BY <2>3, <2>4, <3>1, <5>1 DEF Events
      <4> QED BY <2>3, <4>1
    <3>4. \A i, k \in Started' : log'[i].call = log'[k].call => i = k
      BY <3>1, <3>2, <3>3
    <3>5. \A i \in Started' : log'[i].call \in permitted /\ log'[i].call <= issued
      BY <2>3, <3>1, <3>2
    <3>6. \A i \in Started', k \in 1..Len(pending) : log'[i].call < pending[k] \/ k = 1
      <4> SUFFICES ASSUME NEW i \in Started', NEW k \in 1..Len(pending), k # 1
                   PROVE  log'[i].call < pending[k]
        OBVIOUS
      <4>1. pending[1] < pending[k]
        BY <2>3, <3>1, SMTT(30)
      <4> QED BY <2>3, <3>1, <3>2, <4>1
    <3>7. Head(pending') \in permitted'
      BY <2>1, <3>1 DEF c
    <3> QED BY <2>1, <2>2, <3>1, <3>4, <3>5, <3>6, <3>7 DEF Ordered
  <2>9. EndLogged'
    <3>1. \A i \in 1..Len(log) : log[i].kind \notin Terminal
      BY <2>1 DEF Inv, EndLogged
    <3>2. \A i \in 1..Len(log') : log'[i].kind \notin Terminal
      <4>1. \A i \in 1..Len(log') : i \in 1..Len(log) \/ i = Len(log')
        BY <2>4
      <4> QED BY <2>4, <3>1, <4>1 DEF Terminal
    <3>3. result = "running"
      BY <2>1 DEF Inv, EndLogged
    <3> QED BY <2>1, <2>2, <3>2, <3>3 DEF EndLogged
  <2>10. CallsLogged'
    <3>1. \/ "files" \in hit
          \/ \A i \in Started :
                i < Len(log) /\ log[i + 1] = Event("tool.call.ended", log[i].call)
      BY <2>1 DEF Inv, CallsLogged
    <3>2. ASSUME NEW i \in Started, i < Len(log),
                 log[i + 1] = Event("tool.call.ended", log[i].call)
          PROVE  i < Len(log') /\ log'[i + 1] = Event("tool.call.ended", log'[i].call)
      BY <2>4, <3>2
    <3>3. \A i \in Started' : i \in Started \/ (i = Len(log') /\ log'[i].call = Head(pending'))
      BY <2>1, <2>4 DEF c
    <3> QED BY <2>1, <2>2, <3>1, <3>2, <3>3 DEF CallsLogged
  <2>11. Kept'
    BY <2>1, <2>2, <2>3 DEF Kept, BeginsWith, Early
  <2> QED BY <2>5, <2>6, <2>7, <2>8, <2>9, <2>10, <2>11 DEF Inv
<1> QED BY <1>1, <1>2

\* A sink that fails when the end of the call is logged.
LEMMA SinkFailsKeeps ==
    ASSUME Inv, pc = "executing", AppendEvent("tool.call.ended", Call), LoopError,
           Fault("other")
    PROVE  Inv'
<1> DEFINE c == Head(pending)
<1>1. /\ pc' = "report" /\ rescue' = base
      /\ mode' = mode /\ base' = base /\ interrupted' = interrupted /\ saved' = saved
      /\ result' = result /\ issued' = issued /\ permitted' = permitted
      /\ continues' = continues
      /\ msgs' = msgs /\ query' = query /\ turn' = turn /\ limit' = limit
      /\ before' = before /\ text' = text /\ pending' = pending
  BY DEF LoopError, callVars, loopVars
<1>2. /\ hit' \subseteq Failures /\ hit \subseteq hit' /\ faults' \in Nat
  BY FaultIs DEF Failures
<1>3. c \in Nat
  BY InHandIs DEF InHand
<1>4. AppendEvent("tool.call.ended", c)
  BY DEF Call
<1> HIDE DEF c
<1>5. /\ log' \in Seq(Events) /\ Len(log') = Len(log) + 1 /\ Len(log) \in Nat
      /\ \A i \in 1..Len(log) : log'[i] = log[i]
      /\ log'[Len(log')].kind = "tool.call.ended"
      /\ log'[Len(log')] = Event("tool.call.ended", c)
      /\ Started' = Started /\ Started \subseteq 1..Len(log)
  BY <1>3, <1>4, LogGrows DEF Kinds, Started
<1>6. Shape'
  BY <1>1, <1>2, <1>5 DEF Inv, Shape, Late
<1>7. Answered' /\ Fitting'
  BY <1>1 DEF Inv, Answered, Fitting, Paired, Between, InHand
<1>8. Ordered'
  <2>1. \A i \in Started' : i \in Started /\ log'[i] = log[i]
    BY <1>5
  <2> QED BY <1>1, <2>1 DEF Inv, Ordered, InHand
<1>9. EndLogged'
  <2>1. (\A i \in 1..Len(log) : log[i].kind \notin Terminal) /\ result = "running"
    BY DEF Inv, EndLogged
  <2>2. \A i \in 1..Len(log') : i \in 1..Len(log) \/ i = Len(log')
    BY <1>5
  <2>3. \A i \in 1..Len(log') : log'[i].kind \notin Terminal
    BY <1>5, <2>1, <2>2 DEF Terminal
  <2> QED BY <1>1, <2>1, <2>3 DEF EndLogged
<1>10. CallsLogged'
  <2>1. "files" \in hit \/ \A i \in Started :
           \/ i < Len(log) /\ log[i + 1] = Event("tool.call.ended", log[i].call)
           \/ i = Len(log) /\ log[i].call = c
    BY DEF Inv, CallsLogged, c
  <2>2. ASSUME NEW i \in Started,
               \/ i < Len(log) /\ log[i + 1] = Event("tool.call.ended", log[i].call)
               \/ i = Len(log) /\ log[i].call = c
        PROVE  i < Len(log') /\ log'[i + 1] = Event("tool.call.ended", log'[i].call)
    BY <1>5, <2>2
  <2> QED BY <1>2, <1>5, <2>1, <2>2 DEF CallsLogged
<1>11. Kept'
  <2>1. BeginsWith(base, base)
    BY BeginsSelf DEF Inv, Shape
  <2> QED BY <1>1, <2>1 DEF Kept, BeginsWith, Early, Between, InHand
<1> QED BY <1>6, <1>7, <1>8, <1>9, <1>10, <1>11 DEF Inv

LEMMA ToolReturnsKeeps ==
    ASSUME Inv, ToolReturns
    PROVE  Inv'
<1>1. CASE LoopError /\ Fault("files") /\ UNCHANGED log
  BY <1>1, LoopErrorKeeps DEF ToolReturns, InHand
<1>2. CASE /\ AppendEvent("tool.call.ended", Call) /\ PutResult
           /\ UNCHANGED <<outerVars, rescue, endVars, callVars, faults>>
  <2> DEFINE c == Head(pending)
  <2>1. /\ pc = "executing" /\ PutResult /\ Calm /\ permitted' = permitted
        /\ AppendEvent("tool.call.ended", c)
    BY <1>2 DEF ToolReturns, PutResult, Calm, Quiet, callVars, Call
  <2>2. /\ mode' = mode /\ base' = base /\ interrupted' = interrupted /\ saved' = saved
        /\ continues' = continues /\ rescue' = rescue /\ faults' = faults
        /\ result' = result /\ hit' = hit /\ query' = query /\ turn' = turn
        /\ limit' = limit /\ before' = before /\ text' = text /\ issued' = issued
    BY <2>1, CalmIs
  <2>3. /\ pc' = "calls" /\ pending # <<>> /\ pending' = Tail(pending)
        /\ pending' \in Seq(Calls) /\ Len(pending') = Len(pending) - 1
        /\ msgs' \in Seq(Messages) /\ Paired(msgs') /\ BeginsWith(msgs', base)
        /\ Results(msgs') + Len(pending') <= limit
    BY <2>1, PutResultKeeps DEF InHand
  <2>4. pending \in Seq(Calls) /\ c = pending[1] /\ c \in Nat /\ 1 \in 1..Len(pending)
    BY <2>1, InHandIs DEF InHand
  <2> HIDE DEF c
  <2>5. /\ log' \in Seq(Events) /\ Len(log') = Len(log) + 1 /\ Len(log) \in Nat
        /\ \A i \in 1..Len(log) : log'[i] = log[i]
        /\ log'[Len(log')].kind = "tool.call.ended"
        /\ log'[Len(log')] = Event("tool.call.ended", c)
        /\ Started' = Started /\ Started \subseteq 1..Len(log)
    BY <2>1, <2>4, LogGrows DEF Kinds, Started
  <2>6. Shape'
    BY <2>1, <2>2, <2>3, <2>5 DEF Inv, Shape, Between
  <2>7. Answered'
    BY <2>2, <2>3 DEF Inv, Answered, Paired, InHand
  <2>8. Fitting'
    BY <2>2, <2>3 DEF Fitting, InHand, Results
  <2>9. Ordered'
    <3>1. /\ \A k \in 1..Len(pending) : pending[k] <= issued
          /\ \A j, k \in 1..Len(pending) : j < k => pending[j] < pending[k]
          /\ \A i \in Started, k \in 1..Len(pending) : log[i].call < pending[k] \/ k = 1
          /\ \A i \in Started : log[i].call \in permitted /\ log[i].call <= issued
          /\ \A i, k \in Started : log[i].call = log[k].call => i = k
      BY <2>1 DEF Inv, Ordered, InHand
    <3>2. \A k \in 1..Len(pending') : /\ pending'[k] = pending[k + 1]
                                      /\ k \in Nat /\ k + 1 \in 1..Len(pending) /\ k + 1 # 1
      BY <2>3, <2>4
    <3>3. /\ \A k \in 1..Len(pending') : pending'[k] <= issued
          /\ \A i \in Started, k \in 1..Len(pending') : log[i].call < pending'[k]
      BY <3>1, <3>2
    <3>4. \A j, k \in 1..Len(pending') : j < k => pending'[j] < pending'[k]
      <4>1. \A j, k \in 1..Len(pending') : j < k => j + 1 < k + 1
        OBVIOUS
      <4> QED BY <3>1, <3>2, <4>1
    <3>5. \A i \in Started' : i \in Started /\ log'[i] = log[i]
      BY <2>5
    <3> QED BY <2>1, <2>2, <2>3, <3>1, <3>3, <3>4, <3>5 DEF Ordered
  <2>10. EndLogged'
    <3>1. \A i \in 1..Len(log) : log[i].kind \notin Terminal
      BY <2>1 DEF Inv, EndLogged
    <3>2. \A i \in 1..Len(log') : log'[i].kind \notin Terminal
      <4>1. \A i \in 1..Len(log') : i \in 1..Len(log) \/ i = Len(log')
        BY <2>5
      <4> QED BY <2>5, <3>1, <4>1 DEF Terminal
    <3>3. result = "running"
      BY <2>1 DEF Inv, EndLogged
    <3> QED BY <2>2, <2>3, <3>2, <3>3 DEF EndLogged
  <2>11. CallsLogged'
    <3>1. "files" \in hit \/ \A i \in Started :
             \/ i < Len(log) /\ log[i + 1] = Event("tool.call.ended", log[i].call)
             \/ i = Len(log) /\ log[i].call = c
      BY <2>1 DEF Inv, CallsLogged, c
    <3>2. ASSUME NEW i \in Started,
                 \/ i < Len(log) /\ log[i + 1] = Event("tool.call.ended", log[i].call)
                 \/ i = Len(log) /\ log[i].call = c
          PROVE  i < Len(log') /\ log'[i + 1] = Event("tool.call.ended", log'[i].call)
      BY <2>5, <3>2
    <3> QED BY <2>2, <2>5, <3>1, <3>2 DEF CallsLogged
  <2>12. Kept'
    BY <2>2, <2>3 DEF Kept, BeginsWith, Early
  <2> QED BY <2>6, <2>7, <2>8, <2>9, <2>10, <2>11, <2>12 DEF Inv
<1>3. CASE AppendEvent("tool.call.ended", Call) /\ LoopError /\ Fault("other")
  BY <1>3, SinkFailsKeeps DEF ToolReturns
<1> QED BY <1>1, <1>2, <1>3 DEF ToolReturns

-----------------------------------------------------------------------------
\* After the loops

LEMMA AskContinueKeeps ==
    ASSUME Inv, AskContinue
    PROVE  Inv'
<1>1. /\ pc = "limit" /\ mode' = mode /\ interrupted' = interrupted /\ saved' = saved
      /\ log' = log /\ result' = result /\ issued' = issued /\ permitted' = permitted
  BY DEF AskContinue, diskVars, callVars
<1>2. /\ msgs \in Seq(Messages) /\ base \in Seq(Messages) /\ Paired(msgs)
      /\ BeginsWith(msgs, base) /\ BeginsWith(msgs, msgs)
  BY <1>1, BeginsSelf DEF Inv, Shape, Answered, Kept, Between
<1>3. Started' = Started
  BY <1>1 DEF Started
<1>4. EndLogged' \/ pc' \notin {"turn", "save", "report"}
  BY <1>1 DEF Inv, EndLogged, EndsWith
<1>5. /\ \A i \in Started : log[i].call \in permitted /\ log[i].call <= issued
      /\ \A i, k \in Started : log[i].call = log[k].call => i = k
  BY DEF Inv, Ordered
<1>6. Ordered' \/ pc' \notin {"turn", "save", "report"}
  BY <1>1, <1>3, <1>5 DEF Ordered, InHand
<1>7. CASE /\ continues' = continues + 1 /\ base' = msgs /\ BeginLoops(msgs) /\ NoFault
           /\ UNCHANGED rescue
  <2>1. /\ pc' = "turn" /\ msgs' = msgs /\ text' = "none" /\ pending' = <<>>
        /\ query' \in 0..mode.queries /\ turn' \in 0..mode.turns
        /\ limit' \in Nat /\ before' \in Nat
        /\ Fitting'
    BY <1>1, <1>2, <1>7, BeginLoopsFits
  <2>2. hit' = hit /\ faults' = faults /\ rescue' = rescue
    BY <1>7 DEF NoFault
  <2>3. continues' \in Nat
    BY <1>7 DEF Inv, Shape
  <2>4. Shape'
    BY <1>1, <1>2, <1>7, <2>1, <2>2, <2>3 DEF Inv, Shape, Between, Texts
  <2>5. Answered'
    BY <1>1, <1>2, <1>7, <2>1, <2>2 DEF Inv, Answered, Paired, InHand
  <2>6. CallsLogged'
    BY <1>1, <1>3, <2>1, <2>2 DEF Inv, CallsLogged
  <2>7. Kept'
    BY <1>2, <1>7, <2>1 DEF Kept, BeginsWith, Early
  <2> QED BY <1>4, <1>6, <2>1, <2>4, <2>5, <2>6, <2>7 DEF Inv
<1>8. CASE pc' = "save" /\ NoFault /\ UNCHANGED <<base, loopVars, rescue, continues>>
  <2>1. /\ base' = base /\ msgs' = msgs /\ query' = query /\ turn' = turn
        /\ limit' = limit /\ before' = before /\ text' = text /\ pending' = pending
        /\ rescue' = rescue /\ continues' = continues /\ hit' = hit /\ faults' = faults
    BY <1>8 DEF loopVars, NoFault
  <2>2. Shape'
    BY <1>1, <1>8, <2>1 DEF Inv, Shape, Between
  <2>3. Answered'
    BY <1>1, <1>2, <1>8, <2>1 DEF Inv, Answered, Paired, InHand
  <2>4. Fitting'
    BY <1>8 DEF Fitting, InHand
  <2>5. CallsLogged'
    BY <1>1, <1>3, <2>1 DEF Inv, CallsLogged
  <2>6. Kept'
    BY <1>2, <1>8, <2>1 DEF Kept, BeginsWith, Early
  <2> QED BY <1>4, <1>6, <1>8, <2>2, <2>3, <2>4, <2>5, <2>6 DEF Inv
<1>9. CASE /\ Fault("other") /\ pc' = "report" /\ rescue' = msgs
           /\ UNCHANGED <<base, loopVars, continues>>
  <2>1. /\ base' = base /\ msgs' = msgs /\ query' = query /\ turn' = turn
        /\ limit' = limit /\ before' = before /\ text' = text /\ pending' = pending
        /\ continues' = continues
    BY <1>9 DEF loopVars
  <2>6. hit' \subseteq Failures /\ hit \subseteq hit' /\ faults' \in Nat
    BY <1>9, FaultIs DEF Failures
  <2>2. Shape'
    BY <1>1, <1>2, <1>9, <2>1, <2>6 DEF Inv, Shape, Late
  <2>3. Answered'
    BY <1>1, <1>2, <1>9, <2>1 DEF Inv, Answered, Paired, Between, InHand
  <2>4. Fitting' /\ CallsLogged'
    BY <1>1, <1>3, <1>9, <2>6 DEF Inv, Fitting, CallsLogged, InHand
  <2>5. Kept'
    BY <1>2, <1>9, <2>1 DEF Kept, BeginsWith, Early, Between, InHand
  <2> QED BY <1>4, <1>6, <1>9, <2>2, <2>3, <2>4, <2>5 DEF Inv
<1> QED BY <1>7, <1>8, <1>9 DEF AskContinue

\* What such a step leaves alone.
Goes == NoFault /\ UNCHANGED <<loopVars, rescue, result, continues>>

\* A step of the last part of a run that logs nothing.
LEMMA SaveStepKeeps ==
    ASSUME Inv, pc \in {"clear", "save"}, pc' \in {"answer done", "answer limit"},
           UNCHANGED restVars, Goes, log' = log,
           saved' \in Seq(Messages), Paired(saved'),
           pc' = "answer done" => saved' = <<>>,
           pc' = "answer limit" => BeginsWith(saved', base)
    PROVE  Inv'
<1>1. /\ mode' = mode /\ base' = base /\ interrupted' = interrupted /\ issued' = issued
      /\ permitted' = permitted /\ msgs' = msgs /\ query' = query /\ turn' = turn
      /\ limit' = limit /\ before' = before /\ text' = text /\ pending' = pending
      /\ rescue' = rescue /\ result' = result /\ continues' = continues
      /\ hit' = hit /\ faults' = faults
  BY DEF restVars, callVars, Goes, NoFault, loopVars
<1>2. Started' = Started
  BY DEF Started
<1>3. Shape'
  BY <1>1 DEF Inv, Shape, Late
<1>4. Answered'
  BY <1>1 DEF Inv, Answered, Paired, Between, InHand
<1>5. Fitting' /\ Ordered'
  BY <1>1, <1>2 DEF Inv, Fitting, Ordered, InHand
<1>6. EndLogged'
  BY <1>1 DEF Inv, EndLogged
<1>7. CallsLogged'
  BY <1>1, <1>2 DEF Inv, CallsLogged
<1>8. Kept'
  BY <1>1 DEF Kept, BeginsWith, Early, Between, InHand
<1> QED BY <1>3, <1>4, <1>5, <1>6, <1>7, <1>8 DEF Inv

\* The step that logs the end.
LEMMA LogEndKeeps ==
    ASSUME Inv, UNCHANGED restVars, Goes, saved' = saved,
           NEW kind \in Terminal, NEW c \in Nat, AppendEvent(kind, c),
           \/ pc = "answer done" /\ pc' = "derive done" /\ kind = "run.completed"
           \/ pc = "answer limit" /\ pc' = "derive limit" /\ kind = "run.completed"
           \/ pc = "report" /\ pc' = "rescue" /\ kind = "run.failed"
    PROVE  Inv'
<1>1. /\ mode' = mode /\ base' = base /\ interrupted' = interrupted /\ issued' = issued
      /\ permitted' = permitted /\ msgs' = msgs /\ query' = query /\ turn' = turn
      /\ limit' = limit /\ before' = before /\ text' = text /\ pending' = pending
      /\ rescue' = rescue /\ result' = result /\ continues' = continues
      /\ hit' = hit /\ faults' = faults
  BY DEF restVars, callVars, Goes, NoFault, loopVars
<1>2. kind \in Kinds /\ kind \notin {"tool.call.started", "run.started"}
  BY DEF Terminal, Kinds
<1>3. /\ log' \in Seq(Events) /\ Len(log') = Len(log) + 1 /\ Len(log) \in Nat
      /\ \A i \in 1..Len(log) : log'[i] = log[i]
      /\ log'[Len(log')].kind = kind
      /\ Started' = Started /\ Started \subseteq 1..Len(log)
      /\ Len(log') > 0
  BY <1>2, LogGrows DEF Started
<1>4. \A i \in 1..Len(log') : i \in 1..Len(log) \/ i = Len(log')
  BY <1>2, LogGrows
<1>5. /\ pc' \in {"derive done", "derive limit", "rescue"}
      /\ pc \in {"answer done", "answer limit", "report"}
  OBVIOUS
<1>6. Shape'
  BY <1>1, <1>3, <1>5 DEF Inv, Shape, Late
<1>7. Answered'
  BY <1>1, <1>5 DEF Inv, Answered, Paired, Between, InHand
<1>8. Fitting'
  BY <1>5 DEF Fitting, InHand
<1>9. Ordered'
  <2>1. \A i \in Started' : i \in Started /\ log'[i] = log[i]
    BY <1>3
  <2> QED BY <1>1, <1>5, <2>1 DEF Inv, Ordered, InHand
<1>10. EndLogged'
  <2>1. (\A i \in 1..Len(log) : log[i].kind \notin Terminal) /\ result = "running"
    BY <1>5 DEF Inv, EndLogged
  <2>2. \A i \in 1..Len(log') : log'[i].kind \in Terminal => i = Len(log')
    BY <1>3, <1>4, <2>1
  <2>3. Len(log') > 0 /\ log'[Len(log')].kind = kind
    BY <1>3
  <2>4. \/ pc' = "rescue" /\ log'[Len(log')].kind = "run.failed"
        \/ pc' \in {"derive done", "derive limit"} /\ log'[Len(log')].kind = "run.completed"
    BY <2>3
  <2> QED BY <1>1, <2>1, <2>2, <2>3, <2>4 DEF EndLogged, EndsWith
<1>11. CallsLogged'
  <2>1. "files" \in hit \/ \A i \in Started :
                  i < Len(log) /\ log[i + 1] = Event("tool.call.ended", log[i].call)
    BY <1>5 DEF Inv, CallsLogged
  <2>2. \A i \in Started :
           i < Len(log) /\ log[i + 1] = Event("tool.call.ended", log[i].call) =>
              i < Len(log') /\ log'[i + 1] = Event("tool.call.ended", log'[i].call)
    BY <1>2, LogGrows
  <2> QED BY <1>1, <1>3, <2>1, <2>2 DEF CallsLogged
<1>12. Kept'
  <2>1. Began' => Began
    BY <1>2, <1>3, <1>4 DEF Began
  <2> QED BY <1>1, <1>5, <2>1 DEF Inv, Kept, BeginsWith, Early, Between, InHand
<1> QED BY <1>6, <1>7, <1>8, <1>9, <1>10, <1>11, <1>12 DEF Inv

LEMMA ClearResumeKeeps ==
    ASSUME Inv, ClearResume
    PROVE  Inv'
<1>1. pc = "clear" /\ UNCHANGED restVars /\ log' = log
  BY DEF ClearResume
<1>2. <<>> \in Seq(Messages) /\ Paired(<<>>)
  BY DEF Paired
<1>3. CASE saved' = <<>> /\ GoOn("answer done")
  <2>1. pc' = "answer done" /\ Goes
    BY <1>3 DEF GoOn, Goes
  <2> QED BY <1>1, <1>2, <1>3, <2>1, SaveStepKeeps
<1>4. CASE Quit("state") /\ UNCHANGED saved
  BY <1>1, <1>4, QuitKeeps DEF diskVars
<1> QED BY <1>3, <1>4 DEF ClearResume

LEMMA SaveForResumeKeeps ==
    ASSUME Inv, SaveForResume
    PROVE  Inv'
<1>1. pc = "save" /\ UNCHANGED restVars /\ log' = log
  BY DEF SaveForResume
<1>2. msgs \in Seq(Messages) /\ Paired(msgs) /\ BeginsWith(msgs, base)
  BY <1>1 DEF Inv, Shape, Answered, Kept, Between
<1>3. CASE saved' = msgs /\ GoOn("answer limit")
  <2>1. pc' = "answer limit" /\ Goes
    BY <1>3 DEF GoOn, Goes
  <2> QED BY <1>1, <1>2, <1>3, <2>1, SaveStepKeeps
<1>4. CASE Quit("state") /\ UNCHANGED saved
  BY <1>1, <1>4, QuitKeeps DEF diskVars
<1> QED BY <1>3, <1>4 DEF SaveForResume

LEMMA CompleteKeeps ==
    ASSUME Inv, CompleteDone \/ CompleteLimit
    PROVE  Inv'
<1>1. UNCHANGED restVars /\ saved' = saved /\ pc \in {"answer done", "answer limit"}
  BY DEF CompleteDone, CompleteLimit, Complete
<1>2. CASE Quit("files") /\ UNCHANGED log
  BY <1>1, <1>2, QuitKeeps DEF diskVars
<1>3. CASE /\ AppendEvent("run.completed", 0)
           /\ \/ pc = "answer done" /\ GoOn("derive done")
              \/ pc = "answer limit" /\ GoOn("derive limit")
  <2>1. \/ pc = "answer done" /\ pc' = "derive done"
        \/ pc = "answer limit" /\ pc' = "derive limit"
    BY <1>3 DEF GoOn
  <2>2. Goes
    BY <1>3 DEF GoOn, Goes
  <2> QED BY <1>1, <1>3, <2>1, <2>2, LogEndKeeps DEF Terminal
<1> QED BY <1>2, <1>3 DEF CompleteDone, CompleteLimit, Complete

LEMMA ReportKeeps ==
    ASSUME Inv, Report
    PROVE  Inv'
<1>1. UNCHANGED restVars /\ saved' = saved /\ pc = "report"
  BY DEF Report
<1>2. CASE Quit("files") /\ UNCHANGED log
  BY <1>1, <1>2, QuitKeeps DEF diskVars
<1>3. CASE AppendEvent("run.failed", 0) /\ GoOn("rescue")
  <2>1. pc' = "rescue" /\ Goes
    BY <1>3 DEF GoOn, Goes
  <2> QED BY <1>1, <1>3, <2>1, LogEndKeeps DEF Terminal
<1> QED BY <1>2, <1>3 DEF Report

\* The end of a run whose last event is there: what is left can be resumed.
LEMMA EndKeeps ==
    ASSUME Inv, NEW how \in {"done", "limit", "error"}, End(how), NoFault,
           UNCHANGED restVars, log' = log, pc \in Late,
           saved' = NoState \/ saved' \in Seq(Messages), Paired(saved'),
           how = "error" => EndsWith("run.failed"),
           how # "error" => EndsWith("run.completed"),
           how = "done" => saved' = <<>>,
           how # "done" => ~Began \/ BeginsWith(saved', base)
    PROVE  Inv'
<1>1. /\ pc' = "idle" /\ result' = how
      /\ msgs' = <<>> /\ query' = 0 /\ turn' = 0 /\ limit' = 0 /\ before' = 0
      /\ text' = "none" /\ pending' = <<>> /\ rescue' = <<>>
      /\ continues' = 0 /\ faults' = faults /\ hit' = hit
  BY DEF End, NoFault
<1>2. /\ mode' = mode /\ base' = base /\ interrupted' = interrupted
      /\ issued' = issued /\ permitted' = permitted
  BY DEF restVars, callVars
<1>3. Shape'
  <2>1. 0 \in 0..mode.queries /\ 0 \in 0..mode.turns
    BY ModesAre DEF Inv, Shape, IsMode
  <2>2. msgs' \in Seq(Messages) /\ rescue' \in Seq(Messages) /\ pending' \in Seq(Calls)
    BY <1>1
  <2> QED BY <1>1, <1>2, <2>1, <2>2 DEF Inv, Shape, Texts
<1>4. Answered'
  BY <1>1, <1>2 DEF Inv, Answered, Paired, Between, InHand
<1>5. Started' = Started
  BY DEF Started
<1>6. Fitting' /\ Ordered'
  BY <1>1, <1>2, <1>5 DEF Inv, Fitting, Ordered, InHand
<1>7. EndLogged'
  BY <1>1, <1>2 DEF Inv, EndLogged, EndsWith
<1>8. CallsLogged'
  BY <1>1, <1>2, <1>5 DEF Inv, CallsLogged, Late
<1>9. Kept'
  <2>1. Began' = Began
    BY DEF Began
  <2>2. Began => Left'
    BY <1>1, <1>2 DEF Left, BeginsWith, EndsWith
  <2> QED BY <1>1, <2>1, <2>2 DEF Kept, Early, Between, InHand
<1> QED BY <1>3, <1>4, <1>6, <1>7, <1>8, <1>9 DEF Inv

LEMMA DeriveKeeps ==
    ASSUME Inv, Derive
    PROVE  Inv'
<1>1. UNCHANGED restVars /\ saved' = saved /\ log' = log
      /\ pc \in {"derive done", "derive limit"}
  BY DEF Derive, diskVars
<1>2. /\ EndsWith("run.completed")
      /\ pc = "derive done" => saved = <<>>
      /\ pc = "derive limit" => BeginsWith(saved, base)
      /\ saved' = NoState \/ saved' \in Seq(Messages)
      /\ Paired(saved')
  BY <1>1 DEF Inv, EndLogged, Kept, Shape, Answered, Paired
<1>3. CASE Quit("files")
  BY <1>1, <1>3, QuitKeeps DEF diskVars
<1>4. CASE pc = "derive done" /\ End("done") /\ NoFault
  BY <1>1, <1>2, <1>4, EndKeeps DEF Late
<1>5. CASE pc = "derive limit" /\ End("limit") /\ NoFault
  BY <1>1, <1>2, <1>5, EndKeeps DEF Late
<1> QED BY <1>3, <1>4, <1>5 DEF Derive

LEMMA RescueKeeps ==
    ASSUME Inv, Rescue
    PROVE  Inv'
<1>1. UNCHANGED restVars /\ log' = log /\ pc = "rescue"
  BY DEF Rescue
<1>2. CASE Quit("state") /\ UNCHANGED saved
  BY <1>1, <1>2, QuitKeeps DEF diskVars
<1>3. CASE saved' = (IF rescue = <<>> THEN saved ELSE rescue) /\ End("error") /\ NoFault
  <2>1. /\ rescue \in Seq(Messages) /\ Paired(rescue) /\ base \in Seq(Messages)
        /\ EndsWith("run.failed") /\ (~Began \/ BeginsWith(rescue, base))
    BY <1>1 DEF Inv, Shape, Answered, EndLogged, Kept
  <2>2. (saved' = NoState \/ saved' \in Seq(Messages)) /\ Paired(saved')
    BY <1>3, <2>1 DEF Inv, Shape, Answered
  <2>3. ASSUME BeginsWith(rescue, base), rescue = <<>>
        PROVE  BeginsWith(saved, base)
    <3>1. base = <<>> /\ Len(base) = 0
      BY <2>1, <2>3 DEF BeginsWith
    <3>2. saved \in Seq(Messages) \/ saved = NoState
      BY DEF Inv, Shape
    <3>3. Len(saved) \in Nat /\ SubSeq(saved, 1, 0) = <<>>
      <4>1. CASE saved \in Seq(Messages)
        BY <4>1
      <4>2. CASE saved = NoState
        BY <4>2 DEF NoState
      <4> QED BY <3>2, <4>1, <4>2
    <3> QED BY <3>1, <3>3 DEF BeginsWith
  <2>4. ~Began \/ BeginsWith(saved', base)
    BY <1>3, <2>1, <2>3
  <2>5. pc \in Late
    BY <1>1 DEF Late
  <2>6. End("error") /\ NoFault
    BY <1>3
  <2> QED BY <1>1, <2>1, <2>2, <2>4, <2>5, <2>6, EndKeeps
<1> QED BY <1>2, <1>3 DEF Rescue

\* Ctrl-C sets the flag and nothing else.
LEMMA InterruptKeeps ==
    ASSUME Inv, Interrupt \/ UNCHANGED vars
    PROVE  Inv'
<1>1. /\ pc' = pc /\ mode' = mode /\ base' = base /\ saved' = saved /\ log' = log
      /\ issued' = issued /\ permitted' = permitted /\ msgs' = msgs /\ query' = query
      /\ turn' = turn /\ limit' = limit /\ before' = before /\ text' = text
      /\ pending' = pending /\ rescue' = rescue /\ result' = result /\ hit' = hit
      /\ continues' = continues /\ faults' = faults
  BY DEF Interrupt, vars, loopVars, diskVars, callVars, endVars
<1>2. interrupted \in BOOLEAN => interrupted' \in BOOLEAN
  BY DEF Interrupt, vars
<1>3. Shape'
  BY <1>1, <1>2 DEF Inv, Shape
<1>4. Answered'
  BY <1>1 DEF Inv, Answered, Paired
<1>5. Started' = Started
  BY <1>1 DEF Started
<1>6. Fitting' /\ Ordered'
  BY <1>1, <1>5 DEF Inv, Fitting, Ordered, Results
<1>7. EndLogged' /\ CallsLogged'
  BY <1>1, <1>5 DEF Inv, EndLogged, CallsLogged, EndsWith
<1>8. Kept'
  BY <1>1 DEF Inv, Kept, Left, EndsWith, BeginsWith, Began
<1> QED BY <1>3, <1>4, <1>6, <1>7, <1>8 DEF Inv

-----------------------------------------------------------------------------
\* The theorems

LEMMA WorksKeeps ==
    ASSUME Inv, Works
    PROVE  Inv'
<1>1. CASE Prepare \/ Egress \/ CreateStream \/ Start
  BY <1>1, PrepareKeeps, EgressKeeps, CreateStreamKeeps, StartKeeps
<1>2. CASE Responds
  <2>1. PICK t \in Texts, n \in {0} \cup 1..CallsPerTurn : Respond(t, n)
    BY <1>2 DEF Responds, Plain, Texts
  <2>2. n \in Nat
    BY <2>1, RunAssumption DEF RunAssumption
  <2> QED BY <2>1, <2>2, RespondKeeps
<1>3. CASE Finalizes
  BY <1>3, FinalizeKeeps DEF Finalizes, Plain, Texts
<1>4. CASE StopAtLimit \/ StreamFails \/ EndTurn \/ Judge \/ JudgeFails
  BY <1>4, StopAtLimitKeeps, StreamFailsKeeps, EndTurnKeeps, JudgeKeeps, JudgeFailsKeeps
<1>5. CASE Evaluate \/ Deny \/ Execute \/ ToolReturns
  BY <1>5, EvaluateKeeps, DenyKeeps, ExecuteKeeps, ToolReturnsKeeps
<1>6. CASE AskContinue \/ ClearResume \/ SaveForResume \/ CompleteDone \/ CompleteLimit
  BY <1>6, AskContinueKeeps, ClearResumeKeeps, SaveForResumeKeeps, CompleteKeeps
<1>7. CASE Derive \/ Report \/ Rescue
  BY <1>7, DeriveKeeps, ReportKeeps, RescueKeeps
<1> QED BY <1>1, <1>2, <1>3, <1>4, <1>5, <1>6, <1>7 DEF Works

LEMMA InvHolds == Spec => []Inv
<1>1. Init => Inv
  BY InitHolds
<1>2. Inv /\ [Next]_vars => Inv'
  <2> SUFFICES ASSUME Inv, [Next]_vars PROVE Inv'
    OBVIOUS
  <2>1. CASE Works
    BY <2>1, WorksKeeps
  <2>2. CASE Query \/ Resume \/ Approve
    BY <2>2, QueryKeeps, ResumeKeeps, ApproveKeeps
  <2>3. CASE Interrupt \/ Idle \/ UNCHANGED vars
    BY <2>3, InterruptKeeps DEF Idle
  <2> QED BY <2>1, <2>2, <2>3 DEF Next
<1> QED BY <1>1, <1>2, PTL DEF Spec

\* Whatever the model asks for, wherever a run is interrupted or fails, and however often it
\* is continued, retried and resumed: every call has its result, no query loop goes over its
\* limit, and no call is executed twice or without a permission.
THEOREM EveryCallIsHandled == Spec => []CallsAreHandled
<1>1. Inv => CallsAreAnswered
  BY DEF Inv, Answered, CallsAreAnswered, Between
<1>2. Inv => ToolsStayInBounds
  <2> SUFFICES ASSUME Inv PROVE ToolsStayInBounds
    OBVIOUS
  <2>1. Results(msgs) \in Nat /\ limit \in Nat /\ Len(pending) \in Nat
    BY ResultsType DEF Inv, Shape
  <2>2. pc \in {"turn", "calls", "judge", "limit"} => Results(msgs) <= limit
    BY <2>1 DEF Inv, Fitting
  <2> QED BY <2>2 DEF Inv, Ordered, ToolsStayInBounds
<1>3. Inv => CallsAreHandled
  BY <1>1, <1>2 DEF CallsAreHandled
<1> QED BY <1>3, InvHolds, PTL

\* The log of a run tells how it ended, also when the model, a judge, a policy or a sink
\* failed, unless its messages could not be made or a file of the session could not be
\* written; and every call that was started there has its end, unless the event store failed.
THEOREM EndsAreLogged == Spec => []RunIsLogged
<1>1. Inv => RunIsLogged
  <2> SUFFICES ASSUME Inv PROVE RunIsLogged
    OBVIOUS
  <2>1. \A i \in 1..Len(log) : log[i].kind \in {"run.completed", "run.failed"} => i = Len(log)
    BY DEF Inv, EndLogged, Terminal
  <2>2. log \in Seq(Events)
    BY DEF Inv, Shape
  <2>3. /\ result \in {"done", "limit"} => LastIs("run.completed")
        /\ result = "error" /\ hit \subseteq {"other"} => LastIs("run.failed")
    <3>1. \A kind : EndsWith(kind) => LastIs(kind)
      BY <2>2 DEF EndsWith, LastIs
    <3> QED BY <3>1 DEF Inv, EndLogged
  <2>4. pc = "executing" => result = "running"
    BY DEF Inv, EndLogged
  <2>5. \A i \in Started :
            \/ i < Len(log) /\ log[i + 1] = Event("tool.call.ended", log[i].call)
            \/ i = Len(log) /\ result = "running"
            \/ "files" \in hit
    BY <2>4 DEF Inv, CallsLogged
  <2> QED BY <2>1, <2>3, <2>5 DEF RunIsLogged
<1> QED BY <1>1, InvHolds, PTL

\* Whatever failed, the model and the sinks included, agent_state.json agrees with the log of a
\* run that began its loops: all they began with is there for a resume after run.failed, unless
\* that very file could not be written; after run.completed that is there, or nothing.
THEOREM WhatIsLeftCanResume == Spec => []UnfinishedCanResume
<1>1. Inv => UnfinishedCanResume
  <2> SUFFICES ASSUME Inv, pc = "idle", Began
               PROVE  /\ LastIs("run.failed") => Resumable \/ "state" \in hit
                      /\ LastIs("run.completed") => Resumable \/ saved = <<>>
                      /\ result = "limit" => Resumable
                      /\ result = "done" => saved = <<>>
    BY DEF UnfinishedCanResume
  <2>1. Resumable = BeginsWith(saved, base)
    BY DEF Resumable, BeginsWith
  <2>2. log \in Seq(Events) /\ Left
    BY DEF Inv, Shape, Kept
  <2>3. \A kind : LastIs(kind) => EndsWith(kind)
    BY <2>2 DEF LastIs, EndsWith
  <2> QED BY <2>1, <2>2, <2>3 DEF Left
<1> QED BY <1>1, InvHolds, PTL

-----------------------------------------------------------------------------
\* What a query sends of the history: the reducer of ContextPack, for all histories and
\* budgets

\* TailWindowReducer returns an end of the history, and unless no message is allowed, the
\* last message is in it however long it is.
THEOREM TailKeepsLast ==
    ASSUME NEW M, NEW ms \in Seq(M), ms # <<>>, NEW budget, budget.messages # 0
    PROVE  \E i \in 1..Len(ms) :
              /\ TailWindow(ms, budget) = SubSeq(ms, i, Len(ms))
              /\ Len(TailWindow(ms, budget)) >= 1
              /\ TailWindow(ms, budget)[Len(TailWindow(ms, budget))] = ms[Len(ms)]
<1> DEFINE kept == {Len(ms)} \cup {i \in 1..Len(ms) : Within(ms, i, budget)}
           first == CHOOSE i \in kept : \A k \in kept : i <= k
<1>1. Len(ms) \in Nat /\ Len(ms) >= 1
  OBVIOUS
<1>2. kept \in SUBSET (1..Len(ms)) /\ kept # {}
  BY <1>1
<1>3. first \in kept
  <2> HIDE DEF kept
  <2> QED BY <1>1, <1>2, FirstExists
<1>4. first \in 1..Len(ms)
  BY <1>2, <1>3
<1>5. TailWindow(ms, budget) = SubSeq(ms, first, Len(ms))
  BY DEF TailWindow
<1> HIDE DEF kept, first
<1>6. /\ Len(SubSeq(ms, first, Len(ms))) = Len(ms) - first + 1
      /\ SubSeq(ms, first, Len(ms))[Len(ms) - first + 1] = ms[Len(ms)]
  BY <1>1, <1>4
<1> QED BY <1>1, <1>4, <1>5, <1>6

\* It has no more messages than the budget allows.
THEOREM TailIsWithin ==
    ASSUME NEW M, NEW ms \in Seq(M), NEW budget, budget.messages \in Nat
    PROVE  Len(TailWindow(ms, budget)) <= budget.messages
<1> DEFINE kept == {Len(ms)} \cup {i \in 1..Len(ms) : Within(ms, i, budget)}
           first == CHOOSE i \in kept : \A k \in kept : i <= k
<1>1. CASE ms = <<>> \/ budget.messages = 0
  BY <1>1 DEF TailWindow
<1>2. CASE ms # <<>> /\ budget.messages # 0
  <2>1. Len(ms) \in Nat /\ Len(ms) >= 1
    BY <1>2
  <2>2. kept \in SUBSET (1..Len(ms)) /\ kept # {}
    BY <2>1
  <2>3. first \in kept
    <3> HIDE DEF kept
    <3> QED BY <2>1, <2>2, FirstExists
  <2>4. TailWindow(ms, budget) = SubSeq(ms, first, Len(ms))
    BY <1>2 DEF TailWindow
  <2>5. first \in 1..Len(ms) /\ (first = Len(ms) \/ Len(ms) - first + 1 <= budget.messages)
    BY <2>2, <2>3 DEF Within
  <2> HIDE DEF kept, first
  <2>6. Len(SubSeq(ms, first, Len(ms))) = Len(ms) - first + 1
    BY <2>1, <2>5
  <2>7. Len(SubSeq(ms, first, Len(ms))) <= budget.messages
    BY <1>2, <2>1, <2>5, <2>6
  <2> QED BY <2>4, <2>7
<1> QED BY <1>1, <1>2

Lines == {"plain", "secret", "masked"}
Addons == [priority : Nat, text : Seq(Lines), attachment : Seq(Lines)]
ChatMessages == [role : {"system", "user", "assistant", "addon"}, text : Seq(Lines)]
Packs == [messages : Seq(ChatMessages), attachments : Seq(Seq(Lines))]
Outcomes == [kind : {"clean", "hit", "deny", "masked", "error"}, text : Seq(Lines)]

\* Characters are counted by numbers, and those of two lists are added.
LEMMA CharsAdd ==
    ASSUME NEW s \in Seq(Seq(Lines)), NEW t \in Seq(Seq(Lines))
    PROVE  /\ Chars(s) \in Nat /\ Chars(t) \in Nat
           /\ Chars(s \o t) = Chars(s) + Chars(t)
<1>1. /\ FlattenSeq(s) \in Seq(Lines) /\ FlattenSeq(t) \in Seq(Lines)
      /\ FlattenSeq(s \o t) = FlattenSeq(s) \o FlattenSeq(t)
  BY FlattenConcat, FlattenType
<1> QED BY <1>1 DEF Chars

\* One more text adds its own.
LEMMA CharsAppend ==
    ASSUME NEW s \in Seq(Seq(Lines)), NEW x \in Seq(Lines)
    PROVE  /\ Chars(s) \in Nat
           /\ Chars(Append(s, x)) = Chars(s) + Len(x)
<1>1. FlattenSeq(s) \in Seq(Lines) /\ FlattenSeq(Append(s, x)) = FlattenSeq(s) \o x
  BY FlattenAppend, FlattenType
<1> QED BY <1>1 DEF Chars

LEMMA CharsEmpty == Chars(<<>>) = 0
  BY FlattenEmpty DEF Chars

\* Texts that are no longer have no more.
LEMMA CharsShorter ==
    ASSUME NEW s \in Seq(Seq(Lines)), NEW t \in Seq(Seq(Lines)), Len(s) = Len(t),
           \A i \in 1..Len(s) : Len(s[i]) <= Len(t[i])
    PROVE  Chars(s) <= Chars(t) /\ Chars(s) \in Nat /\ Chars(t) \in Nat
<1>1. FlattenSeq(s) \in Seq(Lines) /\ FlattenSeq(t) \in Seq(Lines)
  BY FlattenType
<1>2. Len(FlattenSeq(s)) <= Len(FlattenSeq(t))
  BY FlattenShorter
<1> QED BY <1>1, <1>2 DEF Chars

\* The texts of messages, in any order of records that have a text.
LEMMA TextsType ==
    ASSUME NEW M, \A m \in M : m.text \in Seq(Lines), NEW ms \in Seq(M)
    PROVE  /\ TextsOf(ms) \in Seq(Seq(Lines)) /\ Len(TextsOf(ms)) = Len(ms)
           /\ \A i \in 1..Len(ms) : TextsOf(ms)[i] = ms[i].text
  BY DEF TextsOf

LEMMA TextsAppend ==
    ASSUME NEW M, \A m \in M : m.text \in Seq(Lines), NEW ms \in Seq(M), NEW m \in M
    PROVE  TextsOf(Append(ms, m)) = Append(TextsOf(ms), m.text)
<1>1. /\ TextsOf(ms) \in Seq(Seq(Lines)) /\ Len(TextsOf(ms)) = Len(ms)
      /\ \A i \in 1..Len(ms) : TextsOf(ms)[i] = ms[i].text
  BY TextsType
<1>2. Append(ms, m) \in Seq(M) /\ m.text \in Seq(Lines)
  OBVIOUS
<1>3. /\ TextsOf(Append(ms, m)) \in Seq(Seq(Lines)) /\ Len(TextsOf(Append(ms, m))) = Len(ms) + 1
      /\ \A i \in 1..(Len(ms) + 1) : TextsOf(Append(ms, m))[i] = Append(ms, m)[i].text
  <2>1. Len(Append(ms, m)) = Len(ms) + 1
    OBVIOUS
  <2> QED BY <1>2, <2>1, TextsType
<1>4. PICK s, t, u, x : /\ s = TextsOf(Append(ms, m)) /\ u = TextsOf(ms) /\ x = m.text
                        /\ t = Append(u, x)
  OBVIOUS
<1>5. /\ s \in Seq(Seq(Lines)) /\ u \in Seq(Seq(Lines)) /\ x \in Seq(Lines)
      /\ Len(s) = Len(u) + 1 /\ Len(u) = Len(ms)
      /\ \A i \in 1..Len(ms) : u[i] = ms[i].text
      /\ \A i \in 1..(Len(ms) + 1) : s[i] = Append(ms, m)[i].text
  BY <1>1, <1>2, <1>3, <1>4
<1>6. ASSUME NEW i \in 1..Len(s) PROVE s[i] = t[i]
  <2>1. CASE i = Len(ms) + 1
    <3>1. Append(ms, m)[i] = m
      BY <2>1
    <3> QED BY <1>4, <1>5, <2>1, <3>1
  <2>2. CASE i \in 1..Len(ms)
    <3>1. Append(ms, m)[i] = ms[i]
      BY <2>2
    <3>2. s[i] = u[i]
      BY <1>5, <2>2, <3>1
    <3> QED BY <1>4, <1>5, <2>2, <3>2
  <2> QED BY <1>5, <2>1, <2>2
<1>7. t \in Seq(Seq(Lines)) /\ Len(s) = Len(t)
  BY <1>4, <1>5
<1>8. s = t
  BY ONLY <1>5, <1>6, <1>7, SeqEqual
<1> QED BY <1>4, <1>8

-----------------------------------------------------------------------------
\* What is built stays within the budget

\* One message has the characters of its text.
LEMMA CharsOfOne ==
    ASSUME NEW m \in ChatMessages
    PROVE  Chars(TextsOf(<<m>>)) = Len(m.text)
<1>1. m.text \in Seq(Lines) /\ <<>> \in Seq(Seq(Lines))
  BY DEF ChatMessages
<1>2. TextsOf(<<m>>) = Append(<<>>, m.text)
  BY DEF TextsOf
<1>3. Chars(Append(<<>>, m.text)) = Chars(<<>>) + Len(m.text)
  BY <1>1, CharsAppend
<1> QED BY <1>1, <1>2, <1>3, CharsEmpty

\* The end of the history that is kept: within the budget, or the last message alone.
LEMMA TailFits ==
    ASSUME NEW ms \in Seq(ChatMessages), ms # <<>>, NEW budget,
           budget.messages \in Nat, budget.chars \in Nat, budget.messages # 0
    PROVE  /\ TailWindow(ms, budget) \in Seq(ChatMessages)
           /\ Len(TailWindow(ms, budget)) <= budget.messages
           /\ Chars(TextsOf(TailWindow(ms, budget))) \in Nat
           /\ \/ Chars(TextsOf(TailWindow(ms, budget))) <= budget.chars
              \/ Chars(TextsOf(TailWindow(ms, budget))) = Len(ms[Len(ms)].text)
<1> DEFINE kept == {Len(ms)} \cup {i \in 1..Len(ms) : Within(ms, i, budget)}
           first == CHOOSE i \in kept : \A k \in kept : i <= k
<1>1. Len(ms) \in Nat /\ Len(ms) >= 1
  OBVIOUS
<1>2. kept \in SUBSET (1..Len(ms)) /\ kept # {}
  BY <1>1
<1>3. first \in kept
  <2> HIDE DEF kept
  <2> QED BY <1>1, <1>2, FirstExists
<1>4. TailWindow(ms, budget) = SubSeq(ms, first, Len(ms))
  BY DEF TailWindow
<1>5. PICK f : f = first
  OBVIOUS
<1>6. f \in 1..Len(ms) /\ (f = Len(ms) \/ Within(ms, f, budget))
  BY <1>1, <1>2, <1>3, <1>5
<1>7. PICK w : w = SubSeq(ms, f, Len(ms))
  OBVIOUS
<1> HIDE DEF kept, first
<1>8. w \in Seq(ChatMessages) /\ Len(w) = Len(ms) - f + 1
  BY <1>1, <1>6, <1>7
<1>9. TextsOf(w) \in Seq(Seq(Lines))
  BY <1>8, TextsType DEF ChatMessages
<1>10. Chars(TextsOf(w)) \in Nat
  BY <1>9, CharsAppend
<1>11. CASE f = Len(ms)
  <2>0. Len(w) = 1 /\ w[1] = ms[Len(ms)] /\ ms[Len(ms)] \in ChatMessages
    BY <1>1, <1>6, <1>7, <1>8, <1>11
  <2>1. ms[Len(ms)] \in ChatMessages /\ w = <<ms[Len(ms)]>>
    <3>1. PICK x : x = w[1]
      OBVIOUS
    <3>2. x \in ChatMessages /\ Len(w) = 1 /\ w[1] = x
      BY <2>0, <3>1
    <3>3. /\ w \in Seq(ChatMessages) /\ <<x>> \in Seq(ChatMessages)
          /\ Len(w) = Len(<<x>>) /\ w[1] = <<x>>[1]
      <4>1. /\ <<x>> \in Seq(ChatMessages) /\ Len(<<x>>) = 1 /\ <<x>>[1] = x
        BY ONLY <3>2
      <4> QED BY <1>8, <3>2, <4>1
    <3>4. \A i \in 1..Len(w) : w[i] = <<x>>[i]
      <4>1. \A i \in 1..Len(w) : i = 1
        BY ONLY <3>2
      <4> QED BY ONLY <3>3, <4>1
    <3>5. w = <<x>>
      BY ONLY <3>3, <3>4, SeqEqual
    <3> QED BY <2>0, <3>1, <3>5
  <2>2. Chars(TextsOf(w)) = Len(ms[Len(ms)].text)
    BY <2>1, CharsOfOne
  <2>3. Len(w) <= budget.messages
    BY <2>0
  <2>4. TailWindow(ms, budget) = w
    BY <1>4, <1>5, <1>7
  <2> QED BY <1>8, <1>10, <2>2, <2>3, <2>4
<1>12. CASE Within(ms, f, budget)
  <2>1. Len(w) <= budget.messages /\ Chars(TextsOf(w)) <= budget.chars
    BY <1>1, <1>6, <1>7, <1>8, <1>12 DEF Within
  <2> QED BY <1>4, <1>5, <1>7, <1>8, <1>10, <2>1
<1> QED BY <1>6, <1>11, <1>12

\* What an addon is made of.
LEMMA AddonsHave ==
    ASSUME NEW adds \in Seq(Addons)
    PROVE  /\ TextsOf(adds) \in Seq(Seq(Lines)) /\ AttachmentsOf(adds) \in Seq(Seq(Lines))
           /\ Len(TextsOf(adds)) = Len(adds) /\ Len(AttachmentsOf(adds)) = Len(adds)
           /\ \A i \in 1..Len(adds) : TextsOf(adds)[i] = adds[i].text
           /\ \A i \in 1..Len(adds) : AttachmentsOf(adds)[i] = adds[i].attachment
           /\ Chars(TextsOf(adds)) \in Nat /\ Chars(AttachmentsOf(adds)) \in Nat
<1>1. \A a \in Addons : a.text \in Seq(Lines) /\ a.attachment \in Seq(Lines)
  BY DEF Addons
<1>2. /\ TextsOf(adds) \in Seq(Seq(Lines)) /\ Len(TextsOf(adds)) = Len(adds)
      /\ \A i \in 1..Len(adds) : TextsOf(adds)[i] = adds[i].text
  BY <1>1, TextsType
<1>3. /\ AttachmentsOf(adds) \in Seq(Seq(Lines)) /\ Len(AttachmentsOf(adds)) = Len(adds)
      /\ \A i \in 1..Len(adds) : AttachmentsOf(adds)[i] = adds[i].attachment
  BY <1>1 DEF AttachmentsOf
<1> QED BY <1>2, <1>3, CharsAdd

\* One addon more adds its characters.
LEMMA OneAddonMore ==
    ASSUME NEW adds \in Seq(Addons), NEW a \in Addons
    PROVE  Chars(TextsOf(Append(adds, a))) + Chars(AttachmentsOf(Append(adds, a)))
               = Chars(TextsOf(adds)) + Chars(AttachmentsOf(adds)) + AddonChars(a)
<1>1. \A b \in Addons : b.text \in Seq(Lines) /\ b.attachment \in Seq(Lines)
  BY DEF Addons
<1>2. TextsOf(Append(adds, a)) = Append(TextsOf(adds), a.text)
  BY <1>1, TextsAppend
<1>3. PICK bs, u, v, x : bs = Append(adds, a) /\ u = AttachmentsOf(bs) /\ x = AttachmentsOf(adds)
                         /\ v = Append(x, a.attachment)
  OBVIOUS
<1>4. bs \in Seq(Addons) /\ Len(bs) = Len(adds) + 1 /\ Len(adds) \in Nat
  BY <1>3
<1>5. /\ u \in Seq(Seq(Lines)) /\ Len(u) = Len(adds) + 1
      /\ \A i \in 1..(Len(adds) + 1) : u[i] = bs[i].attachment
      /\ x \in Seq(Seq(Lines)) /\ Len(x) = Len(adds)
      /\ \A i \in 1..Len(adds) : x[i] = adds[i].attachment
      /\ a.attachment \in Seq(Lines)
  BY <1>1, <1>3, <1>4, AddonsHave
<1>6. ASSUME NEW i \in 1..Len(u) PROVE u[i] = v[i]
  <2>1. CASE i = Len(adds) + 1
    <3>1. bs[i] = a
      BY <1>3, <1>4, <2>1
    <3> QED BY <1>3, <1>4, <1>5, <2>1, <3>1
  <2>2. CASE i \in 1..Len(adds)
    <3>1. bs[i] = adds[i]
      BY <1>3, <2>2
    <3>2. u[i] = x[i]
      BY <1>4, <1>5, <2>2, <3>1
    <3> QED BY <1>3, <1>5, <2>2, <3>2
  <2> QED BY <1>4, <1>5, <2>1, <2>2
<1>7. v \in Seq(Seq(Lines)) /\ Len(v) = Len(u)
  BY <1>3, <1>5
<1>8. u = v
  BY ONLY <1>5, <1>6, <1>7, SeqEqual
<1>9. /\ Chars(Append(TextsOf(adds), a.text)) = Chars(TextsOf(adds)) + Len(a.text)
      /\ Chars(TextsOf(adds)) \in Nat
      /\ Chars(Append(x, a.attachment)) = Chars(x) + Len(a.attachment) /\ Chars(x) \in Nat
  BY <1>1, <1>5, AddonsHave, CharsAppend
<1>10. Len(a.text) \in Nat /\ Len(a.attachment) \in Nat
  BY <1>1
<1>11. /\ Chars(TextsOf(bs)) = Chars(TextsOf(adds)) + Len(a.text)
       /\ Chars(AttachmentsOf(bs)) = Chars(AttachmentsOf(adds)) + Len(a.attachment)
       /\ Chars(TextsOf(adds)) \in Nat /\ Chars(AttachmentsOf(adds)) \in Nat
  BY <1>2, <1>3, <1>8, <1>9
<1>12. AddonChars(a) = Len(a.text) + Len(a.attachment)
  BY DEF AddonChars
<1>13. PICK k, l, p, q : /\ k = Chars(TextsOf(adds)) /\ l = Chars(AttachmentsOf(adds))
                         /\ p = Len(a.text) /\ q = Len(a.attachment)
  OBVIOUS
<1>14. /\ k \in Nat /\ l \in Nat /\ p \in Nat /\ q \in Nat /\ AddonChars(a) = p + q
       /\ Chars(TextsOf(bs)) = k + p /\ Chars(AttachmentsOf(bs)) = l + q
  BY <1>10, <1>11, <1>12, <1>13
<1>15. Chars(TextsOf(bs)) + Chars(AttachmentsOf(bs)) = k + l + AddonChars(a)
  BY ONLY <1>14
<1> QED BY <1>3, <1>13, <1>15

\* Addons that were taken fit.
Fits(adds, m, c) ==
    /\ adds \in Seq(Addons) /\ Len(adds) <= m
    /\ Chars(TextsOf(adds)) + Chars(AttachmentsOf(adds)) <= c

LEMMA NoneFits ==
    ASSUME NEW m \in Nat, NEW c \in Nat
    PROVE  Fits(<<>>, m, c)
<1>1. TextsOf(<<>>) = <<>> /\ AttachmentsOf(<<>>) = <<>>
  BY DEF TextsOf, AttachmentsOf
<1> QED BY <1>1, CharsEmpty DEF Fits

LEMMA TakingFits ==
    ASSUME NEW adds, NEW m \in Nat, NEW c \in Nat, Fits(adds, m, c), NEW a \in Addons
    PROVE  Fits(Taking(adds, a, m, c), m, c)
<1>1. adds \in Seq(Addons)
  BY DEF Fits
<1>2. CASE /\ Len(adds) < m
           /\ Chars(TextsOf(adds)) + Chars(AttachmentsOf(adds)) + AddonChars(a) <= c
  <2>1. Taking(adds, a, m, c) = Append(adds, a)
    BY <1>2 DEF Taking
  <2>2. Chars(TextsOf(Append(adds, a))) + Chars(AttachmentsOf(Append(adds, a))) <= c
    BY <1>1, <1>2, OneAddonMore
  <2>3. Append(adds, a) \in Seq(Addons) /\ Len(Append(adds, a)) <= m
    BY <1>1, <1>2
  <2> QED BY <2>1, <2>2, <2>3 DEF Fits
<1>3. CASE ~(/\ Len(adds) < m
             /\ Chars(TextsOf(adds)) + Chars(AttachmentsOf(adds)) + AddonChars(a) <= c)
  BY <1>3 DEF Taking
<1> QED BY <1>2, <1>3

\* g is what was taken of the first addons of adds.
Takes(adds, m, c, n, g) ==
    g = [k \in 0..n |-> IF k = 0 THEN <<>> ELSE Taking(g[k - 1], adds[k], m, c)]

LEMMA TakesExists ==
    ASSUME NEW adds, NEW m, NEW c, NEW n \in Nat
    PROVE  \E g : Takes(adds, m, c, n, g)
<1> DEFINE T == {k \in 0..n : \E g : Takes(adds, m, c, k, g)}
<1>1. 0 \in T
  <2>1. PICK g : g = [k \in 0..0 |-> <<>>]
    OBVIOUS
  <2>2. g = [k \in 0..0 |-> IF k = 0 THEN <<>> ELSE Taking(g[k - 1], adds[k], m, c)]
    BY <2>1
  <2>3. Takes(adds, m, c, 0, g)
    BY <2>2 DEF Takes
  <2> QED BY <2>3
<1>2. ASSUME NEW j \in 0..(n - 1), j \in T PROVE j + 1 \in T
  <2>1. PICK g : Takes(adds, m, c, j, g)
    BY <1>2
  <2>2. \A k \in 0..j : g[k] = IF k = 0 THEN <<>> ELSE Taking(g[k - 1], adds[k], m, c)
    <3>1. j \in Nat
      OBVIOUS
    <3> QED BY ONLY <2>1, <3>1, Zenon DEF Takes
  <2> DEFINE x == j + 1
             last == Taking(g[j], adds[x], m, c)
             h == [k \in 0..x |-> IF k = x THEN last ELSE g[k]]
  <2> HIDE DEF last
  <2>3. \A k \in 0..x : h[k] = IF k = 0 THEN <<>> ELSE Taking(h[k - 1], adds[k], m, c)
    <3> SUFFICES ASSUME NEW k \in 0..x
                 PROVE  h[k] = IF k = 0 THEN <<>> ELSE Taking(h[k - 1], adds[k], m, c)
      OBVIOUS
    <3>1. CASE k = x
      <4>1. h[x] = last /\ h[x - 1] = g[j] /\ x # 0
        OBVIOUS
      <4> QED BY <3>1, <4>1 DEF last
    <3>2. CASE k # x
      <4>1. k \in 0..j
        BY <3>2
      <4>2. h[k] = g[k] /\ (k # 0 => h[k - 1] = g[k - 1])
        BY <3>2
      <4> QED BY <2>2, <4>1, <4>2
    <3> QED BY <3>1, <3>2
  <2>4. Takes(adds, m, c, x, h)
    <3>1. h = [k \in 0..x |-> h[k]]
      OBVIOUS
    <3> HIDE DEF h
    <3> QED BY <2>3, <3>1, Zenon DEF Takes
  <2>5. x \in 0..n
    OBVIOUS
  <2> HIDE DEF h
  <2> QED BY <2>4, <2>5
<1> HIDE DEF T
<1>3. n \in T
  BY <1>1, <1>2, SetInduction
<1> QED BY <1>3 DEF T

\* What select_addons_within_budget returns fits what is left of the budget.
LEMMA SelectedFits ==
    ASSUME NEW adds \in Seq(Addons), NEW overall, NEW addons, NEW bl,
           NEW m \in Nat, m = Minimum(Minus(overall.messages, Len(bl)), addons.messages),
           NEW c \in Nat, c = Minimum(Minus(overall.chars, Chars(TextsOf(bl))), addons.chars)
    PROVE  Fits(Selected(adds, overall, addons, bl), m, c)
<1> DEFINE n == Len(adds)
           g == CHOOSE g : Takes(adds, m, c, n, g)
<1>1. n \in Nat
  OBVIOUS
<1>2. Selected(adds, overall, addons, bl) = g[n]
  BY DEF Selected, Takes
<1>3. Takes(adds, m, c, n, g)
  BY <1>1, TakesExists
<1> HIDE DEF g
<1>4. \A k \in 0..n : g[k] = IF k = 0 THEN <<>> ELSE Taking(g[k - 1], adds[k], m, c)
  <2> HIDE DEF n
  <2> QED BY ONLY <1>1, <1>3, Zenon DEF Takes
<1> DEFINE T == {k \in 0..n : Fits(g[k], m, c)}
<1>5. 0 \in T
  BY <1>1, <1>4, NoneFits
<1>6. ASSUME NEW j \in 0..(n - 1), j \in T PROVE j + 1 \in T
  <2>1. PICK k, t : k = j + 1 /\ t = g[j]
    OBVIOUS
  <2>2. k \in 0..n /\ k # 0 /\ k - 1 = j /\ adds[k] \in Addons
    BY <1>1, <2>1
  <2>3. g[k] = Taking(t, adds[k], m, c)
    BY <1>4, <2>1, <2>2
  <2>4. Fits(t, m, c)
    BY <1>6, <2>1
  <2>5. Fits(g[k], m, c)
    BY <2>2, <2>3, <2>4, TakingFits
  <2> QED BY <2>1, <2>2, <2>5
<1> HIDE DEF T
<1>7. n \in T
  <2> HIDE DEF n
  <2>1. \A k \in 0..(n - 1) : k \in T => k + 1 \in T
    BY <1>6
  <2>2. \A k \in 0..n : k \in T
    BY ONLY <1>1, <1>5, <2>1, SetInduction
  <2> QED BY <1>1, <2>2
<1> QED BY <1>2, <1>7 DEF T

\* The texts of joined messages are those of each, joined.
LEMMA TextsConcat ==
    ASSUME NEW s \in Seq(ChatMessages), NEW t \in Seq(ChatMessages)
    PROVE  /\ TextsOf(s) \in Seq(Seq(Lines)) /\ TextsOf(t) \in Seq(Seq(Lines))
           /\ TextsOf(s \o t) = TextsOf(s) \o TextsOf(t)
<1>1. \A m \in ChatMessages : m.text \in Seq(Lines)
  BY DEF ChatMessages
<1>2. PICK r, x, y, z, w : /\ r = s \o t /\ x = TextsOf(s) /\ y = TextsOf(t)
                           /\ z = TextsOf(r) /\ w = x \o y
  OBVIOUS
<1>3. /\ x \in Seq(Seq(Lines)) /\ Len(x) = Len(s) /\ \A i \in 1..Len(s) : x[i] = s[i].text
      /\ y \in Seq(Seq(Lines)) /\ Len(y) = Len(t) /\ \A i \in 1..Len(t) : y[i] = t[i].text
  BY <1>1, <1>2, TextsType
<1>4. /\ r \in Seq(ChatMessages) /\ Len(r) = Len(s) + Len(t)
      /\ Len(s) \in Nat /\ Len(t) \in Nat
      /\ \A i \in 1..Len(s) : r[i] = s[i]
      /\ \A i \in 1..Len(t) : r[Len(s) + i] = t[i]
  BY <1>2, Joined
<1>5. z \in Seq(Seq(Lines)) /\ Len(z) = Len(r) /\ \A i \in 1..Len(r) : z[i] = r[i].text
  BY <1>1, <1>2, <1>4, TextsType
<1>6. /\ w \in Seq(Seq(Lines)) /\ Len(w) = Len(x) + Len(y)
      /\ \A i \in 1..Len(x) : w[i] = x[i]
      /\ \A i \in 1..Len(y) : w[Len(x) + i] = y[i]
  <2>1. x \in Seq(Seq(Lines)) /\ y \in Seq(Seq(Lines)) /\ w = x \o y
    BY <1>2, <1>3
  <2> QED BY ONLY <2>1, Joined
<1>7. ASSUME NEW i \in 1..Len(z) PROVE z[i] = w[i]
  <2>1. CASE i \in 1..Len(s)
    <3>1. r[i] = s[i] /\ w[i] = x[i]
      BY <1>3, <1>4, <1>6, <2>1
    <3> QED BY <1>3, <1>4, <1>5, <2>1, <3>1
  <2>2. CASE i \notin 1..Len(s)
    <3>1. PICK k \in 1..Len(t) : i = Len(s) + k
      <4>1. i - Len(s) \in 1..Len(t) /\ i = Len(s) + (i - Len(s))
        BY <1>4, <1>5, <2>2
      <4> QED BY <4>1
    <3>2. r[i] = t[k] /\ w[i] = y[k]
      BY <1>3, <1>4, <1>6, <3>1
    <3> QED BY <1>3, <1>4, <1>5, <3>1, <3>2
  <2> QED BY <2>1, <2>2
<1>8. z = w
  BY ONLY <1>3, <1>4, <1>5, <1>6, <1>7, SeqEqual
<1> QED BY <1>2, <1>3, <1>8

\* The addons stand somewhere among the messages.
LEMMA InsertedAmong ==
    ASSUME NEW ms \in Seq(ChatMessages)
    PROVE  InsertionIndex(ms, TRUE) \in 0..Len(ms)
<1> DEFINE users == {i \in 1..Len(ms) : ms[i].role = "user"}
           last == CHOOSE i \in users : \A k \in users : k <= i
<1>1. Len(ms) \in Nat /\ users \in SUBSET (1..Len(ms))
  OBVIOUS
<1>2. InsertionIndex(ms, TRUE) = IF users = {} THEN Len(ms) ELSE last - 1
  BY DEF InsertionIndex
<1> HIDE DEF users
<1>3. users # {} => last \in users
  BY <1>1, LastExists
<1> HIDE DEF last
<1>4. users # {} => last \in 1..Len(ms)
  BY <1>1, <1>3
<1>5. (IF users = {} THEN Len(ms) ELSE last - 1) \in 0..Len(ms)
  BY <1>1, <1>4
<1> HIDE DEF last
<1> QED BY <1>2, <1>5, Zenon

\* What the pack is made of.
LEMMA AssembledOf ==
    ASSUME NEW bl \in Seq(ChatMessages), NEW adds \in Seq(Addons),
           NEW p, p = Assembled(bl, adds, TRUE)
    PROVE  /\ p \in Packs
           /\ Len(p.messages) = Len(bl) + Len(adds) /\ Len(p.attachments) = Len(adds)
           /\ Chars(TextsOf(p.messages)) = Chars(TextsOf(bl)) + Chars(TextsOf(adds))
           /\ p.attachments = AttachmentsOf(adds)
<1> DEFINE at == InsertionIndex(bl, TRUE)
<1>1. at \in 0..Len(bl) /\ Len(bl) \in Nat
  <2>1. at \in 0..Len(bl)
    BY InsertedAmong, Zenon
  <2>2. Len(bl) \in Nat
    OBVIOUS
  <2> QED BY <2>1, <2>2, Zenon
<1>2. PICK u, v, w : /\ u = SubSeq(bl, 1, at) /\ w = SubSeq(bl, at + 1, Len(bl))
                     /\ v = [i \in 1..Len(adds) |-> ChatMessage("addon", adds[i].text)]
  OBVIOUS
<1>3. /\ u \in Seq(ChatMessages) /\ w \in Seq(ChatMessages)
      /\ Len(u) = at /\ Len(w) = Len(bl) - at /\ u \o w = bl
  <2> HIDE DEF at
  <2>1. /\ u \in Seq(ChatMessages) /\ w \in Seq(ChatMessages)
        /\ Len(u) = at /\ Len(w) = Len(bl) - at
        /\ \A i \in 1..at : u[i] = bl[i]
        /\ \A i \in 1..(Len(bl) - at) : w[i] = bl[at + i]
    BY <1>1, <1>2
  <2>2. PICK x : x = u \o w
    OBVIOUS
  <2>3. /\ x \in Seq(ChatMessages) /\ Len(x) = Len(bl)
        /\ \A i \in 1..at : x[i] = u[i]
        /\ \A i \in 1..(Len(bl) - at) : x[at + i] = w[i]
    <3>1. /\ x \in Seq(ChatMessages) /\ Len(x) = Len(u) + Len(w)
          /\ \A i \in 1..Len(u) : x[i] = u[i]
          /\ \A i \in 1..Len(w) : x[Len(u) + i] = w[i]
      <4>1. u \in Seq(ChatMessages) /\ w \in Seq(ChatMessages) /\ x = u \o w
        BY <2>1, <2>2
      <4> QED BY ONLY <4>1, Joined
    <3> QED BY <1>1, <2>1, <3>1
  <2>4. ASSUME NEW i \in 1..Len(x) PROVE x[i] = bl[i]
    <3>1. CASE i \in 1..at
      BY <2>1, <2>3, <3>1
    <3>2. CASE i \notin 1..at
      <4>1. PICK k \in 1..(Len(bl) - at) : i = at + k
        <5>1. i - at \in 1..(Len(bl) - at) /\ at + (i - at) = i
          BY <1>1, <2>3, <3>2
        <5> QED BY <5>1
      <4>2. x[at + k] = w[k] /\ w[k] = bl[at + k]
        BY <2>1, <2>3
      <4> QED BY <4>1, <4>2
    <3> QED BY <3>1, <3>2
  <2>5. x = bl
    BY ONLY <2>3, <2>4, bl \in Seq(ChatMessages), SeqEqual
  <2> QED BY <2>1, <2>2, <2>5
<1>4. /\ TextsOf(adds) \in Seq(Seq(Lines)) /\ AttachmentsOf(adds) \in Seq(Seq(Lines))
      /\ Len(TextsOf(adds)) = Len(adds) /\ Len(AttachmentsOf(adds)) = Len(adds)
      /\ \A i \in 1..Len(adds) : TextsOf(adds)[i] = adds[i].text
      /\ Chars(TextsOf(adds)) \in Nat /\ Len(adds) \in Nat
  BY AddonsHave
<1>5. /\ v \in Seq(ChatMessages) /\ Len(v) = Len(adds)
      /\ \A i \in 1..Len(adds) : v[i].text = adds[i].text
  <2>1. ASSUME NEW i \in 1..Len(adds)
        PROVE  ChatMessage("addon", adds[i].text) \in ChatMessages
    <3>1. adds[i] \in Addons
      OBVIOUS
    <3>2. adds[i].text \in Seq(Lines)
      BY <3>1 DEF Addons
    <3> QED BY <3>2 DEF ChatMessage, ChatMessages
  <2>2. \A i \in 1..Len(adds) : ChatMessage("addon", adds[i].text).text = adds[i].text
    BY DEF ChatMessage
  <2> QED BY <1>2, <1>4, <2>1, <2>2
<1>6. TextsOf(v) = TextsOf(adds)
  BY <1>5 DEF TextsOf
<1>7. PICK x : x = u \o v
  OBVIOUS
<1>8. x \in Seq(ChatMessages) /\ Len(x) = at + Len(adds)
  <2>1. u \in Seq(ChatMessages) /\ v \in Seq(ChatMessages) /\ x = u \o v
    BY <1>3, <1>5, <1>7
  <2>2. x \in Seq(ChatMessages) /\ Len(x) = Len(u) + Len(v)
    BY ONLY <2>1, Joined
  <2> QED BY <1>3, <1>5, <2>2
<1>9. p.messages = x \o w /\ p.attachments = AttachmentsOf(adds)
      /\ p = [messages |-> x \o w, attachments |-> AttachmentsOf(adds)]
  BY <1>2, <1>7 DEF Assembled
<1>10. x \o w \in Seq(ChatMessages) /\ Len(x \o w) = Len(bl) + Len(adds)
  <2>1. x \o w \in Seq(ChatMessages) /\ Len(x \o w) = Len(x) + Len(w)
    <3>1. PICK y : y = x \o w
      OBVIOUS
    <3>2. x \in Seq(ChatMessages) /\ w \in Seq(ChatMessages) /\ y = x \o w
      BY <1>3, <1>8, <3>1
    <3>3. y \in Seq(ChatMessages) /\ Len(y) = Len(x) + Len(w)
      BY ONLY <3>2, Joined
    <3> QED BY <3>1, <3>3
  <2> HIDE DEF at
  <2> QED BY <1>1, <1>3, <1>4, <1>8, <2>1
<1>11. p \in Packs
  BY <1>4, <1>9, <1>10 DEF Packs
<1>12. /\ Chars(TextsOf(x \o w)) = Chars(TextsOf(x)) + Chars(TextsOf(w))
       /\ Chars(TextsOf(x)) = Chars(TextsOf(u)) + Chars(TextsOf(v))
       /\ Chars(TextsOf(bl)) = Chars(TextsOf(u)) + Chars(TextsOf(w))
       /\ Chars(TextsOf(u)) \in Nat /\ Chars(TextsOf(w)) \in Nat
  <2>1. ASSUME NEW s \in Seq(ChatMessages), NEW t \in Seq(ChatMessages)
        PROVE  /\ Chars(TextsOf(s \o t)) = Chars(TextsOf(s)) + Chars(TextsOf(t))
               /\ Chars(TextsOf(s)) \in Nat /\ Chars(TextsOf(t)) \in Nat
    BY TextsConcat, CharsAdd
  <2> QED BY <1>3, <1>5, <1>7, <1>8, <2>1
<1>13. Chars(TextsOf(p.messages)) = Chars(TextsOf(bl)) + Chars(TextsOf(adds))
  <2>1. PICK cx, cu, cv, cw : /\ cx = Chars(TextsOf(x)) /\ cu = Chars(TextsOf(u))
                             /\ cv = Chars(TextsOf(v)) /\ cw = Chars(TextsOf(w))
    OBVIOUS
  <2>2. cv \in Nat
    <3>1. TextsOf(v) \in Seq(Seq(Lines))
      BY <1>5, TextsConcat
    <3> QED BY <2>1, <3>1, CharsAdd
  <2>3. cu \in Nat /\ cw \in Nat /\ Chars(TextsOf(x \o w)) = (cu + cv) + cw
        /\ Chars(TextsOf(bl)) = cu + cw /\ Chars(TextsOf(adds)) = cv
    BY <1>6, <1>12, <2>1
  <2>4. (cu + cv) + cw = (cu + cw) + cv
    BY ONLY <2>2, <2>3
  <2> QED BY <1>9, <2>3, <2>4
<1> QED BY <1>4, <1>9, <1>10, <1>11, <1>13

\* The pack of an instruction, a history and their addons, of whatever they were left with.
InBudget(p, in) ==
    LET share == HistoryBudget(Budget, AddonsBudget)
        last == IF in.history = <<>> THEN 0 ELSE Len(in.history[Len(in.history)].text)
        kept == IF last > share.chars THEN last ELSE share.chars
        total == Chars(TextsOf(p.messages)) + Chars(p.attachments)
    IN  /\ Len(p.attachments) <= AddonsBudget.messages
        /\ \/ Len(p.messages) <= Budget.messages
           \/ Len(p.messages) <= share.messages + Len(in.instruction)
        /\ \/ total <= Budget.chars
           \/ total <= kept + Chars(in.instruction)

\* What the history keeps, also when there is none.
LEMMA HistoryFits ==
    ASSUME NEW ms \in Seq(ChatMessages), NEW budget,
           budget.messages \in Nat, budget.chars \in Nat, budget.messages # 0,
           NEW last, last = IF ms = <<>> THEN 0 ELSE Len(ms[Len(ms)].text)
    PROVE  /\ TailWindow(ms, budget) \in Seq(ChatMessages)
           /\ Len(TailWindow(ms, budget)) <= budget.messages
           /\ Chars(TextsOf(TailWindow(ms, budget))) \in Nat /\ last \in Nat
           /\ \/ Chars(TextsOf(TailWindow(ms, budget))) <= budget.chars
              \/ Chars(TextsOf(TailWindow(ms, budget))) = last
<1>1. CASE ms = <<>>
  <2>1. PICK w : w = TailWindow(ms, budget)
    OBVIOUS
  <2>2. w = <<>> /\ last = 0
    BY <1>1, <2>1 DEF TailWindow
  <2>3. TextsOf(<<>>) = <<>>
    BY DEF TextsOf
  <2>4. w \in Seq(ChatMessages) /\ Len(w) = 0
    BY <2>2
  <2>5. Chars(TextsOf(w)) = 0
    BY <2>2, <2>3, CharsEmpty
  <2>6. 0 <= budget.messages /\ 0 \in Nat
    OBVIOUS
  <2> QED BY <2>1, <2>2, <2>4, <2>5, <2>6
<1>2. CASE ms # <<>>
  <2>1. PICK m : m = ms[Len(ms)]
    OBVIOUS
  <2>2. m \in ChatMessages
    BY <1>2, <2>1
  <2>3. m.text \in Seq(Lines)
    BY <2>2 DEF ChatMessages
  <2>4. last = Len(m.text) /\ last \in Nat
    BY <1>2, <2>1, <2>3
  <2> QED BY <1>2, <2>1, <2>4, TailFits
<1> QED BY <1>1, <1>2

\* The messages of the instruction.
Instructing(texts) == [i \in 1..Len(texts) |-> ChatMessage("system", texts[i])]

LEMMA InstructingType ==
    ASSUME NEW texts \in Seq(Seq(Lines))
    PROVE  /\ Instructing(texts) \in Seq(ChatMessages) /\ Len(Instructing(texts)) = Len(texts)
           /\ TextsOf(Instructing(texts)) = texts
           /\ Chars(texts) \in Nat /\ Len(texts) \in Nat
<1>1. PICK sy, Q : sy = Instructing(texts) /\ Q = Seq(Lines)
  OBVIOUS
<1>2. texts \in Seq(Q) /\ Len(texts) \in Nat /\ \A i \in 1..Len(texts) : texts[i] \in Q
  BY <1>1
<1>3. ASSUME NEW x \in Q
      PROVE  ChatMessage("system", x) \in ChatMessages /\ ChatMessage("system", x).text = x
  <2>1. x \in Seq(Lines)
    BY <1>1
  <2> QED BY <2>1 DEF ChatMessage, ChatMessages
<1>4. /\ sy \in Seq(ChatMessages) /\ Len(sy) = Len(texts)
      /\ \A i \in 1..Len(texts) : sy[i].text = texts[i]
  <2>1. sy = [i \in 1..Len(texts) |-> ChatMessage("system", texts[i])]
    BY <1>1 DEF Instructing
  <2>2. \A i \in 1..Len(texts) : /\ ChatMessage("system", texts[i]) \in ChatMessages
                                 /\ ChatMessage("system", texts[i]).text = texts[i]
    BY <1>2, <1>3
  <2> QED BY ONLY <1>2, <2>1, <2>2
<1>5. TextsOf(sy) = texts
  <2>1. PICK y : y = TextsOf(sy)
    OBVIOUS
  <2>2. y \in Seq(Q) /\ Len(y) = Len(texts) /\ \A i \in 1..Len(y) : y[i] = texts[i]
    <3>1. y = [i \in 1..Len(sy) |-> sy[i].text]
      BY <2>1 DEF TextsOf
    <3> QED BY ONLY <1>2, <1>4, <3>1
  <2>3. y = texts
    BY ONLY <1>2, <2>2, SeqEqual
  <2> QED BY <2>1, <2>3
<1> QED BY <1>1, <1>2, <1>4, <1>5, CharsAppend

LEMMA PackInBudget ==
    ASSUME SendAssumption, NEW in, NEW ms \in Seq(ChatMessages), in.history = ms,
           NEW texts \in Seq(Seq(Lines)), in.instruction = texts,
           NEW adds \in Seq(Addons),
           NEW tail, tail = TailWindow(ms, HistoryBudget(Budget, AddonsBudget)),
           NEW bl, bl = Instructing(texts) \o tail,
           NEW p, p = Assembled(bl, Selected(adds, Budget, AddonsBudget, bl), TRUE)
    PROVE  p \in Packs /\ InBudget(p, in)
<1>1. PICK bm, bc, am, ac : /\ bm = Budget.messages /\ bc = Budget.chars
                            /\ am = AddonsBudget.messages /\ ac = AddonsBudget.chars
  OBVIOUS
<1>2. bm \in Nat /\ bc \in Nat /\ am \in Nat /\ ac \in Nat /\ bm > am
  BY <1>1 DEF SendAssumption
<1>3. PICK hb : hb = HistoryBudget(Budget, AddonsBudget)
  OBVIOUS
<1>4. /\ hb.messages = Minus(bm, am) /\ hb.chars = Minus(bc, ac)
      /\ hb.messages \in Nat /\ hb.chars \in Nat /\ hb.messages # 0
  BY <1>1, <1>2, <1>3 DEF HistoryBudget, Minus
<1>5. PICK last : last = IF ms = <<>> THEN 0 ELSE Len(ms[Len(ms)].text)
  OBVIOUS
<1>6. PICK hm, hc, im, ic : /\ hm = Len(tail) /\ hc = Chars(TextsOf(tail))
                            /\ im = Len(texts) /\ ic = Chars(texts)
  OBVIOUS
<1>7. /\ tail \in Seq(ChatMessages) /\ hm <= Minus(bm, am) /\ hc \in Nat /\ hm \in Nat
      /\ hc <= Minus(bc, ac) \/ hc = last
      /\ last \in Nat
  <2>1. /\ TailWindow(ms, hb) \in Seq(ChatMessages)
        /\ Len(TailWindow(ms, hb)) <= hb.messages
        /\ Chars(TextsOf(TailWindow(ms, hb))) \in Nat /\ last \in Nat
        /\ \/ Chars(TextsOf(TailWindow(ms, hb))) <= hb.chars
           \/ Chars(TextsOf(TailWindow(ms, hb))) = last
    BY <1>4, <1>5, HistoryFits
  <2>2. tail = TailWindow(ms, hb)
    BY <1>3
  <2>3. tail \in Seq(ChatMessages)
    BY <2>1, <2>2
  <2>4. Len(tail) \in Nat
    BY <2>3
  <2> QED BY <1>4, <1>6, <2>1, <2>2, <2>3, <2>4
<1>8. PICK sy : sy = Instructing(texts)
  OBVIOUS
<1>9. sy \in Seq(ChatMessages) /\ Len(sy) = im /\ TextsOf(sy) = texts /\ ic \in Nat /\ im \in Nat
  BY <1>6, <1>8, InstructingType
<1>10. /\ bl \in Seq(ChatMessages) /\ Len(bl) = hm + im /\ Chars(TextsOf(bl)) = hc + ic
  <2>1. bl = sy \o tail
    BY <1>8
  <2>2. bl \in Seq(ChatMessages) /\ Len(bl) = Len(sy) + Len(tail)
    <3>1. sy \in Seq(ChatMessages) /\ tail \in Seq(ChatMessages) /\ bl = sy \o tail
      BY <1>7, <1>9, <2>1
    <3> QED BY ONLY <3>1, Joined
  <2>3. /\ TextsOf(sy) \in Seq(Seq(Lines)) /\ TextsOf(tail) \in Seq(Seq(Lines))
        /\ TextsOf(bl) = TextsOf(sy) \o TextsOf(tail)
    BY <1>7, <1>9, <2>1, TextsConcat
  <2>4. Chars(TextsOf(bl)) = Chars(TextsOf(sy)) + Chars(TextsOf(tail))
    BY <2>3, CharsAdd
  <2> QED BY <1>6, <1>7, <1>9, <2>2, <2>4
<1>11. PICK m, c : m = Minimum(Minus(bm, hm + im), am) /\ c = Minimum(Minus(bc, hc + ic), ac)
  OBVIOUS
<1>12. m \in Nat /\ c \in Nat
  BY <1>2, <1>7, <1>9, <1>11 DEF Minimum, Minus
<1>13. PICK s : s = Selected(adds, Budget, AddonsBudget, bl)
  OBVIOUS
<1>14. Fits(s, m, c)
  <2>1. /\ m = Minimum(Minus(Budget.messages, Len(bl)), AddonsBudget.messages)
        /\ c = Minimum(Minus(Budget.chars, Chars(TextsOf(bl))), AddonsBudget.chars)
    BY <1>1, <1>10, <1>11
  <2> QED BY <1>12, <1>13, <2>1, SelectedFits
<1>15. s \in Seq(Addons)
  BY <1>14 DEF Fits
<1>16. /\ p \in Packs
       /\ Len(p.messages) = Len(bl) + Len(s) /\ Len(p.attachments) = Len(s)
       /\ Chars(TextsOf(p.messages)) = Chars(TextsOf(bl)) + Chars(TextsOf(s))
       /\ p.attachments = AttachmentsOf(s)
  <2>1. bl \in Seq(ChatMessages) /\ p = Assembled(bl, s, TRUE)
    BY <1>10, <1>13
  <2> QED BY ONLY <1>15, <2>1, AssembledOf
<1>17. PICK n, x, y, k : /\ n = Len(s) /\ x = Chars(TextsOf(s)) /\ y = Chars(AttachmentsOf(s))
                         /\ k = x + y
  OBVIOUS
<1>18. n \in Nat /\ x \in Nat /\ y \in Nat /\ k \in Nat
  BY <1>15, <1>17, AddonsHave
<1>19. n <= m /\ k <= c
  BY <1>14, <1>17 DEF Fits
<1>20. /\ n <= am
       /\ hm + im + n <= bm \/ hm + im + n <= Minus(bm, am) + im
       /\ \/ hc + ic + k <= bc
          \/ hc + ic + k <= (IF last > Minus(bc, ac) THEN last ELSE Minus(bc, ac)) + ic
  <2>1. /\ bm \in Nat /\ bc \in Nat /\ am \in Nat /\ ac \in Nat
        /\ hm \in Nat /\ hc \in Nat /\ im \in Nat /\ ic \in Nat
        /\ n \in Nat /\ k \in Nat /\ last \in Nat
    BY <1>2, <1>7, <1>9, <1>18
  <2>2. PICK sm, sc, lm, lc : /\ sm = Minus(bm, am) /\ sc = Minus(bc, ac)
                              /\ lm = Minus(bm, hm + im) /\ lc = Minus(bc, hc + ic)
    OBVIOUS
  <2>3. /\ sm \in Nat /\ sc \in Nat
        /\ lm = (IF bm < hm + im THEN 0 ELSE bm - (hm + im))
        /\ lc = (IF bc < hc + ic THEN 0 ELSE bc - (hc + ic))
    BY <2>1, <2>2 DEF Minus
  <2>4. n <= lm /\ n <= am /\ k <= lc
    <3>1. lm \in Nat /\ lc \in Nat
      BY <2>1, <2>3
    <3> QED BY <1>11, <1>19, <2>1, <2>2, <3>1 DEF Minimum
  <2>5. hm <= sm /\ (hc <= sc \/ hc = last)
    BY <1>7, <2>2
  <2>6. hm + im + n <= bm \/ hm + im + n <= sm + im
    BY ONLY <2>3, <2>4, <2>1, <2>5
  <2>7. \/ hc + ic + k <= bc
        \/ hc + ic + k <= (IF last > sc THEN last ELSE sc) + ic
    <3>1. CASE bc < hc + ic
      <4>1. k = 0
        BY ONLY <2>1, <2>3, <2>4, <3>1
      <4>2. hc <= (IF last > sc THEN last ELSE sc)
        BY ONLY <2>3, <2>1, <2>5
      <4>3. PICK q : q = IF last > sc THEN last ELSE sc
        OBVIOUS
      <4>4. q \in Nat /\ hc <= q
        BY ONLY <2>3, <4>2, <2>1, <4>3
      <4> QED BY ONLY <4>1, <4>3, <2>1, <4>4
    <3>2. CASE ~(bc < hc + ic)
      BY ONLY <2>3, <2>4, <2>1, <3>2
    <3> QED BY <3>1, <3>2
  <2> QED BY <2>2, <2>4, <2>6, <2>7
<1>21. /\ Len(p.messages) = hm + im + n /\ Len(p.attachments) = n
       /\ Chars(TextsOf(p.messages)) + Chars(p.attachments) = hc + ic + k
  <2>1. PICK u, v, w, z : /\ u = Len(p.messages) /\ v = Chars(TextsOf(p.messages))
                          /\ w = Len(bl) /\ z = Chars(TextsOf(bl))
    OBVIOUS
  <2>2. u = w + n /\ w = hm + im /\ v = z + x /\ z = hc + ic
    BY <1>10, <1>16, <1>17, <2>1
  <2>3. u = hm + im + n /\ v + y = hc + ic + k
    <3>1. hm \in Nat /\ im \in Nat /\ hc \in Nat /\ ic \in Nat /\ k = x + y
      BY <1>7, <1>9, <1>17
    <3> QED BY ONLY <1>18, <2>2, <3>1
  <2>4. Len(p.attachments) = n /\ Chars(p.attachments) = y
    BY <1>16, <1>17
  <2> QED BY <2>1, <2>3, <2>4
<1>22. PICK total, kept : /\ total = hc + ic + k
                          /\ kept = IF last > hb.chars THEN last ELSE hb.chars
  OBVIOUS
<1>23. InBudget(p, in) <=>
          /\ Len(p.attachments) <= am
          /\ Len(p.messages) <= bm \/ Len(p.messages) <= hb.messages + im
          /\ total <= bc \/ total <= kept + ic
  BY <1>1, <1>3, <1>5, <1>6, <1>21, <1>22 DEF InBudget
<1>24. kept = IF last > Minus(bc, ac) THEN last ELSE Minus(bc, ac)
  BY <1>4, <1>22
<1>25. InBudget(p, in)
  BY <1>4, <1>20, <1>21, <1>22, <1>23, <1>24
<1> QED BY <1>16, <1>25

\* Screening changes addons to addons.
LEMMA ScreenedType ==
    ASSUME NEW adds \in Seq(Addons), NEW mo, NEW ao,
           \A i \in 1..Len(adds) : mo[i] \in Outcomes /\ ao[i] \in Outcomes
    PROVE  Screened(adds, mo, ao) \in Seq(Addons)
<1> DEFINE out(o) == o.kind \in {"deny", "error"}
           new(o, lines) == IF o.kind = "masked" THEN o.text ELSE lines
           one(i) == [adds[i] EXCEPT !.text = new(mo[i], @), !.attachment = new(ao[i], @)]
           pieces == [i \in 1..Len(adds) |-> IF out(mo[i]) \/ out(ao[i]) THEN <<>> ELSE <<one(i)>>]
<1>1. Screened(adds, mo, ao) = FlattenSeq(pieces)
  BY DEF Screened
<1>2. ASSUME NEW i \in 1..Len(adds) PROVE one(i) \in Addons
  <2>1. adds[i] \in Addons
    OBVIOUS
  <2>2. PICK pr \in Nat, x \in Seq(Lines), y \in Seq(Lines) :
            adds[i] = [priority |-> pr, text |-> x, attachment |-> y]
    BY <2>1 DEF Addons
  <2>3. PICK u, v : u = new(mo[i], x) /\ v = new(ao[i], y)
    OBVIOUS
  <2>4. u \in Seq(Lines) /\ v \in Seq(Lines)
    BY <2>3 DEF Outcomes
  <2>5. one(i) = [priority |-> pr, text |-> u, attachment |-> v]
    <3>1. PICK a : a = adds[i]
      OBVIOUS
    <3>2. a = [priority |-> pr, text |-> x, attachment |-> y]
      BY <2>2, <3>1
    <3>3. a.text = x /\ a.attachment = y
      BY ONLY <3>2
    <3>4. one(i) = [a EXCEPT !.text = u, !.attachment = v]
      BY <2>3, <3>1, <3>3
    <3>5. PICK b : b = [a EXCEPT !.text = u]
      OBVIOUS
    <3>6. b = [priority |-> pr, text |-> u, attachment |-> y]
      BY ONLY <3>2, <3>5
    <3>7. [b EXCEPT !.attachment = v] = [priority |-> pr, text |-> u, attachment |-> v]
      BY ONLY <3>6
    <3>8. one(i) = [b EXCEPT !.attachment = v]
      BY ONLY <3>4, <3>5, Zenon
    <3> QED BY ONLY <3>7, <3>8
  <2> HIDE DEF one
  <2> QED BY ONLY <2>2, <2>4, <2>5 DEF Addons
<1> HIDE DEF one
<1>3. pieces \in Seq(Seq(Addons))
  <2>1. ASSUME NEW i \in 1..Len(adds)
        PROVE  (IF out(mo[i]) \/ out(ao[i]) THEN <<>> ELSE <<one(i)>>) \in Seq(Addons)
    <3>1. <<one(i)>> \in Seq(Addons) /\ <<>> \in Seq(Addons)
      BY <1>2
    <3> QED BY <3>1
  <2> HIDE DEF out
  <2>2. Len(adds) \in Nat
    OBVIOUS
  <2> QED BY <2>1, <2>2
<1> HIDE DEF pieces
<1> QED BY <1>1, <1>3, FlattenType

-----------------------------------------------------------------------------
\* What a run starts with

\* R orders the numbers up to n, and their places in it are these numbers again.
Orders(n, R) ==
    /\ \A i, j \in 1..n : i # j => <<i, j>> \in R \/ <<j, i>> \in R
    /\ \A i \in 1..n : <<i, i>> \notin R
    /\ \A i, j, k \in 1..n : <<i, j>> \in R /\ <<j, k>> \in R => <<i, k>> \in R
Placed(n, R) ==
    \A p \in 1..n : \E i \in 1..n : Cardinality({k \in 1..n : <<k, i>> \in R}) + 1 = p

LEMMA EveryPlaceTaken ==
    ASSUME NEW n \in Nat, NEW R, Orders(n, R)
    PROVE  Placed(n, R)
<1> DEFINE pre(i) == {k \in 1..n : <<k, i>> \in R}
           f == [i \in 1..n |-> Cardinality(pre(i)) + 1]
<1>0. /\ \A i, j \in 1..n : i # j => <<i, j>> \in R \/ <<j, i>> \in R
      /\ \A i \in 1..n : <<i, i>> \notin R
      /\ \A i, j, k \in 1..n : <<i, j>> \in R /\ <<j, k>> \in R => <<i, k>> \in R
  BY DEF Orders
<1>1. IsFiniteSet(1..n) /\ Cardinality(1..n) = n
  BY FS_Interval
<1>2. ASSUME NEW i \in 1..n
      PROVE  /\ pre(i) \in SUBSET (1..n) /\ pre(i) # 1..n /\ IsFiniteSet(pre(i))
             /\ Cardinality(pre(i)) \in Nat /\ Cardinality(pre(i)) < n
  <2>1. pre(i) \in SUBSET (1..n) /\ pre(i) # 1..n
    BY <1>0
  <2> HIDE DEF pre
  <2>2. /\ IsFiniteSet(pre(i)) /\ Cardinality(pre(i)) <= n
        /\ n = Cardinality(pre(i)) => 1..n = pre(i)
    BY <1>1, <2>1, FS_Subset
  <2>3. Cardinality(pre(i)) \in Nat
    BY <2>2, FS_CardinalityType
  <2> QED BY <2>1, <2>2, <2>3
<1>3. ASSUME NEW i \in 1..n, NEW j \in 1..n, <<i, j>> \in R
      PROVE  Cardinality(pre(i)) < Cardinality(pre(j))
  <2>1. pre(i) \in SUBSET pre(j) /\ pre(i) # pre(j)
    <3>1. i \in pre(j) /\ i \notin pre(i)
      BY <1>0, <1>3
    <3>2. pre(i) \subseteq pre(j)
      BY <1>0, <1>3
    <3> HIDE DEF pre
    <3> QED BY <3>1, <3>2
  <2>2. IsFiniteSet(pre(j)) /\ Cardinality(pre(i)) \in Nat /\ Cardinality(pre(j)) \in Nat
    BY <1>2
  <2> HIDE DEF pre
  <2>3. /\ Cardinality(pre(i)) <= Cardinality(pre(j))
        /\ Cardinality(pre(j)) = Cardinality(pre(i)) => pre(j) = pre(i)
    BY <2>1, <2>2, FS_Subset
  <2> QED BY <2>1, <2>2, <2>3
<1>4. f \in [1..n -> 1..n]
  <2>1. ASSUME NEW i \in 1..n PROVE Cardinality(pre(i)) + 1 \in 1..n
    <3>1. PICK c : c = Cardinality(pre(i))
      OBVIOUS
    <3>2. c \in Nat /\ c < n
      BY <1>2, <3>1
    <3> HIDE DEF pre
    <3> QED BY <3>1, <3>2
  <2> HIDE DEF pre
  <2> QED BY <2>1
<1>5. \A i, j \in 1..n : i # j => f[i] # f[j]
  <2> SUFFICES ASSUME NEW i \in 1..n, NEW j \in 1..n, i # j PROVE f[i] # f[j]
    OBVIOUS
  <2>1. Cardinality(pre(i)) < Cardinality(pre(j)) \/ Cardinality(pre(j)) < Cardinality(pre(i))
    <3>1. <<i, j>> \in R \/ <<j, i>> \in R
      BY <1>0
    <3> HIDE DEF pre
    <3> QED BY <1>3, <3>1
  <2>2. /\ Cardinality(pre(i)) \in Nat /\ Cardinality(pre(j)) \in Nat
        /\ f[i] = Cardinality(pre(i)) + 1 /\ f[j] = Cardinality(pre(j)) + 1
    BY <1>2
  <2> HIDE DEF pre, f
  <2> QED BY <2>1, <2>2
<1>6. f \in Injection(1..n, 1..n)
  <2> HIDE DEF f
  <2> QED BY <1>4, <1>5 DEF Injection, IsInjective
<1>7. f \in Surjection(1..n, 1..n)
  <2> HIDE DEF f
  <2> QED BY <1>1, <1>6, FS_Injection
<1>8. \A p \in 1..n : \E i \in 1..n : f[i] = p
  <2> HIDE DEF f
  <2> QED BY <1>7 DEF Surjection
<1> QED BY <1>8 DEF Placed

\* Sorting loses no addon and makes none up.
LEMMA SortedType ==
    ASSUME NEW adds \in Seq(Addons)
    PROVE  ByPriority(adds) \in Seq(Addons) /\ Len(ByPriority(adds)) = Len(adds)
<1> DEFINE n == Len(adds)
           ahead(i, k) == adds[i].priority > adds[k].priority
                           \/ (adds[i].priority = adds[k].priority /\ i < k)
           R == {r \in (1..n) \X (1..n) : ahead(r[1], r[2])}
<1>1. n \in Nat /\ \A i \in 1..n : adds[i].priority \in Nat
  <2>1. \A a \in Addons : a.priority \in Nat
    BY DEF Addons
  <2>2. n \in Nat /\ \A i \in 1..n : adds[i] \in Addons
    OBVIOUS
  <2> QED BY <2>1, <2>2
<1>2. \A i, k \in 1..n : <<i, k>> \in R <=> ahead(i, k)
  OBVIOUS
<1>3. /\ \A i, j \in 1..n : i # j => ahead(i, j) \/ ahead(j, i)
      /\ \A i \in 1..n : ~ahead(i, i)
      /\ \A i, j, k \in 1..n : ahead(i, j) /\ ahead(j, k) => ahead(i, k)
  <2> HIDE DEF n
  <2>1. \A i, j \in 1..n : i # j => ahead(i, j) \/ ahead(j, i)
    BY <1>1
  <2>2. \A i \in 1..n : ~ahead(i, i)
    BY <1>1
  <2>3. ASSUME NEW i \in 1..n, NEW j \in 1..n, NEW k \in 1..n, ahead(i, j), ahead(j, k)
        PROVE  ahead(i, k)
    <3>1. PICK a, b, c : /\ a = adds[i].priority /\ b = adds[j].priority
                         /\ c = adds[k].priority
      OBVIOUS
    <3>2. a \in Nat /\ b \in Nat /\ c \in Nat /\ i \in Nat /\ j \in Nat /\ k \in Nat
      BY <1>1, <3>1
    <3>3. (a > b \/ (a = b /\ i < j)) /\ (b > c \/ (b = c /\ j < k))
      BY <2>3, <3>1
    <3>4. a > c \/ (a = c /\ i < k)
      BY ONLY <3>2, <3>3
    <3> QED BY <3>1, <3>4
  <2> HIDE DEF ahead
  <2> QED BY <2>1, <2>2, <2>3
<1> DEFINE sooner(i) == {k \in 1..n : ahead(k, i)}
<1>4. \A p \in 1..n : \E i \in 1..n : Cardinality(sooner(i)) + 1 = p
  <2>1. \A i \in 1..n : sooner(i) = {k \in 1..n : <<k, i>> \in R}
    BY <1>2
  <2> HIDE DEF ahead, R, sooner
  <2>2. Orders(n, R)
    BY <1>2, <1>3 DEF Orders
  <2>3. Placed(n, R)
    <3> HIDE DEF n
    <3> QED BY <1>1, <2>2, EveryPlaceTaken
  <2> QED BY <2>1, <2>3 DEF Placed
<1>5. ByPriority(adds) = [p \in 1..n |->
          adds[CHOOSE i \in 1..n : Cardinality(sooner(i)) + 1 = p]]
  BY DEF ByPriority
<1> HIDE DEF sooner
<1>6. \A p \in 1..n : (CHOOSE i \in 1..n : Cardinality(sooner(i)) + 1 = p) \in 1..n
  BY <1>4
<1>7. \A i \in 1..n : adds[i] \in Addons
  OBVIOUS
<1> HIDE DEF n
<1>8. /\ [p \in 1..n |-> adds[CHOOSE i \in 1..n : Cardinality(sooner(i)) + 1 = p]]
             \in Seq(Addons)
      /\ Len([p \in 1..n |-> adds[CHOOSE i \in 1..n : Cardinality(sooner(i)) + 1 = p]]) = n
  <2>1. PICK g : g = [p \in 1..n |-> CHOOSE i \in 1..n : Cardinality(sooner(i)) + 1 = p]
    OBVIOUS
  <2>2. \A p \in 1..n : g[p] \in 1..n
    BY <1>6, <2>1
  <2>3. [p \in 1..n |-> adds[CHOOSE i \in 1..n : Cardinality(sooner(i)) + 1 = p]]
            = [p \in 1..n |-> adds[g[p]]]
    BY <2>1
  <2>4. /\ [p \in 1..n |-> adds[g[p]]] \in Seq(Addons)
        /\ Len([p \in 1..n |-> adds[g[p]]]) = n
    BY ONLY <1>1, <1>7, <2>2
  <2> QED BY <2>3, <2>4
<1> QED BY <1>5, <1>8 DEF n

\* A sequence over a part of a set is one over the set.
LEMMA SeqOfMore ==
    ASSUME NEW S, NEW U, S \subseteq U, NEW s \in Seq(S)
    PROVE  s \in Seq(U)
  OBVIOUS

\* The history, the messages that are kept of it, and the addons of a run.
LEMMA Given ==
    ASSUME NEW in \in Inputs, NEW c \in Configs
    PROVE  /\ in.history \in Seq(ChatMessages) /\ in.instruction \in Seq(Seq(Lines))
           /\ Baseline(in, c) \in Seq(ChatMessages)
           /\ ByPriority(Collected(in.place, in.words)) \in Seq(Addons)
<1>1. Unmasked \subseteq Seq(Lines)
  <2>1. {"plain", "secret"} \subseteq Lines
    BY DEF Lines
  <2>2. \A x \in Seq({"plain", "secret"}) : x \in Seq(Lines)
    BY <2>1, SeqOfMore
  <2> QED BY <2>2 DEF Unmasked
<1>2. [role : {"user", "assistant"}, text : Unmasked] \subseteq ChatMessages
  BY <1>1 DEF ChatMessages
<1>3. [priority : Nat, text : Unmasked, attachment : Unmasked] \subseteq Addons
  BY <1>1 DEF Addons
<1>4. /\ in.history \in Seq([role : {"user", "assistant"}, text : Unmasked])
      /\ in.instruction \in Seq(Unmasked)
      /\ Collected(in.place, in.words)
             \in Seq([priority : Nat, text : Unmasked, attachment : Unmasked])
  BY SendAssumption DEF SendAssumption
<1>5. /\ in.history \in Seq(ChatMessages) /\ Collected(in.place, in.words) \in Seq(Addons)
      /\ in.instruction \in Seq(Seq(Lines))
  <2>1. PICK A, B, U, L, h, f, g :
            /\ A = [role : {"user", "assistant"}, text : Unmasked]
            /\ B = [priority : Nat, text : Unmasked, attachment : Unmasked]
            /\ U = Unmasked /\ L = Seq(Lines)
            /\ h = in.history /\ f = Collected(in.place, in.words) /\ g = in.instruction
    OBVIOUS
  <2>2. /\ A \subseteq ChatMessages /\ B \subseteq Addons /\ U \subseteq L
        /\ h \in Seq(A) /\ f \in Seq(B) /\ g \in Seq(U)
    BY <1>1, <1>2, <1>3, <1>4, <2>1
  <2>3. h \in Seq(ChatMessages) /\ f \in Seq(Addons) /\ g \in Seq(L)
    BY ONLY <2>2, SeqOfMore
  <2> QED BY <2>1, <2>3
<1>6. PICK hb : hb = HistoryBudget(Budget, AddonsBudget)
  OBVIOUS
<1>7. hb.messages \in Nat /\ hb.chars \in Nat /\ hb.messages # 0
  BY <1>6, SendAssumption DEF SendAssumption, HistoryBudget, Minus
<1>8. TailWindow(in.history, hb) \in Seq(ChatMessages)
  BY <1>5, <1>7, HistoryFits
<1>9. PICK ms, sy : ms = Reduced(c.strategy, in.history, hb) /\ sy = Instructing(in.instruction)
  OBVIOUS
<1>10. ms \in Seq(ChatMessages) /\ sy \in Seq(ChatMessages)
  BY <1>5, <1>8, <1>9, InstructingType DEF Reduced
<1>11. sy \o ms \in Seq(ChatMessages)
  BY ONLY <1>10
<1>12. Baseline(in, c) = sy \o ms
  BY <1>6, <1>9 DEF Baseline, Instructing
<1> QED BY <1>5, <1>11, <1>12, SortedType

-----------------------------------------------------------------------------
\* The two processes

\* leakscan's pipes while it looks at the lines of x, of which it has seen the first k.
Untouched(x, k, si, un) ==
    /\ k \in Nat /\ Len(x) = k + Len(si) + Len(un)
    /\ \A i \in 1..Len(si) : si[i] = x[k + i]
    /\ \A i \in 1..Len(un) : un[i] = x[k + Len(si) + i]
FoundIn(x, k) == \E i \in 1..k : x[i] = "secret"
Mask(line) == IF line = "secret" THEN "masked" ELSE line
\* What it has said of them: a check prints a secret line, a mask every line.
Said(what, x, k, so, an) ==
    /\ what = "check" => (so # <<>> \/ an # <<>> <=> FoundIn(x, k))
    /\ what = "mask" => /\ k = Len(an) + Len(so)
                        /\ \A i \in 1..Len(an) : an[i] = Mask(x[i])
                        /\ \A i \in 1..Len(so) : so[i] = Mask(x[Len(an) + i])
Talks(what, x, un, si, so, an) ==
    \E k \in 0..Len(x) : Untouched(x, k, si, un) /\ Said(what, x, k, so, an)

\* All there is to filter in a stage.
OfAddons == {Target(l, i) : l \in {"message", "attachment"}, i \in 1..Len(candidates)}
Wanting ==
    IF stage = "screen" THEN OfAddons
    ELSE {Target("message", i) : i \in 1..Len(pack.messages)}
         \cup {Target("attachment", i) : i \in 1..Len(pack.attachments)}

Undisturbed == spoilt = {} /\ failures = 0
Planned ==
    NewPack(Screened(candidates,
                     IdealOf(Effective(config.screen, config), TextsOf(candidates)),
                     IdealOf(Effective(config.screen, config), AttachmentsOf(candidates))))

\* What a run is given does not change.
GivenInv ==
    /\ input \in Inputs /\ config \in Configs
    /\ baseline = Baseline(input, config)
    /\ candidates = ByPriority(Collected(input.place, input.words))

\* Every text is filtered or still to be; what is masked has no secret and is never longer than it
\* was; and the pack is within the budget.
PackInv ==
    /\ stage \in {"screen", "egress", "sent", "blocked"} /\ pack \in Packs
    /\ todo \in Seq(Wanting)
    /\ DOMAIN outcome \subseteq Wanting /\ \A t \in DOMAIN outcome : outcome[t] \in Outcomes
    /\ stage = "screen" => pack = NoPack
    /\ stage \in {"sent", "blocked"} => todo = <<>>
    /\ todo # <<>> => Action \in Actions
    /\ stage \in {"screen", "egress"} =>
          /\ Action = "none" => DOMAIN outcome = {}
          /\ Action \in Actions =>
                \A t \in Wanting : t \in DOMAIN outcome \/ \E i \in 1..Len(todo) : todo[i] = t
          /\ \A t \in DOMAIN outcome :
                outcome[t].kind = "masked" =>
                    Len(outcome[t].text) <= Len(TextOf(t)) /\ ~HasSecret(outcome[t].text)
    /\ stage # "screen" /\ config.strategy = "tail" => InBudget(pack, input)

\* In an undisturbed run every outcome so far is the ideal one, and the pack is the planned one.
IdealInv ==
    Undisturbed =>
        /\ stage \in {"screen", "egress"} =>
              \A t \in DOMAIN outcome : outcome[t] = Ideal(Effective(Action, config), TextOf(t))
        /\ stage = "egress" => pack = Planned /\ ~OverCap(pack, HardCap)

\* What the last filter says of a text with a secret.
Saying(action) == IF action = "mask" THEN "masked" ELSE "deny"

\* Of a secret it says so, unless Ctrl-C has ended the scan.
CaughtInv ==
    stage = "egress" /\ config.rules /\ config.egress \in {"mask", "deny"} =>
        \A t \in DOMAIN outcome :
            HasSecret(TextOf(t)) =>
                outcome[t].kind = Saying(config.egress) \/ <<"egress", t>> \in spoilt

\* What is in the pipes of a child that is for the text x; a mask lets no secret through.
Pipes(x, what, un, si, so, an) ==
    /\ un \in Seq(Lines) /\ si \in Seq(Lines) /\ so \in Seq(Lines) /\ an \in Seq(Lines)
    /\ what = "mask" =>
          /\ FoundIn(x, Len(x))
          /\ Len(an) + Len(so) + Len(si) + Len(un) <= Len(x)
          /\ ~HasSecret(so) /\ ~HasSecret(an)

\* The child is for the text at the head of the list.  While it runs, and when it has ended by
\* itself, what it has said fits what it has seen; only Ctrl-C, or rules that it cannot use, end
\* it before it has seen all.
ChildInv ==
    /\ child \in {"none", "check", "mask"} /\ running \in BOOLEAN /\ success \in BOOLEAN
    /\ failures \in Nat
    /\ todo = <<>> => child = "none"
    /\ child = "none" => ~running
    /\ child # "none" =>
          /\ Pipes(TextOf(Head(todo)), child, unsent, stdin, stdout, answer)
          /\ child = "mask" => Action = "mask"
          /\ success => ~running /\ unsent = <<>> /\ stdin = <<>>
          /\ ~config.rules => child = "check" /\ ~success /\ stdout = <<>> /\ answer = <<>>
          /\ config.rules /\ (running \/ success) =>
                Talks(child, TextOf(Head(todo)), unsent, stdin, stdout, answer)
          /\ config.rules /\ ~running /\ ~success => <<stage, Head(todo)>> \in spoilt

SendInv ==
    /\ GivenInv /\ PackInv /\ IdealInv /\ CaughtInv /\ ChildInv
    /\ SentAsFiltered /\ SecretsStay

\* A child that has just started has seen nothing.
LEMMA TalkStarts ==
    ASSUME NEW x \in Seq(Lines), NEW what \in {"check", "mask"}
    PROVE  Talks(what, x, x, <<>>, <<>>, <<>>)
<1>1. Len(x) \in Nat /\ 0 \in 0..Len(x)
  OBVIOUS
<1>2. Untouched(x, 0, <<>>, x)
  BY <1>1 DEF Untouched
<1>3. Said(what, x, 0, <<>>, <<>>)
  BY DEF Said, FoundIn
<1> QED BY <1>1, <1>2, <1>3 DEF Talks

\* A line that is written is not lost.
LEMMA TalkWrites ==
    ASSUME NEW what, NEW x \in Seq(Lines), NEW un \in Seq(Lines), NEW si \in Seq(Lines),
           NEW so, NEW an, un # <<>>, Talks(what, x, un, si, so, an)
    PROVE  Talks(what, x, Tail(un), Append(si, Head(un)), so, an)
<1>1. PICK k \in 0..Len(x) : Untouched(x, k, si, un) /\ Said(what, x, k, so, an)
  BY DEF Talks
<1>2. /\ k \in Nat /\ Len(x) = k + Len(si) + Len(un)
      /\ \A i \in 1..Len(si) : si[i] = x[k + i]
      /\ \A i \in 1..Len(un) : un[i] = x[k + Len(si) + i]
  BY <1>1 DEF Untouched
<1>3. PICK s, u, h : s = Append(si, h) /\ u = Tail(un) /\ h = Head(un)
  OBVIOUS
<1>4. /\ u \in Seq(Lines) /\ Len(u) = Len(un) - 1 /\ Len(un) >= 1 /\ Len(un) \in Nat
      /\ h \in Lines /\ h = un[1] /\ \A i \in 1..(Len(un) - 1) : u[i] = un[i + 1]
  BY <1>3
<1>5. /\ s \in Seq(Lines) /\ Len(s) = Len(si) + 1 /\ Len(si) \in Nat
      /\ s[Len(si) + 1] = h /\ \A i \in 1..Len(si) : s[i] = si[i]
  BY <1>3, <1>4
<1>6. Len(x) = k + Len(s) + Len(u)
  BY <1>2, <1>4, <1>5
<1>7. ASSUME NEW i \in 1..Len(s) PROVE s[i] = x[k + i]
  <2>1. CASE i = Len(si) + 1
    BY <1>2, <1>4, <1>5, <2>1
  <2>2. CASE i \in 1..Len(si)
    BY <1>2, <1>5, <2>2
  <2> QED BY <1>5, <2>1, <2>2
<1>8. ASSUME NEW i \in 1..Len(u) PROVE u[i] = x[k + Len(s) + i]
  <2>1. i + 1 \in 1..Len(un) /\ k + Len(s) + i = k + Len(si) + (i + 1)
    BY <1>2, <1>4, <1>5
  <2>2. u[i] = un[i + 1]
    BY <1>4
  <2> QED BY <1>2, <2>1, <2>2
<1>9. Untouched(x, k, s, u)
  BY <1>2, <1>6, <1>7, <1>8 DEF Untouched
<1> QED BY <1>1, <1>3, <1>9 DEF Talks

\* What a child prints of a line, what the line is for it.
Prints(what, line) ==
    IF what = "mask" THEN <<Mask(line)>> ELSE IF line = "secret" THEN <<line>> ELSE <<>>

\* A line that is scanned is found in what was printed.
LEMMA TalkScans ==
    ASSUME NEW what \in {"check", "mask"}, NEW x \in Seq(Lines), NEW un \in Seq(Lines),
           NEW si \in Seq(Lines), NEW so \in Seq(Lines), NEW an \in Seq(Lines),
           si # <<>>, Talks(what, x, un, si, so, an)
    PROVE  Talks(what, x, un, Tail(si), so \o Prints(what, Head(si)), an)
<1>1. PICK k \in 0..Len(x) : Untouched(x, k, si, un) /\ Said(what, x, k, so, an)
  BY DEF Talks
<1>2. /\ k \in Nat /\ Len(x) = k + Len(si) + Len(un)
      /\ \A i \in 1..Len(si) : si[i] = x[k + i]
      /\ \A i \in 1..Len(un) : un[i] = x[k + Len(si) + i]
  BY <1>1 DEF Untouched
<1>3. PICK s, h, j : s = Tail(si) /\ h = Head(si) /\ j = k + 1
  OBVIOUS
<1>4. /\ s \in Seq(Lines) /\ Len(s) = Len(si) - 1 /\ Len(si) >= 1 /\ Len(si) \in Nat
      /\ h \in Lines /\ h = si[1] /\ \A i \in 1..(Len(si) - 1) : s[i] = si[i + 1]
  BY <1>3
<1>5. h = x[j] /\ j \in Nat /\ Len(un) \in Nat /\ Len(x) \in Nat
  BY <1>2, <1>3, <1>4
<1>6. Untouched(x, j, s, un)
  <2>1. Len(x) = j + Len(s) + Len(un)
    BY <1>2, <1>3, <1>4, <1>5
  <2>2. ASSUME NEW i \in 1..Len(s) PROVE s[i] = x[j + i]
    <3>1. i + 1 \in 1..Len(si) /\ k + (i + 1) = j + i /\ s[i] = si[i + 1]
      BY <1>2, <1>3, <1>4
    <3> QED BY <1>2, <3>1
  <2>3. ASSUME NEW i \in 1..Len(un) PROVE un[i] = x[j + Len(s) + i]
    <3>1. k + Len(si) + i = j + Len(s) + i
      BY <1>2, <1>3, <1>4
    <3> QED BY <1>2, <3>1
  <2> QED BY <1>5, <2>1, <2>2, <2>3 DEF Untouched
<1>7. j \in 0..Len(x)
  BY <1>2, <1>3, <1>4, <1>5
<1>8. PICK o, p : p = Prints(what, h) /\ o = so \o p
  OBVIOUS
<1>9. Said(what, x, j, o, an)
  <2>1. CASE what = "check"
    <3>1. so # <<>> \/ an # <<>> <=> FoundIn(x, k)
      BY <1>1, <2>1 DEF Said
    <3>2. FoundIn(x, j) <=> FoundIn(x, k) \/ h = "secret"
      <4>1. \A i \in 1..j : i \in 1..k \/ i = j
        BY <1>2, <1>3
      <4>2. \A i \in 1..k : i \in 1..j
        BY <1>2, <1>3
      <4>3. j \in 1..j
        BY <1>2, <1>3
      <4> QED BY <1>5, <4>1, <4>2, <4>3 DEF FoundIn
    <3>3. CASE h = "secret"
      <4>1. p = <<h>>
        BY <1>8, <2>1, <3>3 DEF Prints
      <4>2. o # <<>>
        <5>1. p \in Seq(Lines) /\ Len(p) = 1
          BY <1>4, <4>1
        <5>2. Len(o) = Len(so) + Len(p) /\ Len(so) \in Nat
          <6>1. so \in Seq(Lines) /\ p \in Seq(Lines) /\ o = so \o p
            BY <1>8, <5>1
          <6> QED BY ONLY <6>1, Joined
        <5> QED BY <5>1, <5>2
      <4> QED BY <2>1, <3>2, <3>3, <4>2 DEF Said
    <3>4. CASE h # "secret"
      <4>1. p = <<>>
        BY <1>8, <2>1, <3>4 DEF Prints
      <4>2. o = so
        BY <1>8, <4>1
      <4> QED BY <2>1, <3>1, <3>2, <3>4, <4>2 DEF Said
    <3> QED BY <3>3, <3>4
  <2>2. CASE what = "mask"
    <3>1. /\ k = Len(an) + Len(so)
          /\ \A i \in 1..Len(an) : an[i] = Mask(x[i])
          /\ \A i \in 1..Len(so) : so[i] = Mask(x[Len(an) + i])
      BY <1>1, <2>2 DEF Said
    <3>2. p = <<Mask(h)>> /\ p \in Seq(Lines) /\ Len(p) = 1 /\ p[1] = Mask(h)
      <4>1. Mask(h) \in Lines
        BY <1>4 DEF Mask, Lines
      <4> QED BY <1>8, <2>2, <4>1 DEF Prints
    <3>3. /\ o \in Seq(Lines) /\ Len(o) = Len(so) + 1 /\ Len(so) \in Nat /\ Len(an) \in Nat
          /\ \A i \in 1..Len(so) : o[i] = so[i]
          /\ o[Len(so) + 1] = Mask(h)
      <4>1. /\ o \in Seq(Lines) /\ Len(o) = Len(so) + Len(p)
            /\ Len(so) \in Nat /\ Len(p) \in Nat
            /\ \A i \in 1..Len(so) : o[i] = so[i]
            /\ \A i \in 1..Len(p) : o[Len(so) + i] = p[i]
        BY <1>8, <3>2, Joined
      <4> QED BY <3>2, <4>1
    <3>4. j = Len(an) + Len(o)
      BY <1>3, <3>1, <3>3
    <3>5. ASSUME NEW i \in 1..Len(o) PROVE o[i] = Mask(x[Len(an) + i])
      <4>1. CASE i \in 1..Len(so)
        BY <3>1, <3>3, <4>1
      <4>2. CASE i = Len(so) + 1
        <5>1. Len(an) + i = j
          BY <3>3, <3>4, <4>2
        <5> QED BY <1>5, <3>3, <4>2, <5>1
      <4> QED BY <3>3, <4>1, <4>2
    <3> QED BY <2>2, <3>1, <3>4, <3>5 DEF Said
  <2> QED BY <2>1, <2>2
<1> QED BY <1>3, <1>6, <1>7, <1>8, <1>9 DEF Talks

\* A line that is read was printed.
LEMMA TalkReads ==
    ASSUME NEW what, NEW x, NEW un, NEW si, NEW so \in Seq(Lines), NEW an \in Seq(Lines),
           so # <<>>, Talks(what, x, un, si, so, an)
    PROVE  Talks(what, x, un, si, Tail(so), Append(an, Head(so)))
<1>1. PICK k \in 0..Len(x) : Untouched(x, k, si, un) /\ Said(what, x, k, so, an)
  BY DEF Talks
<1>2. PICK o, a, h : o = Tail(so) /\ a = Append(an, h) /\ h = Head(so)
  OBVIOUS
<1>3. /\ o \in Seq(Lines) /\ Len(o) = Len(so) - 1 /\ Len(so) >= 1 /\ Len(so) \in Nat
      /\ h \in Lines /\ h = so[1] /\ \A i \in 1..(Len(so) - 1) : o[i] = so[i + 1]
  BY <1>2
<1>4. /\ a \in Seq(Lines) /\ Len(a) = Len(an) + 1 /\ Len(an) \in Nat
      /\ a[Len(an) + 1] = h /\ \A i \in 1..Len(an) : a[i] = an[i]
  BY <1>2, <1>3
<1>5. what = "check" => (o # <<>> \/ a # <<>> <=> FoundIn(x, k))
  <2>1. a # <<>>
    BY <1>4
  <2> QED BY <1>1, <2>1 DEF Said
<1>6. ASSUME what = "mask"
      PROVE  /\ k = Len(a) + Len(o)
             /\ \A i \in 1..Len(a) : a[i] = Mask(x[i])
             /\ \A i \in 1..Len(o) : o[i] = Mask(x[Len(a) + i])
  <2>1. /\ k = Len(an) + Len(so)
        /\ \A i \in 1..Len(an) : an[i] = Mask(x[i])
        /\ \A i \in 1..Len(so) : so[i] = Mask(x[Len(an) + i])
    BY <1>1, <1>6 DEF Said
  <2>2. k = Len(a) + Len(o)
    BY <1>3, <1>4, <2>1
  <2>3. ASSUME NEW i \in 1..Len(a) PROVE a[i] = Mask(x[i])
    <3>1. CASE i \in 1..Len(an)
      BY <1>4, <2>1, <3>1
    <3>2. CASE i = Len(an) + 1
      <4>1. so[1] = Mask(x[Len(an) + 1])
        BY <1>3, <2>1
      <4> QED BY <1>3, <1>4, <3>2, <4>1
    <3> QED BY <1>4, <3>1, <3>2
  <2>4. ASSUME NEW i \in 1..Len(o) PROVE o[i] = Mask(x[Len(a) + i])
    <3>1. i + 1 \in 1..Len(so) /\ Len(an) + (i + 1) = Len(a) + i /\ o[i] = so[i + 1]
      BY <1>3, <1>4
    <3> QED BY <2>1, <3>1
  <2> QED BY <2>2, <2>3, <2>4
<1>7. Said(what, x, k, o, a)
  BY <1>5, <1>6 DEF Said
<1> QED BY <1>1, <1>2, <1>7 DEF Talks

\* When nothing is left in the pipes the answer is about the whole text.
LEMMA TalkEnds ==
    ASSUME NEW what, NEW x \in Seq(Lines), NEW an \in Seq(Lines),
           Talks(what, x, <<>>, <<>>, <<>>, an)
    PROVE  /\ what = "check" => (an # <<>> <=> FoundIn(x, Len(x)))
           /\ what = "mask" => an = MaskOf(x)
<1>1. PICK k \in 0..Len(x) : Untouched(x, k, <<>>, <<>>) /\ Said(what, x, k, <<>>, an)
  BY DEF Talks
<1>2. k = Len(x) /\ Len(x) \in Nat
  <2>1. Len(<<>>) = 0 /\ Len(x) \in Nat
    OBVIOUS
  <2> QED BY <1>1, <2>1 DEF Untouched
<1>3. what = "check" => (an # <<>> <=> FoundIn(x, Len(x)))
  BY <1>1, <1>2 DEF Said
<1>4. ASSUME what = "mask" PROVE an = MaskOf(x)
  <2>1. Len(an) = Len(x) /\ \A i \in 1..Len(an) : an[i] = Mask(x[i])
    <3>1. k = Len(an) + Len(<<>>) /\ \A i \in 1..Len(an) : an[i] = Mask(x[i])
      BY <1>1, <1>4 DEF Said
    <3>2. Len(<<>>) = 0 /\ Len(an) \in Nat
      OBVIOUS
    <3> QED BY <1>2, <3>1, <3>2
  <2>2. PICK m : m = MaskOf(x)
    OBVIOUS
  <2>3. m \in Seq(Lines) /\ Len(m) = Len(x) /\ \A i \in 1..Len(x) : m[i] = Mask(x[i])
    <3>1. \A i \in 1..Len(x) : Mask(x[i]) \in Lines
      <4>1. \A i \in 1..Len(x) : x[i] \in Lines
        OBVIOUS
      <4> QED BY <4>1 DEF Mask, Lines
    <3>2. m = [i \in 1..Len(x) |-> Mask(x[i])]
      BY <2>2 DEF MaskOf, Mask
    <3> QED BY <1>2, <3>1, <3>2
  <2>4. an = m
    BY ONLY an \in Seq(Lines), <2>1, <2>3, SeqEqual
  <2> QED BY <2>2, <2>4
<1> QED BY <1>3, <1>4

\* At the start all is unsent.
LEMMA PipesStart ==
    ASSUME NEW x \in Seq(Lines), NEW what, what = "mask" => FoundIn(x, Len(x))
    PROVE  Pipes(x, what, x, <<>>, <<>>, <<>>)
<1>1. <<>> \in Seq(Lines) /\ Len(<<>>) = 0 /\ Len(x) \in Nat
  OBVIOUS
<1>2. ~HasSecret(<<>>)
  BY <1>1 DEF HasSecret
<1>3. Len(<<>>) + Len(<<>>) + Len(<<>>) + Len(x) <= Len(x)
  BY <1>1
<1> QED BY <1>1, <1>2, <1>3 DEF Pipes

LEMMA PipesWrite ==
    ASSUME NEW x \in Seq(Lines), NEW what, NEW un, NEW si, NEW so, NEW an,
           Pipes(x, what, un, si, so, an), un # <<>>
    PROVE  /\ Pipes(x, what, Tail(un), Append(si, Head(un)), so, an)
           /\ Pipes(x, what, <<>>, si, so, an)
<1>1. un \in Seq(Lines) /\ si \in Seq(Lines) /\ so \in Seq(Lines) /\ an \in Seq(Lines)
  BY DEF Pipes
<1>2. PICK u, s : u = Tail(un) /\ s = Append(si, Head(un))
  OBVIOUS
<1>3. /\ u \in Seq(Lines) /\ s \in Seq(Lines) /\ <<>> \in Seq(Lines) /\ Len(<<>>) = 0
      /\ Len(u) = Len(un) - 1 /\ Len(s) = Len(si) + 1
      /\ Len(x) \in Nat /\ Len(un) \in Nat /\ Len(si) \in Nat /\ Len(so) \in Nat
      /\ Len(an) \in Nat
  BY <1>1, <1>2
<1>4. what = "mask" =>
         /\ FoundIn(x, Len(x)) /\ ~HasSecret(so) /\ ~HasSecret(an)
         /\ Len(an) + Len(so) + Len(s) + Len(u) <= Len(x)
         /\ Len(an) + Len(so) + Len(si) + Len(<<>>) <= Len(x)
  <2>1. what = "mask" =>
           /\ FoundIn(x, Len(x)) /\ ~HasSecret(so) /\ ~HasSecret(an)
           /\ Len(an) + Len(so) + Len(si) + Len(un) <= Len(x)
    BY DEF Pipes
  <2> QED BY <1>3, <2>1
<1> QED BY <1>1, <1>2, <1>3, <1>4 DEF Pipes

LEMMA PipesScan ==
    ASSUME NEW x \in Seq(Lines), NEW what \in {"check", "mask"},
           NEW un, NEW si, NEW so, NEW an,
           Pipes(x, what, un, si, so, an), si # <<>>
    PROVE  Pipes(x, what, un, Tail(si), so \o Prints(what, Head(si)), an)
<1>1. un \in Seq(Lines) /\ si \in Seq(Lines) /\ so \in Seq(Lines) /\ an \in Seq(Lines)
  BY DEF Pipes
<1>2. PICK s, h, p, o : s = Tail(si) /\ h = Head(si) /\ p = Prints(what, h) /\ o = so \o p
  OBVIOUS
<1>3. h \in Lines /\ s \in Seq(Lines) /\ Len(s) = Len(si) - 1
  BY <1>1, <1>2
<1>4. p \in Seq(Lines) /\ Len(p) <= 1 /\ Len(p) \in Nat
      /\ (what = "mask" => \A i \in 1..Len(p) : p[i] # "secret")
  <2>1. Mask(h) \in Lines /\ Mask(h) # "secret"
    BY <1>3 DEF Mask, Lines
  <2>2. CASE what = "mask"
    <3>1. p = <<Mask(h)>>
      BY <1>2, <2>2 DEF Prints
    <3> QED BY <2>1, <3>1
  <2>3. CASE what = "check" /\ h = "secret"
    <3>1. p = <<h>>
      BY <1>2, <2>3 DEF Prints
    <3> QED BY <1>3, <2>3, <3>1
  <2>4. CASE what = "check" /\ h # "secret"
    <3>1. p = <<>>
      BY <1>2, <2>4 DEF Prints
    <3> QED BY <2>4, <3>1
  <2> QED BY <2>2, <2>3, <2>4
<1>5. /\ o \in Seq(Lines) /\ Len(o) = Len(so) + Len(p)
      /\ \A i \in 1..Len(so) : o[i] = so[i]
      /\ \A i \in 1..Len(p) : o[Len(so) + i] = p[i]
  BY ONLY <1>1, <1>2, <1>4, Joined
<1>6. /\ Len(x) \in Nat /\ Len(un) \in Nat /\ Len(si) \in Nat /\ Len(so) \in Nat
      /\ Len(an) \in Nat
  BY <1>1
<1>7. ASSUME what = "mask"
      PROVE  /\ FoundIn(x, Len(x)) /\ ~HasSecret(o) /\ ~HasSecret(an)
             /\ Len(an) + Len(o) + Len(s) + Len(un) <= Len(x)
  <2>1. /\ FoundIn(x, Len(x)) /\ ~HasSecret(so) /\ ~HasSecret(an)
        /\ Len(an) + Len(so) + Len(si) + Len(un) <= Len(x)
    BY <1>7 DEF Pipes
  <2>2. ASSUME NEW i \in 1..Len(o) PROVE o[i] # "secret"
    <3>1. CASE i \in 1..Len(so)
      BY <1>5, <2>1, <3>1 DEF HasSecret
    <3>2. CASE i \notin 1..Len(so)
      <4>1. i - Len(so) \in 1..Len(p) /\ Len(so) + (i - Len(so)) = i
        BY <1>4, <1>5, <1>6, <3>2
      <4> QED BY <1>4, <1>5, <1>7, <4>1
    <3> QED BY <3>1, <3>2
  <2>3. ~HasSecret(o)
    BY <2>2 DEF HasSecret
  <2> QED BY <1>3, <1>4, <1>5, <1>6, <2>1, <2>3
<1> QED BY <1>1, <1>2, <1>3, <1>5, <1>7 DEF Pipes

LEMMA PipesRead ==
    ASSUME NEW x \in Seq(Lines), NEW what, NEW un, NEW si, NEW so, NEW an,
           Pipes(x, what, un, si, so, an), so # <<>>
    PROVE  Pipes(x, what, un, si, Tail(so), Append(an, Head(so)))
<1>1. un \in Seq(Lines) /\ si \in Seq(Lines) /\ so \in Seq(Lines) /\ an \in Seq(Lines)
  BY DEF Pipes
<1>2. PICK o, a, h : o = Tail(so) /\ a = Append(an, h) /\ h = Head(so)
  OBVIOUS
<1>3. /\ o \in Seq(Lines) /\ Len(o) = Len(so) - 1 /\ Len(so) >= 1 /\ Len(so) \in Nat
      /\ h = so[1] /\ h \in Lines /\ \A i \in 1..Len(o) : o[i] = so[i + 1]
  BY <1>1, <1>2
<1>4. /\ a \in Seq(Lines) /\ Len(a) = Len(an) + 1 /\ Len(an) \in Nat
      /\ a[Len(an) + 1] = h /\ \A i \in 1..Len(an) : a[i] = an[i]
  BY <1>1, <1>2, <1>3
<1>5. ASSUME what = "mask"
      PROVE  /\ FoundIn(x, Len(x)) /\ ~HasSecret(o) /\ ~HasSecret(a)
             /\ Len(a) + Len(o) + Len(si) + Len(un) <= Len(x)
  <2>1. /\ FoundIn(x, Len(x)) /\ ~HasSecret(so) /\ ~HasSecret(an)
        /\ Len(an) + Len(so) + Len(si) + Len(un) <= Len(x)
    BY <1>5 DEF Pipes
  <2>2. \A i \in 1..Len(so) : so[i] # "secret"
    BY <2>1 DEF HasSecret
  <2>3. \A i \in 1..Len(an) : an[i] # "secret"
    BY <2>1 DEF HasSecret
  <2>4. \A i \in 1..Len(o) : o[i] # "secret"
    BY <1>3, <2>2
  <2>5. \A i \in 1..Len(a) : a[i] # "secret"
    BY <1>3, <1>4, <2>2, <2>3
  <2>6. ~HasSecret(o) /\ ~HasSecret(a)
    BY <2>4, <2>5 DEF HasSecret
  <2>7. Len(si) \in Nat /\ Len(un) \in Nat /\ Len(x) \in Nat
    BY <1>1
  <2> QED BY <1>3, <1>4, <2>1, <2>6, <2>7
<1> QED BY <1>1, <1>2, <1>3, <1>4, <1>5 DEF Pipes

\* The texts of a stage are those of the same lists.
LEMMA SameTexts ==
    ASSUME stage' = stage, candidates' = candidates, pack' = pack
    PROVE  Wanting' = Wanting /\ \A t : TextOf(t)' = TextOf(t)
<1>1. Wanting' = Wanting
  BY DEF Wanting, OfAddons
<1>2. ASSUME NEW t PROVE TextOf(t)' = TextOf(t)
  BY DEF TextOf
<1> QED BY <1>1, <1>2

LEMMA SameAction ==
    ASSUME stage' = stage, config' = config
    PROVE  Action' = Action
  BY DEF Action

\* What is planned depends on what a run is given.
LEMMA SamePlan ==
    ASSUME UNCHANGED givenVars
    PROVE  Planned' = Planned
  BY DEF Planned, NewPack, givenVars

\* What is sent, as the plan has it.
SentOf(new, c) ==
    Sensitive(new, IdealOf(Effective(c.egress, c), TextsOf(new.messages)),
              IdealOf(Effective(c.egress, c), new.attachments), c.egress)
Fulfilled ==
    IF OverCap(Planned, HardCap) THEN stage = "blocked" /\ pack = Planned
    ELSE /\ pack = SentOf(Planned, config).pack
         /\ stage = "sent" <=> SentOf(Planned, config).sent
LEMMA SentIsFulfilled ==
    SentAsFiltered <=> (stage \in {"sent", "blocked"} /\ Undisturbed => Fulfilled)
  BY DEF SentAsFiltered, Undisturbed, Fulfilled, Planned, SentOf

\* A step of the two processes, and Ctrl-C, leave outcomes, lists and the pack as they are.
PackStays ==
    /\ GivenInv' /\ PackInv' /\ IdealInv' /\ CaughtInv' /\ SentAsFiltered' /\ SecretsStay'
    /\ TextOf(Head(todo))' = TextOf(Head(todo)) /\ todo' = todo /\ stage' = stage
    /\ Action' = Action /\ config' = config

LEMMA PackKept ==
    ASSUME GivenInv, PackInv, IdealInv, CaughtInv, SentAsFiltered, SecretsStay,
           UNCHANGED givenVars, UNCHANGED packVars, failures' = failures,
           spoilt \subseteq spoilt'
    PROVE  PackStays
<1>1. /\ input' = input /\ config' = config /\ baseline' = baseline
      /\ candidates' = candidates
      /\ stage' = stage /\ todo' = todo /\ outcome' = outcome /\ pack' = pack
  BY DEF givenVars, packVars
<1>2. /\ Wanting' = Wanting /\ \A t : TextOf(t)' = TextOf(t)
      /\ Action' = Action /\ Planned' = Planned
  BY <1>1, SameTexts, SameAction, SamePlan
<1>3. Undisturbed' => Undisturbed
  BY DEF Undisturbed
<1>4. GivenInv'
  BY <1>1 DEF GivenInv
<1>5. PackInv'
  BY <1>1, <1>2 DEF PackInv, InBudget
<1>6. IdealInv'
  BY <1>1, <1>2, <1>3 DEF IdealInv
<1>7. SentAsFiltered'
  <2>1. SentAsFiltered' <=> (stage' \in {"sent", "blocked"} /\ Undisturbed' => Fulfilled')
    BY DEF SentAsFiltered, Undisturbed, Fulfilled, Planned, SentOf
  <2>2. Fulfilled' = Fulfilled
    BY <1>1, <1>2 DEF Fulfilled, SentOf
  <2> QED BY <1>1, <1>3, <2>1, <2>2, SentIsFulfilled
<1>8. TextOf(Head(todo))' = TextOf(Head(todo))
  BY <1>1 DEF TextOf
<1>9. CaughtInv'
  BY <1>1, <1>2 DEF CaughtInv
<1>10. SecretsStay'
  BY <1>1 DEF SecretsStay
<1> QED BY <1>1, <1>2, <1>4, <1>5, <1>6, <1>7, <1>8, <1>9, <1>10 DEF PackStays

LEMMA GivenTypes ==
    ASSUME GivenInv
    PROVE  /\ input.history \in Seq(ChatMessages) /\ input.instruction \in Seq(Seq(Lines))
           /\ baseline \in Seq(ChatMessages) /\ candidates \in Seq(Addons)
  BY Given DEF GivenInv

\* Everything there is to filter has a text.
LEMMA TextType ==
    ASSUME GivenInv, PackInv, NEW t \in Wanting
    PROVE  TextOf(t) \in Seq(Lines)
<1>1. candidates \in Seq(Addons) /\ pack \in Packs
  BY GivenTypes DEF PackInv
<1>2. CASE stage = "screen"
  <2>1. PICK l \in {"message", "attachment"}, i \in 1..Len(candidates) : t = Target(l, i)
    BY <1>2 DEF Wanting, OfAddons
  <2>2. t.list = l /\ t.index = i
    BY <2>1 DEF Target
  <2>3. PICK a : a = candidates[i]
    OBVIOUS
  <2>4. a \in Addons
    BY <1>1, <2>3
  <2>5. a.text \in Seq(Lines) /\ a.attachment \in Seq(Lines)
    BY <2>4 DEF Addons
  <2>6. TextOf(t) = IF l = "message" THEN a.text ELSE a.attachment
    BY <1>2, <2>2, <2>3 DEF TextOf
  <2> QED BY <2>5, <2>6
<1>3. CASE stage # "screen"
  <2>1. PICK ms, ats : ms = pack.messages /\ ats = pack.attachments
    OBVIOUS
  <2>2. ms \in Seq(ChatMessages) /\ ats \in Seq(Seq(Lines))
    BY <1>1, <2>1 DEF Packs
  <2>6. \A i \in 1..Len(ats) : ats[i] \in Seq(Lines)
    BY ONLY <2>2
  <2>3. CASE \E i \in 1..Len(ms) : t = Target("message", i)
    <3>1. PICK i \in 1..Len(ms) : t = Target("message", i)
      BY <2>3
    <3>2. t.list = "message" /\ t.index = i
      BY <3>1 DEF Target
    <3>3. TextOf(t) = ms[i].text
      BY <1>3, <2>1, <3>2 DEF TextOf
    <3>4. ms[i] \in ChatMessages
      BY <2>2
    <3>5. ms[i].text \in Seq(Lines)
      BY <3>4 DEF ChatMessages
    <3> QED BY <3>3, <3>5
  <2>4. CASE \E i \in 1..Len(ats) : t = Target("attachment", i)
    <3>1. PICK i \in 1..Len(ats) : t = Target("attachment", i)
      BY <2>4
    <3>2. t.list = "attachment" /\ t.index = i
      BY <3>1 DEF Target
    <3>3. TextOf(t) = ats[i]
      BY <1>3, <2>1, <3>2 DEF TextOf
    <3> QED BY <2>6, <3>3
  <2>5. \/ \E i \in 1..Len(ms) : t = Target("message", i)
        \/ \E i \in 1..Len(ats) : t = Target("attachment", i)
    BY <1>3, <2>1 DEF Wanting, OfAddons
  <2> QED BY <2>3, <2>4, <2>5
<1> QED BY <1>2, <1>3

\* The text the child is for.
LEMMA HeadText ==
    ASSUME GivenInv, PackInv, todo # <<>>
    PROVE  /\ Head(todo) \in Wanting /\ TextOf(Head(todo)) \in Seq(Lines)
           /\ stage \in {"screen", "egress"} /\ Action \in Actions
<1>1. todo \in Seq(Wanting) /\ Head(todo) \in Wanting
  BY DEF PackInv
<1>2. stage \in {"screen", "egress"} /\ Action \in Actions
  BY DEF PackInv
<1> QED BY <1>1, <1>2, TextType

\* What is true of a child that is there, with the text it is for.
LEMMA ChildOf ==
    ASSUME SendInv, child # "none", NEW x, x = TextOf(Head(todo))
    PROVE  /\ todo # <<>> /\ child \in {"check", "mask"} /\ x \in Seq(Lines)
           /\ running \in BOOLEAN /\ success \in BOOLEAN /\ failures \in Nat
           /\ Pipes(x, child, unsent, stdin, stdout, answer)
           /\ child = "mask" => Action = "mask"
           /\ success => ~running /\ unsent = <<>> /\ stdin = <<>>
           /\ ~config.rules => child = "check" /\ ~success /\ stdout = <<>> /\ answer = <<>>
           /\ config.rules /\ (running \/ success) =>
                 Talks(child, x, unsent, stdin, stdout, answer)
           /\ config.rules /\ ~running /\ ~success => <<stage, Head(todo)>> \in spoilt
<1>1. todo # <<>>
  BY DEF SendInv, ChildInv
<1>2. x \in Seq(Lines)
  BY <1>1, HeadText DEF SendInv
<1> QED BY <1>1, <1>2 DEF SendInv, ChildInv

\* And what is to be shown of it after a step that leaves it there.
LEMMA ChildAfter ==
    ASSUME PackStays, todo # <<>>, NEW x, x = TextOf(Head(todo)),
           child' \in {"check", "mask"}, running' \in BOOLEAN, success' \in BOOLEAN,
           failures' \in Nat,
           Pipes(x, child', unsent', stdin', stdout', answer'),
           child' = "mask" => Action = "mask",
           success' => ~running' /\ unsent' = <<>> /\ stdin' = <<>>,
           ~config.rules => child' = "check" /\ ~success' /\ stdout' = <<>> /\ answer' = <<>>,
           config.rules /\ (running' \/ success') =>
               Talks(child', x, unsent', stdin', stdout', answer'),
           config.rules /\ ~running' /\ ~success' => <<stage, Head(todo)>> \in spoilt'
    PROVE  SendInv'
<1>1. /\ x = TextOf(Head(todo))' /\ todo' # <<>> /\ Action' = Action /\ config' = config
      /\ stage' = stage /\ todo' = todo
  BY DEF PackStays
<1>2. ChildInv'
  BY <1>1 DEF ChildInv
<1> QED BY <1>2 DEF SendInv, PackStays

\* Writing a line, or giving up on a child that is gone.
LEMMA WriteKeeps ==
    ASSUME SendInv, Write
    PROVE  SendInv'
<1>1. PackStays
  BY PackKept DEF SendInv, Write
<1>2. child # "none" /\ unsent # <<>>
  BY DEF Write
<1>3. PICK x : x = TextOf(Head(todo))
  OBVIOUS
<1>4. /\ todo # <<>> /\ child \in {"check", "mask"} /\ x \in Seq(Lines)
      /\ running \in BOOLEAN /\ success \in BOOLEAN /\ failures \in Nat
      /\ Pipes(x, child, unsent, stdin, stdout, answer)
      /\ child = "mask" => Action = "mask"
      /\ success => ~running /\ unsent = <<>> /\ stdin = <<>>
      /\ ~config.rules => child = "check" /\ ~success /\ stdout = <<>> /\ answer = <<>>
      /\ config.rules /\ (running \/ success) =>
            Talks(child, x, unsent, stdin, stdout, answer)
      /\ config.rules /\ ~running /\ ~success => <<stage, Head(todo)>> \in spoilt
  BY <1>2, <1>3, ChildOf
<1>5. /\ child' = child /\ running' = running /\ success' = success
      /\ stdout' = stdout /\ answer' = answer /\ spoilt' = spoilt /\ failures' = failures
  BY DEF Write
<1>6. ~success
  BY <1>2, <1>4
<1>7. CASE /\ running
           /\ unsent' = Tail(unsent) /\ stdin' = Append(stdin, Head(unsent))
  <2>1. Pipes(x, child, unsent', stdin', stdout, answer)
    BY <1>2, <1>4, <1>7, PipesWrite
  <2>2. config.rules => Talks(child, x, unsent', stdin', stdout, answer)
    <3>1. unsent \in Seq(Lines) /\ stdin \in Seq(Lines)
      BY <1>4 DEF Pipes
    <3> QED BY <1>2, <1>4, <1>7, <3>1, TalkWrites
  <2> QED BY <1>1, <1>3, <1>4, <1>5, <1>6, <1>7, <2>1, <2>2, ChildAfter
<1>8. CASE ~running /\ unsent' = <<>> /\ stdin' = stdin
  <2>1. Pipes(x, child, unsent', stdin', stdout, answer)
    BY <1>2, <1>4, <1>8, PipesWrite
  <2> QED BY <1>1, <1>3, <1>4, <1>5, <1>6, <1>8, <2>1, ChildAfter
<1> QED BY <1>7, <1>8 DEF Write

\* leakscan looks at a line.
LEMMA ScanLineKeeps ==
    ASSUME SendInv, ScanLine
    PROVE  SendInv'
<1>1. PackStays
  BY PackKept DEF SendInv, ScanLine
<1>2. child # "none" /\ stdin # <<>> /\ running /\ config.rules
  BY DEF SendInv, ChildInv, ScanLine
<1>3. PICK x : x = TextOf(Head(todo))
  OBVIOUS
<1>4. /\ todo # <<>> /\ child \in {"check", "mask"} /\ x \in Seq(Lines)
      /\ running \in BOOLEAN /\ success \in BOOLEAN /\ failures \in Nat
      /\ Pipes(x, child, unsent, stdin, stdout, answer)
      /\ child = "mask" => Action = "mask"
      /\ success => ~running /\ unsent = <<>> /\ stdin = <<>>
      /\ config.rules /\ (running \/ success) =>
            Talks(child, x, unsent, stdin, stdout, answer)
  BY <1>2, <1>3, ChildOf
<1>5. /\ unsent \in Seq(Lines) /\ stdin \in Seq(Lines)
      /\ stdout \in Seq(Lines) /\ answer \in Seq(Lines)
  BY <1>4 DEF Pipes
<1>6. PICK h, o : h = Head(stdin) /\ o = Prints(child, h)
  OBVIOUS
<1>7. Printed(h) = o
  BY <1>4, <1>6 DEF Printed, Prints, Mask
<1>8. /\ stdout' = stdout \o o /\ stdin' = Tail(stdin)
      /\ child' = child /\ running' = running /\ success' = success /\ unsent' = unsent
      /\ answer' = answer /\ spoilt' = spoilt /\ failures' = failures
  BY <1>6, <1>7 DEF ScanLine
<1>9. Pipes(x, child, unsent, stdin', stdout', answer)
  <2>1. Pipes(x, child, unsent, Tail(stdin), stdout \o Prints(child, Head(stdin)), answer)
    BY <1>2, <1>4, PipesScan
  <2> QED BY <1>6, <1>8, <2>1
<1>10. Talks(child, x, unsent, stdin', stdout', answer)
  <2>1. Talks(child, x, unsent, Tail(stdin), stdout \o Prints(child, Head(stdin)), answer)
    BY <1>2, <1>4, <1>5, TalkScans
  <2> QED BY <1>6, <1>8, <2>1
<1>11. ~success
  BY <1>2, <1>4
<1> QED BY <1>1, <1>2, <1>3, <1>4, <1>8, <1>9, <1>10, <1>11, ChildAfter

\* leakscan is done.
LEMMA ScanEndsKeeps ==
    ASSUME SendInv, ScanEnds
    PROVE  SendInv'
<1>1. PackStays
  BY PackKept DEF SendInv, ScanEnds
<1>2. child # "none" /\ unsent = <<>> /\ stdin = <<>> /\ running /\ config.rules
  BY DEF SendInv, ChildInv, ScanEnds, StdinClosed
<1>3. PICK x : x = TextOf(Head(todo))
  OBVIOUS
<1>4. /\ todo # <<>> /\ child \in {"check", "mask"} /\ failures \in Nat
      /\ Pipes(x, child, unsent, stdin, stdout, answer)
      /\ child = "mask" => Action = "mask"
      /\ config.rules /\ (running \/ success) =>
            Talks(child, x, unsent, stdin, stdout, answer)
  BY <1>2, <1>3, ChildOf
<1>5. /\ stdout' = stdout /\ stdin' = stdin /\ child' = child /\ unsent' = unsent
      /\ answer' = answer /\ running' = FALSE /\ success' = TRUE
      /\ spoilt' = spoilt /\ failures' = failures
  BY DEF ScanEnds
<1> QED BY <1>1, <1>2, <1>3, <1>4, <1>5, ChildAfter

\* leakscan cannot use its rules.
LEMMA ScanFailsKeeps ==
    ASSUME SendInv, ScanFails
    PROVE  SendInv'
<1>1. PackStays
  BY PackKept DEF SendInv, ScanFails
<1>2. child # "none" /\ ~config.rules
  BY DEF SendInv, ChildInv, ScanFails
<1>3. PICK x : x = TextOf(Head(todo))
  OBVIOUS
<1>4. /\ todo # <<>> /\ child \in {"check", "mask"} /\ failures \in Nat /\ success \in BOOLEAN
      /\ Pipes(x, child, unsent, stdin, stdout, answer)
      /\ child = "mask" => Action = "mask"
      /\ ~config.rules => child = "check" /\ ~success /\ stdout = <<>> /\ answer = <<>>
  BY <1>2, <1>3, ChildOf
<1>5. /\ stdout' = stdout /\ stdin' = stdin /\ child' = child /\ unsent' = unsent
      /\ answer' = answer /\ running' = FALSE /\ success' = success
      /\ spoilt' = spoilt /\ failures' = failures
  BY DEF ScanFails
<1> QED BY <1>1, <1>2, <1>3, <1>4, <1>5, ChildAfter

\* A line of the answer is read.
LEMMA ReadKeeps ==
    ASSUME SendInv, Read
    PROVE  SendInv'
<1>1. PackStays
  BY PackKept DEF SendInv, Read
<1>2. child # "none" /\ stdout # <<>>
  BY DEF Read
<1>3. PICK x : x = TextOf(Head(todo))
  OBVIOUS
<1>4. /\ todo # <<>> /\ child \in {"check", "mask"} /\ x \in Seq(Lines)
      /\ running \in BOOLEAN /\ success \in BOOLEAN /\ failures \in Nat
      /\ Pipes(x, child, unsent, stdin, stdout, answer)
      /\ child = "mask" => Action = "mask"
      /\ success => ~running /\ unsent = <<>> /\ stdin = <<>>
      /\ ~config.rules => child = "check" /\ ~success /\ stdout = <<>> /\ answer = <<>>
      /\ config.rules /\ (running \/ success) =>
            Talks(child, x, unsent, stdin, stdout, answer)
      /\ config.rules /\ ~running /\ ~success => <<stage, Head(todo)>> \in spoilt
  BY <1>2, <1>3, ChildOf
<1>5. /\ answer' = Append(answer, Head(stdout)) /\ stdout' = Tail(stdout)
      /\ stdin' = stdin /\ child' = child /\ unsent' = unsent
      /\ running' = running /\ success' = success
      /\ spoilt' = spoilt /\ failures' = failures
  BY DEF Read
<1>6. Pipes(x, child, unsent, stdin, stdout', answer')
  BY <1>2, <1>4, <1>5, PipesRead
<1>7. config.rules /\ (running \/ success) =>
          Talks(child, x, unsent, stdin, stdout', answer')
  <2>1. stdout \in Seq(Lines) /\ answer \in Seq(Lines)
    BY <1>4 DEF Pipes
  <2>2. ASSUME config.rules /\ (running \/ success)
        PROVE  Talks(child, x, unsent, stdin, Tail(stdout), Append(answer, Head(stdout)))
    BY <1>2, <1>4, <2>1, <2>2, TalkReads
  <2> QED BY <1>5, <2>2
<1>8. config.rules
  BY <1>2, <1>4
<1> QED BY <1>1, <1>3, <1>4, <1>5, <1>6, <1>7, <1>8, ChildAfter

\* Ctrl-C ends the child, and spoils its scan.
LEMMA PressCtrlCKeeps ==
    ASSUME SendInv, PressCtrlC
    PROVE  SendInv'
<1>1. PackStays
  BY PackKept DEF SendInv, PressCtrlC
<1>2. child # "none" /\ running
  BY DEF SendInv, ChildInv, PressCtrlC
<1>3. PICK x : x = TextOf(Head(todo))
  OBVIOUS
<1>4. /\ todo # <<>> /\ child \in {"check", "mask"} /\ failures \in Nat /\ success \in BOOLEAN
      /\ Pipes(x, child, unsent, stdin, stdout, answer)
      /\ child = "mask" => Action = "mask"
      /\ success => ~running /\ unsent = <<>> /\ stdin = <<>>
      /\ ~config.rules => child = "check" /\ ~success /\ stdout = <<>> /\ answer = <<>>
  BY <1>2, <1>3, ChildOf
<1>5. /\ spoilt' = spoilt \cup {<<stage, Head(todo)>>} /\ running' = FALSE
      /\ child' = child /\ success' = success /\ unsent' = unsent /\ stdin' = stdin
      /\ stdout' = stdout /\ answer' = answer /\ failures' = failures
  BY DEF PressCtrlC
<1>6. ~success
  BY <1>2, <1>4
<1> QED BY <1>1, <1>3, <1>4, <1>5, <1>6, ChildAfter

\* A child is started.
LEMMA SpawnKeeps ==
    ASSUME SendInv, todo # <<>>, NEW what \in {"check", "mask"}, Spawn(what),
           what = "mask" => /\ Action = "mask" /\ config.rules
                            /\ FoundIn(TextOf(Head(todo)), Len(TextOf(Head(todo))))
    PROVE  SendInv'
<1>1. PackStays
  BY PackKept DEF SendInv, Spawn
<1>2. PICK x : x = TextOf(Head(todo))
  OBVIOUS
<1>3. x \in Seq(Lines)
  BY <1>2, HeadText DEF SendInv
<1>4. /\ child' = what /\ running' = TRUE /\ success' = FALSE
      /\ unsent' = x /\ stdin' = <<>> /\ stdout' = <<>> /\ answer' = <<>>
      /\ spoilt' = spoilt /\ failures' = failures
  BY <1>2 DEF Spawn
<1>5. failures' \in Nat
  BY <1>4 DEF SendInv, ChildInv
<1>6. Talks(what, x, x, <<>>, <<>>, <<>>)
  BY <1>3, TalkStarts
<1>7. Pipes(x, what, x, <<>>, <<>>, <<>>)
  BY <1>2, <1>3, PipesStart
<1> QED BY <1>1, <1>2, <1>4, <1>5, <1>6, <1>7, ChildAfter

\* An ideal outcome is one, and never an error.
LEMMA IdealType ==
    ASSUME NEW action \in Actions \cup {"none"}, NEW x \in Seq(Lines)
    PROVE  /\ Ideal(action, x) \in Outcomes /\ Ideal(action, x).kind # "error"
           /\ Ideal(action, x).kind = "masked" => Ideal(action, x).text = MaskOf(x)
           /\ MaskOf(x) \in Seq(Lines) /\ Len(MaskOf(x)) = Len(x)
<1>1. <<>> \in Seq(Lines)
  OBVIOUS
<1>2. MaskOf(x) \in Seq(Lines) /\ Len(MaskOf(x)) = Len(x)
  <2>1. \A i \in 1..Len(x) : (IF x[i] = "secret" THEN "masked" ELSE x[i]) \in Lines
    <3>1. \A i \in 1..Len(x) : x[i] \in Lines
      OBVIOUS
    <3> QED BY <3>1 DEF Lines
  <2>2. Len(x) \in Nat
    OBVIOUS
  <2> QED BY <2>1, <2>2 DEF MaskOf
<1>3. Clean \in Outcomes /\ Clean.kind = "clean"
  BY <1>1 DEF Clean, Outcome, Outcomes
<1>4. ASSUME NEW k \in {"hit", "deny"}
      PROVE  Outcome(k, <<>>) \in Outcomes /\ Outcome(k, <<>>).kind = k
  BY <1>1 DEF Outcome, Outcomes
<1>5. /\ Outcome("masked", MaskOf(x)) \in Outcomes
      /\ Outcome("masked", MaskOf(x)).kind = "masked"
      /\ Outcome("masked", MaskOf(x)).text = MaskOf(x)
  BY <1>2 DEF Outcome, Outcomes
<1>6. \/ Ideal(action, x) = Clean
      \/ Ideal(action, x) = Outcome("hit", <<>>)
      \/ Ideal(action, x) = Outcome("deny", <<>>)
      \/ Ideal(action, x) = Outcome("masked", MaskOf(x))
  BY DEF Ideal, Actions
<1> QED BY <1>2, <1>3, <1>4, <1>5, <1>6

\* An outcome is noted, and the next text is to be filtered; or an error ends the second
\* stage.
LEMMA RecordKeeps ==
    ASSUME SendInv, todo # <<>>, NEW o \in Outcomes, Record(o), failures' \in Nat,
           Undisturbed' => Undisturbed,
           Undisturbed' => o = Ideal(Effective(Action, config), TextOf(Head(todo))),
           o.kind = "masked" =>
               Len(o.text) <= Len(TextOf(Head(todo))) /\ ~HasSecret(o.text),
           (/\ stage = "egress" /\ config.rules /\ config.egress \in {"mask", "deny"}
            /\ HasSecret(TextOf(Head(todo)))) =>
               \/ o.kind \in {Saying(config.egress), "error"}
               \/ <<"egress", Head(todo)>> \in spoilt
    PROVE  SendInv'
<1>1. PICK h, x : h = Head(todo) /\ x = TextOf(h)
  OBVIOUS
<1>2. h \in Wanting /\ x \in Seq(Lines) /\ stage \in {"screen", "egress"} /\ Action \in Actions
  BY <1>1, HeadText DEF SendInv
<1>3. /\ input' = input /\ config' = config /\ baseline' = baseline
      /\ candidates' = candidates /\ pack' = pack /\ spoilt' = spoilt
      /\ outcome' = [t \in DOMAIN outcome \cup {h} |-> IF t = h THEN o ELSE outcome[t]]
      /\ child' = "none" /\ running' = FALSE /\ success' = FALSE
      /\ unsent' = <<>> /\ stdin' = <<>> /\ stdout' = <<>> /\ answer' = <<>>
  BY <1>1 DEF Record, givenVars
<1>4. GivenInv'
  BY <1>3 DEF SendInv, GivenInv
<1>5. ChildInv'
  BY <1>3 DEF ChildInv
<1>6. /\ DOMAIN outcome' = DOMAIN outcome \cup {h} /\ outcome'[h] = o
      /\ \A t \in DOMAIN outcome : t # h => outcome'[t] = outcome[t]
  BY <1>3
<1>7. /\ pack \in Packs /\ todo \in Seq(Wanting)
      /\ DOMAIN outcome \subseteq Wanting /\ \A t \in DOMAIN outcome : outcome[t] \in Outcomes
      /\ stage = "screen" => pack = NoPack
      /\ \A t \in DOMAIN outcome :
            outcome[t].kind = "masked" =>
                Len(outcome[t].text) <= Len(TextOf(t)) /\ ~HasSecret(outcome[t].text)
      /\ \A t \in Wanting : t \in DOMAIN outcome \/ \E i \in 1..Len(todo) : todo[i] = t
      /\ stage # "screen" /\ config.strategy = "tail" => InBudget(pack, input)
  BY <1>2 DEF SendInv, PackInv
<1>8. CASE stage = "egress" /\ o.kind = "error"
  <2>1. stage' = "blocked" /\ todo' = <<>>
    BY <1>8 DEF Record
  <2>2. ~Undisturbed'
    <3>1. Effective(Action, config) \in Actions \cup {"none"}
      BY <1>2 DEF Effective
    <3>2. o # Ideal(Effective(Action, config), x)
      BY <1>2, <1>8, <3>1, IdealType
    <3> QED BY <1>1, <3>2
  <2>3. Wanting' = Wanting
    BY <1>3, <1>8, <2>1 DEF Wanting, OfAddons
  <2>4. PackInv'
    <3>1. \A t \in DOMAIN outcome' : outcome'[t] \in Outcomes /\ t \in Wanting
      BY <1>2, <1>6, <1>7
    <3>2. <<>> \in Seq(Wanting)
      OBVIOUS
    <3>3. InBudget(pack, input)' = InBudget(pack, input)
      BY <1>3 DEF InBudget
    <3> QED BY <1>3, <1>7, <1>8, <2>1, <2>3, <3>1, <3>2, <3>3 DEF PackInv
  <2>5. IdealInv'
    BY <2>2 DEF IdealInv
  <2>6. SentAsFiltered'
    BY <2>2 DEF SentAsFiltered, Undisturbed
  <2>7. CaughtInv' /\ SecretsStay'
    BY <2>1 DEF CaughtInv, SecretsStay
  <2> QED BY <1>4, <1>5, <2>4, <2>5, <2>6, <2>7 DEF SendInv
<1>9. CASE ~(stage = "egress" /\ o.kind = "error")
  <2>1. stage' = stage /\ todo' = Tail(todo)
    BY <1>9 DEF Record
  <2>2. /\ Wanting' = Wanting /\ \A t : TextOf(t)' = TextOf(t)
        /\ Action' = Action /\ Planned' = Planned
    <3>1. UNCHANGED givenVars
      BY DEF Record
    <3> QED BY <1>3, <2>1, <3>1, SameTexts, SameAction, SamePlan
  <2>3. /\ todo' \in Seq(Wanting) /\ Len(todo') = Len(todo) - 1 /\ Len(todo) \in Nat
        /\ h = todo[1] /\ \A i \in 1..(Len(todo) - 1) : todo'[i] = todo[i + 1]
    BY <1>1, <1>7, <2>1
  <2>4. PackInv'
    <3>1. \A t \in DOMAIN outcome' : outcome'[t] \in Outcomes /\ t \in Wanting
      BY <1>2, <1>6, <1>7
    <3>2. \A t \in DOMAIN outcome' :
             outcome'[t].kind = "masked" =>
                 Len(outcome'[t].text) <= Len(TextOf(t)) /\ ~HasSecret(outcome'[t].text)
      BY <1>1, <1>6, <1>7
    <3>3. InBudget(pack, input)' = InBudget(pack, input)
      BY <1>3 DEF InBudget
    <3>4. Action # "none"
      BY <1>2 DEF Actions
    <3>5. ASSUME NEW t \in Wanting
          PROVE  t \in DOMAIN outcome' \/ \E i \in 1..Len(todo') : todo'[i] = t
      <4>1. CASE t \in DOMAIN outcome
        BY <1>6, <4>1
      <4>2. CASE t = h
        BY <1>6, <4>2
      <4>3. CASE t # h /\ \E i \in 1..Len(todo) : todo[i] = t
        <5>1. PICK i \in 1..Len(todo) : todo[i] = t
          BY <4>3
        <5>2. i # 1
          BY <2>3, <4>3, <5>1
        <5>3. i - 1 \in 1..Len(todo') /\ todo'[i - 1] = t
          BY <2>3, <5>1, <5>2
        <5> QED BY <5>3
      <4> QED BY <1>7, <4>1, <4>2, <4>3
    <3> QED BY <1>2, <1>3, <1>7, <2>1, <2>2, <2>3, <3>1, <3>2, <3>3, <3>4, <3>5 DEF PackInv
  <2>5. ASSUME Undisturbed' PROVE IdealInv'
    <3>1. /\ \A t \in DOMAIN outcome : outcome[t] = Ideal(Effective(Action, config), TextOf(t))
          /\ stage = "egress" => pack = Planned /\ ~OverCap(pack, HardCap)
      BY <1>2, <2>5 DEF SendInv, IdealInv
    <3>2. \A t \in DOMAIN outcome' :
             outcome'[t] = Ideal(Effective(Action, config), TextOf(t))
      BY <1>1, <1>6, <2>5, <3>1
    <3>3. OverCap(pack, HardCap)' = OverCap(pack, HardCap)
      BY <1>3 DEF OverCap
    <3> QED BY <1>3, <2>1, <2>2, <3>1, <3>2, <3>3 DEF IdealInv
  <2>6. IdealInv'
    BY <2>5 DEF IdealInv
  <2>7. SentAsFiltered' /\ SecretsStay'
    BY <1>2, <2>1 DEF SentAsFiltered, SecretsStay
  <2>8. CaughtInv'
    <3>1. ASSUME stage = "egress", config.rules, config.egress \in {"mask", "deny"},
                 NEW t \in DOMAIN outcome', HasSecret(TextOf(t))
          PROVE  outcome'[t].kind = Saying(config.egress) \/ <<"egress", t>> \in spoilt
      <4>1. CASE t = h
        BY <1>1, <1>6, <1>9, <3>1, <4>1
      <4>2. CASE t # h
        <5>1. t \in DOMAIN outcome /\ outcome'[t] = outcome[t]
          BY <1>6, <4>2
        <5> QED BY <3>1, <5>1 DEF SendInv, CaughtInv
      <4> QED BY <4>1, <4>2
    <3> QED BY <1>3, <2>1, <2>2, <3>1 DEF CaughtInv
  <2> QED BY <1>4, <1>5, <2>4, <2>6, <2>7, <2>8 DEF SendInv
<1> QED BY <1>8, <1>9

\* A child that cannot be started is an error of its text.
LEMMA SpawnFailsKeeps ==
    ASSUME SendInv, todo # <<>>, SpawnFails
    PROVE  SendInv'
<1>1. failures \in Nat /\ failures' = failures + 1 /\ Record(Failure)
  BY DEF SendInv, ChildInv, SpawnFails
<1>2. failures' \in Nat /\ failures' # 0
  BY <1>1
<1>3. ~Undisturbed'
  BY <1>2 DEF Undisturbed
<1>4. Failure \in Outcomes /\ Failure.kind = "error"
  <2>1. <<>> \in Seq(Lines)
    OBVIOUS
  <2> QED BY <2>1 DEF Failure, Outcome, Outcomes
<1> QED BY <1>1, <1>2, <1>3, <1>4, RecordKeeps

LEMMA StartCheckKeeps ==
    ASSUME SendInv, StartCheck
    PROVE  SendInv'
<1>1. todo # <<>> /\ (Spawn("check") \/ SpawnFails)
  BY DEF StartCheck
<1>2. CASE Spawn("check")
  BY <1>1, <1>2, SpawnKeeps
<1> QED BY <1>1, <1>2, SpawnFailsKeeps

\* What a child that is done has said of the whole text.
LEMMA AnswerOf ==
    ASSUME SendInv, child # "none", AnswerComplete, NEW x, x = TextOf(Head(todo))
    PROVE  /\ todo # <<>> /\ x \in Seq(Lines) /\ answer \in Seq(Lines) /\ success \in BOOLEAN
           /\ child = "mask" => /\ Action = "mask" /\ config.rules /\ FoundIn(x, Len(x))
                                /\ Len(answer) <= Len(x) /\ ~HasSecret(answer)
           /\ ~config.rules => ~success
           /\ config.rules => success \/ <<stage, Head(todo)>> \in spoilt
           /\ success /\ child = "check" => (answer # <<>> <=> FoundIn(x, Len(x)))
           /\ success /\ child = "mask" => answer = MaskOf(x)
<1>1. /\ todo # <<>> /\ child \in {"check", "mask"} /\ x \in Seq(Lines)
      /\ running \in BOOLEAN /\ success \in BOOLEAN /\ failures \in Nat
      /\ Pipes(x, child, unsent, stdin, stdout, answer)
      /\ child = "mask" => Action = "mask"
      /\ success => ~running /\ unsent = <<>> /\ stdin = <<>>
      /\ ~config.rules => child = "check" /\ ~success /\ stdout = <<>> /\ answer = <<>>
      /\ config.rules /\ (running \/ success) =>
            Talks(child, x, unsent, stdin, stdout, answer)
      /\ config.rules /\ ~running /\ ~success => <<stage, Head(todo)>> \in spoilt
  BY ChildOf
<1>2. unsent = <<>> /\ ~running /\ stdout = <<>>
  BY DEF AnswerComplete
<1>3. /\ answer \in Seq(Lines) /\ stdin \in Seq(Lines)
      /\ child = "mask" =>
            /\ FoundIn(x, Len(x)) /\ ~HasSecret(answer)
            /\ Len(answer) + Len(stdout) + Len(stdin) + Len(unsent) <= Len(x)
  BY <1>1 DEF Pipes
<1>4. child = "mask" => /\ Action = "mask" /\ config.rules /\ FoundIn(x, Len(x))
                        /\ Len(answer) <= Len(x) /\ ~HasSecret(answer)
  <2>1. child = "mask" => config.rules
    BY <1>1
  <2>2. Len(<<>>) = 0 /\ Len(answer) \in Nat /\ Len(stdin) \in Nat /\ Len(x) \in Nat
    BY <1>1, <1>3
  <2>3. child = "mask" => Len(answer) <= Len(x)
    BY <1>2, <1>3, <2>2
  <2> QED BY <1>1, <1>3, <2>1, <2>3
<1>5. ASSUME success
      PROVE  /\ child = "check" => (answer # <<>> <=> FoundIn(x, Len(x)))
             /\ child = "mask" => answer = MaskOf(x)
  <2>1. Talks(child, x, <<>>, <<>>, <<>>, answer)
    BY <1>1, <1>2, <1>5
  <2> QED BY <1>1, <1>3, <2>1, TalkEnds
<1> QED BY <1>1, <1>2, <1>3, <1>4, <1>5

LEMMA StartMaskKeeps ==
    ASSUME SendInv, StartMask
    PROVE  SendInv'
<1>1. /\ child = "check" /\ AnswerComplete /\ success /\ answer # <<>> /\ Action = "mask"
      /\ Spawn("mask") \/ SpawnFails
  BY DEF StartMask, IsHit
<1>2. PICK x : x = TextOf(Head(todo))
  OBVIOUS
<1>3. todo # <<>> /\ config.rules /\ FoundIn(x, Len(x))
  BY <1>1, <1>2, AnswerOf
<1>4. CASE Spawn("mask")
  BY <1>1, <1>2, <1>3, <1>4, SpawnKeeps
<1>5. CASE SpawnFails
  BY <1>3, <1>5, SpawnFailsKeeps
<1> QED BY <1>1, <1>4, <1>5

\* The outcome of a check.
LEMMA CheckedKeeps ==
    ASSUME SendInv, Checked
    PROVE  SendInv'
<1>1. PICK x : x = TextOf(Head(todo))
  OBVIOUS
<1>2. PICK o : o = IF ~IsHit THEN Clean
                   ELSE Outcome(IF Action = "allow" THEN "hit" ELSE "deny", <<>>)
  OBVIOUS
<1>3. /\ child = "check" /\ AnswerComplete /\ (~IsHit \/ Action # "mask")
      /\ Record(o) /\ failures' = failures
  BY <1>2 DEF Checked
<1>4. /\ todo # <<>> /\ x \in Seq(Lines) /\ success \in BOOLEAN
      /\ ~config.rules => ~success
      /\ config.rules => success \/ <<stage, Head(todo)>> \in spoilt
      /\ success => (answer # <<>> <=> FoundIn(x, Len(x)))
  BY <1>1, <1>3, AnswerOf
<1>5. Action \in Actions
  BY <1>4, HeadText DEF SendInv
<1>6. o \in Outcomes /\ o.kind # "masked"
  <2>1. <<>> \in Seq(Lines)
    OBVIOUS
  <2> QED BY <1>2, <2>1 DEF Clean, Outcome, Outcomes
<1>7. success => (IsHit <=> HasSecret(x))
  BY <1>4 DEF IsHit, FoundIn, HasSecret
<1>8. ASSUME Undisturbed PROVE o = Ideal(Effective(Action, config), x)
  <2>1. CASE ~config.rules
    <3>1. ~IsHit
      BY <1>4, <2>1 DEF IsHit
    <3> QED BY <1>2, <2>1, <3>1 DEF Ideal, Effective
  <2>2. CASE config.rules
    <3>1. IsHit <=> HasSecret(x)
      BY <1>4, <1>7, <1>8, <2>2 DEF Undisturbed
    <3>2. CASE ~IsHit
      BY <1>2, <3>1, <3>2 DEF Ideal
    <3>3. CASE IsHit
      <4>1. Action = "allow" \/ Action = "deny"
        BY <1>3, <1>5, <3>3 DEF Actions
      <4> QED BY <1>2, <2>2, <3>1, <3>3, <4>1 DEF Ideal, Effective
    <3> QED BY <3>2, <3>3
  <2> QED BY <2>1, <2>2
<1>9. failures' \in Nat /\ (Undisturbed' => Undisturbed)
  BY <1>3 DEF SendInv, ChildInv, Undisturbed, Record
<1>10. ASSUME stage = "egress", config.rules, config.egress \in {"mask", "deny"}, HasSecret(x)
       PROVE  o.kind = Saying(config.egress) \/ <<"egress", Head(todo)>> \in spoilt
  <2>1. CASE success
    <3>1. IsHit /\ Action = config.egress
      BY <1>7, <1>10, <2>1 DEF Action
    <3>2. config.egress = "deny"
      BY <1>3, <1>10, <3>1
    <3> QED BY <1>2, <3>1, <3>2 DEF Saying, Outcome
  <2>2. CASE ~success
    BY <1>4, <1>10, <2>2
  <2> QED BY <2>1, <2>2
<1> QED BY <1>1, <1>3, <1>4, <1>6, <1>8, <1>9, <1>10, RecordKeeps

\* The outcome of a mask.
LEMMA MaskedKeeps ==
    ASSUME SendInv, Masked
    PROVE  SendInv'
<1>1. PICK x : x = TextOf(Head(todo))
  OBVIOUS
<1>2. PICK o : o = Outcome("masked", answer)
  OBVIOUS
<1>3. child = "mask" /\ AnswerComplete /\ Record(o) /\ failures' = failures
  BY <1>2 DEF Masked
<1>4. /\ todo # <<>> /\ x \in Seq(Lines) /\ answer \in Seq(Lines) /\ success \in BOOLEAN
      /\ Action = "mask" /\ config.rules /\ FoundIn(x, Len(x))
      /\ Len(answer) <= Len(x) /\ ~HasSecret(answer)
      /\ success \/ <<stage, Head(todo)>> \in spoilt
      /\ success => answer = MaskOf(x)
  BY <1>1, <1>3, AnswerOf
<1>5. o \in Outcomes /\ o.kind = "masked" /\ o.text = answer
  BY <1>2, <1>4 DEF Outcome, Outcomes
<1>6. ASSUME Undisturbed PROVE o = Ideal(Effective(Action, config), x)
  <2>1. HasSecret(x)
    BY <1>4 DEF FoundIn, HasSecret
  <2>2. answer = MaskOf(x)
    BY <1>4, <1>6 DEF Undisturbed
  <2> QED BY <1>2, <1>4, <2>1, <2>2 DEF Ideal, Effective
<1>7. failures' \in Nat /\ (Undisturbed' => Undisturbed)
  BY <1>3 DEF SendInv, ChildInv, Undisturbed, Record
<1>8. stage = "egress" => o.kind = Saying(config.egress)
  BY <1>4, <1>5 DEF Action, Saying
<1> QED BY <1>1, <1>3, <1>4, <1>5, <1>6, <1>7, <1>8, RecordKeeps

\* The lists that a stage has its texts in.
LEMMA AddonsWanting ==
    ASSUME GivenInv, stage = "screen", NEW i \in 1..Len(candidates)
    PROVE  /\ Target("message", i) \in Wanting /\ Target("attachment", i) \in Wanting
           /\ TextOf(Target("message", i)) = TextsOf(candidates)[i]
           /\ TextOf(Target("attachment", i)) = AttachmentsOf(candidates)[i]
<1>1. candidates \in Seq(Addons)
  BY GivenTypes
<1>2. /\ TextsOf(candidates)[i] = candidates[i].text
      /\ AttachmentsOf(candidates)[i] = candidates[i].attachment
  BY <1>1, AddonsHave
<1>3. Target("message", i) \in Wanting /\ Target("attachment", i) \in Wanting
  BY DEF Wanting, OfAddons
<1>4. /\ TextOf(Target("message", i)) = candidates[i].text
      /\ TextOf(Target("attachment", i)) = candidates[i].attachment
  BY DEF TextOf, Target
<1> QED BY <1>2, <1>3, <1>4

LEMMA PackWanting ==
    ASSUME pack \in Packs, stage # "screen"
    PROVE  /\ \A i \in 1..Len(pack.messages) :
                 /\ Target("message", i) \in Wanting
                 /\ TextOf(Target("message", i)) = TextsOf(pack.messages)[i]
           /\ \A i \in 1..Len(pack.attachments) :
                 /\ Target("attachment", i) \in Wanting
                 /\ TextOf(Target("attachment", i)) = pack.attachments[i]
<1>1. ASSUME NEW i \in 1..Len(pack.messages)
      PROVE  /\ Target("message", i) \in Wanting
             /\ TextOf(Target("message", i)) = TextsOf(pack.messages)[i]
  <2>1. TextOf(Target("message", i)) = pack.messages[i].text
    BY DEF TextOf, Target
  <2>2. TextsOf(pack.messages)[i] = pack.messages[i].text
    BY DEF TextsOf
  <2> QED BY <2>1, <2>2 DEF Wanting, OfAddons
<1>2. ASSUME NEW i \in 1..Len(pack.attachments)
      PROVE  /\ Target("attachment", i) \in Wanting
             /\ TextOf(Target("attachment", i)) = pack.attachments[i]
  <2>1. TextOf(Target("attachment", i)) = pack.attachments[i]
    BY DEF TextOf, Target
  <2> QED BY <2>1 DEF Wanting, OfAddons
<1> QED BY <1>1, <1>2

\* Every text of a list has an outcome.
LEMMA OutcomesType ==
    ASSUME PackInv, NEW list, NEW n, NEW i \in 1..n
    PROVE  /\ OutcomeOf(list, n)[i] \in Outcomes
           /\ stage \in {"screen", "egress"} /\ OutcomeOf(list, n)[i].kind = "masked" =>
                 Len(OutcomeOf(list, n)[i].text) <= Len(TextOf(Target(list, i)))
<1>1. OutcomeOf(list, n)[i] = IF Target(list, i) \in DOMAIN outcome
                              THEN outcome[Target(list, i)] ELSE Clean
  BY DEF OutcomeOf
<1>2. /\ \A t \in DOMAIN outcome : outcome[t] \in Outcomes
      /\ stage \in {"screen", "egress"} =>
            \A t \in DOMAIN outcome :
                outcome[t].kind = "masked" => Len(outcome[t].text) <= Len(TextOf(t))
  BY DEF PackInv
<1>3. Clean \in Outcomes /\ Clean.kind = "clean"
  <2>1. <<>> \in Seq(Lines)
    OBVIOUS
  <2> QED BY <2>1 DEF Clean, Outcome, Outcomes
<1> QED BY <1>1, <1>2, <1>3

\* When the list is done in an undisturbed run, they are the ideal ones.
LEMMA OutcomesIdeal ==
    ASSUME SendInv, Undisturbed, todo = <<>>, stage \in {"screen", "egress"},
           NEW list, NEW n \in Nat, NEW xs, Len(xs) = n,
           \A i \in 1..n : Target(list, i) \in Wanting /\ TextOf(Target(list, i)) = xs[i]
    PROVE  OutcomeOf(list, n) = IdealOf(Effective(Action, config), xs)
<1>1. Action \in Actions \cup {"none"}
  BY SendAssumption DEF SendInv, GivenInv, Action, SendAssumption
<1>2. ASSUME NEW i \in 1..n
      PROVE  (IF Target(list, i) \in DOMAIN outcome THEN outcome[Target(list, i)] ELSE Clean)
                 = Ideal(Effective(Action, config), xs[i])
  <2>1. PICK t : t = Target(list, i)
    OBVIOUS
  <2>2. t \in Wanting /\ TextOf(t) = xs[i]
    BY <2>1
  <2>3. CASE Action \in Actions
    <3>1. /\ \A w \in DOMAIN outcome : outcome[w] = Ideal(Effective(Action, config), TextOf(w))
          /\ \A w \in Wanting : w \in DOMAIN outcome \/ \E k \in 1..Len(todo) : todo[k] = w
      BY <2>3 DEF SendInv, IdealInv, PackInv
    <3>2. Len(todo) = 0
      OBVIOUS
    <3>3. ~\E k \in 1..Len(todo) : todo[k] = t
      BY <3>2
    <3>4. t \in DOMAIN outcome
      BY <2>2, <3>1, <3>3
    <3> QED BY <2>1, <2>2, <3>1, <3>4
  <2>4. CASE Action = "none"
    <3>1. DOMAIN outcome = {}
      BY <2>4 DEF SendInv, PackInv
    <3>2. Ideal(Effective(Action, config), xs[i]) = Clean
      BY <2>4 DEF Ideal, Effective
    <3> QED BY <3>1, <3>2
  <2> QED BY <1>1, <2>3, <2>4
<1> QED BY <1>2 DEF OutcomeOf, IdealOf

\* And whatever was disturbed, a secret is caught or its scan was.
LEMMA OutcomesCaught ==
    ASSUME SendInv, stage = "egress", todo = <<>>, config.rules,
           config.egress \in {"mask", "deny"},
           NEW list, NEW n, NEW i \in 1..n, Target(list, i) \in Wanting,
           HasSecret(TextOf(Target(list, i)))
    PROVE  \/ OutcomeOf(list, n)[i].kind = Saying(config.egress)
           \/ <<"egress", Target(list, i)>> \in spoilt
<1>1. PICK t : t = Target(list, i)
  OBVIOUS
<1>2. Action \in Actions
  BY DEF Action, Actions
<1>3. t \in DOMAIN outcome
  <2>1. \A w \in Wanting : w \in DOMAIN outcome \/ \E k \in 1..Len(todo) : todo[k] = w
    BY <1>2 DEF SendInv, PackInv
  <2>2. Len(todo) = 0
    OBVIOUS
  <2> QED BY <1>1, <2>1, <2>2
<1>4. OutcomeOf(list, n)[i] = outcome[t]
  BY <1>1, <1>3 DEF OutcomeOf
<1> QED BY <1>1, <1>3, <1>4 DEF SendInv, CaughtInv

\* What is masked has no secret.
LEMMA OutcomesMasked ==
    ASSUME PackInv, stage \in {"screen", "egress"}, NEW list, NEW n, NEW i \in 1..n,
           OutcomeOf(list, n)[i].kind = "masked"
    PROVE  ~HasSecret(OutcomeOf(list, n)[i].text)
<1>1. OutcomeOf(list, n)[i] = IF Target(list, i) \in DOMAIN outcome
                              THEN outcome[Target(list, i)] ELSE Clean
  BY DEF OutcomeOf
<1>2. Clean.kind = "clean"
  BY DEF Clean, Outcome
<1> QED BY <1>1, <1>2 DEF PackInv

\* A pack of whatever addons is one, and within the budget.
LEMMA NewPackType ==
    ASSUME GivenInv, NEW adds \in Seq(Addons), NEW p, p = NewPack(adds)
    PROVE  p \in Packs /\ (config.strategy = "tail" => InBudget(p, input))
<1>1. /\ input.history \in Seq(ChatMessages) /\ input.instruction \in Seq(Seq(Lines))
      /\ baseline \in Seq(ChatMessages)
  BY GivenTypes
<1>2. p = Assembled(baseline, Selected(adds, Budget, AddonsBudget, baseline), TRUE)
  BY DEF NewPack
<1>3. CASE config.strategy = "tail"
  <2>1. PICK tail : tail = TailWindow(input.history, HistoryBudget(Budget, AddonsBudget))
    OBVIOUS
  <2>2. PICK ms, tx, bl : ms = input.history /\ tx = input.instruction /\ bl = baseline
    OBVIOUS
  <2>3. bl = Instructing(tx) \o tail
    BY <1>3, <2>1, <2>2 DEF GivenInv, Baseline, Reduced, Instructing
  <2>4. /\ ms \in Seq(ChatMessages) /\ tx \in Seq(Seq(Lines))
        /\ tail = TailWindow(ms, HistoryBudget(Budget, AddonsBudget))
        /\ p = Assembled(bl, Selected(adds, Budget, AddonsBudget, bl), TRUE)
    BY <1>1, <1>2, <2>1, <2>2
  <2>5. p \in Packs /\ InBudget(p, input)
    BY <2>2, <2>3, <2>4, SendAssumption, PackInBudget
  <2> QED BY <2>5
<1>4. CASE config.strategy # "tail"
  <2>1. PICK m, c : /\ m = Minimum(Minus(Budget.messages, Len(baseline)), AddonsBudget.messages)
                    /\ c = Minimum(Minus(Budget.chars, Chars(TextsOf(baseline))),
                                   AddonsBudget.chars)
    OBVIOUS
  <2>2. m \in Nat /\ c \in Nat
    <3>1. Len(baseline) \in Nat /\ Chars(TextsOf(baseline)) \in Nat
      <4>1. TextsOf(baseline) \in Seq(Seq(Lines))
        BY <1>1, TextsConcat
      <4>2. Chars(TextsOf(baseline)) \in Nat
        BY <4>1, CharsAdd
      <4> QED BY <1>1, <4>2
    <3> QED BY <2>1, <3>1, SendAssumption DEF SendAssumption, Minimum, Minus
  <2>3. PICK s : s = Selected(adds, Budget, AddonsBudget, baseline)
    OBVIOUS
  <2>4. Fits(s, m, c)
    BY <2>1, <2>2, <2>3, SelectedFits
  <2>5. s \in Seq(Addons)
    BY <2>4 DEF Fits
  <2>6. p \in Packs
    BY <1>1, <1>2, <2>3, <2>5, AssembledOf
  <2> QED BY <1>4, <2>6
<1> QED BY <1>3, <1>4

\* The texts of a pack that are to be filtered, all of them.
LEMMA PackTargetsAre ==
    ASSUME NEW p \in Packs,
           NEW W, W = {Target("message", i) : i \in 1..Len(p.messages)}
                      \cup {Target("attachment", i) : i \in 1..Len(p.attachments)}
    PROVE  /\ PackTargets(p) \in Seq(W)
           /\ \A t \in W : \E i \in 1..Len(PackTargets(p)) : PackTargets(p)[i] = t
<1>1. PICK n, k : n = Len(p.messages) /\ k = Len(p.attachments)
  OBVIOUS
<1>2. n \in Nat /\ k \in Nat
  <2>1. p.messages \in Seq(ChatMessages) /\ p.attachments \in Seq(Seq(Lines))
    BY DEF Packs
  <2> QED BY <1>1, <2>1
<1>3. PICK u, v, r : /\ u = Targets("message", n) /\ v = Targets("attachment", k)
                     /\ r = PackTargets(p)
  OBVIOUS
<1>4. /\ u \in Seq(W) /\ Len(u) = n /\ \A i \in 1..n : u[i] = Target("message", i)
      /\ v \in Seq(W) /\ Len(v) = k /\ \A i \in 1..k : v[i] = Target("attachment", i)
  BY <1>1, <1>2, <1>3 DEF Targets
<1>5. r = u \o v
  BY <1>1, <1>3 DEF PackTargets
<1>6. /\ r \in Seq(W) /\ Len(r) = n + k
      /\ \A i \in 1..n : r[i] = u[i]
      /\ \A i \in 1..k : r[n + i] = v[i]
  <2>1. /\ r \in Seq(W) /\ Len(r) = Len(u) + Len(v)
        /\ \A i \in 1..Len(u) : r[i] = u[i]
        /\ \A i \in 1..Len(v) : r[Len(u) + i] = v[i]
    <3>1. u \in Seq(W) /\ v \in Seq(W)
      BY <1>4
    <3> QED BY ONLY <1>5, <3>1, Joined
  <2> QED BY <1>4, <2>1
<1>7. ASSUME NEW t \in W PROVE \E i \in 1..Len(r) : r[i] = t
  <2>1. CASE \E i \in 1..n : t = Target("message", i)
    <3>1. PICK i \in 1..n : t = Target("message", i)
      BY <2>1
    <3>2. i \in 1..Len(r) /\ r[i] = t
      BY <1>2, <1>4, <1>6, <3>1
    <3> QED BY <3>2
  <2>2. CASE \E i \in 1..k : t = Target("attachment", i)
    <3>1. PICK i \in 1..k : t = Target("attachment", i)
      BY <2>2
    <3>2. n + i \in 1..Len(r) /\ r[n + i] = t
      BY <1>2, <1>4, <1>6, <3>1
    <3> QED BY <3>2
  <2> QED BY <1>1, <2>1, <2>2
<1> QED BY <1>3, <1>6, <1>7

\* And those of the addons.
LEMMA AddonTargetsAre ==
    ASSUME GivenInv
    PROVE  /\ AddonTargets \in Seq(OfAddons)
           /\ \A t \in OfAddons : \E i \in 1..Len(AddonTargets) : AddonTargets[i] = t
<1>0. PICK W : W = OfAddons
  OBVIOUS
<1>1. PICK n : n = Len(candidates)
  OBVIOUS
<1>2. n \in Nat
  BY <1>1, GivenTypes
<1>3. PICK r : r = AddonTargets
  OBVIOUS
<1>4. r = [k \in 1..(2 * n) |->
             Target(IF k % 2 = 1 THEN "message" ELSE "attachment", (k + 1) \div 2)]
  BY <1>1, <1>3 DEF AddonTargets
<1>5. ASSUME NEW k \in 1..(2 * n) PROVE (k + 1) \div 2 \in 1..n
  BY <1>2
<1>6. r \in Seq(W) /\ Len(r) = 2 * n
  <2>1. ASSUME NEW k \in 1..(2 * n)
        PROVE  Target(IF k % 2 = 1 THEN "message" ELSE "attachment", (k + 1) \div 2) \in W
    BY <1>0, <1>1, <1>5 DEF OfAddons
  <2>2. PICK N, f : /\ N = 2 * n
                    /\ f = [k \in 1..N |->
                             Target(IF k % 2 = 1 THEN "message" ELSE "attachment",
                                    (k + 1) \div 2)]
    OBVIOUS
  <2>3. N \in Nat /\ \A k \in 1..N : f[k] \in W
    BY <1>2, <2>1, <2>2
  <2>4. f = [k \in 1..N |-> f[k]]
    BY <2>2
  <2>5. f \in Seq(W) /\ Len(f) = N
    BY ONLY <2>3, <2>4
  <2> QED BY <1>4, <2>2, <2>5
<1>7. ASSUME NEW t \in W PROVE \E i \in 1..Len(r) : r[i] = t
  <2>1. PICK l \in {"message", "attachment"}, i \in 1..n : t = Target(l, i)
    BY <1>0, <1>1 DEF OfAddons
  <2>2. CASE l = "message"
    <3>1. /\ 2 * i - 1 \in 1..(2 * n) /\ (2 * i - 1) % 2 = 1
          /\ ((2 * i - 1) + 1) \div 2 = i
      BY <1>2
    <3>2. r[2 * i - 1] = t
      BY <1>4, <2>1, <2>2, <3>1
    <3> QED BY <1>6, <3>1, <3>2
  <2>3. CASE l = "attachment"
    <3>1. 2 * i \in 1..(2 * n) /\ (2 * i) % 2 # 1 /\ (2 * i + 1) \div 2 = i
      BY <1>2
    <3>2. r[2 * i] = t
      BY <1>4, <2>1, <2>3, <3>1
    <3> QED BY <1>6, <3>1, <3>2
  <2> QED BY <2>1, <2>2, <2>3
<1> QED BY <1>0, <1>3, <1>6, <1>7

\* The verdict on a pack changes texts to texts that are no longer, and nothing else.
LEMMA SensitiveKeeps ==
    ASSUME NEW p \in Packs, NEW mo, NEW ao, NEW action,
           \A i \in 1..Len(p.messages) :
              /\ mo[i] \in Outcomes
              /\ mo[i].kind = "masked" => Len(mo[i].text) <= Len(p.messages[i].text),
           \A i \in 1..Len(p.attachments) :
              /\ ao[i] \in Outcomes
              /\ ao[i].kind = "masked" => Len(ao[i].text) <= Len(p.attachments[i]),
           \/ action \in Actions
           \/ /\ \A i \in 1..Len(p.messages) : mo[i].kind = "clean"
              /\ \A i \in 1..Len(p.attachments) : ao[i].kind = "clean",
           NEW e, e = Sensitive(p, mo, ao, action)
    PROVE  /\ e.pack \in Packs
           /\ Len(e.pack.messages) = Len(p.messages)
           /\ Len(e.pack.attachments) = Len(p.attachments)
           /\ Chars(TextsOf(e.pack.messages)) + Chars(e.pack.attachments)
                  <= Chars(TextsOf(p.messages)) + Chars(p.attachments)
<1> DEFINE masked == [messages |-> [i \in 1..Len(p.messages) |->
                          IF mo[i].kind = "masked" THEN [p.messages[i] EXCEPT !.text = mo[i].text]
                          ELSE p.messages[i]],
                      attachments |-> [i \in 1..Len(p.attachments) |->
                          IF ao[i].kind = "masked" THEN ao[i].text ELSE p.attachments[i]]]
<1>1. PICK ms, ats : ms = p.messages /\ ats = p.attachments
  OBVIOUS
<1>2. ms \in Seq(ChatMessages) /\ ats \in Seq(Seq(Lines))
  BY <1>1 DEF Packs
<1>3. Len(ms) \in Nat /\ Len(ats) \in Nat
  BY <1>2
<1>4. \A i \in 1..Len(ats) : ats[i] \in Seq(Lines)
  BY ONLY <1>2
<1>5. \A m \in ChatMessages : m.text \in Seq(Lines)
  BY DEF ChatMessages
<1>6. /\ TextsOf(ms) \in Seq(Seq(Lines)) /\ Len(TextsOf(ms)) = Len(ms)
      /\ \A i \in 1..Len(ms) : TextsOf(ms)[i] = ms[i].text
  BY <1>2, <1>5, TextsType
<1>7. PICK nm, na : nm = masked.messages /\ na = masked.attachments
  OBVIOUS
<1>8. /\ nm \in Seq(ChatMessages) /\ Len(nm) = Len(ms)
      /\ \A i \in 1..Len(ms) : Len(nm[i].text) <= Len(ms[i].text)
  <2>1. PICK f : f = [i \in 1..Len(ms) |->
                        IF mo[i].kind = "masked" THEN [ms[i] EXCEPT !.text = mo[i].text]
                        ELSE ms[i]]
    OBVIOUS
  <2>2. nm = f
    BY <1>1, <1>7, <2>1
  <2>3. ASSUME NEW i \in 1..Len(ms)
        PROVE  f[i] \in ChatMessages /\ Len(f[i].text) <= Len(ms[i].text)
    <3>1. PICK m, y : m = ms[i] /\ y = mo[i].text
      OBVIOUS
    <3>2. m \in ChatMessages
      BY <1>2, <3>1
    <3>3. PICK ro, tx : /\ ro \in {"system", "user", "assistant", "addon"} /\ tx \in Seq(Lines)
                        /\ m = [role |-> ro, text |-> tx]
      BY <3>2 DEF ChatMessages
    <3>4. CASE mo[i].kind = "masked"
      <4>1. y \in Seq(Lines) /\ Len(y) <= Len(tx)
        <5>1. mo[i] \in Outcomes /\ Len(mo[i].text) <= Len(ms[i].text)
          BY <1>1, <3>4
        <5> QED BY <3>1, <3>3, <5>1 DEF Outcomes
      <4>2. [m EXCEPT !.text = y] = [role |-> ro, text |-> y]
        BY ONLY <3>3
      <4>3. f[i] = [role |-> ro, text |-> y]
        BY <2>1, <3>1, <3>4, <4>2
      <4> QED BY <3>1, <3>3, <4>1, <4>3 DEF ChatMessages
    <3>5. CASE mo[i].kind # "masked"
      <4>1. f[i] = m
        BY <2>1, <3>1, <3>5
      <4>2. Len(tx) <= Len(tx)
        <5>1. Len(tx) \in Nat
          BY <3>3
        <5> QED BY <5>1
      <4> QED BY <3>1, <3>2, <3>3, <4>1, <4>2
    <3> QED BY <3>4, <3>5
  <2>4. f = [i \in 1..Len(ms) |-> f[i]]
    BY <2>1
  <2>5. f \in Seq(ChatMessages) /\ Len(f) = Len(ms)
    BY ONLY <1>3, <2>3, <2>4
  <2> QED BY <2>2, <2>3, <2>5
<1>9. /\ na \in Seq(Seq(Lines)) /\ Len(na) = Len(ats)
      /\ \A i \in 1..Len(ats) : Len(na[i]) <= Len(ats[i])
  <2>1. PICK f : f = [i \in 1..Len(ats) |-> IF ao[i].kind = "masked" THEN ao[i].text ELSE ats[i]]
    OBVIOUS
  <2>2. na = f
    BY <1>1, <1>7, <2>1
  <2>3. ASSUME NEW i \in 1..Len(ats)
        PROVE  f[i] \in Seq(Lines) /\ Len(f[i]) <= Len(ats[i])
    <3>1. f[i] = IF ao[i].kind = "masked" THEN ao[i].text ELSE ats[i]
      BY <2>1
    <3>2. ao[i] \in Outcomes /\ (ao[i].kind = "masked" => Len(ao[i].text) <= Len(ats[i]))
      BY <1>1
    <3>3. ao[i].text \in Seq(Lines)
      BY <3>2 DEF Outcomes
    <3>4. ats[i] \in Seq(Lines) /\ Len(ats[i]) \in Nat
      BY <1>4
    <3> QED BY <3>1, <3>2, <3>3, <3>4
  <2>4. f = [i \in 1..Len(ats) |-> f[i]]
    BY <2>1
  <2>5. PICK Q : Q = Seq(Lines)
    OBVIOUS
  <2>6. \A i \in 1..Len(ats) : f[i] \in Q
    BY <2>3, <2>5
  <2>7. f \in Seq(Q) /\ Len(f) = Len(ats)
    BY ONLY <1>3, <2>4, <2>6
  <2> QED BY <2>2, <2>3, <2>5, <2>7
<1>10. /\ TextsOf(nm) \in Seq(Seq(Lines)) /\ Len(TextsOf(nm)) = Len(nm)
       /\ \A i \in 1..Len(nm) : TextsOf(nm)[i] = nm[i].text
  BY <1>5, <1>8, TextsType
<1>11. /\ Chars(TextsOf(nm)) <= Chars(TextsOf(ms))
       /\ Chars(TextsOf(nm)) \in Nat /\ Chars(TextsOf(ms)) \in Nat
  <2>1. \A i \in 1..Len(TextsOf(nm)) : Len(TextsOf(nm)[i]) <= Len(TextsOf(ms)[i])
    BY <1>6, <1>8, <1>10
  <2>2. Len(TextsOf(nm)) = Len(TextsOf(ms))
    BY <1>6, <1>8, <1>10
  <2> QED BY <1>6, <1>10, <2>1, <2>2, CharsShorter
<1>12. Chars(na) <= Chars(ats) /\ Chars(na) \in Nat /\ Chars(ats) \in Nat
  <2>1. \A i \in 1..Len(na) : Len(na[i]) <= Len(ats[i])
    BY <1>9
  <2> QED BY <1>2, <1>9, <2>1, CharsShorter
<1>13. masked = [messages |-> nm, attachments |-> na] /\ masked \in Packs
  <2>1. masked = [messages |-> nm, attachments |-> na]
    BY <1>7
  <2> HIDE DEF masked
  <2> QED BY <1>8, <1>9, <2>1 DEF Packs
<1>14. e.pack = p \/ e.pack = masked
  <2> DEFINE outcomes == {mo[i] : i \in 1..Len(p.messages)}
                             \cup {ao[i] : i \in 1..Len(p.attachments)}
  <2>1. e = IF \A o \in outcomes : o.kind = "clean" THEN [sent |-> TRUE, pack |-> p]
            ELSE CASE action = "allow" -> [sent |-> TRUE, pack |-> p]
                   [] action = "deny"  -> [sent |-> FALSE, pack |-> p]
                   [] action = "mask"  -> [sent |-> TRUE, pack |-> masked]
    BY DEF Sensitive
  <2>2. action \in Actions \/ \A o \in outcomes : o.kind = "clean"
    OBVIOUS
  <2> HIDE DEF outcomes, masked
  <2>3. \/ e = [sent |-> TRUE, pack |-> p]
        \/ e = [sent |-> FALSE, pack |-> p]
        \/ e = [sent |-> TRUE, pack |-> masked]
    BY <2>1, <2>2 DEF Actions
  <2> QED BY <2>3
<1> HIDE DEF masked
<1>15. CASE e.pack = p
  <2>1. Chars(TextsOf(ms)) + Chars(ats) <= Chars(TextsOf(ms)) + Chars(ats)
    BY <1>11, <1>12
  <2> QED BY <1>1, <1>15, <2>1
<1>16. CASE e.pack = masked
  <2>1. masked.messages = nm /\ masked.attachments = na
    BY <1>13
  <2> QED BY <1>1, <1>8, <1>9, <1>11, <1>12, <1>13, <1>16, <2>1
<1> QED BY <1>14, <1>15, <1>16

\* The verdict lets a secret out only where no outcome says so.
SecretsSeen(p, mo, ao, action, M, A) ==
    /\ \A i \in 1..Len(p.messages) :
          /\ HasSecret(p.messages[i].text) => mo[i].kind = Saying(action) \/ i \in M
          /\ mo[i].kind = "masked" => ~HasSecret(mo[i].text)
    /\ \A i \in 1..Len(p.attachments) :
          /\ HasSecret(p.attachments[i]) => ao[i].kind = Saying(action) \/ i \in A
          /\ ao[i].kind = "masked" => ~HasSecret(ao[i].text)
SecretsOnlyAt(p, M, A) ==
    /\ \A i \in 1..Len(p.messages) : HasSecret(p.messages[i].text) => i \in M
    /\ \A i \in 1..Len(p.attachments) : HasSecret(p.attachments[i]) => i \in A

LEMMA SensitiveCatches ==
    ASSUME NEW p \in Packs, NEW mo, NEW ao, NEW action \in {"mask", "deny"}, NEW M, NEW A,
           SecretsSeen(p, mo, ao, action, M, A),
           NEW e, e = Sensitive(p, mo, ao, action), e.sent
    PROVE  SecretsOnlyAt(e.pack, M, A)
<1> DEFINE masked == [messages |-> [i \in 1..Len(p.messages) |->
                          IF mo[i].kind = "masked" THEN [p.messages[i] EXCEPT !.text = mo[i].text]
                          ELSE p.messages[i]],
                      attachments |-> [i \in 1..Len(p.attachments) |->
                          IF ao[i].kind = "masked" THEN ao[i].text ELSE p.attachments[i]]]
           outcomes == {mo[i] : i \in 1..Len(p.messages)}
                           \cup {ao[i] : i \in 1..Len(p.attachments)}
<1>0. /\ \A i \in 1..Len(p.messages) :
            /\ HasSecret(p.messages[i].text) => mo[i].kind = Saying(action) \/ i \in M
            /\ mo[i].kind = "masked" => ~HasSecret(mo[i].text)
      /\ \A i \in 1..Len(p.attachments) :
            /\ HasSecret(p.attachments[i]) => ao[i].kind = Saying(action) \/ i \in A
            /\ ao[i].kind = "masked" => ~HasSecret(ao[i].text)
  BY DEF SecretsSeen
<1>1. e = IF \A o \in outcomes : o.kind = "clean" THEN [sent |-> TRUE, pack |-> p]
          ELSE CASE action = "allow" -> [sent |-> TRUE, pack |-> p]
                 [] action = "deny"  -> [sent |-> FALSE, pack |-> p]
                 [] action = "mask"  -> [sent |-> TRUE, pack |-> masked]
  BY DEF Sensitive
<1>2. PICK ms, ats : ms = p.messages /\ ats = p.attachments
  OBVIOUS
<1>3. ms \in Seq(ChatMessages) /\ Len(ms) \in Nat /\ Len(ats) \in Nat
  <2>1. ms \in Seq(ChatMessages) /\ ats \in Seq(Seq(Lines))
    BY <1>2 DEF Packs
  <2> QED BY <2>1
<1>4. CASE \A o \in outcomes : o.kind = "clean"
  <2>1. e.pack = p
    BY <1>1, <1>4
  <2>2. /\ \A i \in 1..Len(ms) : mo[i].kind = "clean"
        /\ \A i \in 1..Len(ats) : ao[i].kind = "clean"
    BY <1>2, <1>4
  <2>3. Saying(action) # "clean"
    BY DEF Saying
  <2> QED BY <1>0, <1>2, <2>1, <2>2, <2>3 DEF SecretsOnlyAt
<1>5. CASE ~\A o \in outcomes : o.kind = "clean"
  <2>1. action = "mask" /\ e.pack = masked
    <3> HIDE DEF outcomes, masked
    <3>1. action = "deny" => e = [sent |-> FALSE, pack |-> p]
      BY <1>1, <1>5
    <3>2. action = "mask" => e = [sent |-> TRUE, pack |-> masked]
      BY <1>1, <1>5
    <3> QED BY <3>1, <3>2
  <2>2. Saying(action) = "masked"
    BY <2>1 DEF Saying
  <2>3. PICK nm, na : nm = masked.messages /\ na = masked.attachments
    OBVIOUS
  <2>4. /\ nm = [i \in 1..Len(ms) |->
                   IF mo[i].kind = "masked" THEN [ms[i] EXCEPT !.text = mo[i].text] ELSE ms[i]]
        /\ na = [i \in 1..Len(ats) |-> IF ao[i].kind = "masked" THEN ao[i].text ELSE ats[i]]
    BY <1>2, <2>3
  <2> HIDE DEF outcomes, masked
  <2>5. Len(nm) = Len(ms) /\ Len(na) = Len(ats)
    BY <1>3, <2>4
  <2>6. ASSUME NEW i \in 1..Len(ms), HasSecret(nm[i].text) PROVE i \in M
    <3>1. CASE mo[i].kind = "masked"
      <4>1. PICK m, y : m = ms[i] /\ y = mo[i].text
        OBVIOUS
      <4>2. m \in ChatMessages
        BY <1>3, <4>1
      <4>3. PICK ro, tx : m = [role |-> ro, text |-> tx]
        BY <4>2 DEF ChatMessages
      <4>4. [m EXCEPT !.text = y] = [role |-> ro, text |-> y]
        BY ONLY <4>3
      <4>5. nm[i].text = y
        BY <2>4, <3>1, <4>1, <4>4
      <4> QED BY <1>0, <1>2, <2>6, <3>1, <4>1, <4>5
    <3>2. CASE mo[i].kind # "masked"
      BY <1>0, <1>2, <2>2, <2>4, <2>6, <3>2
    <3> QED BY <3>1, <3>2
  <2>7. ASSUME NEW i \in 1..Len(ats), HasSecret(na[i]) PROVE i \in A
    BY <1>0, <1>2, <2>2, <2>4, <2>7
  <2>8. e.pack.messages = nm /\ e.pack.attachments = na
    BY <2>1, <2>3
  <2> QED BY <2>5, <2>6, <2>7, <2>8 DEF SecretsOnlyAt
<1> QED BY <1>4, <1>5

LEMMA InitKeeps ==
    ASSUME SendInit
    PROVE  SendInv
<1>1. GivenInv
  BY DEF SendInit, GivenInv
<1>2. /\ stage = "screen" /\ outcome = NoOutcome /\ pack = NoPack /\ child = "none"
      /\ running = FALSE /\ success = FALSE /\ unsent = <<>> /\ stdin = <<>>
      /\ stdout = <<>> /\ answer = <<>> /\ spoilt = {} /\ failures = 0
      /\ todo = IF config.screen = "none" THEN <<>> ELSE AddonTargets
  BY DEF SendInit
<1>3. DOMAIN outcome = {}
  BY <1>2 DEF NoOutcome
<1>4. Wanting = OfAddons
  BY <1>2 DEF Wanting
<1>5. /\ AddonTargets \in Seq(Wanting)
      /\ \A t \in Wanting : \E i \in 1..Len(AddonTargets) : AddonTargets[i] = t
  BY <1>1, <1>4, AddonTargetsAre
<1>6. Action = config.screen /\ Action \in Actions \cup {"none"}
  BY <1>1, <1>2, SendAssumption DEF GivenInv, Action, SendAssumption
<1>7. "none" \notin Actions
  BY DEF Actions
<1>8. PackInv
  <2>1. pack \in Packs
    BY <1>2 DEF NoPack, Packs
  <2>2. <<>> \in Seq(Wanting)
    OBVIOUS
  <2>3. todo \in Seq(Wanting) /\ (todo # <<>> => Action \in Actions)
    BY <1>2, <1>5, <1>6, <2>2
  <2>4. Action \in Actions => \A t \in Wanting : \E i \in 1..Len(todo) : todo[i] = t
    BY <1>2, <1>5, <1>6, <1>7
  <2> QED BY <1>2, <1>3, <2>1, <2>3, <2>4 DEF PackInv
<1>9. IdealInv
  BY <1>2, <1>3 DEF IdealInv
<1>10. ChildInv
  BY <1>2 DEF ChildInv
<1>11. SentAsFiltered /\ SecretsStay /\ CaughtInv
  BY <1>2 DEF SentAsFiltered, SecretsStay, CaughtInv
<1> QED BY <1>1, <1>8, <1>9, <1>10, <1>11 DEF SendInv

\* The addons are screened and the pack is made.
LEMMA BuildKeeps ==
    ASSUME SendInv, Build
    PROVE  SendInv'
<1>1. PICK mo, ao : /\ mo = OutcomeOf("message", Len(candidates))
                    /\ ao = OutcomeOf("attachment", Len(candidates))
  OBVIOUS
<1>2. PICK scr, new : scr = Screened(candidates, mo, ao) /\ new = NewPack(scr)
  OBVIOUS
<1>3. /\ stage = "screen" /\ todo = <<>> /\ pack' = new /\ outcome' = NoOutcome
      /\ IF OverCap(new, HardCap)
         THEN stage' = "blocked" /\ todo' = <<>>
         ELSE stage' = "egress" /\ todo' = IF config.egress = "none" THEN <<>>
                                        ELSE PackTargets(new)
  BY <1>1, <1>2 DEF Build
<1>4. UNCHANGED givenVars /\ UNCHANGED childVars /\ spoilt' = spoilt /\ failures' = failures
  BY DEF Build
<1>5. /\ input' = input /\ config' = config /\ baseline' = baseline
      /\ candidates' = candidates
      /\ child' = child /\ running' = running /\ success' = success /\ unsent' = unsent
      /\ stdin' = stdin /\ stdout' = stdout /\ answer' = answer
  BY <1>4 DEF givenVars, childVars
<1>6. candidates \in Seq(Addons) /\ GivenInv /\ PackInv
  BY GivenTypes DEF SendInv
<1>7. scr \in Seq(Addons)
  <2>1. \A i \in 1..Len(candidates) : mo[i] \in Outcomes /\ ao[i] \in Outcomes
    BY <1>1, <1>6, OutcomesType
  <2> QED BY <1>2, <1>6, <2>1, ScreenedType
<1>8. new \in Packs /\ (config.strategy = "tail" => InBudget(new, input))
  BY <1>2, <1>6, <1>7, NewPackType
<1>9. GivenInv'
  BY <1>5, <1>6 DEF GivenInv
<1>10. DOMAIN outcome' = {}
  BY <1>3 DEF NoOutcome
<1>11. stage' \in {"egress", "blocked"}
  BY <1>3
<1>12. Wanting' = {Target("message", i) : i \in 1..Len(new.messages)}
                  \cup {Target("attachment", i) : i \in 1..Len(new.attachments)}
  <2>1. stage' # "screen"
    BY <1>11
  <2> QED BY <1>3, <2>1 DEF Wanting
<1>13. /\ PackTargets(new) \in Seq(Wanting')
       /\ \A t \in Wanting' : \E i \in 1..Len(PackTargets(new)) : PackTargets(new)[i] = t
  <2>1. PICK W : W = Wanting'
    OBVIOUS
  <2>2. W = {Target("message", i) : i \in 1..Len(new.messages)}
            \cup {Target("attachment", i) : i \in 1..Len(new.attachments)}
    BY <1>12, <2>1
  <2>3. /\ PackTargets(new) \in Seq(W)
        /\ \A t \in W : \E i \in 1..Len(PackTargets(new)) : PackTargets(new)[i] = t
    BY <1>8, <2>2, PackTargetsAre
  <2> QED BY <2>1, <2>3
<1>14. Action' = config.egress /\ config.egress \in Actions \cup {"none"}
  <2>1. Action' = config'.egress
    BY <1>11 DEF Action
  <2> QED BY <1>5, <1>6, <2>1, SendAssumption DEF GivenInv, SendAssumption
<1>15. "none" \notin Actions
  BY DEF Actions
<1>16. PackInv'
  <2>1. <<>> \in Seq(Wanting')
    OBVIOUS
  <2>2. todo' \in Seq(Wanting') /\ (todo' # <<>> => Action' \in Actions)
    BY <1>3, <1>13, <1>14, <2>1
  <2>3. config.strategy = "tail" => InBudget(pack, input)'
    BY <1>3, <1>5, <1>8 DEF InBudget
  <2>4. stage' = "blocked" => todo' = <<>>
    BY <1>3
  <2>5. Action' \in Actions /\ stage' = "egress" =>
            \A t \in Wanting' : \E i \in 1..Len(todo') : todo'[i] = t
    <3>1. Action' \in Actions /\ stage' = "egress" => todo' = PackTargets(new)
      BY <1>3, <1>14, <1>15
    <3> QED BY <1>13, <3>1
  <2> QED BY <1>3, <1>5, <1>8, <1>10, <1>11, <2>2, <2>3, <2>4, <2>5 DEF PackInv
<1>17. Planned' = Planned /\ (Undisturbed' <=> Undisturbed)
  BY <1>4, SamePlan DEF Undisturbed
<1>18. ASSUME Undisturbed PROVE new = Planned
  <2>1. Len(candidates) \in Nat
    BY <1>6
  <2>2. Action = config.screen
    BY <1>3 DEF Action
  <2>3. /\ Len(TextsOf(candidates)) = Len(candidates)
        /\ Len(AttachmentsOf(candidates)) = Len(candidates)
    BY <1>6, AddonsHave
  <2>4. mo = IdealOf(Effective(Action, config), TextsOf(candidates))
    <3>1. \A i \in 1..Len(candidates) :
             /\ Target("message", i) \in Wanting
             /\ TextOf(Target("message", i)) = TextsOf(candidates)[i]
      BY <1>3, <1>6, AddonsWanting
    <3> QED BY <1>1, <1>3, <1>18, <2>1, <2>3, <3>1, OutcomesIdeal
  <2>5. ao = IdealOf(Effective(Action, config), AttachmentsOf(candidates))
    <3>1. \A i \in 1..Len(candidates) :
             /\ Target("attachment", i) \in Wanting
             /\ TextOf(Target("attachment", i)) = AttachmentsOf(candidates)[i]
      BY <1>3, <1>6, AddonsWanting
    <3> QED BY <1>1, <1>3, <1>18, <2>1, <2>3, <3>1, OutcomesIdeal
  <2> QED BY <1>2, <2>2, <2>4, <2>5 DEF Planned
<1>19. OverCap(pack, HardCap)' = OverCap(new, HardCap)
  BY <1>3 DEF OverCap
<1>20. IdealInv'
  <2>1. stage' = "egress" => ~OverCap(new, HardCap)
    BY <1>3
  <2>2. Undisturbed' => pack' = Planned'
    BY <1>3, <1>17, <1>18
  <2> QED BY <1>10, <1>11, <1>19, <2>1, <2>2 DEF IdealInv
<1>21. ChildInv'
  <2>1. child = "none" /\ ~running
    BY <1>3 DEF SendInv, ChildInv
  <2> QED BY <1>4, <1>5, <2>1 DEF SendInv, ChildInv
<1>22. SentAsFiltered'
  <2>1. ASSUME stage' = "blocked", Undisturbed' PROVE Fulfilled'
    <3>1. OverCap(new, HardCap)
      BY <1>3, <2>1
    <3>2. new = Planned' /\ pack' = new
      BY <1>3, <1>17, <1>18, <2>1
    <3> QED BY <2>1, <3>1, <3>2 DEF Fulfilled
  <2>2. SentAsFiltered' <=> (stage' \in {"sent", "blocked"} /\ Undisturbed' => Fulfilled')
    BY DEF SentAsFiltered, Undisturbed, Fulfilled, Planned, SentOf
  <2> QED BY <1>11, <2>1, <2>2
<1>23. CaughtInv' /\ SecretsStay'
  BY <1>10, <1>11 DEF CaughtInv, SecretsStay
<1> QED BY <1>9, <1>16, <1>20, <1>21, <1>22, <1>23 DEF SendInv

\* The verdict.
LEMMA DecideKeeps ==
    ASSUME SendInv, Decide
    PROVE  SendInv'
<1>1. PICK mo, ao : /\ mo = OutcomeOf("message", Len(pack.messages))
                    /\ ao = OutcomeOf("attachment", Len(pack.attachments))
  OBVIOUS
<1>2. PICK e : e = Sensitive(pack, mo, ao, config.egress)
  OBVIOUS
<1>3. /\ stage = "egress" /\ todo = <<>> /\ pack' = e.pack
      /\ stage' = IF e.sent THEN "sent" ELSE "blocked"
  BY <1>1, <1>2 DEF Decide
<1>4. /\ UNCHANGED givenVars /\ UNCHANGED childVars /\ spoilt' = spoilt /\ failures' = failures
      /\ todo' = todo /\ outcome' = outcome
  BY DEF Decide
<1>5. /\ input' = input /\ config' = config /\ baseline' = baseline
      /\ candidates' = candidates
      /\ child' = child /\ running' = running /\ success' = success /\ unsent' = unsent
      /\ stdin' = stdin /\ stdout' = stdout /\ answer' = answer
  BY <1>4 DEF givenVars, childVars
<1>6. /\ GivenInv /\ PackInv /\ pack \in Packs
      /\ config.strategy = "tail" => InBudget(pack, input)
      /\ DOMAIN outcome \subseteq Wanting /\ \A t \in DOMAIN outcome : outcome[t] \in Outcomes
  BY <1>3 DEF SendInv, PackInv
<1>7. Action = config.egress /\ Action \in Actions \cup {"none"}
  BY <1>3, <1>6, SendAssumption DEF GivenInv, Action, SendAssumption
<1>8. PICK n, k : n = Len(pack.messages) /\ k = Len(pack.attachments)
  OBVIOUS
<1>9. /\ n \in Nat /\ k \in Nat
      /\ pack.messages \in Seq(ChatMessages) /\ pack.attachments \in Seq(Seq(Lines))
  <2>1. pack.messages \in Seq(ChatMessages) /\ pack.attachments \in Seq(Seq(Lines))
    BY <1>6 DEF Packs
  <2> QED BY <1>8, <2>1
<1>10. /\ \A i \in 1..n :
             /\ Target("message", i) \in Wanting
             /\ TextOf(Target("message", i)) = TextsOf(pack.messages)[i]
       /\ \A i \in 1..k :
             /\ Target("attachment", i) \in Wanting
             /\ TextOf(Target("attachment", i)) = pack.attachments[i]
  BY <1>3, <1>6, <1>8, PackWanting
<1>11. /\ Len(TextsOf(pack.messages)) = n
       /\ \A i \in 1..n : TextsOf(pack.messages)[i] = pack.messages[i].text
  BY <1>8 DEF TextsOf
<1>12. \A i \in 1..n : /\ mo[i] \in Outcomes
                       /\ mo[i].kind = "masked" => Len(mo[i].text) <= Len(pack.messages[i].text)
  <2> SUFFICES ASSUME NEW i \in 1..n
               PROVE  /\ mo[i] \in Outcomes
                      /\ mo[i].kind = "masked" => Len(mo[i].text) <= Len(pack.messages[i].text)
    OBVIOUS
  <2>1. TextOf(Target("message", i)) = pack.messages[i].text
    BY <1>10, <1>11
  <2>2. /\ mo[i] \in Outcomes
        /\ mo[i].kind = "masked" => Len(mo[i].text) <= Len(TextOf(Target("message", i)))
    BY <1>1, <1>3, <1>6, <1>8, OutcomesType
  <2> QED BY <2>1, <2>2
<1>13. \A i \in 1..k : /\ ao[i] \in Outcomes
                       /\ ao[i].kind = "masked" => Len(ao[i].text) <= Len(pack.attachments[i])
  <2> SUFFICES ASSUME NEW i \in 1..k
               PROVE  /\ ao[i] \in Outcomes
                      /\ ao[i].kind = "masked" => Len(ao[i].text) <= Len(pack.attachments[i])
    OBVIOUS
  <2>1. TextOf(Target("attachment", i)) = pack.attachments[i]
    BY <1>10
  <2>2. /\ ao[i] \in Outcomes
        /\ ao[i].kind = "masked" => Len(ao[i].text) <= Len(TextOf(Target("attachment", i)))
    BY <1>1, <1>3, <1>6, <1>8, OutcomesType
  <2> QED BY <2>1, <2>2
<1>14. \/ config.egress \in Actions
       \/ /\ \A i \in 1..n : mo[i].kind = "clean"
          /\ \A i \in 1..k : ao[i].kind = "clean"
  <2>1. CASE Action = "none"
    <3>1. DOMAIN outcome = {}
      BY <1>3, <1>6, <2>1 DEF PackInv
    <3>2. /\ \A i \in 1..n : mo[i] = Clean
          /\ \A i \in 1..k : ao[i] = Clean
      BY <1>1, <1>8, <3>1 DEF OutcomeOf
    <3>3. Clean.kind = "clean"
      BY DEF Clean, Outcome
    <3> QED BY <3>2, <3>3
  <2> QED BY <1>7, <2>1
<1>15. /\ e.pack \in Packs
       /\ Len(e.pack.messages) = n /\ Len(e.pack.attachments) = k
       /\ Chars(TextsOf(e.pack.messages)) + Chars(e.pack.attachments)
              <= Chars(TextsOf(pack.messages)) + Chars(pack.attachments)
       /\ Chars(TextsOf(e.pack.messages)) + Chars(e.pack.attachments) \in Nat
       /\ Chars(TextsOf(pack.messages)) + Chars(pack.attachments) \in Nat
  <2>1. PICK p : p = pack
    OBVIOUS
  <2>2. PICK act : act = config.egress
    OBVIOUS
  <2>3. p \in Packs /\ e = Sensitive(p, mo, ao, act)
    BY <1>2, <1>6, <2>1, <2>2
  <2>4. \A i \in 1..Len(p.messages) :
           /\ mo[i] \in Outcomes
           /\ mo[i].kind = "masked" => Len(mo[i].text) <= Len(p.messages[i].text)
    BY <1>8, <1>12, <2>1
  <2>5. \A i \in 1..Len(p.attachments) :
           /\ ao[i] \in Outcomes
           /\ ao[i].kind = "masked" => Len(ao[i].text) <= Len(p.attachments[i])
    BY <1>8, <1>13, <2>1
  <2>6. \/ act \in Actions
        \/ /\ \A i \in 1..Len(p.messages) : mo[i].kind = "clean"
           /\ \A i \in 1..Len(p.attachments) : ao[i].kind = "clean"
    BY <1>8, <1>14, <2>1, <2>2
  <2>7. /\ e.pack \in Packs
        /\ Len(e.pack.messages) = Len(p.messages)
        /\ Len(e.pack.attachments) = Len(p.attachments)
        /\ Chars(TextsOf(e.pack.messages)) + Chars(e.pack.attachments)
               <= Chars(TextsOf(p.messages)) + Chars(p.attachments)
    BY ONLY <2>3, <2>4, <2>5, <2>6, SensitiveKeeps
  <2>8. ASSUME NEW q \in Packs
        PROVE  Chars(TextsOf(q.messages)) + Chars(q.attachments) \in Nat
    <3>1. q.messages \in Seq(ChatMessages) /\ q.attachments \in Seq(Seq(Lines))
      BY DEF Packs
    <3>2. TextsOf(q.messages) \in Seq(Seq(Lines))
      BY <3>1, TextsConcat
    <3>3. Chars(TextsOf(q.messages)) \in Nat /\ Chars(q.attachments) \in Nat
      BY <3>1, <3>2, CharsAdd
    <3> QED BY <3>3
  <2> QED BY <1>6, <1>8, <2>1, <2>7, <2>8
<1>16. InBudget(pack, input) => InBudget(e.pack, input)
  <2>1. PICK b, c, m : /\ b = Budget.chars /\ m = AddonsBudget.messages
                       /\ c = (IF (IF input.history = <<>> THEN 0
                                   ELSE Len(input.history[Len(input.history)].text))
                                     > HistoryBudget(Budget, AddonsBudget).chars
                               THEN (IF input.history = <<>> THEN 0
                                     ELSE Len(input.history[Len(input.history)].text))
                               ELSE HistoryBudget(Budget, AddonsBudget).chars)
                              + Chars(input.instruction)
    OBVIOUS
  <2>2. b \in Nat /\ c \in Nat
    <3>1. PICK h : h = input.history
      OBVIOUS
    <3>2. h \in Seq(ChatMessages) /\ input.instruction \in Seq(Seq(Lines))
      BY <1>6, <3>1, GivenTypes
    <3>3. PICK last : last = IF h = <<>> THEN 0 ELSE Len(h[Len(h)].text)
      OBVIOUS
    <3>4. last \in Nat
      <4>1. CASE h = <<>>
        BY <3>3, <4>1
      <4>2. CASE h # <<>>
        <5>1. h[Len(h)] \in ChatMessages
          BY <3>2, <4>2
        <5>2. h[Len(h)].text \in Seq(Lines)
          BY <5>1 DEF ChatMessages
        <5> QED BY <3>3, <4>2, <5>2
      <4> QED BY <4>1, <4>2
    <3>5. Chars(input.instruction) \in Nat
      BY <3>2, CharsAdd
    <3>6. HistoryBudget(Budget, AddonsBudget).chars \in Nat /\ b \in Nat
      BY <2>1, SendAssumption DEF SendAssumption, HistoryBudget, Minus
    <3> QED BY <2>1, <3>1, <3>3, <3>4, <3>5, <3>6
  <2>3. ASSUME NEW q
        PROVE  InBudget(q, input) <=>
                  /\ Len(q.attachments) <= m
                  /\ \/ Len(q.messages) <= Budget.messages
                     \/ Len(q.messages) <= HistoryBudget(Budget, AddonsBudget).messages
                                               + Len(input.instruction)
                  /\ \/ Chars(TextsOf(q.messages)) + Chars(q.attachments) <= b
                     \/ Chars(TextsOf(q.messages)) + Chars(q.attachments) <= c
    BY <2>1 DEF InBudget
  <2> QED BY <1>8, <1>15, <2>2, <2>3
<1>17. stage' \in {"sent", "blocked"}
  BY <1>3
<1>18. Wanting' = Wanting
  <2>1. stage # "screen" /\ stage' # "screen"
    BY <1>3, <1>17
  <2> QED BY <1>3, <1>8, <1>15, <2>1 DEF Wanting
<1>19. PackInv'
  <2>1. todo' = <<>> /\ <<>> \in Seq(Wanting)
    BY <1>3, <1>4
  <2>2. config.strategy = "tail" => InBudget(pack, input)'
    BY <1>3, <1>5, <1>6, <1>16 DEF InBudget
  <2> QED BY <1>3, <1>4, <1>5, <1>6, <1>15, <1>17, <1>18, <2>1, <2>2 DEF PackInv
<1>20. GivenInv'
  BY <1>5, <1>6 DEF GivenInv
<1>21. IdealInv'
  BY <1>17 DEF IdealInv
<1>22. ChildInv'
  <2>1. child = "none" /\ ~running
    BY <1>3 DEF SendInv, ChildInv
  <2> QED BY <1>4, <1>5, <2>1 DEF SendInv, ChildInv
<1>23. SentAsFiltered'
  <2>1. ASSUME Undisturbed PROVE Fulfilled'
    <3>1. pack = Planned /\ ~OverCap(Planned, HardCap)
      BY <1>3, <2>1 DEF SendInv, IdealInv
    <3>2. mo = IdealOf(Effective(Action, config), TextsOf(pack.messages))
      BY <1>1, <1>3, <1>8, <1>9, <1>10, <1>11, <2>1, OutcomesIdeal
    <3>3. ao = IdealOf(Effective(Action, config), pack.attachments)
      BY <1>1, <1>3, <1>8, <1>9, <1>10, <2>1, OutcomesIdeal
    <3>4. e = SentOf(Planned, config)
      BY <1>2, <1>7, <3>1, <3>2, <3>3 DEF SentOf
    <3>5. Planned' = Planned /\ config' = config
      BY <1>4, <1>5, SamePlan
    <3>6. stage' = "sent" <=> e.sent
      BY <1>3
    <3> QED BY <1>3, <3>1, <3>4, <3>5, <3>6 DEF Fulfilled
  <2>2. SentAsFiltered' <=> (stage' \in {"sent", "blocked"} /\ Undisturbed' => Fulfilled')
    BY DEF SentAsFiltered, Undisturbed, Fulfilled, Planned, SentOf
  <2>3. Undisturbed' <=> Undisturbed
    BY <1>4 DEF Undisturbed
  <2> QED BY <1>17, <2>1, <2>2, <2>3
<1>24. SecretsStay'
  <2>1. ASSUME e.sent, config.rules, config.egress \in {"mask", "deny"}
        PROVE  /\ \A i \in 1..Len(e.pack.messages) :
                     HasSecret(e.pack.messages[i].text)
                         => <<"egress", Target("message", i)>> \in spoilt
               /\ \A i \in 1..Len(e.pack.attachments) :
                     HasSecret(e.pack.attachments[i])
                         => <<"egress", Target("attachment", i)>> \in spoilt
    <3>1. PICK p, act, M, A :
              /\ p = pack /\ act = config.egress
              /\ M = {i \in 1..n : <<"egress", Target("message", i)>> \in spoilt}
              /\ A = {i \in 1..k : <<"egress", Target("attachment", i)>> \in spoilt}
      OBVIOUS
    <3>2. ASSUME NEW i \in 1..n
          PROVE  /\ HasSecret(pack.messages[i].text) =>
                        mo[i].kind = Saying(config.egress) \/ i \in M
                 /\ mo[i].kind = "masked" => ~HasSecret(mo[i].text)
      <4>1. Target("message", i) \in Wanting
            /\ TextOf(Target("message", i)) = pack.messages[i].text
        BY <1>10, <1>11
      <4>2. mo[i].kind = "masked" => ~HasSecret(mo[i].text)
        BY <1>1, <1>3, <1>6, <1>8, OutcomesMasked
      <4>3. HasSecret(pack.messages[i].text) =>
                \/ mo[i].kind = Saying(config.egress)
                \/ <<"egress", Target("message", i)>> \in spoilt
        BY <1>1, <1>3, <1>8, <2>1, <4>1, OutcomesCaught
      <4> QED BY <3>1, <4>2, <4>3
    <3>3. ASSUME NEW i \in 1..k
          PROVE  /\ HasSecret(pack.attachments[i]) =>
                        ao[i].kind = Saying(config.egress) \/ i \in A
                 /\ ao[i].kind = "masked" => ~HasSecret(ao[i].text)
      <4>1. Target("attachment", i) \in Wanting
            /\ TextOf(Target("attachment", i)) = pack.attachments[i]
        BY <1>10
      <4>2. ao[i].kind = "masked" => ~HasSecret(ao[i].text)
        BY <1>1, <1>3, <1>6, <1>8, OutcomesMasked
      <4>3. HasSecret(pack.attachments[i]) =>
                \/ ao[i].kind = Saying(config.egress)
                \/ <<"egress", Target("attachment", i)>> \in spoilt
        BY <1>1, <1>3, <1>8, <2>1, <4>1, OutcomesCaught
      <4> QED BY <3>1, <4>2, <4>3
    <3>4. SecretsSeen(p, mo, ao, act, M, A)
      BY <1>8, <3>1, <3>2, <3>3 DEF SecretsSeen
    <3>5. p \in Packs /\ act \in {"mask", "deny"} /\ e = Sensitive(p, mo, ao, act) /\ e.sent
      BY <1>2, <1>6, <2>1, <3>1
    <3>6. SecretsOnlyAt(e.pack, M, A)
      BY ONLY <3>4, <3>5, SensitiveCatches
    <3> QED BY <1>8, <1>15, <3>1, <3>6 DEF SecretsOnlyAt
  <2>2. stage' = "sent" => e.sent
    BY <1>3
  <2> QED BY <1>3, <1>4, <1>5, <2>1, <2>2 DEF SecretsStay
<1>25. CaughtInv'
  BY <1>17 DEF CaughtInv
<1> QED BY <1>19, <1>20, <1>21, <1>22, <1>23, <1>24, <1>25 DEF SendInv

LEMMA SendNextKeeps ==
    ASSUME SendInv, [SendNext]_sendVars
    PROVE  SendInv'
<1>1. CASE Build
  BY <1>1, BuildKeeps
<1>2. CASE Decide
  BY <1>2, DecideKeeps
<1>3. CASE StartCheck
  BY <1>3, StartCheckKeeps
<1>4. CASE Write
  BY <1>4, WriteKeeps
<1>5. CASE Read
  BY <1>5, ReadKeeps
<1>6. CASE Checked
  BY <1>6, CheckedKeeps
<1>7. CASE StartMask
  BY <1>7, StartMaskKeeps
<1>8. CASE Masked
  BY <1>8, MaskedKeeps
<1>9. CASE ScanLine
  BY <1>9, ScanLineKeeps
<1>10. CASE ScanEnds
  BY <1>10, ScanEndsKeeps
<1>11. CASE PressCtrlC
  BY <1>11, PressCtrlCKeeps
<1>13. CASE ScanFails
  BY <1>13, ScanFailsKeeps
<1>12. CASE UNCHANGED sendVars
  <2>1. /\ UNCHANGED givenVars /\ UNCHANGED packVars /\ UNCHANGED childVars
        /\ spoilt' = spoilt /\ failures' = failures
    BY <1>12 DEF sendVars
  <2>2. PackStays
    BY <2>1, PackKept DEF SendInv
  <2>3. ChildInv'
    BY <2>1, <2>2 DEF SendInv, ChildInv, childVars, PackStays
  <2> QED BY <2>2, <2>3 DEF SendInv, PackStays
<1> QED BY <1>1, <1>2, <1>3, <1>4, <1>5, <1>6, <1>7, <1>8, <1>9, <1>10, <1>11, <1>12, <1>13
        DEF SendNext, Filters, Scans

\* Whatever the selectors find and however the two processes take turns: a run in which no scan
\* is interrupted and every child starts sends, or blocks, exactly what it would if a filter were a
\* function of the text; any run whose last filter masks or denies by rules that leakscan can use
\* lets a secret out only in a text whose own scan Ctrl-C has ended; and every run, its
\* instruction counted, stays within the budget.
THEOREM PackIsAsPlanned ==
    SendSpec => []PackAsPlanned
<1>1. SendInit => SendInv
  BY InitKeeps
<1>2. SendInv /\ [SendNext]_sendVars => SendInv'
  BY SendNextKeeps
<1>3. SendInv => PackAsPlanned
  <2>1. SendInv => WithinBudget
    BY DEF SendInv, PackInv, WithinBudget, InBudget
  <2> QED BY <2>1 DEF SendInv, PackAsPlanned
<1> QED BY <1>1, <1>2, <1>3, PTL DEF SendSpec

=============================================================================
