----------------------------- MODULE ContextSend -----------------------------
(***************************************************************************)
(* How a run makes its context pack and decides whether it may leave       *)
(* (StdContextPackBuilderWithAddons::build, then the egress rules).  Every *)
(* text goes through LeakscanTextFilter, which runs `leakscan` as a child: *)
(* it writes the text to the child's stdin, closes it, and only then reads *)
(* the child's stdout; once to check, and once more to mask.               *)
(*                                                                         *)
(* The pipes hold a few lines.  A leakscan that cannot use its rules ends  *)
(* with an error before it reads anything.  Ctrl-C reaches `ai`, which     *)
(* sets a flag that nothing here looks at, and ends the child that runs    *)
(* just then.                                                              *)
(***************************************************************************)
EXTENDS ContextAddons

CONSTANTS
    Inputs,        \* system instruction (none or one text), history, the words of the
                   \* query, and the place
    Configs,       \* the strategy, the actions of the two filters ("none" is without
                   \* leakscan), and whether leakscan can use its rules
    Budget,        \* of the pack: messages and characters
    AddonsBudget,  \* of the addons
    HardCap,       \* egress_hard_cap_chars
    Capacity,      \* lines a pipe holds
    MaxFailures,   \* bound: children that cannot be started
    MaxInterrupts  \* bound: children that Ctrl-C ends

Unmasked == Seq({"plain", "secret"})
SendAssumption ==
    /\ \A in \in Inputs :
          /\ in.instruction \in Seq(Unmasked) /\ Len(in.instruction) <= 1
          /\ in.history \in Seq([role : {"user", "assistant"}, text : Unmasked])
          /\ Collected(in.place, in.words)
                 \in Seq([priority : Nat, text : Unmasked, attachment : Unmasked])
    /\ \A c \in Configs : /\ c.strategy \in {"tail", "legacy"}
                          /\ {c.screen, c.egress} \subseteq Actions \cup {"none"}
                          /\ c.screen = "none" <=> c.egress = "none"
                          /\ c.rules \in BOOLEAN
    /\ {Budget.messages, Budget.chars, AddonsBudget.messages, AddonsBudget.chars,
        HardCap, MaxFailures, MaxInterrupts} \subseteq Nat
    \* An overall budget that is no more than that of the addons leaves not even
    \* the query.
    /\ Budget.messages > AddonsBudget.messages
    /\ Capacity \in Nat \ {0}

ASSUME SendAssumption

VARIABLES
    input, config,  \* of this run
    baseline,       \* its messages without addons
    candidates,     \* its addons by priority
    stage,          \* "screen", "egress", "sent" or "blocked"
    todo,           \* the texts still to be filtered: [list, index]
    outcome,        \* what the filter said of each text
    pack,           \* messages and attachments
    child,          \* "none", "check" or "mask": what leakscan has been started for
    running,        \* it runs
    success,        \* it ended with status 0
    unsent,         \* lines of the text not yet written to its stdin
    stdin, stdout,  \* the pipes
    answer,         \* lines read from its stdout
    spoilt,         \* the texts, with their stage, whose child Ctrl-C has ended
    failures

childVars == <<child, running, success, unsent, stdin, stdout, answer>>
packVars == <<stage, todo, outcome, pack>>
givenVars == <<input, config, baseline, candidates>>
sendVars == <<givenVars, packVars, childVars, spoilt, failures>>

-----------------------------------------------------------------------------
\* The texts of a stage, and the stages' ends

Target(list, i) == [list |-> list, index |-> i]
Targets(list, n) == [i \in 1..n |-> Target(list, i)]

\* The message and then the attachment of every addon.
AddonTargets ==
    [k \in 1..(2 * Len(candidates)) |->
        Target(IF k % 2 = 1 THEN "message" ELSE "attachment", (k + 1) \div 2)]
PackTargets(p) ==
    Targets("message", Len(p.messages)) \o Targets("attachment", Len(p.attachments))

TextOf(t) ==
    IF stage = "screen"
    THEN IF t.list = "message" THEN candidates[t.index].text ELSE candidates[t.index].attachment
    ELSE IF t.list = "message" THEN pack.messages[t.index].text ELSE pack.attachments[t.index]

Action == IF stage = "screen" THEN config.screen ELSE config.egress

\* Targets that were not filtered count as clean.
OutcomeOf(list, n) ==
    [i \in 1..n |-> IF Target(list, i) \in DOMAIN outcome THEN outcome[Target(list, i)]
                     ELSE Clean]

\* A pack is only made for a query: a run without one takes its messages from
\* agent_state.json.
NewPack(as) == Assembled(baseline, Selected(as, Budget, AddonsBudget, baseline), TRUE)

\* Phase 1: the instruction first, which the budget of the history does not count.
Baseline(in, c) ==
    [i \in 1..Len(in.instruction) |-> ChatMessage("system", in.instruction[i])]
        \o Reduced(c.strategy, in.history, HistoryBudget(Budget, AddonsBudget))

NoOutcome == [t \in {} |-> Clean]
NoPack == [messages |-> <<>>, attachments |-> <<>>]

SendInit ==
    /\ input \in Inputs /\ config \in Configs
    /\ baseline = Baseline(input, config)
    /\ candidates = ByPriority(Collected(input.place, input.words))
    /\ stage = "screen"
    /\ todo = IF config.screen = "none" THEN <<>> ELSE AddonTargets
    /\ outcome = NoOutcome
    /\ pack = NoPack
    /\ child = "none" /\ running = FALSE /\ success = FALSE
    /\ unsent = <<>> /\ stdin = <<>> /\ stdout = <<>> /\ answer = <<>>
    /\ spoilt = {} /\ failures = 0

\* All addons are screened: select, assemble, and the first rule of egress.
Build ==
    /\ stage = "screen" /\ todo = <<>>
    /\ \E screened \in {Screened(candidates, OutcomeOf("message", Len(candidates)),
                                 OutcomeOf("attachment", Len(candidates)))} :
       \E new \in {NewPack(screened)} :
          /\ pack' = new
          /\ IF OverCap(new, HardCap)
             THEN stage' = "blocked" /\ todo' = <<>>
             ELSE stage' = "egress" /\ todo' = IF config.egress = "none" THEN <<>>
                                            ELSE PackTargets(new)
    /\ outcome' = NoOutcome
    /\ UNCHANGED <<givenVars, childVars, spoilt, failures>>

\* The second rule.
Decide ==
    /\ stage = "egress" /\ todo = <<>>
    /\ LET e == Sensitive(pack, OutcomeOf("message", Len(pack.messages)),
                         OutcomeOf("attachment", Len(pack.attachments)), config.egress)
       IN /\ stage' = IF e.sent THEN "sent" ELSE "blocked"
          /\ pack' = e.pack
    /\ UNCHANGED <<givenVars, todo, outcome, childVars, spoilt, failures>>

-----------------------------------------------------------------------------
\* LeakscanTextFilter

\* What the filter has said; in the egress stage an error ends the stage.
Record(o) ==
    /\ outcome' = [t \in DOMAIN outcome \cup {Head(todo)} |->
                      IF t = Head(todo) THEN o ELSE outcome[t]]
    /\ IF stage = "egress" /\ o.kind = "error"
       THEN stage' = "blocked" /\ todo' = <<>>
       ELSE todo' = Tail(todo) /\ UNCHANGED stage
    /\ child' = "none" /\ running' = FALSE /\ success' = FALSE
    /\ unsent' = <<>> /\ stdin' = <<>> /\ stdout' = <<>> /\ answer' = <<>>
    /\ UNCHANGED <<givenVars, pack, spoilt>>

Spawn(what) ==
    /\ child' = what
    /\ running' = TRUE /\ success' = FALSE
    /\ unsent' = TextOf(Head(todo))
    /\ stdin' = <<>> /\ stdout' = <<>> /\ answer' = <<>>
    /\ UNCHANGED <<givenVars, packVars, spoilt, failures>>

SpawnFails ==
    /\ failures < MaxFailures
    /\ failures' = failures + 1
    /\ Record(Failure)

StartCheck ==
    /\ todo # <<>> /\ child = "none"
    /\ Spawn("check") \/ SpawnFails

\* write_all blocks while the pipe is full; to a child that is gone it fails with
\* BrokenPipe, which is ignored.
Write ==
    /\ child # "none" /\ unsent # <<>>
    /\ \/ /\ running /\ Len(stdin) < Capacity
          /\ unsent' = Tail(unsent)
          /\ stdin' = Append(stdin, Head(unsent))
       \/ /\ ~running
          /\ unsent' = <<>> /\ UNCHANGED stdin
    /\ UNCHANGED <<givenVars, packVars, child, running, success, stdout, answer,
                   spoilt, failures>>

\* child.stdin.take() is dropped when all is written.
StdinClosed == unsent = <<>>

\* What leakscan prints of a line.
Printed(line) ==
    IF child = "mask" THEN <<IF line = "secret" THEN "masked" ELSE line>>
    ELSE IF line = "secret" THEN <<line>> ELSE <<>>

\* leakscan, a line at a time; a line whose output the pipe cannot take waits.
ScanLine ==
    /\ running /\ config.rules /\ stdin # <<>>
    /\ LET out == Printed(Head(stdin))
       IN /\ Len(stdout) + Len(out) <= Capacity
          /\ stdout' = stdout \o out
    /\ stdin' = Tail(stdin)
    /\ UNCHANGED <<givenVars, packVars, child, running, success, unsent, answer,
                   spoilt, failures>>

ScanEnds ==
    /\ running /\ config.rules /\ stdin = <<>> /\ StdinClosed
    /\ running' = FALSE /\ success' = TRUE
    /\ UNCHANGED <<givenVars, packVars, child, unsent, stdin, stdout, answer,
                   spoilt, failures>>

\* Rules that cannot be read or parsed, or a pattern that is none, end it before it
\* reads a line.
ScanFails ==
    /\ running /\ ~config.rules
    /\ running' = FALSE
    /\ UNCHANGED <<givenVars, packVars, child, success, unsent, stdin, stdout, answer,
                   spoilt, failures>>

\* read_to_string, once everything is written.
Read ==
    /\ child # "none" /\ unsent = <<>> /\ stdout # <<>>
    /\ answer' = Append(answer, Head(stdout))
    /\ stdout' = Tail(stdout)
    /\ UNCHANGED <<givenVars, packVars, child, running, success, unsent, stdin,
                   spoilt, failures>>

AnswerComplete == unsent = <<>> /\ ~running /\ stdout = <<>>

\* Slip: a scan that succeeds has found something.
IsHitBySuccess == success
IsHit == success /\ answer # <<>>

\* Nothing found, or nothing to be done about it.
Checked ==
    /\ child = "check" /\ AnswerComplete
    /\ ~IsHit \/ Action # "mask"
    /\ Record(IF ~IsHit THEN Clean
              ELSE Outcome(IF Action = "allow" THEN "hit" ELSE "deny", <<>>))
    /\ UNCHANGED failures

StartMask ==
    /\ child = "check" /\ AnswerComplete
    /\ IsHit /\ Action = "mask"
    /\ Spawn("mask") \/ SpawnFails

\* The status of the child is not looked at.
Masked ==
    /\ child = "mask" /\ AnswerComplete
    /\ Record(Outcome("masked", answer))
    /\ UNCHANGED failures

\* Ctrl-C, without effect when no child runs.
PressCtrlC ==
    /\ running
    /\ Cardinality(spoilt) < MaxInterrupts
    /\ spoilt' = spoilt \cup {<<stage, Head(todo)>>}
    /\ running' = FALSE
    /\ UNCHANGED <<givenVars, packVars, child, success, unsent, stdin, stdout, answer,
                   failures>>

-----------------------------------------------------------------------------
Filters == Build \/ Decide \/ StartCheck \/ Write \/ Read \/ Checked \/ StartMask \/ Masked
Scans == ScanLine \/ ScanEnds \/ ScanFails
SendNext == Filters \/ Scans \/ PressCtrlC

SendSpec == SendInit /\ [][SendNext]_sendVars

-----------------------------------------------------------------------------
\* Properties

\* The same without processes: what a filter says of a text.
MaskOf(lines) == [i \in 1..Len(lines) |-> IF lines[i] = "secret" THEN "masked" ELSE lines[i]]
HasSecret(lines) == \E i \in 1..Len(lines) : lines[i] = "secret"
Ideal(action, lines) ==
    IF action = "none" \/ ~HasSecret(lines) THEN Clean
    ELSE CASE action = "allow" -> Outcome("hit", <<>>)
           [] action = "deny"  -> Outcome("deny", <<>>)
           [] action = "mask"  -> Outcome("masked", MaskOf(lines))
IdealOf(action, texts) == [i \in 1..Len(texts) |-> Ideal(action, texts[i])]

\* A leakscan without its rules finds nothing.
Effective(action, c) == IF c.rules THEN action ELSE "none"

\* A run of which no child is interrupted and every child starts sends, or blocks,
\* exactly what it would if a filter were a function of the text: no line is lost or left
\* unmasked between the two processes, no text gets the outcome of another, and the
\* answer of a check does not get into that of a mask.  With rules that leakscan cannot
\* use, what it sends is what it would send without leakscan.
SentAsFiltered ==
    (stage \in {"sent", "blocked"} /\ spoilt = {} /\ failures = 0) =>
        LET as == candidates
            screen == Effective(config.screen, config)
            egress == Effective(config.egress, config)
            screened == Screened(as, IdealOf(screen, TextsOf(as)),
                                 IdealOf(screen, AttachmentsOf(as)))
            new == NewPack(screened)
            e == Sensitive(new, IdealOf(egress, TextsOf(new.messages)),
                        IdealOf(egress, new.attachments), config.egress)
        IN  IF OverCap(new, HardCap) THEN stage = "blocked" /\ pack = new
            ELSE pack = e.pack /\ (stage = "sent" <=> e.sent)

\* Whatever is interrupted or cannot be started: a run whose last filter masks or denies,
\* with rules that leakscan can use, lets a secret out only in a text (message, instruction
\* or attachment) whose own scan Ctrl-C has ended.
SecretsStay ==
    (stage = "sent" /\ config.rules /\ config.egress \in {"mask", "deny"}) =>
        /\ \A i \in 1..Len(pack.messages) :
              HasSecret(pack.messages[i].text) => <<"egress", Target("message", i)>> \in spoilt
        /\ \A i \in 1..Len(pack.attachments) :
              HasSecret(pack.attachments[i])
                  => <<"egress", Target("attachment", i)>> \in spoilt

\* What is built stays within the budget, its addons, their attachments and the
\* instruction with it, whatever the selectors found and the screening left of it.  Only the
\* instruction, and a last message that is larger than the history's share, can exceed it,
\* and then nothing else but the history's share goes with them.
WithinBudget ==
    (config.strategy = "tail" /\ pack # NoPack) =>
        LET share == HistoryBudget(Budget, AddonsBudget)
            last == IF input.history = <<>> THEN 0
                    ELSE Len(input.history[Len(input.history)].text)
            kept == IF last > share.chars THEN last ELSE share.chars
            total == Chars(TextsOf(pack.messages)) + Chars(pack.attachments)
        IN  /\ Len(pack.attachments) <= AddonsBudget.messages
            /\ \/ Len(pack.messages) <= Budget.messages
               \/ Len(pack.messages) <= share.messages + Len(input.instruction)
            /\ \/ total <= Budget.chars
               \/ total <= kept + Chars(input.instruction)

\* All three, for everything that may be sent.
PackAsPlanned == SentAsFiltered /\ SecretsStay /\ WithinBudget

=============================================================================
