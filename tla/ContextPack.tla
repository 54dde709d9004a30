----------------------------- MODULE ContextPack -----------------------------
(***************************************************************************)
(* What `ai` sends to the model: the system instruction, the end of the    *)
(* history with the query, and addons (snippets of changed files,          *)
(* memories, hits of a search, the console) that fit the budget.  A text   *)
(* is a sequence of lines, and its length stands for its characters.       *)
(***************************************************************************)
EXTENDS Integers, Sequences, FiniteSets, SequencesExt

Actions == {"deny", "mask", "allow"}
\* Characters of a list of texts.
Chars(texts) == Len(FlattenSeq(texts))
TextsOf(ms) == [i \in 1..Len(ms) |-> ms[i].text]

Minimum(a, b) == IF a < b THEN a ELSE b
\* saturating_sub.
Minus(a, b) == IF a < b THEN 0 ELSE a - b

-----------------------------------------------------------------------------
\* TailWindowReducer: the longest end of the history within the budget; its last
\* message is kept whatever its size, unless no message is allowed at all.

Within(ms, i, budget) ==
    /\ Len(ms) - i + 1 <= budget.messages
    /\ Chars(TextsOf(SubSeq(ms, i, Len(ms)))) <= budget.chars

TailWindow(ms, budget) ==
    LET kept == {Len(ms)} \cup {i \in 1..Len(ms) : Within(ms, i, budget)}
    IN  IF ms = <<>> \/ budget.messages = 0 THEN <<>>
        ELSE SubSeq(ms, CHOOSE i \in kept : \A k \in kept : i <= k, Len(ms))

\* PassThroughReducer, of the strategy before, keeps all.
Reduced(strategy, ms, budget) ==
    IF strategy = "legacy" THEN ms ELSE TailWindow(ms, budget)

\* The history gets what the addons leave of the budget.
HistoryBudget(overall, addons) ==
    [messages |-> Minus(overall.messages, addons.messages),
     chars |-> Minus(overall.chars, addons.chars)]

-----------------------------------------------------------------------------
\* Addons: a priority, the text of a message, and the text of an attachment

AttachmentsOf(as) == [i \in 1..Len(as) |-> as[i].attachment]
AddonChars(a) == Len(a.text) + Len(a.attachment)

\* The stable sort by priority, the highest first.
ByPriority(as) ==
    LET ahead(i, k) == as[i].priority > as[k].priority
                        \/ (as[i].priority = as[k].priority /\ i < k)
        place(i) == Cardinality({k \in 1..Len(as) : ahead(k, i)}) + 1
    IN  [n \in 1..Len(as) |-> as[CHOOSE i \in 1..Len(as) : place(i) = n]]

\* select_addons_within_budget: an addon that does not fit is passed over, a smaller
\* one after it may still fit.
Taking(taken, a, maxMessages, maxChars) ==
    IF /\ Len(taken) < maxMessages
       /\ Chars(TextsOf(taken)) + Chars(AttachmentsOf(taken)) + AddonChars(a) <= maxChars
    THEN Append(taken, a)
    ELSE taken
Selected(as, overall, addons, baseline) ==
    LET maxMessages == Minimum(Minus(overall.messages, Len(baseline)), addons.messages)
        maxChars == Minimum(Minus(overall.chars, Chars(TextsOf(baseline))), addons.chars)
        taken[n \in 0..Len(as)] ==
            IF n = 0 THEN <<>> ELSE Taking(taken[n - 1], as[n], maxMessages, maxChars)
    IN  taken[Len(as)]

ChatMessage(role, lines) == [role |-> role, text |-> lines]

\* addon_insertion_index: with a query, in front of the last message of the user.
InsertionIndex(ms, hasQuery) ==
    LET users == {i \in 1..Len(ms) : ms[i].role = "user"}
    IN  IF ~hasQuery \/ users = {} THEN Len(ms)
        ELSE (CHOOSE i \in users : \A k \in users : k <= i) - 1

\* assemble_context_with_addons.
Assembled(baseline, as, hasQuery) ==
    LET at == InsertionIndex(baseline, hasQuery)
    IN  [messages |-> SubSeq(baseline, 1, at)
                      \o [i \in 1..Len(as) |-> ChatMessage("addon", as[i].text)]
                      \o SubSeq(baseline, at + 1, Len(baseline)),
         attachments |-> AttachmentsOf(as)]

\* EgressBudgetHardCapRule.
OverCap(pack, cap) == Chars(TextsOf(pack.messages)) + Chars(pack.attachments) > cap

-----------------------------------------------------------------------------
\* What a filter of sensitive text says of a text

Outcome(kind, lines) == [kind |-> kind, text |-> lines]
Clean == Outcome("clean", <<>>)
Failure == Outcome("error", <<>>)

\* screen_addons: what is denied or could not be looked at is dropped, what is masked
\* is replaced, the message and the attachment each by their own outcome.
Screened(as, msgOutcome, attOutcome) ==
    LET out(o) == o.kind \in {"deny", "error"}
        new(o, lines) == IF o.kind = "masked" THEN o.text ELSE lines
    IN  FlattenSeq([i \in 1..Len(as) |->
            IF out(msgOutcome[i]) \/ out(attOutcome[i]) THEN <<>>
            ELSE <<[as[i] EXCEPT !.text = new(msgOutcome[i], @),
                                 !.attachment = new(attOutcome[i], @)]>>])

\* EgressSensitiveRule, for a pack of which every text has an outcome: the verdict and
\* the pack that leaves.
Sensitive(pack, msgOutcome, attOutcome, action) ==
    LET n == Len(pack.messages)
        k == Len(pack.attachments)
        outcomes == {msgOutcome[i] : i \in 1..n} \cup {attOutcome[i] : i \in 1..k}
        masked == [messages |-> [i \in 1..n |->
                       IF msgOutcome[i].kind = "masked"
                       THEN [pack.messages[i] EXCEPT !.text = msgOutcome[i].text]
                       ELSE pack.messages[i]],
                   attachments |-> [i \in 1..k |->
                       IF attOutcome[i].kind = "masked" THEN attOutcome[i].text
                       ELSE pack.attachments[i]]]
    IN  IF \A o \in outcomes : o.kind = "clean" THEN [sent |-> TRUE, pack |-> pack]
        ELSE CASE action = "allow" -> [sent |-> TRUE, pack |-> pack]
               [] action = "deny"  -> [sent |-> FALSE, pack |-> pack]
               [] action = "mask"  -> [sent |-> TRUE, pack |-> masked]

=============================================================================
