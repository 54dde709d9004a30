--------------------------- MODULE SessionHistory ---------------------------
(***************************************************************************)
(* The conversation that a session keeps for the model.  What is said is   *)
(* first a part file; before each query `ai` checks the parts for secrets  *)
(* (LeakscanPrepareSession), writes the reviewed text, moves the part away *)
(* and appends a record to reviewed_history.jsonl, sometimes followed by a *)
(* record that compacts old messages to a summary; then it sends the tail  *)
(* of that manifest.  Meanwhile aish adds parts of its own, and `aish      *)
(* clear` removes parts and moves the start of what is sent.               *)
(*                                                                         *)
(* Nothing is locked: several `ai` may run in one session, and each file   *)
(* operation of each process is a step of its own.                         *)
(***************************************************************************)
EXTENDS Integers, Sequences, FiniteSets, SequencesExt

CONSTANTS
    Procs,      \* processes that run `ai`
    Leakscan,   \* whether the leakscan binary and its rules are installed
    Sensitive,  \* ids of the parts in which leakscan finds something
    Trigger,    \* AISH_COMPACTION_TRIGGER_MESSAGES
    Chunk,      \* AISH_COMPACTION_CHUNK_MESSAGES
    LoadMax,    \* AISH_HISTORY_LOAD_MAX_MESSAGES
    MaxRuns,    \* bound: queries
    Scenarios   \* bound: what else may happen, once each: a rollout, a clear, a kill,
                \* a write to the manifest that fails

HistoryAssumption ==
    /\ Leakscan \in BOOLEAN
    /\ Sensitive \subseteq Nat
    /\ {Trigger, Chunk, LoadMax} \subseteq Nat \ {0}
    /\ MaxRuns \in Nat
    /\ Scenarios \subseteq SUBSET {"rollout", "clear", "kill", "full"}

ASSUME HistoryAssumption

VARIABLES
    issued,    \* part ids given out so far; they are numbered in time order
    parts,     \* part_<id>_*.txt in the session directory
    evacDir,   \* whether leakscan_evacuated exists
    reviewed,  \* the decision by which reviewed_<id>_*.txt was last written
    manifest,  \* reviewed_history.jsonl: records and newlines
    summaries, \* compaction_<from>_<to>.txt: the ids each one covers
    sendFrom,  \* .history_send_from
    pc,        \* where each `ai` is
    query,     \* the id of its query
    todo,      \* part_files still to be processed
    choice,    \* the decision for the first of them
    recs,      \* the records it has loaded
    sent,      \* what it sends to the model
    clear,     \* `aish clear`: its step, parts left, line count, records it hides
    alone,     \* no two `ai` have run at the same time so far
    cut,       \* an `ai` was killed, or a write to the manifest failed
    lost,      \* parts that were moved away just before that, and got no record
    dropped,   \* parts that were removed by `aish clear`
    hidden,    \* messages that were in the manifest at the last `aish clear`
    runs,      \* queries so far
    events     \* what else may still happen

procVars == <<pc, query, todo, choice, recs, sent>>
fileVars == <<issued, parts, evacDir, reviewed, manifest, summaries, sendFrom>>
ghostVars == <<alone, cut, lost, dropped, hidden>>
vars == <<fileVars, procVars, clear, ghostVars, runs, events>>

-----------------------------------------------------------------------------
\* The manifest

NewLine == [kind |-> "newline"]
Msg(id, d) == [kind |-> "message", id |-> id, decision |-> d]
Comp(from, to) == [kind |-> "compaction", from |-> from, to |-> to]
HalfRecord == [kind |-> "torn"]   \* the beginning of a record

IsMessage(r) == r.kind = "message"
IsCompaction(r) == r.kind = "compaction"

StartsLine(f, i) == f[i] # NewLine /\ (i = 1 \/ f[i - 1] = NewLine)
EndsLine(f, i) == i = Len(f) \/ f[i + 1] = NewLine

\* The elements of s at some of its places, in their order.
Those(s, places) == FlattenSeq([i \in DOMAIN s |-> IF i \in places THEN <<s[i]>> ELSE <<>>])

\* parse_lines: a line that is not a single record is skipped.
WholeLines(f) == {i \in DOMAIN f : StartsLine(f, i) /\ EndsLine(f, i) /\ f[i] # HalfRecord}
ParseLines(f) == Those(f, WholeLines(f))

\* The lines that are not blank, as `aish clear` counts them.
LineCount(f) == Cardinality({i \in DOMAIN f : StartsLine(f, i)})

Messages(rs) == Those(rs, {i \in DOMAIN rs : IsMessage(rs[i])})
Compactions(rs) == Those(rs, {i \in DOMAIN rs : IsCompaction(rs[i])})
Ids(rs) == {rs[i].id : i \in {j \in DOMAIN rs : IsMessage(rs[j])}}
LastN(s, n) == SubSeq(s, IF Len(s) > n THEN Len(s) - n + 1 ELSE 1, Len(s))

-----------------------------------------------------------------------------
\* Compaction

LastTo(rs) ==
    LET cs == Compactions(rs) IN IF cs = <<>> THEN 0 ELSE Last(cs).to

\* Slip: the last message of a compaction is a candidate of the next one.
CandidatesFromLast(rs) ==
    LET ms == Messages(rs) IN Those(ms, {i \in DOMAIN ms : ms[i].id >= LastTo(rs)})

\* The messages after the last compaction.
Candidates(rs) ==
    LET ms == Messages(rs) IN Those(ms, {i \in DOMAIN ms : ms[i].id > LastTo(rs)})

\* What maybe_compact selects; nothing below the threshold.
Selected(rs) ==
    IF Len(Messages(rs)) <= Trigger \/ Len(Candidates(rs)) <= Trigger
    THEN <<>>
    ELSE SubSeq(Candidates(rs), 1,
                IF Chunk < Len(Candidates(rs)) THEN Chunk ELSE Len(Candidates(rs)))

Range1(sel) == <<sel[1].id, Last(sel).id>>

-----------------------------------------------------------------------------
\* What is sent

Text(id) == [kind |-> "text", of |-> {id}]
Summary(range) == [kind |-> "summary", of |-> summaries[range]]

\* latest_compaction_before: the last whose range ends before the tail begins.
SummaryBefore(rs, oldest) ==
    LET cs == SelectSeq(Compactions(rs), LAMBDA c : c.to < oldest)
    IN  IF cs = <<>> THEN <<>> ELSE <<Summary(<<Last(cs).from, Last(cs).to>>)>>

\* ManifestTailCompactionViewStrategy: of the records from the start that was set,
\* the last messages; before them the summary of what came before.
ManifestView(rs, from) ==
    LET tail == LastN(Messages(SubSeq(rs, from + 1, Len(rs))), LoadMax)
    IN  (IF tail = <<>> THEN <<>> ELSE SummaryBefore(rs, tail[1].id))
        \o [k \in DOMAIN tail |-> Text(tail[k].id)]

\* The reviewed files, by name.
FileIds == SetToSortSeq({id \in DOMAIN reviewed : reviewed[id] # "none"}, <)

\* ReviewedTailViewStrategy: without a manifest, the last reviewed files by name.
ReviewedView ==
    LET tail == LastN(FileIds, LoadMax)
    IN  [k \in DOMAIN tail |-> Text(tail[k])]

-----------------------------------------------------------------------------
\* The tools by which the model reads the history itself.  `wanted` are the ids of
\* the role that it asks for or, when it searches, of the texts that match.

Within(bound, id) ==
    CASE bound.at = "none" -> TRUE
      [] bound.at = "before" -> id < bound.id
      [] bound.at = "after" -> id > bound.id

\* Slip: a page always holds the first ones.
PageOfFirst(found, bound, limit) ==
    SubSeq(found, 1, IF Len(found) < limit THEN Len(found) ELSE limit)

\* Of what was found, the first ones after a bound, or else the last ones.
PageOf(found, bound, limit) ==
    IF bound.at = "after"
    THEN SubSeq(found, 1, IF Len(found) < limit THEN Len(found) ELSE limit)
    ELSE LastN(found, limit)

FoundIds(rs, wanted, bound) ==
    LET found == SelectSeq(Messages(rs), LAMBDA m : m.id \in wanted /\ Within(bound, m.id))
    IN  [k \in DOMAIN found |-> found[k].id]

\* history_get: the page, after the summary of what came before it.
HistoryGet(rs, wanted, bound, limit) ==
    LET page == PageOf(FoundIds(rs, wanted, bound), bound, limit)
    IN  (IF page = <<>> THEN <<>> ELSE SummaryBefore(rs, page[1]))
        \o [k \in DOMAIN page |-> Text(page[k])]

\* Without a manifest, from the names of the files.
HistoryGetFiles(wanted, bound, limit) ==
    LET page == PageOf(SelectSeq(FileIds, LAMBDA id : id \in wanted /\ Within(bound, id)),
                       bound, limit)
    IN  [k \in DOMAIN page |-> Text(page[k])]

FirstN(s, n) == SubSeq(s, 1, IF Len(s) < n THEN Len(s) ELSE n)

\* history_search: the newest hits, newest first.
HistorySearch(rs, wanted, limit) ==
    FirstN(Reverse(FoundIds(rs, wanted, [at |-> "none", id |-> 0])), limit)
HistorySearchFiles(wanted, limit) ==
    FirstN(Reverse(SelectSeq(FileIds, LAMBDA id : id \in wanted)), limit)

\* aish history ls: the messages after those that .history_send_from counts.
ListEntries(f, all) ==
    LET ms == Messages(ParseLines(f))
    IN  SubSeq(ms, IF all THEN 1 ELSE sendFrom + 1, Len(ms))

\* aish history get
GetEntries(f, ids) == SelectSeq(Messages(ParseLines(f)), LAMBDA m : m.id \in ids)

SentIds(s, kinds) == UNION {s[k].of : k \in {j \in DOMAIN s : s[j].kind \in kinds}}

-----------------------------------------------------------------------------
\* The state

NextId == issued + 1
LastId == 2 * MaxRuns + 1
NoClear == [at |-> "idle", left |-> {}, lines |-> 0, hides |-> {}]

Running == {p \in Procs : pc[p] # "idle"}

Init ==
    /\ issued = 0 /\ parts = {} /\ evacDir = FALSE
    /\ reviewed = [id \in 1..LastId |-> "none"]
    /\ manifest = <<>> /\ summaries = [r \in {} |-> {}] /\ sendFrom = 0
    /\ pc = [p \in Procs |-> "idle"] /\ query = [p \in Procs |-> 0]
    /\ todo = [p \in Procs |-> <<>>] /\ choice = [p \in Procs |-> "none"]
    /\ recs = [p \in Procs |-> <<>>] /\ sent = [p \in Procs |-> <<>>]
    /\ clear = NoClear
    /\ alone = TRUE /\ cut = FALSE /\ lost = {} /\ dropped = {} /\ hidden = {}
    /\ runs = 0 /\ events \in Scenarios

\* One of the things that may happen to the session besides its queries.
Event(kind) == kind \in events /\ events' = events \ {kind}

Goto(p, at) == pc' = [pc EXCEPT ![p] = at]

\* The process has ended; what it held is gone.
End(p) ==
    /\ Goto(p, "idle")
    /\ todo' = [todo EXCEPT ![p] = <<>>] /\ choice' = [choice EXCEPT ![p] = "none"]
    /\ recs' = [recs EXCEPT ![p] = <<>>] /\ query' = [query EXCEPT ![p] = 0]
    /\ sent' = [sent EXCEPT ![p] = <<>>]

-----------------------------------------------------------------------------
\* One run of `ai`

\* save_user: the query becomes a part.
SaveUser(p) ==
    /\ pc[p] = "idle" /\ runs < MaxRuns
    /\ runs' = runs + 1
    /\ issued' = NextId /\ parts' = parts \union {NextId}
    /\ query' = [query EXCEPT ![p] = NextId]
    /\ Goto(p, IF Leakscan THEN "list" ELSE "load")
    /\ alone' = (alone /\ Running = {})
    /\ UNCHANGED <<evacDir, reviewed, manifest, summaries, sendFrom, todo, choice,
                   recs, sent, clear, cut, lost, dropped, hidden, events>>

\* prepare: the names are listed once, in order.
ListParts(p) ==
    /\ pc[p] = "list"
    /\ todo' = [todo EXCEPT ![p] = Those([id \in 1..issued |-> id], parts)]
    /\ evacDir' = (evacDir \/ parts # {})
    /\ Goto(p, "read")
    /\ UNCHANGED <<issued, parts, reviewed, manifest, summaries, sendFrom, query,
                   choice, recs, sent, clear, ghostVars, runs, events>>

\* The next part is read; one that is gone is passed over with a warning.
ReadPart(p) ==
    /\ pc[p] = "read"
    /\ IF todo[p] = <<>>
       THEN Goto(p, "records") /\ UNCHANGED todo
       ELSE IF Head(todo[p]) \in parts
            THEN Goto(p, "check") /\ UNCHANGED todo
            ELSE todo' = [todo EXCEPT ![p] = Tail(@)] /\ UNCHANGED pc
    /\ UNCHANGED <<fileVars, query, choice, recs, sent, clear, ghostVars, runs, events>>

\* leakscan_check, and the user's choice where it finds something (always "deny"
\* without a user).
Check(p) ==
    /\ pc[p] = "check"
    /\ \E d \in IF Head(todo[p]) \in Sensitive THEN {"allow", "deny", "mask"} ELSE {"allow"} :
           choice' = [choice EXCEPT ![p] = d]
    /\ Goto(p, "write")
    /\ UNCHANGED <<fileVars, query, todo, recs, sent, clear, ghostVars, runs, events>>

\* Ctrl-C while the user is asked: the run ends with an error.
Interrupt(p) ==
    /\ pc[p] = "check" /\ Head(todo[p]) \in Sensitive
    /\ End(p)
    /\ UNCHANGED <<fileVars, clear, ghostVars, runs, events>>

WriteReviewed(p) ==
    /\ pc[p] = "write"
    /\ reviewed' = [reviewed EXCEPT ![Head(todo[p])] = choice[p]]
    /\ Goto(p, "rename")
    /\ UNCHANGED <<issued, parts, evacDir, manifest, summaries, sendFrom, query, todo,
                   choice, recs, sent, clear, ghostVars, runs, events>>

\* Slip: a part that another process has moved is no error.
EvacuateIfThere(p) ==
    /\ pc[p] = "rename"
    /\ parts' = parts \ {Head(todo[p])}
    /\ Goto(p, "append")
    /\ UNCHANGED <<issued, evacDir, reviewed, manifest, summaries, sendFrom, query, todo,
                   choice, recs, sent, clear, ghostVars, runs, events>>

\* The part is moved to leakscan_evacuated.
Evacuate(p) ==
    /\ pc[p] = "rename" /\ Head(todo[p]) \in parts /\ evacDir
    /\ parts' = parts \ {Head(todo[p])}
    /\ Goto(p, "append")
    /\ UNCHANGED <<issued, evacDir, reviewed, manifest, summaries, sendFrom, query, todo,
                   choice, recs, sent, clear, ghostVars, runs, events>>

\* The part or the directory is gone: prepare fails, and the run with it.
EvacuateFails(p) ==
    /\ pc[p] = "rename" /\ ~(Head(todo[p]) \in parts /\ evacDir)
    /\ End(p)
    /\ UNCHANGED <<fileVars, clear, ghostVars, runs, events>>

\* Slip: a message that was denied gets no record.
AppendUnlessDenied(p) ==
    /\ pc[p] = "append"
    /\ manifest' = IF choice[p] = "deny" THEN manifest
                   ELSE Append(manifest, Msg(Head(todo[p]), choice[p]))
    /\ Goto(p, "newline")
    /\ UNCHANGED <<issued, parts, evacDir, reviewed, summaries, sendFrom, query, todo,
                   choice, recs, sent, clear, ghostVars, runs, events>>

\* append, first write: the record.
AppendRecord(p) ==
    /\ pc[p] = "append"
    /\ manifest' = Append(manifest, Msg(Head(todo[p]), choice[p]))
    /\ Goto(p, "newline")
    /\ UNCHANGED <<issued, parts, evacDir, reviewed, summaries, sendFrom, query, todo,
                   choice, recs, sent, clear, ghostVars, runs, events>>

\* append, second write: the newline, after a message or a compaction.
AppendNewLine(p) ==
    /\ pc[p] \in {"newline", "compacted"}
    /\ manifest' = Append(manifest, NewLine)
    /\ IF pc[p] = "newline"
       THEN Goto(p, "read") /\ todo' = [todo EXCEPT ![p] = Tail(@)]
       ELSE Goto(p, "load") /\ UNCHANGED todo
    /\ choice' = [choice EXCEPT ![p] = "none"]
    /\ UNCHANGED <<issued, parts, evacDir, reviewed, summaries, sendFrom, query, recs,
                   sent, clear, ghostVars, runs, events>>

\* A part that was moved away, and will get no record.
Forsaken(p) == IF pc[p] = "append" THEN {Head(todo[p])} ELSE {}

\* append fails: nothing or a part of the record is written, or all but its newline.
\* The error is returned, after the part was moved, and the run ends with it.
AppendFails(p) ==
    /\ pc[p] \in {"append", "newline", "compact", "compacted"} /\ Event("full")
    /\ \/ UNCHANGED manifest
       \/ pc[p] \in {"append", "compact"} /\ manifest' = Append(manifest, HalfRecord)
    /\ lost' = lost \union Forsaken(p)
    /\ cut' = TRUE
    /\ End(p)
    /\ UNCHANGED <<issued, parts, evacDir, reviewed, summaries, sendFrom, clear, alone,
                   dropped, hidden, runs>>

\* The records that maybe_compact decides from.
LoadForCompaction(p) ==
    /\ pc[p] = "records"
    /\ recs' = [recs EXCEPT ![p] = ParseLines(manifest)]
    /\ Goto(p, IF Selected(ParseLines(manifest)) = <<>> THEN "load" ELSE "summary")
    /\ UNCHANGED <<fileVars, query, todo, choice, sent, clear, ghostVars, runs, events>>

\* build_summary and its file.
WriteSummary(p) ==
    /\ pc[p] = "summary"
    /\ LET sel == Selected(recs[p]) IN
       summaries' = [r \in DOMAIN summaries \union {Range1(sel)} |->
                         IF r = Range1(sel) THEN Ids(sel) ELSE summaries[r]]
    /\ Goto(p, "compact")
    /\ UNCHANGED <<issued, parts, evacDir, reviewed, manifest, sendFrom, query, todo,
                   choice, recs, sent, clear, ghostVars, runs, events>>

AppendCompaction(p) ==
    /\ pc[p] = "compact"
    /\ LET range == Range1(Selected(recs[p])) IN
       manifest' = Append(manifest, Comp(range[1], range[2]))
    /\ Goto(p, "compacted")
    /\ UNCHANGED <<issued, parts, evacDir, reviewed, summaries, sendFrom, query, todo,
                   choice, recs, sent, clear, ghostVars, runs, events>>

\* load: the manifest, or without one the reviewed files.
LoadHistory(p) ==
    /\ pc[p] = "load"
    /\ IF manifest = <<>>
       THEN /\ sent' = [sent EXCEPT ![p] = ReviewedView]
            /\ Goto(p, "asked") /\ UNCHANGED recs
       ELSE /\ recs' = [recs EXCEPT ![p] = ParseLines(manifest)]
            /\ Goto(p, "view") /\ UNCHANGED sent
    /\ UNCHANGED <<fileVars, query, todo, choice, clear, ghostVars, runs, events>>

\* build_history: where to start, then the files.
ViewHistory(p) ==
    /\ pc[p] = "view"
    /\ sent' = [sent EXCEPT ![p] = ManifestView(recs[p], sendFrom)]
    /\ recs' = [recs EXCEPT ![p] = <<>>]
    /\ Goto(p, "asked")
    /\ UNCHANGED <<fileVars, query, todo, choice, clear, ghostVars, runs, events>>

\* The run ends: with an answer, which becomes a part (save_assistant), or without.
Answer(p) ==
    /\ pc[p] = "asked"
    /\ \/ issued' = NextId /\ parts' = parts \union {NextId}
       \/ UNCHANGED <<issued, parts>>
    /\ End(p)
    /\ UNCHANGED <<evacDir, reviewed, manifest, summaries, sendFrom, clear, ghostVars, runs, events>>

\* The process is killed.
Kill(p) ==
    /\ pc[p] # "idle" /\ Event("kill")
    /\ cut' = TRUE /\ lost' = lost \union Forsaken(p)
    /\ End(p)
    /\ UNCHANGED <<fileVars, clear, alone, dropped, hidden, runs>>

-----------------------------------------------------------------------------
\* aish

\* The console log is rolled over: its content becomes a part.
RollOut ==
    /\ Event("rollout")
    /\ issued' = NextId /\ parts' = parts \union {NextId}
    /\ UNCHANGED <<evacDir, reviewed, manifest, summaries, sendFrom, procVars, clear, ghostVars, runs>>

\* clear_parts: list the parts ...
ClearList ==
    /\ clear.at = "idle" /\ Event("clear")
    /\ clear' = [NoClear EXCEPT !.at = "parts", !.left = parts]
    /\ UNCHANGED <<fileVars, procVars, ghostVars, runs>>

\* ... remove them; one that was moved in between is passed over, or is an error.
ClearPart ==
    /\ clear.at = "parts"
    /\ \E id \in clear.left :
          /\ parts' = parts \ {id}
          /\ dropped' = dropped \union ({id} \intersect parts)
          /\ \/ clear' = [clear EXCEPT !.left = @ \ {id}]
             \/ id \notin parts /\ clear' = NoClear
    /\ UNCHANGED <<issued, evacDir, reviewed, manifest, summaries, sendFrom, procVars,
                   alone, cut, lost, hidden, runs, events>>

\* ... remove leakscan_evacuated, ...
ClearEvacuated ==
    /\ clear.at = "parts" /\ clear.left = {}
    /\ evacDir' = FALSE
    /\ clear' = [clear EXCEPT !.at = "count"]
    /\ UNCHANGED <<issued, parts, reviewed, manifest, summaries, sendFrom, procVars,
                   ghostVars, runs, events>>

\* ... count the lines of the manifest ...
ClearCount ==
    /\ clear.at = "count"
    /\ clear' = [clear EXCEPT !.at = "write", !.lines = LineCount(manifest),
                              !.hides = Ids(manifest)]
    /\ UNCHANGED <<fileVars, procVars, ghostVars, runs, events>>

\* ... and send from there on.
ClearWrite ==
    /\ clear.at = "write"
    /\ sendFrom' = clear.lines
    /\ hidden' = clear.hides
    /\ clear' = NoClear
    /\ UNCHANGED <<issued, parts, evacDir, reviewed, manifest, summaries, procVars,
                   alone, cut, lost, dropped, runs, events>>

-----------------------------------------------------------------------------

Run(p) ==
    \/ SaveUser(p) \/ ListParts(p) \/ ReadPart(p) \/ Check(p) \/ Interrupt(p)
    \/ WriteReviewed(p) \/ Evacuate(p) \/ EvacuateFails(p)
    \/ AppendRecord(p) \/ AppendNewLine(p) \/ AppendFails(p)
    \/ LoadForCompaction(p) \/ WriteSummary(p) \/ AppendCompaction(p)
    \/ LoadHistory(p) \/ ViewHistory(p) \/ Answer(p) \/ Kill(p)

Clear == ClearList \/ ClearPart \/ ClearEvacuated \/ ClearCount \/ ClearWrite

Next == (\E p \in Procs : Run(p)) \/ RollOut \/ Clear

Spec == Init /\ [][Next]_vars

-----------------------------------------------------------------------------
\* Properties

\* Every message is in the manifest at most once, however many `ai` review the
\* session at the same time and wherever they are killed: the rename of the part
\* decides who records it (process_one_part).
RecordedOnce ==
    \A i, j \in DOMAIN manifest :
        /\ IsMessage(manifest[i]) /\ IsMessage(manifest[j])
        /\ manifest[i].id = manifest[j].id
        => i = j

\* A part is where it was, cleared, recorded, in the hand of a process that is about
\* to record it, or was there when that process was killed or its write failed.
NoneForgotten ==
    \A id \in 1..issued :
        \/ id \in parts \union dropped \union Ids(manifest) \union lost
        \/ \E p \in Procs : pc[p] = "append" /\ Head(todo[p]) = id

\* No two records come to stand on one line.
LinesApart == \A i \in DOMAIN manifest : IsMessage(manifest[i]) => i \in WholeLines(manifest)

\* No message is lost between its part and the manifest, however many `ai` review
\* the session: lost is only the one that was moved away by a process that is then
\* killed, or whose write then fails.  And as long as that does not happen and the
\* runs do not overlap, nothing is lost and what is recorded can be read (prepare,
\* process_one_part, append, clear_parts).
PartsAccounted ==
    /\ NoneForgotten
    /\ alone /\ ~cut => lost = {} /\ LinesApart

\* While the runs of a session do not overlap, compactions cover the messages in
\* order and none twice (maybe_compact).
CompactionsFollow ==
    alone => LET cs == Compactions(ParseLines(manifest)) IN
             \A i, j \in DOMAIN cs : i < j => cs[i].to < cs[j].from

\* The ids next to a bound: what a page must hold.
Nearest(ids, bound, limit) ==
    LET in == {id \in ids : Within(bound, id)}
        Closer(id) == {k \in in : IF bound.at = "after" THEN k < id ELSE k > id}
    IN  {id \in in : Cardinality(Closer(id)) < limit}

Bounds == {[at |-> "none", id |-> 0]} \union [at : {"before", "after"}, id : 1..issued]

\* While the runs of a session do not overlap, a model that pages through the
\* history misses nothing and gets nothing twice: a page holds the recorded
\* messages of the role that are next to its bound, in order, whatever was torn
\* or killed before; the summary before it tells only what is older.  A search
\* finds the newest ones.  As long as nobody was killed and no part cleared while
\* it was reviewed, the files alone would give the same.  And what `aish history`
\* lists was not hidden by `aish clear`, and can be got by its id (history_get,
\* history_search, list_entries, get_entries).
PagesFollow ==
    alone /\ (\E p \in Procs : pc[p] = "asked") =>
        LET rs == ParseLines(manifest)
            Of(s) == [k \in DOMAIN s |-> CHOOSE id \in s[k].of : TRUE]
        IN  \A bound \in Bounds, limit \in 1..2,
               wanted \in {1..issued, {id \in 1..issued : id % 2 = 1}} :
            LET page == HistoryGet(rs, wanted, bound, limit)
                texts == SelectSeq(page, LAMBDA m : m.kind = "text")
                near == Nearest(wanted \intersect Ids(rs), bound, limit)
            IN  /\ Of(texts) = SetToSortSeq(near, <)
                /\ \A old \in SentIds(page, {"summary"}) : \A id \in near : old < id
                /\ bound.at = "none" =>
                     ToSet(HistorySearch(rs, wanted, limit)) = near
                /\ ~cut /\ dropped = {} =>
                     /\ Of(HistoryGetFiles(wanted, bound, limit)) = Of(texts)
                     /\ HistorySearchFiles(wanted, limit) = HistorySearch(rs, wanted, limit)
                /\ LET listed == ListEntries(manifest, FALSE)
                    IN  /\ Ids(listed) \intersect hidden = {}
                        /\ GetEntries(manifest, Ids(listed)) = listed
                        /\ GetEntries(manifest, Ids(rs)) = ListEntries(manifest, TRUE)

\* While the runs of a session do not overlap, a record says how the text that is
\* sent for it was reviewed, even if an earlier run was killed while it reviewed
\* the same part (process_one_part).
RecordsMatchFiles ==
    alone => \A i \in DOMAIN manifest :
                IsMessage(manifest[i]) => reviewed[manifest[i].id] = manifest[i].decision

\* A part is recorded at most once, and as it was reviewed.
RecordedTruly == RecordedOnce /\ RecordsMatchFiles

=============================================================================
