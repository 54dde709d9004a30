---------------------------- MODULE ContextAddons ----------------------------
(***************************************************************************)
(* Where the addons of a context pack come from: the selectors that        *)
(* build_session_deps wires, and what each finds in the project, in the    *)
(* memories and on the console.  A word of the query is a line of text, so *)
(* that a line is hit by the words that equal it.                          *)
(***************************************************************************)
EXTENDS ContextPack

CONSTANTS
    Enabled,   \* the selectors that the environment leaves on
    Limits,    \* their bounds
    Short      \* words below the length of a token

Selectors == {"changed", "console", "memory", "grep"}

AddonsAssumption ==
    /\ Enabled \subseteq Selectors /\ "changed" \in Enabled
    /\ Limits \in [files : Nat, lines : Nat, consoleLines : Nat, consoleChars : Nat,
                   memories : Nat, memoryLines : Nat, scanned : Nat, hits : Nat]

ASSUME AddonsAssumption

Beginning(seq, n) == SubSeq(seq, 1, Minimum(n, Len(seq)))
Ending(seq, n) == SubSeq(seq, Len(seq) - Minimum(n, Len(seq)) + 1, Len(seq))

\* The header and the fence around the content are a line.
AddonOf(priority, content) ==
    [priority |-> priority, text |-> <<"plain">> \o content, attachment |-> content]

-----------------------------------------------------------------------------
\* ChangedFilesSnippetSelector: the files git names, those that are gone or empty among
\* them, and of each the lines that fit.

Snippet(file) == Beginning(file.text, Limits.lines)

ChangedFiles(changed) ==
    LET shown == SelectSeq(Beginning(changed, Limits.files),
                           LAMBDA f : f.readable /\ Snippet(f) # <<>>)
    IN  [n \in 1..Len(shown) |-> AddonOf(50, Snippet(shown[n]))]

\* ShellConsoleSelector: the end of console.txt.  Of a line that the limit of characters
\* cuts in two the rest is kept, which no scanner knows.
ConsoleTail(console) ==
    LET kept == Ending(console, Limits.consoleChars)
        cut == IF Len(console) > Limits.consoleChars THEN <<"plain">> \o kept ELSE kept
    IN  Ending(cut, Limits.consoleLines)

ShellConsole(console) ==
    IF ConsoleTail(console) = <<>> THEN <<>>
    ELSE <<AddonOf(60, <<"plain">> \o ConsoleTail(console))>>

-----------------------------------------------------------------------------
\* MemorySelector

\* A keyword counts when the query has it, the subject when it has the whole query.
Score(memory, words) ==
    Cardinality(memory.keywords \intersect ToSet(words))
        + IF memory.subject = words THEN 2 ELSE 0

\* search_entries: of equal scores those of the project come first.  A directory that is
\* both is read once.
Found(place, words) ==
    LET all == place.project \o IF place.together THEN <<>> ELSE place.global
        scored == SelectSeq([i \in 1..Len(all) |->
                                [memory |-> all[i], priority |-> Score(all[i], words)]],
                            LAMBDA m : m.priority > 0)
    IN  Beginning(ByPriority(scored), Limits.memories)

\* The content is read from the entry's own file, and is empty when that is gone.
Memories(place, words) ==
    IF words = <<>> THEN <<>>
    ELSE LET found == Found(place, words)
             content(m) == IF m.readable THEN Beginning(m.text, Limits.memoryLines) ELSE <<>>
         IN  [n \in 1..Len(found) |->
                 AddonOf(70 + found[n].priority, <<"plain">> \o content(found[n].memory))]

-----------------------------------------------------------------------------
\* GrepHitsSelector

\* Of short words alone, the one token is what they make together: no line has it.
Wanted(words) == ToSet(Beginning(SelectSeq(words, LAMBDA w : w \notin Short), 3))

\* Directories in the order of the queue; one that cannot be read has no entries.
DirEntries(tree, d) == SelectSeq(tree[d], LAMBDA e : ~e.ignored)
Visited(tree) ==
    LET within(d) == LET dirs == SelectSeq(DirEntries(tree, d), LAMBDA e : e.kind = "dir")
                     IN  [i \in 1..Len(dirs) |-> dirs[i].name]
        after[n \in 0..Cardinality(DOMAIN tree)] ==
            IF n = 0 THEN <<"root">>
            ELSE LET ahead == after[n - 1]
                 IN  IF n > Len(ahead) THEN ahead ELSE ahead \o within(ahead[n])
    IN  after[Cardinality(DOMAIN tree)]

\* A file that cannot be read counts as well.
Scanned(tree) ==
    LET files(d) == SelectSeq(DirEntries(tree, d), LAMBDA e : e.kind = "file" /\ ~e.large)
        dirs == Visited(tree)
    IN  Beginning(FlattenSeq([n \in 1..Len(dirs) |-> files(dirs[n])]), Limits.scanned)

\* The limit of hits is looked at after a hit.
Hits(tree, words) ==
    LET files == Scanned(tree)
        matches(f) == IF f.readable THEN SelectSeq(f.text, LAMBDA line : line \in Wanted(words))
                  ELSE <<>>
    IN  Beginning(FlattenSeq([n \in 1..Len(files) |-> matches(files[n])]),
                IF Limits.hits = 0 THEN 1 ELSE Limits.hits)

GrepHits(tree, words) ==
    IF Wanted(words) = {} \/ Hits(tree, words) = <<>> THEN <<>>
    ELSE <<AddonOf(50, <<"plain">> \o Hits(tree, words))>>

-----------------------------------------------------------------------------
\* Phase 2 of build: a selector that fails is passed over.
Collected(place, words) ==
    LET of(selector, addons) == IF selector \in Enabled THEN addons ELSE <<>>
    IN  of("changed", IF place.git THEN ChangedFiles(place.changed) ELSE <<>>)
        \o of("console", IF place.session THEN ShellConsole(place.console) ELSE <<>>)
        \o of("memory", IF place.listed THEN Memories(place, words) ELSE <<>>)
        \o of("grep", GrepHits(place.tree, words))

=============================================================================
