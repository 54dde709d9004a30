---------------------------- MODULE MemoryStore ----------------------------
(***************************************************************************)
(* Permanent memories.  A directory of memories holds metadata.json, the   *)
(* listing of its memories, and one file per memory under entries/.  `ai`  *)
(* processes save memories (adapter/context/memory_storage.rs: the         *)
(* save_memory tool, the self-improve hook); `aish memory` lists, shows    *)
(* and removes them (aish: adapter/memory_repository.rs,                   *)
(* usecase/memory.rs).  No lock protects the files: both sides read the    *)
(* listing, change it and write all of it back, and a write first empties  *)
(* the file.                                                               *)
(*                                                                         *)
(* A process is where its operation has got to, work[p]; the module        *)
(* Backend says which process an operation of `aish` runs in.  Here the    *)
(* content of a memory and its scores are left out: a memory is its id,    *)
(* and the id of a new one is the process that saves it (they are clock    *)
(* values in nanoseconds).                                                 *)
(***************************************************************************)
EXTENDS Naturals, Sequences, FiniteSets

CONSTANTS
    Savers,     \* `ai` processes, each saves one memory
    Fronts,     \* `aish` processes
    Old,        \* memories that are there from the start
    Dirs,       \* directories of memories
    Cwds, Homes,  \* what decides the directories: cwd and AISH_HOME
    NoCwd,      \* the cwd of a process whose directory is gone
    Project,    \* .aish/memory of the project a cwd is in, or NoDir
    Global,     \* memory directory under the data directory of a home
    Context,    \* the cwd and the home of each process
    HomeOf,     \* directory each old memory is in
    NoDir,
    NoFile,     \* no metadata.json
    Empty,      \* metadata.json is being written: fs::write has emptied it
    Torn        \* metadata.json holds the remains of two writes

Procs == Savers \union Fronts
Ids == Savers \union Old
Contexts == [cwd : Cwds \union {NoCwd}, home : Homes]

MemoryAssumption ==
    /\ Savers \intersect Fronts = {} /\ Savers \intersect Old = {}
    /\ NoDir \notin Dirs
    /\ NoCwd \notin Cwds
    /\ Project \in [Cwds \union {NoCwd} -> Dirs \union {NoDir}]
    \* project_root: no project is found from a directory that is gone.
    /\ Project[NoCwd] = NoDir
    /\ Global \in [Homes -> Dirs]
    /\ Context \in [Procs -> Contexts]
    /\ HomeOf \in [Old -> Dirs]
    \* What stands for a listing that cannot be read is none.
    /\ NoFile \notin {Empty, Torn}
    /\ \A listing \in SUBSET Ids : listing \notin {NoFile, Empty, Torn}

ASSUME MemoryAssumption

VARIABLES
    meta,      \* metadata.json of each directory, the ids listed when it is whole
    entries,   \* entries/<id>.json: "none", "empty" (being written) or "whole"
    work,      \* the operation of each process
    written,   \* history: the entries that were written to their end
    saved,     \* history: the memories whose save returned Ok
    touched,   \* history: the memories whose file a removal has deleted
    removed,   \* history: those whose removal went to its end
    overlap    \* history: directories two operations were in at once

memVars == <<meta, entries, work, written, saved, touched, removed, overlap>>

\* resolve: the directories a process finds in a context.
Places(ctx) == [project |-> Project[ctx.cwd], global |-> Global[ctx.home]]

\* No operation.  ids: what is still to be done; dir: where it is done.
Idle == [op |-> "none", at |-> "none", ids |-> <<>>, dir |-> NoDir,
         places |-> [project |-> NoDir, global |-> NoDir], seen |-> {}, shown |-> {}]

\* An `ai` process that saves nothing.
Absent == [Idle EXCEPT !.op = "save"]

Ended == {"none", "ok", "err", "killed"}
Busy(p) == work[p].at \notin Ended

\* Process p gets to w.
Goes(p, w) ==
    /\ work' = [work EXCEPT ![p] = w]
    /\ overlap' = overlap \union
         {d \in Dirs : /\ w.dir = d /\ w.at \notin Ended
                       /\ \E q \in Procs \ {p} : Busy(q) /\ work[q].dir = d}

\* serde_json cannot parse the listing.
Unreadable(d) == meta[d] \in {Empty, Torn}

\* fs::write: the file is emptied when it is opened, and written from its start.
\* What another process has written in between stays where it is longer.
Truncates(d) == meta' = [meta EXCEPT ![d] = Empty]

Writes(d, listing) ==
    \E whole \in {listing} \union (IF meta[d] = Empty THEN {} ELSE {Torn}) :
        meta' = [meta EXCEPT ![d] = whole]

At(p, place) == Goes(p, [work[p] EXCEPT !.at = place])

MemInit ==
    /\ entries = [d \in Dirs |-> [i \in Ids |->
                    IF i \in Old /\ HomeOf[i] = d THEN "whole" ELSE "none"]]
    /\ meta \in [Dirs -> {NoFile} \union SUBSET Old]
    /\ \A d \in Dirs : LET here == {i \in Old : HomeOf[i] = d}
                       IN IF here = {} THEN meta[d] \in {NoFile, {}} ELSE meta[d] = here
    /\ work \in [Procs -> {Idle, Absent}]
    /\ \A p \in Fronts : work[p] = Idle
    /\ written = Old
    /\ saved = Old
    /\ touched = {}
    /\ removed = {}
    /\ overlap = {}

-----------------------------------------------------------------------------
(* save_entry in an `ai` process.                                          *)

\* The directory for a new memory: that of the project, if there is one.
SaveDir(ctx) ==
    IF Project[ctx.cwd] # NoDir THEN Project[ctx.cwd] ELSE Global[ctx.home]

StartSave(s) ==
    /\ work[s].op = "none"
    /\ Goes(s, [Idle EXCEPT !.op = "save", !.at = "init", !.ids = <<s>>,
                            !.dir = SaveDir(Context[s])])
    /\ UNCHANGED <<meta, entries, written, saved, touched, removed>>

\* init_memory_dir: an empty listing is written unless there is a file.
InitDir(s) ==
    /\ work[s].at = "init"
    /\ At(s, IF meta[work[s].dir] = NoFile THEN "initTruncate" ELSE "entry")
    /\ UNCHANGED <<meta, entries, written, saved, touched, removed>>

InitTruncate(s) ==
    /\ work[s].at = "initTruncate"
    /\ Truncates(work[s].dir)
    /\ At(s, "initWrite")
    /\ UNCHANGED <<entries, written, saved, touched, removed>>

InitWrite(s) ==
    /\ work[s].at = "initWrite"
    /\ Writes(work[s].dir, {})
    /\ At(s, "entry")
    /\ UNCHANGED <<entries, written, saved, touched, removed>>

\* The file of the memory is created, then filled; when it was removed in
\* between, what is written is in no directory.
CreateEntry(s) ==
    /\ work[s].at = "entry"
    /\ entries' = [entries EXCEPT ![work[s].dir][s] = "empty"]
    /\ At(s, "fill")
    /\ UNCHANGED <<meta, written, saved, touched, removed>>

FillEntry(s) ==
    /\ work[s].at = "fill"
    /\ entries' = [entries EXCEPT ![work[s].dir][s] = IF @ = "none" THEN "none" ELSE "whole"]
    /\ written' = written \union {s}
    /\ At(s, "saveRead")
    /\ UNCHANGED <<meta, saved, touched, removed>>

\* read_metadata: no file is an empty listing; one that cannot be parsed makes
\* the save fail, with the file of the memory in place.
SaveRead(s) ==
    /\ work[s].at = "saveRead"
    /\ IF Unreadable(work[s].dir) THEN At(s, "err")
       ELSE Goes(s, [work[s] EXCEPT !.at = "saveTruncate",
              !.seen = IF meta[work[s].dir] = NoFile THEN {} ELSE meta[work[s].dir]])
    /\ UNCHANGED <<meta, entries, written, saved, touched, removed>>

SaveTruncate(s) ==
    /\ work[s].at = "saveTruncate"
    /\ Truncates(work[s].dir)
    /\ At(s, "saveWrite")
    /\ UNCHANGED <<entries, written, saved, touched, removed>>

\* write_metadata, and the save returns Ok.
SaveWrite(s) ==
    /\ work[s].at = "saveWrite"
    /\ Writes(work[s].dir, work[s].seen \union {s})
    /\ saved' = saved \union {s}
    /\ At(s, "ok")
    /\ UNCHANGED <<entries, written, touched, removed>>

-----------------------------------------------------------------------------
(* MemoryUseCase list, get and remove, in the process p.                   *)

Asked(op, ids) == [Idle EXCEPT !.op = op, !.at = "resolve", !.ids = ids]

\* resolve, in the context the process that does the work is in.
Resolve(p, ctx) ==
    /\ work[p].at = "resolve"
    /\ Goes(p, [work[p] EXCEPT !.at = work[p].op, !.places = Places(ctx)])
    /\ UNCHANGED <<meta, entries, written, saved, touched, removed>>

\* list: the listing of the project, then the global one.  When the two
\* directories are the same both are skipped.
Shows(p, d, next) ==
    IF d \in {NoDir} \/ work[p].places.project = work[p].places.global THEN At(p, next)
    ELSE IF Unreadable(d) THEN At(p, "err")
    ELSE Goes(p, [work[p] EXCEPT !.at = next,
                    !.shown = @ \union (IF meta[d] = NoFile THEN {} ELSE meta[d])])

List(p) ==
    /\ \/ /\ work[p].at = "list"
          /\ Shows(p, work[p].places.project, "listGlobal")
       \/ /\ work[p].at = "listGlobal"
          /\ Shows(p, work[p].places.global, "ok")
    /\ UNCHANGED <<meta, entries, written, saved, touched, removed>>

\* get: the project's file if it can be read, else the global one; the first
\* id that is in neither ends the command.
Get(p) ==
    /\ work[p].at = "get"
    /\ LET i == Head(work[p].ids)
           readable == {d \in {work[p].places.project, work[p].places.global} \ {NoDir} :
                          entries[d][i] = "whole"}
       IN IF work[p].ids = <<>> THEN At(p, "ok")
          ELSE IF readable = {} THEN At(p, "err")
          ELSE Goes(p, [work[p] EXCEPT !.ids = Tail(@), !.shown = @ \union {i}])
    /\ UNCHANGED <<meta, entries, written, saved, touched, removed>>

\* remove: the directory that has a file for the id, the project's first; an
\* id without a file ends the command, the earlier ones are gone.
FindEntry(p) ==
    /\ work[p].at = "remove"
    /\ LET i == Head(work[p].ids)
           pl == work[p].places
           Has(d) == d # NoDir /\ entries[d][i] # "none"
       IN IF work[p].ids = <<>> THEN At(p, "ok")
          ELSE IF Has(pl.project)
               THEN Goes(p, [work[p] EXCEPT !.at = "unlink", !.dir = pl.project])
          ELSE IF Has(pl.global)
               THEN Goes(p, [work[p] EXCEPT !.at = "unlink", !.dir = pl.global])
          ELSE At(p, "err")
    /\ UNCHANGED <<meta, entries, written, saved, touched, removed>>

\* remove_entry_file: a file that has gone meanwhile is no error.
Unlink(p) ==
    /\ work[p].at = "unlink"
    /\ LET i == Head(work[p].ids)
       IN /\ entries' = [entries EXCEPT ![work[p].dir][i] = "none"]
          /\ touched' = touched \union {i}
    /\ At(p, "removeRead")
    /\ UNCHANGED <<meta, written, saved, removed>>

NextId(p) == Goes(p, [work[p] EXCEPT !.at = "remove", !.ids = Tail(@)])

\* remove_from_metadata: with no file there is nothing to do, a listing that
\* cannot be parsed ends the command after the file of the memory is gone.
RemoveRead(p) ==
    /\ work[p].at = "removeRead"
    /\ IF Unreadable(work[p].dir) THEN At(p, "err")
       ELSE IF meta[work[p].dir] = NoFile THEN NextId(p)
       ELSE Goes(p, [work[p] EXCEPT !.at = "removeTruncate", !.seen = meta[work[p].dir]])
    /\ removed' = IF meta[work[p].dir] = NoFile THEN removed \union {Head(work[p].ids)}
                  ELSE removed
    /\ UNCHANGED <<meta, entries, written, saved, touched>>

RemoveTruncate(p) ==
    /\ work[p].at = "removeTruncate"
    /\ Truncates(work[p].dir)
    /\ At(p, "removeWrite")
    /\ UNCHANGED <<entries, written, saved, touched, removed>>

\* Slip: the listing is written back as it was read.
RemoveWriteAll(p) ==
    /\ work[p].at = "removeWrite"
    /\ Writes(work[p].dir, work[p].seen)
    /\ removed' = removed \union {Head(work[p].ids)}
    /\ NextId(p)
    /\ UNCHANGED <<entries, written, saved, touched>>

RemoveWrite(p) ==
    /\ work[p].at = "removeWrite"
    /\ Writes(work[p].dir, work[p].seen \ {Head(work[p].ids)})
    /\ removed' = removed \union {Head(work[p].ids)}
    /\ NextId(p)
    /\ UNCHANGED <<entries, written, saved, touched>>

-----------------------------------------------------------------------------

\* The process that does the work of p ends in the middle of it.
Killed(p) ==
    /\ Busy(p)
    /\ At(p, "killed")
    /\ UNCHANGED <<meta, entries, written, saved, touched, removed>>

SaveStep(s) ==
    \/ StartSave(s)
    \/ InitDir(s) \/ InitTruncate(s) \/ InitWrite(s)
    \/ CreateEntry(s) \/ FillEntry(s)
    \/ SaveRead(s) \/ SaveTruncate(s) \/ SaveWrite(s)

UseStep(p) ==
    \/ List(p) \/ Get(p)
    \/ FindEntry(p) \/ Unlink(p)
    \/ RemoveRead(p) \/ RemoveTruncate(p) \/ RemoveWrite(p)

-----------------------------------------------------------------------------

MemTypeOK ==
    /\ \A d \in Dirs : meta[d] \in {NoFile, Empty, Torn} \union SUBSET Ids
    /\ entries \in [Dirs -> [Ids -> {"none", "empty", "whole"}]]
    /\ {written, saved, touched, removed} \subseteq SUBSET Ids
    /\ overlap \subseteq Dirs
    /\ \A p \in Procs : work[p].dir \in Dirs \union {NoDir}

\* The listing can be read.
Listed(d) == meta[d] # NoFile /\ ~Unreadable(d)

\* The directory a memory was saved in.
DirOf(i) == IF i \in Old THEN HomeOf[i] ELSE SaveDir(Context[i])

\* As long as a directory never had two operations in it at once, and with no
\* operation in it now, its listing and its files tell the same and tell the
\* truth: every memory whose save returned Ok is there until a removal begins,
\* and none that was removed is.  That includes the operations that fail and the
\* processes that are killed, unless one was killed while it wrote the listing
\* (save_entry, StdMemoryRepository::remove).
SerialListing ==
    \A d \in Dirs :
        (d \notin overlap /\ Listed(d) /\ \A p \in Procs : work[p].dir = d => ~Busy(p)) =>
            /\ \A i \in saved \ touched :
                 DirOf(i) = d => entries[d][i] = "whole" /\ i \in meta[d]
            /\ \A i \in removed : entries[d][i] = "none" /\ i \notin meta[d]

=============================================================================
