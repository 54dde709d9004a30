---------------------------- MODULE DerivedIndex ----------------------------
(***************************************************************************)
(* The derived data of one session: index/index.sqlite, which holds a row  *)
(* for each event and the number of the last event that was applied, and   *)
(* snapshots/summary.json, which counts the rows.                          *)
(*                                                                         *)
(* The daemon applies new events after every append, under a mutex: after  *)
(* an append request ("append") and after a job.lifecycle event of its own *)
(* ("job").  `ai` processes apply at the end of a run and for the command  *)
(* sessions-rebuild-derived ("ai"), and the daemon rebuilds on request     *)
(* ("rebuild"), both without the mutex.                                    *)
(***************************************************************************)
EXTENDS Naturals, FiniteSets, FiniteSetsExt

CONSTANTS
    Operations, \* each does its work once
    Nobody,
    Kind,       \* "append", "job", "ai" or "rebuild"
    MaxFaults   \* bound: failures of the environment in one behaviour

OperationsAssumption ==
    /\ Nobody \notin Operations
    /\ Kind \in [Operations -> {"append", "job", "ai", "rebuild"}]
    /\ MaxFaults \in Nat

ASSUME OperationsAssumption

VARIABLES
    log,      \* number of events in events.jsonl; their seqs are 1..log
    dir,      \* the directory index exists
    db,       \* which file index.sqlite is: 0 for none
    made,     \* database files that were created so far
    tables,   \* its tables: "none", "events" or "both"
    rows,     \* seqs in the table events
    applied,  \* last_applied_seq in the table metadata; 0 if there is no row
    summary,  \* seqs that summary.json counts
    mutex,    \* apply_mutex
    pc,       \* where each operation is
    conn,     \* the file its connection has open
    todo,     \* seqs it has yet to insert
    upto,     \* the last seq it knows of: in the index, then in events.jsonl
    read,     \* rows its summary counts
    solo,     \* no other operation was at work since it began, no failure hit it
    mixed,    \* a rebuild has run beside another operation so far
    faults    \* failures of the environment so far

dbVars == <<dir, db, made, tables, rows, applied>>
ownVars == <<conn, todo, upto, read>>
vars == <<log, dbVars, summary, mutex, pc, ownVars, solo, mixed, faults>>

Pcs == {"idle", "lock", "last", "read", "check", "remove", "mkdir", "create",
        "events", "metadata", "open", "insert", "record", "select",
        "summary", "ok", "error", "done"}
Working == {o \in Operations : pc[o] \notin {"idle", "lock", "done"}}
Rebuild(o) == Kind[o] = "rebuild"
Guarded(o) == Kind[o] \in {"append", "job"}
InDaemon(o) == Kind[o] # "ai"

Init ==
    /\ log = 0
    /\ dir = FALSE /\ db = 0 /\ made = 0
    /\ tables = "none" /\ rows = {} /\ applied = 0
    /\ summary = {}
    /\ mutex = Nobody
    /\ pc = [o \in Operations |-> "idle"]
    /\ conn = [o \in Operations |-> 0]
    /\ todo = [o \in Operations |-> {}]
    /\ upto = [o \in Operations |-> 0]
    /\ read = [o \in Operations |-> {}]
    /\ solo = [o \in Operations |-> TRUE]
    /\ mixed = FALSE
    /\ faults = 0

Goto(o, next) == pc' = [pc EXCEPT ![o] = next]
Fault == faults < MaxFaults /\ faults' = faults + 1

-----------------------------------------------------------------------------
\* Beginning and end of an operation

\* o starts to work on the files, beside those that are at work.
StartWork(o) ==
    /\ solo' = [p \in Operations |->
                  IF p = o THEN Working = {} ELSE solo[p] /\ p \notin Working]
    /\ mixed' = (mixed \/ \E p \in Working : Rebuild(p) \/ Rebuild(o))

\* An event is appended by the daemon for a request or a job, or by an `ai`
\* process during its run; the application follows.  A rebuild reads the log.
Begin(o) ==
    /\ pc[o] = "idle"
    /\ \/ /\ Guarded(o)
          /\ log' = log + 1
          /\ Goto(o, "lock")
          /\ UNCHANGED <<solo, mixed>>
       \/ /\ Kind[o] = "ai"
          /\ log' = log + 1
          /\ Goto(o, "last")
          /\ StartWork(o)
       \/ /\ Rebuild(o)
          /\ Goto(o, "read")
          /\ StartWork(o)
          /\ UNCHANGED log
    /\ UNCHANGED <<dbVars, summary, mutex, ownVars, faults>>

\* The mutex is held until the operation has returned.
Lock(o) ==
    /\ pc[o] = "lock"
    /\ mutex = Nobody
    /\ mutex' = o
    /\ Goto(o, "last")
    /\ StartWork(o)
    /\ UNCHANGED <<log, dbVars, summary, ownVars, faults>>

\* An append request that could not be applied leaves derived.update_failed in
\* the log, once the mutex is free; the other operations leave nothing.
End(o) ==
    /\ pc[o] \in {"ok", "error"}
    /\ Goto(o, "done")
    /\ mutex' = IF mutex = o THEN Nobody ELSE mutex
    /\ log' = IF pc[o] = "error" /\ Kind[o] = "append" THEN log + 1 ELSE log
    /\ UNCHANGED <<dbVars, summary, ownVars, solo, mixed, faults>>

-----------------------------------------------------------------------------
\* SQLite

\* Connection::open creates an empty file where there is none.
OpenFile(o) ==
    IF db = 0
    THEN /\ made' = made + 1
         /\ db' = made + 1
         /\ conn' = [conn EXCEPT ![o] = made + 1]
    ELSE /\ conn' = [conn EXCEPT ![o] = db]
         /\ UNCHANGED <<made, db>>

\* A write through a connection whose file was removed fails (readonly: moved).
Writable(o) == conn[o] = db

-----------------------------------------------------------------------------
\* The steps of apply_from_seq and rebuild_all

\* read_last_applied_seq; without a directory the open fails, without a row or
\* a table the query does: the number is 0.  The open may create the file.
ReadLast(o) ==
    /\ pc[o] = "last"
    /\ Goto(o, "read")
    /\ upto' = [upto EXCEPT ![o] = applied]
    /\ IF dir
       THEN OpenFile(o)
       ELSE UNCHANGED <<conn, made, db>>
    /\ UNCHANGED <<log, dir, tables, rows, applied, summary, mutex, todo, read,
                   solo, mixed, faults>>

\* Slip: the first event after the last applied one is skipped.
ReadLogSkipping(o) ==
    /\ pc[o] = "read"
    /\ LET first == IF Rebuild(o) THEN 1 ELSE upto[o] + 2 IN
       /\ todo' = [todo EXCEPT ![o] = first..log]
       /\ Goto(o, IF Rebuild(o) THEN "remove"
                  ELSE IF first..log = {} THEN "ok"
                  ELSE "check")
    /\ upto' = [upto EXCEPT ![o] = log]
    /\ UNCHANGED <<log, dbVars, summary, mutex, conn, read, solo, mixed, faults>>

\* Read the events and resolve their artifacts.  An application has nothing to
\* do when there is no event after the last applied one.
ReadLog(o) ==
    /\ pc[o] = "read"
    /\ LET first == IF Rebuild(o) THEN 1 ELSE upto[o] + 1 IN
       /\ todo' = [todo EXCEPT ![o] = first..log]
       /\ Goto(o, IF Rebuild(o) THEN "remove"
                  ELSE IF first..log = {} THEN "ok"
                  ELSE "check")
    /\ upto' = [upto EXCEPT ![o] = log]
    /\ UNCHANGED <<log, dbVars, summary, mutex, conn, read, solo, mixed, faults>>

\* need_init: the file does not exist.
Check(o) ==
    /\ pc[o] = "check"
    /\ Goto(o, IF db = 0 THEN "mkdir" ELSE "open")
    /\ UNCHANGED <<log, dbVars, summary, mutex, ownVars, solo, mixed, faults>>

Remove(o) ==
    /\ pc[o] = "remove"
    /\ db' = 0
    /\ tables' = "none"
    /\ rows' = {}
    /\ applied' = 0
    /\ Goto(o, "mkdir")
    /\ UNCHANGED <<log, dir, made, summary, mutex, ownVars, solo, mixed, faults>>

MakeDir(o) ==
    /\ pc[o] = "mkdir"
    /\ dir' = TRUE
    /\ Goto(o, "create")
    /\ UNCHANGED <<log, db, made, tables, rows, applied, summary, mutex, ownVars,
                   solo, mixed, faults>>

Create(o) ==
    /\ pc[o] = "create"
    /\ OpenFile(o)
    /\ Goto(o, "events")
    /\ UNCHANGED <<log, dir, tables, rows, applied, summary, mutex, todo, upto,
                   read, solo, mixed, faults>>

\* CREATE TABLE events fails when there is one.
CreateEvents(o) ==
    /\ pc[o] = "events"
    /\ IF Writable(o) /\ tables = "none"
       THEN tables' = "events" /\ Goto(o, "metadata")
       ELSE Goto(o, "error") /\ UNCHANGED tables
    /\ UNCHANGED <<log, dir, db, made, rows, applied, summary, mutex, ownVars,
                   solo, mixed, faults>>

\* CREATE TABLE IF NOT EXISTS metadata.
CreateMetadata(o) ==
    /\ pc[o] = "metadata"
    /\ IF Writable(o)
       THEN /\ tables' = "both"
            /\ Goto(o, IF Rebuild(o) THEN "insert" ELSE "open")
       ELSE Goto(o, "error") /\ UNCHANGED tables
    /\ UNCHANGED <<log, dir, db, made, rows, applied, summary, mutex, ownVars,
                   solo, mixed, faults>>

\* Open and prepare the INSERT, which fails without the table.
Open(o) ==
    /\ pc[o] = "open"
    /\ OpenFile(o)
    /\ Goto(o, IF tables = "none" THEN "error" ELSE "insert")
    /\ UNCHANGED <<log, dir, tables, rows, applied, summary, mutex, todo, upto,
                   read, solo, mixed, faults>>

\* One INSERT after the other, in the order of the log: OR REPLACE when events
\* are applied; in a rebuild a row that is there is an error.
Insert(o) ==
    /\ pc[o] = "insert"
    /\ todo[o] # {}
    /\ LET seq == Min(todo[o]) IN
       IF Writable(o) /\ ~(Rebuild(o) /\ seq \in rows)
       THEN /\ rows' = rows \cup {seq}
            /\ todo' = [todo EXCEPT ![o] = @ \ {seq}]
            /\ UNCHANGED pc
       ELSE /\ Goto(o, "error")
            /\ UNCHANGED <<rows, todo>>
    /\ UNCHANGED <<log, dir, db, made, tables, applied, summary, mutex, conn,
                   upto, read, solo, mixed, faults>>

\* Slip: the number is recorded before the rows.
RecordFirst(o) ==
    /\ pc[o] = "insert"
    /\ Writable(o) /\ tables = "both"
    /\ applied' = upto[o]
    /\ Goto(o, "select")
    /\ UNCHANGED <<log, dir, db, made, tables, rows, summary, mutex, ownVars,
                   solo, mixed, faults>>

\* INSERT OR REPLACE INTO metadata, which may lack its table.
Record(o) ==
    /\ pc[o] = "insert"
    /\ todo[o] = {}
    /\ IF Writable(o) /\ tables = "both"
       THEN applied' = upto[o] /\ Goto(o, "select")
       ELSE Goto(o, "error") /\ UNCHANGED applied
    /\ UNCHANGED <<log, dir, db, made, tables, rows, summary, mutex, ownVars,
                   solo, mixed, faults>>

\* The summary of an application selects from the file that is there now; the
\* one of a rebuild counts the events it has read.
Select(o) ==
    /\ pc[o] = "select"
    /\ IF Rebuild(o)
       THEN /\ read' = [read EXCEPT ![o] = 1..upto[o]]
            /\ Goto(o, "summary")
            /\ UNCHANGED <<conn, made, db>>
       ELSE /\ OpenFile(o)
            /\ IF tables = "none"
               THEN Goto(o, "error") /\ UNCHANGED read
               ELSE /\ read' = [read EXCEPT ![o] = rows]
                    /\ Goto(o, "summary")
    /\ UNCHANGED <<log, dir, tables, rows, applied, summary, mutex, todo, upto,
                   solo, mixed, faults>>

WriteSummary(o) ==
    /\ pc[o] = "summary"
    /\ summary' = read[o]
    /\ Goto(o, "ok")
    /\ UNCHANGED <<log, dbVars, mutex, ownVars, solo, mixed, faults>>

Step(o) ==
    \/ ReadLast(o) \/ ReadLog(o) \/ Check(o) \/ Remove(o) \/ MakeDir(o)
    \/ Create(o) \/ CreateEvents(o) \/ CreateMetadata(o) \/ Open(o)
    \/ Insert(o) \/ Record(o) \/ Select(o) \/ WriteSummary(o)

-----------------------------------------------------------------------------
\* The environment

\* A step fails: the disk is full, an artifact is missing, a file is read-only.
Fail(o) ==
    /\ o \in Working
    /\ pc[o] \notin {"last", "ok", "error"}
    /\ Fault
    /\ Goto(o, "error")
    /\ solo' = [solo EXCEPT ![o] = FALSE]
    /\ UNCHANGED <<log, dbVars, summary, mutex, ownVars, mixed>>

\* The process of an `ai` operation is killed (cancel_ai, Ctrl-C).
KillAi(o) ==
    /\ o \in Working
    /\ ~InDaemon(o)
    /\ Fault
    /\ Goto(o, "done")
    /\ UNCHANGED <<log, dbVars, summary, mutex, ownVars, solo, mixed>>

\* The daemon is killed and starts again: its operations are cut off.
KillDaemon ==
    /\ Fault
    /\ pc' = [o \in Operations |->
                IF InDaemon(o) /\ pc[o] # "idle" THEN "done" ELSE pc[o]]
    /\ mutex' = Nobody
    /\ UNCHANGED <<log, dbVars, summary, ownVars, solo, mixed>>

\* A derived_status request reads the number, and may create the file.
Status ==
    /\ dir
    /\ db = 0
    /\ made' = made + 1
    /\ db' = made + 1
    /\ UNCHANGED <<log, dir, tables, rows, applied, summary, mutex, pc, ownVars,
                   solo, mixed, faults>>

\* Nothing is left to do: every operation has returned or was cut off.
Idle ==
    /\ \A o \in Operations : pc[o] = "done"
    /\ UNCHANGED vars

Next ==
    \/ \E o \in Operations : Begin(o) \/ Lock(o) \/ Step(o) \/ End(o)
    \/ \E o \in Operations : Fail(o) \/ KillAi(o)
    \/ KillDaemon
    \/ Status
    \/ Idle

Spec == Init /\ [][Next]_vars

-----------------------------------------------------------------------------
\* Properties

\* Without a file there is no table, and no row without its table.
TypeOK ==
    /\ log \in Nat
    /\ dir \in BOOLEAN
    /\ made \in Nat /\ db \in 0..made
    /\ tables \in {"none", "events", "both"}
    /\ rows \subseteq 1..log /\ applied \in 0..log
    /\ summary \subseteq 1..log
    /\ db = 0 => tables = "none"
    /\ tables = "none" => rows = {}
    /\ tables # "both" => applied = 0
    /\ mutex \in Operations \cup {Nobody}
    /\ pc \in [Operations -> Pcs]
    /\ conn \in [Operations -> 0..made]
    /\ todo \in [Operations -> SUBSET (1..log)]
    /\ upto \in [Operations -> 0..log]
    /\ read \in [Operations -> SUBSET (1..log)]
    /\ solo \in [Operations -> BOOLEAN]
    /\ mixed \in BOOLEAN
    /\ faults \in Nat

\* last_applied_seq never runs ahead of the rows, whichever daemon threads and
\* `ai` processes apply at the same time, and wherever one of them is killed or
\* fails: what an application skips is in the index.  Only a rebuild that ran
\* beside another operation may break this.
AppliedIsIndexed == ~mixed => 1..applied \subseteq rows

\* No event is forgotten, not even one that was appended after the running
\* operation had read the log: once all is done, and the operations came one
\* after the other without a failure, the index and the summary hold the log.
NothingForgotten ==
    (/\ \A o \in Operations : pc[o] = "done" /\ solo[o]
     /\ faults = 0 /\ ~mixed) =>
        rows = 1..log /\ summary = rows /\ applied = log

\* The file is there without its tables, and nobody is about to create them.
Unusable ==
    /\ db # 0
    /\ tables = "none"
    /\ \A o \in Operations : pc[o] \notin {"mkdir", "create", "events"}

\* An operation that had the files for itself and returns Ok has indexed all
\* it has read, whatever the operations before it have left behind; when it had
\* something to do the summary counts just these events.
OkMeansIndexed ==
    \A o \in Operations : pc[o] = "ok" /\ solo[o] /\ ~mixed =>
        /\ applied = upto[o]
        /\ rows = 1..upto[o]
        /\ todo[o] = {}
        /\ read[o] # {} => summary = rows

\* What the index says it has applied, and what an operation says it has done, is in it.
IndexIsTrue == AppliedIsIndexed /\ OkMeansIndexed

=============================================================================
