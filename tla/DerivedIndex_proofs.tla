-------------------------- MODULE DerivedIndex_proofs --------------------------
(***************************************************************************)
(* DerivedIndex: for every set of operations, whichever apply, rebuild,    *)
(* fail or are killed, the index never says it has applied an event that   *)
(* it does not hold, an operation that returns Ok has indexed what it has  *)
(* read, and operations that come one after the other forget nothing.      *)
(*                                                                         *)
(* Three arguments are nested.  Beside whatever else runs, what an         *)
(* application skips or has on its list covers the events up to the one it *)
(* knows of (Covers): only a rebuild takes rows away.  An operation that   *)
(* has the files for itself knows more, at each of its steps: the rows are *)
(* just those up to that event (Alone).  And as long as everything comes   *)
(* in order, each finds the tables as it needs them, so that none ends in  *)
(* an error, and somebody has yet to see the end of the log unless the     *)
(* index has it (InOrder).                                                 *)
(***************************************************************************)
EXTENDS DerivedIndex, WellFoundedInduction, TLAPS

-----------------------------------------------------------------------------
\* The inductive invariant

Inserting == {"remove", "check", "mkdir", "create", "events", "metadata", "open", "insert"}
Recorded == {"select", "summary", "ok"}

\* A connection that can write has a file with the table events under it, and only
\* a rebuild removes it.
Handles ==
    \A o \in Operations :
        /\ pc[o] \in {"events", "metadata", "insert"} => conn[o] # 0
        /\ pc[o] = "insert" /\ conn[o] = db => tables # "none"
        /\ pc[o] \in Inserting => todo[o] \subseteq 1..upto[o]
        /\ pc[o] = "remove" => Rebuild(o)
        /\ pc[o] \in {"lock", "last", "check", "open"} => ~Rebuild(o)

\* Who has not begun has met nobody, and a rebuild has met nobody but for `mixed`.
Apart ==
    \A o \in Operations :
        /\ pc[o] \in {"idle", "lock"} => solo[o] /\ read[o] = {}
        /\ o \in Working /\ solo[o] => Working = {o}
        /\ o \in Working /\ Rebuild(o) /\ ~mixed => Working = {o}

\* What an operation skips or has taken on is in the index or on its list.
Covers ==
    ~mixed =>
        /\ 1..applied \subseteq rows
        /\ \A o \in Operations :
             /\ pc[o] = "read" /\ ~Rebuild(o) => 1..upto[o] \subseteq rows
             /\ pc[o] \in Inserting => 1..upto[o] \subseteq rows \union todo[o]
             /\ pc[o] = "remove" => 1..upto[o] \subseteq todo[o]

\* What an operation that has the files for itself knows of them.
Knows(o) ==
    /\ pc[o] \in {"last", "read", "select"} \union Inserting => read[o] = {}
    /\ pc[o] = "read" /\ ~Rebuild(o) => upto[o] = applied
    /\ pc[o] \in Inserting => rows \subseteq 1..upto[o]
    /\ pc[o] \in Recorded => applied = upto[o] /\ rows = 1..upto[o] /\ todo[o] = {}
    /\ pc[o] = "summary" => read[o] = rows
    /\ pc[o] = "ok" /\ read[o] # {} => summary = rows

Alone == \A o \in Working : solo[o] /\ ~mixed => Knows(o)

\* So far nothing failed, and the operations came one after the other.
Orderly == faults = 0 /\ ~mixed /\ \A o \in Operations : solo[o]

\* What an orderly operation finds before it begins and leaves behind ...
Whole ==
    /\ \/ db = 0 /\ ~dir /\ tables = "none"
       \/ db # 0 /\ tables = "both"
    /\ rows = 1..applied /\ summary = rows

\* ... and what it meets on its way.
Finds(o) ==
    /\ pc[o] # "error"
    /\ pc[o] \in {"last", "read", "check", "remove", "ok"} => Whole
    /\ pc[o] \in {"mkdir", "create", "events"} => tables = "none"
    /\ pc[o] = "metadata" => tables = "events"
    /\ pc[o] \in {"open", "insert", "select", "summary"} => tables = "both" /\ db # 0
    /\ pc[o] \in {"events", "metadata", "insert"} => conn[o] = db
    /\ pc[o] \in Inserting \ {"remove"} /\ Rebuild(o) => rows \intersect todo[o] = {}

\* Somebody has yet to see the end of the log, or has it on its list, or the index
\* has it.
Follows ==
    \/ \E o \in Operations : pc[o] \in {"lock", "last", "read"}
    \/ \E o \in Operations : pc[o] \in Inserting \union {"select", "summary"} /\ upto[o] = log
    \/ /\ applied = log
       /\ \A o \in Operations : pc[o] \notin Inserting \union {"select", "summary"}

InOrder ==
    Orderly =>
        /\ Working = {} => Whole
        /\ \A o \in Working : Finds(o)
        /\ Follows

Inv == TypeOK /\ Handles /\ Apart /\ Covers /\ Alone /\ InOrder

-----------------------------------------------------------------------------
\* Lemmas

\* A list that is not empty has a first event.
LEMMA MinIsMember == ASSUME NEW S, S \subseteq Nat, S # {} PROVE Min(S) \in S
<1>1. PICK x \in S : \A y \in S : ~(<<y, x>> \in OpToRel(<, Nat))
  BY WFMin, NatLessThanWellFounded
<1>2. \A y \in S : ~(y < x)
  BY <1>1 DEF OpToRel
<1>3. \A y \in S : x <= y
  BY <1>2
<1> QED
  BY <1>3 DEF Min

\* One step of the work of an operation: it is at work before and after it, and
\* leaves the others' own variables alone.
LEMMA StepFacts ==
    ASSUME TypeOK, NEW o \in Operations, Step(o)
    PROVE  /\ o \in Working /\ Working' = Working
           /\ pc' \in [Operations -> Pcs] /\ pc'[o] \notin {"idle", "lock", "done"}
           /\ \A q \in Operations \ {o} :
                /\ pc'[q] = pc[q] /\ conn'[q] = conn[q] /\ todo'[q] = todo[q]
                /\ upto'[q] = upto[q] /\ read'[q] = read[q]
           /\ UNCHANGED <<log, mutex, solo, mixed, faults>>
<1> USE DEF Goto, OpenFile
<1>0. /\ pc \in [Operations -> Pcs]
      /\ DOMAIN conn = Operations /\ DOMAIN todo = Operations
      /\ DOMAIN upto = Operations /\ DOMAIN read = Operations
  BY DEF TypeOK
<1>1. CASE ReadLast(o)
  BY <1>0, <1>1 DEF ReadLast, Working, Pcs
<1>2. CASE ReadLog(o)
  BY <1>0, <1>2 DEF ReadLog, Working, Pcs, dbVars
<1>3. CASE Check(o)
  BY <1>0, <1>3 DEF Check, Working, Pcs, dbVars, ownVars
<1>4. CASE Remove(o)
  BY <1>0, <1>4 DEF Remove, Working, Pcs, ownVars
<1>5. CASE MakeDir(o)
  BY <1>0, <1>5 DEF MakeDir, Working, Pcs, ownVars
<1>6. CASE Create(o)
  BY <1>0, <1>6 DEF Create, Working, Pcs
<1>7. CASE CreateEvents(o)
  BY <1>0, <1>7 DEF CreateEvents, Working, Pcs, ownVars
<1>8. CASE CreateMetadata(o)
  BY <1>0, <1>8 DEF CreateMetadata, Working, Pcs, ownVars
<1>9. CASE Open(o)
  BY <1>0, <1>9 DEF Open, Working, Pcs
<1>10. CASE Insert(o)
  BY <1>0, <1>10 DEF Insert, Working, Pcs
<1>11. CASE Record(o)
  BY <1>0, <1>11 DEF Record, Working, Pcs, ownVars
<1>12. CASE Select(o)
  BY <1>0, <1>12 DEF Select, Working, Pcs
<1>13. CASE WriteSummary(o)
  BY <1>0, <1>13 DEF WriteSummary, Working, Pcs, ownVars, dbVars
<1> QED
  BY <1>1, <1>2, <1>3, <1>4, <1>5, <1>6, <1>7, <1>8, <1>9, <1>10, <1>11, <1>12, <1>13
     DEF Step

\* A file is opened, or created: the one that is there then.
LEMMA OpenFileFacts ==
    ASSUME TypeOK, NEW o \in Operations, OpenFile(o)
    PROVE  /\ made' \in Nat /\ made <= made' /\ db' \in 1..made'
           /\ conn' = [conn EXCEPT ![o] = db']
           /\ conn' \in [Operations -> 0..made']
           /\ db' # db => db = 0 /\ db' = made + 1
<1>1. CASE db = 0
  BY <1>1 DEF OpenFile, TypeOK
<1>2. CASE db # 0
  BY <1>2 DEF OpenFile, TypeOK
<1> QED
  BY <1>1, <1>2

-----------------------------------------------------------------------------
\* Types and handles

Typed == TypeOK /\ Handles

\* A step that touches neither the files nor the list of anyone.
LEMMA TypedKept ==
    ASSUME Typed, UNCHANGED <<dbVars, conn, todo>>, log' \in Nat, log <= log',
           summary' \subseteq 1..log', mutex' \in Operations \union {Nobody},
           pc' \in [Operations -> Pcs], read' \in [Operations -> SUBSET (1..log')],
           UNCHANGED upto,
           solo' \in [Operations -> BOOLEAN], mixed' \in BOOLEAN, faults' \in Nat,
           \A q \in Operations :
               \/ pc'[q] = pc[q]
               \/ /\ pc'[q] \notin Inserting
                  /\ pc'[q] \in {"lock", "last"} => ~Rebuild(q)
    PROVE  Typed'
<1>1. TypeOK'
  <2>1. 1..log \subseteq 1..log' /\ 0..log \subseteq 0..log'
    BY DEF Typed, TypeOK
  <2> QED
    BY <2>1 DEF Typed, TypeOK, dbVars
<1>2. Handles'
  BY DEF Typed, Handles, Inserting, Rebuild, dbVars
<1> QED
  BY <1>1, <1>2 DEF Typed

LEMMA TypedStep ==
    ASSUME Typed, NEW o \in Operations, Step(o)
    PROVE  Typed'
<1>0. /\ TypeOK /\ Handles
      /\ pc' \in [Operations -> Pcs]
      /\ \A q \in Operations \ {o} :
           /\ pc'[q] = pc[q] /\ conn'[q] = conn[q] /\ todo'[q] = todo[q]
           /\ upto'[q] = upto[q] /\ read'[q] = read[q]
      /\ UNCHANGED <<log, mutex, solo, mixed, faults>>
  BY StepFacts DEF Typed
<1> USE DEF Goto
<1>1. CASE ReadLast(o)
  <2>1. CASE dir
    <3>1. OpenFile(o)
      BY <1>1, <2>1 DEF ReadLast
    <3>2. TypeOK'
      BY <1>0, <1>1, <3>1, OpenFileFacts DEF TypeOK, ReadLast
    <3>3. Handles'
      BY <1>0, <1>1, <3>1, OpenFileFacts DEF TypeOK, Handles, ReadLast, Inserting, Rebuild
    <3> QED
      BY <3>2, <3>3 DEF Typed
  <2>2. CASE ~dir
    <3>2. TypeOK'
      BY <1>0, <1>1, <2>2 DEF TypeOK, ReadLast
    <3>3. Handles'
      BY <1>0, <1>1, <2>2 DEF TypeOK, Handles, ReadLast, Inserting, Rebuild
    <3> QED
      BY <3>2, <3>3 DEF Typed
  <2> QED
    BY <2>1, <2>2 DEF Typed, TypeOK
<1>2. CASE ReadLog(o)
  <2>1. TypeOK'
    BY <1>0, <1>2 DEF TypeOK, ReadLog, dbVars
  <2>2. Handles'
    BY <1>0, <1>2 DEF TypeOK, Handles, ReadLog, dbVars, Inserting, Rebuild
  <2> QED
    BY <2>1, <2>2 DEF Typed
<1>3. CASE Check(o)
  <2>1. TypeOK'
    BY <1>0, <1>3 DEF TypeOK, Check, dbVars, ownVars
  <2>2. Handles'
    BY <1>0, <1>3 DEF TypeOK, Handles, Check, dbVars, ownVars, Inserting, Rebuild
  <2> QED
    BY <2>1, <2>2 DEF Typed
<1>4. CASE Remove(o)
  <2>1. TypeOK'
    BY <1>0, <1>4 DEF TypeOK, Remove, ownVars
  <2>2. Handles'
    BY <1>0, <1>4 DEF TypeOK, Handles, Remove, ownVars, Inserting, Rebuild
  <2> QED
    BY <2>1, <2>2 DEF Typed
<1>5. CASE MakeDir(o)
  <2>1. TypeOK'
    BY <1>0, <1>5 DEF TypeOK, MakeDir, ownVars
  <2>2. Handles'
    BY <1>0, <1>5 DEF TypeOK, Handles, MakeDir, ownVars, Inserting, Rebuild
  <2> QED
    BY <2>1, <2>2 DEF Typed
<1>6. CASE Create(o)
  <2>1. OpenFile(o)
    BY <1>6 DEF Create
  <2>2. TypeOK'
    BY <1>0, <1>6, <2>1, OpenFileFacts DEF TypeOK, Create
  <2>3. Handles'
    BY <1>0, <1>6, <2>1, OpenFileFacts DEF TypeOK, Handles, Create, Inserting, Rebuild
  <2> QED
    BY <2>2, <2>3 DEF Typed
<1>7. CASE CreateEvents(o)
  <2>1. TypeOK'
    BY <1>0, <1>7 DEF TypeOK, Handles, CreateEvents, Writable, ownVars
  <2>2. Handles'
    BY <1>0, <1>7 DEF TypeOK, Handles, CreateEvents, Writable, ownVars, Inserting, Rebuild
  <2> QED
    BY <2>1, <2>2 DEF Typed
<1>8. CASE CreateMetadata(o)
  <2>1. TypeOK'
    BY <1>0, <1>8 DEF TypeOK, Handles, CreateMetadata, Writable, ownVars
  <2>2. Handles'
    BY <1>0, <1>8 DEF TypeOK, Handles, CreateMetadata, Writable, ownVars, Inserting, Rebuild
  <2> QED
    BY <2>1, <2>2 DEF Typed
<1>9. CASE Open(o)
  <2>1. OpenFile(o)
    BY <1>9 DEF Open
  <2>2. TypeOK'
    BY <1>0, <1>9, <2>1, OpenFileFacts DEF TypeOK, Open
  <2>3. Handles'
    BY <1>0, <1>9, <2>1, OpenFileFacts DEF TypeOK, Handles, Open, Inserting, Rebuild
  <2> QED
    BY <2>2, <2>3 DEF Typed
<1>10. CASE Insert(o)
  <2>1. Min(todo[o]) \in todo[o] /\ todo[o] \subseteq 1..log
    <3>1. todo[o] \subseteq Nat /\ todo[o] # {} /\ todo[o] \subseteq 1..log
      BY <1>0, <1>10 DEF TypeOK, Insert
    <3> QED
      BY <3>1, MinIsMember
  <2>2. TypeOK'
    <3>1. todo' \in [Operations -> SUBSET (1..log)] /\ rows' \subseteq 1..log
      <4> DEFINE rest == todo[o] \ {Min(todo[o])}
      <4>1. todo \in [Operations -> SUBSET (1..log)] /\ rows \subseteq 1..log
        BY <1>0 DEF TypeOK
      <4>2. rest \in SUBSET (1..log) /\ rows \union {Min(todo[o])} \subseteq 1..log
        BY <2>1, <4>1
      <4>3. \/ UNCHANGED <<rows, todo>>
            \/ /\ todo' = [todo EXCEPT ![o] = rest]
               /\ rows' = rows \union {Min(todo[o])}
        BY <1>10 DEF Insert
      <4> HIDE DEF rest
      <4> QED
        BY <4>1, <4>2, <4>3
    <3>2. tables = "none" => rows' = {}
      BY <1>0, <1>10 DEF TypeOK, Handles, Insert, Writable
    <3> QED
      BY <1>0, <1>10, <3>1, <3>2 DEF TypeOK, Insert
  <2>3. Handles'
    BY <1>0, <1>10 DEF TypeOK, Handles, Insert, Writable, Inserting, Rebuild
  <2> QED
    BY <2>2, <2>3 DEF Typed
<1>11. CASE Record(o)
  <2>1. TypeOK'
    BY <1>0, <1>11 DEF TypeOK, Handles, Record, Writable, ownVars
  <2>2. Handles'
    BY <1>0, <1>11 DEF TypeOK, Handles, Record, Writable, ownVars, Inserting, Rebuild
  <2> QED
    BY <2>1, <2>2 DEF Typed
<1>12. CASE Select(o)
  <2>1. CASE Rebuild(o)
    <3>1. TypeOK'
      <4>1. 1..upto[o] \subseteq 1..log
        BY <1>0 DEF TypeOK
      <4>2. read' \in [Operations -> SUBSET (1..log)]
        BY <1>0, <1>12, <2>1, <4>1 DEF TypeOK, Select
      <4> QED
        BY <1>0, <1>12, <2>1, <4>2 DEF TypeOK, Select
    <3>2. Handles'
      BY <1>0, <1>12, <2>1 DEF TypeOK, Handles, Select, Inserting, Rebuild
    <3> QED
      BY <3>1, <3>2 DEF Typed
  <2>2. CASE ~Rebuild(o)
    <3>0. OpenFile(o)
      BY <1>12, <2>2 DEF Select
    <3>1. TypeOK'
      <4>1. read' \in [Operations -> SUBSET (1..log)]
        BY <1>0, <1>12, <2>2 DEF TypeOK, Select
      <4> QED
        BY <1>0, <1>12, <2>2, <3>0, <4>1, OpenFileFacts DEF TypeOK, Select
    <3>2. Handles'
      BY <1>0, <1>12, <2>2, <3>0, OpenFileFacts DEF TypeOK, Handles, Select, Inserting, Rebuild
    <3> QED
      BY <3>1, <3>2 DEF Typed
  <2> QED
    BY <2>1, <2>2
<1>13. CASE WriteSummary(o)
  <2>1. TypeOK'
    BY <1>0, <1>13 DEF TypeOK, WriteSummary, ownVars, dbVars
  <2>2. Handles'
    BY <1>0, <1>13 DEF TypeOK, Handles, WriteSummary, ownVars, dbVars, Inserting, Rebuild
  <2> QED
    BY <2>1, <2>2 DEF Typed
<1> QED
  BY <1>1, <1>2, <1>3, <1>4, <1>5, <1>6, <1>7, <1>8, <1>9, <1>10, <1>11, <1>12, <1>13
     DEF Step

\* What happens beside the steps of the work.
LEMMA TypedElse ==
    ASSUME Typed,
           \/ \E o \in Operations : Begin(o) \/ Lock(o) \/ End(o) \/ Fail(o) \/ KillAi(o)
           \/ KillDaemon \/ Status \/ UNCHANGED vars
    PROVE  Typed'
<1>0. /\ log \in Nat /\ log <= log /\ log <= log + 1 /\ log + 1 \in Nat
      /\ summary \subseteq 1..log /\ summary \subseteq 1..(log + 1)
      /\ mutex \in Operations \union {Nobody}
      /\ pc \in [Operations -> Pcs] /\ faults \in Nat /\ faults + 1 \in Nat
      /\ read \in [Operations -> SUBSET (1..log)]
      /\ read \in [Operations -> SUBSET (1..(log + 1))]
      /\ solo \in [Operations -> BOOLEAN] /\ mixed \in BOOLEAN
  <2>1. 1..log \subseteq 1..(log + 1)
    BY DEF Typed, TypeOK
  <2>2. \A s \in SUBSET (1..log) : s \in SUBSET (1..(log + 1))
    BY <2>1
  <2> QED
    BY <2>1, <2>2 DEF Typed, TypeOK
<1>1. ASSUME NEW o \in Operations, Begin(o)
      PROVE  Typed'
  <2>1. /\ pc' \in [Operations -> Pcs]
        /\ \A q \in Operations :
             \/ pc'[q] = pc[q]
             \/ /\ pc'[q] \notin Inserting
                /\ pc'[q] \in {"lock", "last"} => ~Rebuild(q)
    BY <1>0, <1>1 DEF Begin, Goto, Pcs, Inserting, Guarded, Rebuild
  <2>2. solo' \in [Operations -> BOOLEAN] /\ mixed' \in BOOLEAN
    BY <1>0, <1>1 DEF Begin, StartWork
  <2>3. /\ log' = log \/ log' = log + 1
        /\ UNCHANGED <<dbVars, conn, todo, upto, summary, mutex, read, faults>>
    BY <1>1 DEF Begin, ownVars
  <2> QED
    BY <1>0, <2>1, <2>2, <2>3, TypedKept
<1>2. ASSUME NEW o \in Operations, Lock(o)
      PROVE  Typed'
  <2>1. /\ pc' \in [Operations -> Pcs]
        /\ \A q \in Operations :
             \/ pc'[q] = pc[q]
             \/ /\ pc'[q] \notin Inserting
                /\ pc'[q] \in {"lock", "last"} => ~Rebuild(q)
    BY <1>0, <1>2 DEF Lock, Goto, Pcs, Inserting, Typed, Handles
  <2>2. solo' \in [Operations -> BOOLEAN] /\ mixed' \in BOOLEAN
    BY <1>0, <1>2 DEF Lock, StartWork
  <2>3. /\ mutex' = o
        /\ UNCHANGED <<log, dbVars, conn, todo, upto, summary, read, faults>>
    BY <1>2 DEF Lock, ownVars
  <2> QED
    BY <1>0, <2>1, <2>2, <2>3, TypedKept
<1>3. ASSUME NEW o \in Operations, End(o)
      PROVE  Typed'
  <2>1. /\ pc' \in [Operations -> Pcs]
        /\ \A q \in Operations :
             \/ pc'[q] = pc[q]
             \/ /\ pc'[q] \notin Inserting
                /\ pc'[q] \in {"lock", "last"} => ~Rebuild(q)
    BY <1>0, <1>3 DEF End, Goto, Pcs, Inserting
  <2>2. mutex' \in Operations \union {Nobody}
    BY <1>0, <1>3 DEF End
  <2>3. /\ log' = log \/ log' = log + 1
        /\ UNCHANGED <<dbVars, conn, todo, upto, summary, read, solo, mixed, faults>>
    BY <1>3 DEF End, ownVars
  <2> QED
    BY <1>0, <2>1, <2>2, <2>3, TypedKept
<1>4. ASSUME NEW o \in Operations, Fail(o) \/ KillAi(o)
      PROVE  Typed'
  <2>1. /\ pc' \in [Operations -> Pcs]
        /\ \A q \in Operations :
             \/ pc'[q] = pc[q]
             \/ /\ pc'[q] \notin Inserting
                /\ pc'[q] \in {"lock", "last"} => ~Rebuild(q)
    BY <1>0, <1>4 DEF Fail, KillAi, Goto, Pcs, Inserting
  <2>2. /\ solo' \in [Operations -> BOOLEAN] /\ faults' = faults + 1
        /\ UNCHANGED <<log, dbVars, conn, todo, upto, summary, mutex, read, mixed>>
    BY <1>0, <1>4 DEF Fail, KillAi, Fault, ownVars
  <2> QED
    BY <1>0, <2>1, <2>2, TypedKept
<1>5. CASE KillDaemon
  <2>1. /\ pc' \in [Operations -> Pcs]
        /\ \A q \in Operations :
             \/ pc'[q] = pc[q]
             \/ /\ pc'[q] \notin Inserting
                /\ pc'[q] \in {"lock", "last"} => ~Rebuild(q)
    BY <1>0, <1>5 DEF KillDaemon, Pcs, Inserting
  <2>2. /\ mutex' = Nobody /\ faults' = faults + 1
        /\ UNCHANGED <<log, dbVars, conn, todo, upto, summary, read, solo, mixed>>
    BY <1>5 DEF KillDaemon, Fault, ownVars
  <2> QED
    BY <1>0, <2>1, <2>2, TypedKept
<1>6. CASE Status
  <2>0. made' = made + 1 /\ db' = made + 1 /\ db = 0
    BY <1>6 DEF Status
  <2>1. TypeOK'
    <3>1. conn' \in [Operations -> 0..made']
      BY <1>6, <2>0 DEF Status, Typed, TypeOK, ownVars
    <3> QED
      BY <1>6, <2>0, <3>1 DEF Status, Typed, TypeOK, ownVars
  <2>2. Handles'
    BY <1>6, <2>0 DEF Status, Typed, TypeOK, Handles, ownVars, Inserting, Rebuild
  <2> QED
    BY <2>1, <2>2 DEF Typed
<1>7. CASE UNCHANGED vars
  <2>1. UNCHANGED <<log, dbVars, conn, todo, upto, summary, mutex, pc, read, solo, mixed, faults>>
    BY <1>7 DEF vars, ownVars
  <2> QED
    BY <1>0, <2>1, TypedKept
<1> QED
  BY <1>1, <1>2, <1>3, <1>4, <1>5, <1>6, <1>7

-----------------------------------------------------------------------------
\* Who is at work beside whom

LEMMA ApartStep ==
    ASSUME Typed, Apart, NEW o \in Operations, Step(o)
    PROVE  Apart'
  BY StepFacts DEF Typed, Apart, Rebuild

\* An operation begins to work on the files.
LEMMA ApartStart ==
    ASSUME Typed, Apart, NEW o \in Operations, pc[o] \in {"idle", "lock"}, StartWork(o),
           NEW at \in {"last", "read"}, pc' = [pc EXCEPT ![o] = at], read' = read
    PROVE  /\ Apart' /\ Working' = Working \union {o} /\ o \notin Working
           /\ mixed => mixed'
           /\ solo[o] /\ (solo'[o] <=> Working = {})
           /\ \A q \in Operations \ {o} : solo'[q] => solo[q] /\ q \notin Working
<1>1. /\ pc \in [Operations -> Pcs] /\ solo \in [Operations -> BOOLEAN]
      /\ pc'[o] = at /\ \A q \in Operations \ {o} : pc'[q] = pc[q]
  BY DEF Typed, TypeOK
<1>2. Working' = Working \union {o} /\ o \notin Working
  BY <1>1 DEF Working
<1>3. /\ mixed' = (mixed \/ \E q \in Working : Rebuild(q) \/ Rebuild(o))
      /\ solo'[o] = (Working = {})
      /\ \A q \in Operations \ {o} : solo'[q] = (solo[q] /\ q \notin Working)
  BY DEF StartWork
<1>4. solo[o] /\ Working \subseteq Operations
  BY DEF Apart, Working
<1>5. Apart'
  <2> SUFFICES ASSUME NEW q \in Operations
               PROVE  /\ pc'[q] \in {"idle", "lock"} => solo'[q] /\ read'[q] = {}
                      /\ q \in Working' /\ solo'[q] => Working' = {q}
                      /\ q \in Working' /\ Rebuild(q) /\ ~mixed' => Working' = {q}
    BY DEF Apart, Rebuild
  <2>1. CASE q = o
    <3>1. q \in Working' /\ solo'[q] => Working' = {q}
      BY <1>2, <1>3, <2>1
    <3>2. q \in Working' /\ Rebuild(q) /\ ~mixed' => Working' = {q}
      BY <1>2, <1>3, <2>1
    <3> QED
      BY <1>1, <2>1, <3>1, <3>2
  <2>2. CASE q # o
    <3>1. pc'[q] \in {"idle", "lock"} => solo'[q] /\ read'[q] = {}
      BY <1>1, <1>3, <2>2 DEF Apart, Working
    <3>2. q \in Working' => q \in Working
      BY <1>2, <2>2
    <3>3. q \in Working' => ~solo'[q] /\ (Rebuild(q) => mixed')
      BY <1>3, <2>2, <3>2
    <3> QED
      BY <3>1, <3>3
  <2> QED
    BY <2>1, <2>2
<1> QED
  BY <1>2, <1>3, <1>4, <1>5

\* An operation waits, ends, or is cut off.
LEMMA ApartLess ==
    ASSUME Typed, Apart, UNCHANGED <<read, mixed>>, Working' \subseteq Working,
           solo' \in [Operations -> BOOLEAN],
           \A q \in Operations :
               /\ solo'[q] => solo[q]
               /\ pc'[q] \in {"idle", "lock"} =>
                      pc[q] \in {"idle", "lock"} /\ solo'[q] = solo[q]
    PROVE  Apart'
  BY DEF Apart, Rebuild

-----------------------------------------------------------------------------
\* What a step of the work keeps

\* For Covers: what the step does not take away from the others, and its own claims.
LEMMA CoversKept ==
    ASSUME Typed, Apart, Covers, NEW o \in Operations, Step(o),
           ~mixed => 1..applied' \subseteq rows',
           ~mixed => rows \subseteq rows' \/ Rebuild(o),
           ~mixed /\ pc'[o] = "read" /\ ~Rebuild(o) => 1..upto'[o] \subseteq rows',
           ~mixed /\ pc'[o] \in Inserting => 1..upto'[o] \subseteq rows' \union todo'[o],
           ~mixed /\ pc'[o] = "remove" => 1..upto'[o] \subseteq todo'[o]
    PROVE  Covers'
<1> SUFFICES ASSUME ~mixed, NEW q \in Operations
             PROVE  /\ pc'[q] = "read" /\ ~Rebuild(q) => 1..upto'[q] \subseteq rows'
                    /\ pc'[q] \in Inserting => 1..upto'[q] \subseteq rows' \union todo'[q]
                    /\ pc'[q] = "remove" => 1..upto'[q] \subseteq todo'[q]
  <2>1. mixed' = mixed
    BY StepFacts DEF Typed
  <2> QED
    BY <2>1 DEF Covers, Rebuild
<1>1. CASE q = o
  BY <1>1
<1>2. CASE q # o
  <2>1. pc'[q] = pc[q] /\ upto'[q] = upto[q] /\ todo'[q] = todo[q] /\ o \in Working
    BY <1>2, StepFacts DEF Typed
  <2>2. CASE q \in Working
    <3>1. rows \subseteq rows'
      BY <1>2, <2>1, <2>2 DEF Apart
    <3> QED
      BY <2>1, <3>1 DEF Covers
  <2>3. CASE q \notin Working
    <3>1. pc'[q] # "read" /\ pc'[q] \notin Inserting /\ pc'[q] # "remove"
      BY <2>1, <2>3 DEF Working, Inserting
    <3> QED
      BY <3>1
  <2> QED
    BY <2>2, <2>3
<1> QED
  BY <1>1, <1>2

\* For Alone: only an operation that is alone claims anything.
LEMMA AloneKept ==
    ASSUME Typed, Apart, Alone, NEW o \in Operations, Step(o),
           solo[o] /\ ~mixed /\ Knows(o) => Knows(o)'
    PROVE  Alone'
<1>1. o \in Working /\ Working' = Working /\ UNCHANGED <<solo, mixed>>
  BY StepFacts DEF Typed
<1> SUFFICES ASSUME NEW q \in Working, solo[q], ~mixed
             PROVE  Knows(q)'
  BY <1>1, Zenon DEF Alone
<1>2. q = o
  BY <1>1 DEF Apart, Working
<1>3. Knows(o)
  BY <1>1, <1>2 DEF Alone
<1> QED
  BY <1>2, <1>3

\* The steps that prepare the tables leave rows, numbers and lists as they are.
LEMMA Prepares ==
    ASSUME Inv, NEW o \in Operations, Step(o),
           pc[o] \in Inserting \ {"remove"},
           pc'[o] \in (Inserting \ {"remove"}) \union {"error"},
           UNCHANGED <<rows, applied, summary, todo, upto, read>>
    PROVE  Covers' /\ Alone'
<1>0. Typed /\ Apart /\ Covers /\ Alone /\ mixed' = mixed
  BY StepFacts DEF Inv, Typed
<1>1. Covers'
  <2>1. ~mixed => 1..applied' \subseteq rows' /\ 1..upto[o] \subseteq rows \union todo[o]
    BY <1>0 DEF Covers
  <2>2. pc'[o] # "read" /\ pc'[o] # "remove"
    BY DEF Inserting
  <2> QED
    BY <1>0, <2>1, <2>2, CoversKept
<1>2. Knows(o) => Knows(o)'
  BY DEF Knows, Inserting, Recorded, Rebuild
<1> QED
  BY <1>0, <1>1, <1>2, AloneKept

LEMMA WorkStep ==
    ASSUME Inv, NEW o \in Operations, Step(o)
    PROVE  Covers' /\ Alone'
<1>0. /\ Typed /\ Apart /\ Covers /\ Alone /\ TypeOK
      /\ pc \in [Operations -> Pcs] /\ upto \in [Operations -> 0..log] /\ log \in Nat
      /\ todo \in [Operations -> SUBSET (1..log)] /\ read \in [Operations -> SUBSET (1..log)]
      /\ rows \subseteq 1..log /\ applied \in 0..log
  BY DEF Inv, Typed, TypeOK
<1> USE DEF Goto
<1>1. CASE ReadLast(o)
  <2>1. /\ pc[o] = "last" /\ pc'[o] = "read" /\ upto'[o] = applied
        /\ UNCHANGED <<rows, applied, summary, todo, read>>
    BY <1>0, <1>1 DEF ReadLast
  <2>2. ~mixed => 1..applied' \subseteq rows' /\ 1..upto'[o] \subseteq rows'
    BY <1>0, <2>1 DEF Covers
  <2>3. Covers'
    <3>1. pc'[o] \notin Inserting /\ pc'[o] # "remove" /\ rows \subseteq rows'
      BY <2>1 DEF Inserting
    <3> QED
      BY <1>0, <2>2, <3>1, CoversKept
  <2>4. Knows(o) => Knows(o)'
    BY <2>1 DEF Knows, Inserting, Recorded, Rebuild
  <2> QED
    BY <1>0, <2>3, <2>4, AloneKept
<1>2. CASE ReadLog(o)
  <2> DEFINE first == IF Rebuild(o) THEN 1 ELSE upto[o] + 1
  <2>1. /\ pc[o] = "read" /\ todo'[o] = first..log /\ upto'[o] = log
        /\ pc'[o] = IF Rebuild(o) THEN "remove" ELSE IF first..log = {} THEN "ok" ELSE "check"
        /\ UNCHANGED <<rows, applied, summary, read>>
    BY <1>0, <1>2 DEF ReadLog, dbVars
  <2>2. ~mixed => 1..log \subseteq rows \union first..log
    <3>1. CASE Rebuild(o)
      BY <3>1
    <3>2. CASE ~Rebuild(o)
      <4>1. ~mixed => 1..upto[o] \subseteq rows
        BY <1>0, <2>1, <3>2 DEF Covers
      <4>2. \A i \in 1..log : i \in 1..upto[o] \/ i \in (upto[o] + 1)..log
        BY <1>0
      <4> QED
        BY <3>2, <4>1, <4>2
    <3> QED
      BY <3>1, <3>2
  <2>3. Covers'
    <3>1. ~mixed => 1..applied' \subseteq rows'
      BY <1>0, <2>1 DEF Covers
    <3>2. pc'[o] # "read" /\ rows \subseteq rows' /\ (pc'[o] = "remove" => Rebuild(o))
      BY <2>1
    <3>3. pc'[o] = "remove" => 1..upto'[o] \subseteq todo'[o]
      BY <2>1, <3>2
    <3> QED
      BY <1>0, <2>1, <2>2, <3>1, <3>2, <3>3, CoversKept
  <2>4. ~mixed /\ Knows(o) => Knows(o)'
    <3>1. CASE pc'[o] = "ok"
      <4>1. ~Rebuild(o) /\ first..log = {} /\ first = upto[o] + 1
        BY <2>1, <3>1
      <4>2. upto[o] = log /\ todo'[o] = {}
        <5>1. (upto[o] + 1)..log = {} /\ upto[o] \in 0..log
          BY <1>0, <4>1
        <5>2. ASSUME upto[o] < log PROVE FALSE
          BY <1>0, <5>1, <5>2
        <5> QED
          BY <1>0, <2>1, <4>1, <5>1, <5>2
      <4>3. ~mixed /\ Knows(o) => applied = log /\ rows = 1..log
        BY <1>0, <2>1, <4>1, <4>2 DEF Knows, Covers
      <4>4. Knows(o) => read[o] = {}
        BY <2>1 DEF Knows
      <4> QED
        BY <2>1, <3>1, <4>2, <4>3, <4>4 DEF Knows, Inserting, Recorded, Rebuild
    <3>2. CASE pc'[o] \in {"remove", "check"}
      <4>1. Knows(o) => read[o] = {}
        BY <2>1 DEF Knows
      <4> QED
        BY <1>0, <2>1, <3>2, <4>1 DEF Knows, Inserting, Recorded, Rebuild
    <3> QED
      BY <2>1, <3>1, <3>2
  <2> QED
    BY <1>0, <2>3, <2>4, AloneKept
<1>3. CASE Check(o) \/ MakeDir(o) \/ Create(o) \/ CreateEvents(o) \/ CreateMetadata(o) \/ Open(o)
  <2>1. /\ pc[o] \in Inserting \ {"remove"}
        /\ pc'[o] \in (Inserting \ {"remove"}) \union {"error"}
        /\ UNCHANGED <<rows, applied, summary, todo, upto, read>>
    BY <1>0, <1>3 DEF Check, MakeDir, Create, CreateEvents, CreateMetadata, Open,
                      Inserting, dbVars, ownVars
  <2> QED
    BY <2>1, Prepares
<1>4. CASE Remove(o)
  <2>1. /\ pc[o] = "remove" /\ pc'[o] = "mkdir" /\ rows' = {} /\ applied' = 0
        /\ UNCHANGED <<todo, upto, read, summary>>
    BY <1>0, <1>4 DEF Remove, ownVars
  <2>2. Rebuild(o)
    BY <2>1 DEF Inv, Handles
  <2>3. ~mixed => 1..upto[o] \subseteq todo[o]
    BY <1>0, <2>1 DEF Covers
  <2>4. Covers'
    <3>1. 1..applied' \subseteq rows' /\ pc'[o] # "read" /\ pc'[o] # "remove"
      BY <2>1
    <3> QED
      BY <1>0, <2>1, <2>2, <2>3, <3>1, CoversKept
  <2>5. Knows(o) => Knows(o)'
    BY <2>1, <2>2 DEF Knows, Inserting, Recorded, Rebuild
  <2> QED
    BY <1>0, <2>4, <2>5, AloneKept
<1>5. CASE Insert(o)
  <2>1. Min(todo[o]) \in todo[o] /\ todo[o] \subseteq 1..upto[o]
    <3>1. todo[o] \subseteq Nat /\ todo[o] # {}
      BY <1>0, <1>5 DEF Insert
    <3>2. todo[o] \subseteq 1..upto[o]
      BY <1>5 DEF Inv, Handles, Insert, Inserting
    <3> QED
      BY <3>1, <3>2, MinIsMember
  <2>2. /\ pc[o] = "insert" /\ UNCHANGED <<applied, summary, upto, read>>
        /\ \/ /\ rows' = rows \union {Min(todo[o])} /\ todo'[o] = todo[o] \ {Min(todo[o])}
              /\ pc'[o] = "insert"
           \/ pc'[o] = "error" /\ UNCHANGED <<rows, todo>>
    BY <1>0, <1>5 DEF Insert
  <2>3. ~mixed => 1..applied \subseteq rows /\ 1..upto[o] \subseteq rows \union todo[o]
    BY <1>0, <2>2 DEF Covers, Inserting
  <2>4. Covers'
    <3>1. /\ \/ ~mixed => 1..upto'[o] \subseteq rows' \union todo'[o]
             \/ pc'[o] = "error"
          /\ rows \subseteq rows' /\ pc'[o] # "read" /\ pc'[o] # "remove"
      BY <2>2, <2>3
    <3>2. "error" \notin Inserting /\ (~mixed => 1..applied' \subseteq rows')
      BY <2>2, <2>3 DEF Inserting
    <3> QED
      BY <1>0, <3>1, <3>2, CoversKept
  <2>5. Knows(o) => Knows(o)'
    <3>1. CASE pc'[o] = "error"
      BY <2>2, <3>1 DEF Knows, Inserting, Recorded, Rebuild
    <3>2. CASE pc'[o] = "insert"
      <4>1. Knows(o) => rows' \subseteq 1..upto[o] /\ read[o] = {}
        BY <2>1, <2>2 DEF Knows, Inserting
      <4> QED
        BY <2>2, <3>2, <4>1 DEF Knows, Inserting, Recorded, Rebuild
    <3> QED
      BY <2>2, <3>1, <3>2
  <2> QED
    BY <1>0, <2>4, <2>5, AloneKept
<1>6. CASE Record(o)
  <2>1. /\ pc[o] = "insert" /\ todo[o] = {} /\ UNCHANGED <<rows, summary, todo, upto, read>>
        /\ \/ applied' = upto[o] /\ pc'[o] = "select"
           \/ applied' = applied /\ pc'[o] = "error"
    BY <1>0, <1>6 DEF Record, ownVars
  <2>2. ~mixed => 1..applied \subseteq rows /\ 1..upto[o] \subseteq rows
    BY <1>0, <2>1 DEF Covers, Inserting
  <2>3. Covers'
    <3>1. ~mixed => 1..applied' \subseteq rows'
      BY <2>1, <2>2
    <3>2. pc'[o] \notin Inserting /\ pc'[o] # "read" /\ pc'[o] # "remove" /\ rows \subseteq rows'
      BY <2>1 DEF Inserting
    <3> QED
      BY <1>0, <3>1, <3>2, CoversKept
  <2>4. ~mixed /\ Knows(o) => Knows(o)'
    <3>1. ~mixed /\ Knows(o) => rows = 1..upto[o] /\ read[o] = {}
      BY <2>1, <2>2 DEF Knows, Inserting
    <3> QED
      BY <2>1, <3>1 DEF Knows, Inserting, Recorded, Rebuild
  <2> QED
    BY <1>0, <2>3, <2>4, AloneKept
<1>7. CASE Select(o)
  <2>1. /\ pc[o] = "select" /\ UNCHANGED <<rows, applied, summary, todo, upto>>
        /\ \/ pc'[o] = "summary" /\ read'[o] \in {rows, 1..upto[o]}
           \/ pc'[o] = "error"
    BY <1>0, <1>7 DEF Select
  <2>2. Covers'
    <3>1. ~mixed => 1..applied' \subseteq rows'
      BY <1>0, <2>1 DEF Covers
    <3>2. pc'[o] \notin Inserting /\ pc'[o] # "read" /\ pc'[o] # "remove" /\ rows \subseteq rows'
      BY <2>1 DEF Inserting
    <3> QED
      BY <1>0, <3>1, <3>2, CoversKept
  <2>3. Knows(o) => Knows(o)'
    <3>1. Knows(o) => applied = upto[o] /\ rows = 1..upto[o] /\ todo[o] = {}
      BY <2>1 DEF Knows, Recorded
    <3> QED
      BY <2>1, <3>1 DEF Knows, Inserting, Recorded, Rebuild
  <2> QED
    BY <1>0, <2>2, <2>3, AloneKept
<1>8. CASE WriteSummary(o)
  <2>1. /\ pc[o] = "summary" /\ pc'[o] = "ok" /\ summary' = read[o]
        /\ UNCHANGED <<rows, applied, todo, upto, read>>
    BY <1>0, <1>8 DEF WriteSummary, dbVars, ownVars
  <2>2. Covers'
    <3>1. ~mixed => 1..applied' \subseteq rows'
      BY <1>0, <2>1 DEF Covers
    <3>2. pc'[o] \notin Inserting /\ pc'[o] # "read" /\ pc'[o] # "remove" /\ rows \subseteq rows'
      BY <2>1 DEF Inserting
    <3> QED
      BY <1>0, <3>1, <3>2, CoversKept
  <2>3. Knows(o) => Knows(o)'
    BY <2>1 DEF Knows, Inserting, Recorded, Rebuild
  <2> QED
    BY <1>0, <2>2, <2>3, AloneKept
<1> QED
  BY <1>1, <1>2, <1>3, <1>4, <1>5, <1>6, <1>7, <1>8 DEF Step

-----------------------------------------------------------------------------
\* While the operations come one after the other, and nothing fails

Busy == Inserting \union {"select", "summary"}

\* An orderly step concerns only the operation that takes it.
LEMMA InOrderKept ==
    ASSUME Typed, Apart, InOrder, NEW o \in Operations, Step(o),
           Orderly /\ Finds(o) /\ Follows /\ Working = {o} => Finds(o)' /\ Follows'
    PROVE  InOrder'
<1>1. /\ o \in Working /\ Working' = Working /\ UNCHANGED <<solo, mixed, faults>>
  BY StepFacts DEF Typed
<1> SUFFICES ASSUME Orderly
             PROVE  (\A q \in Working : Finds(q)') /\ Follows'
  <2>1. Orderly' <=> Orderly
    BY <1>1 DEF Orderly
  <2>2. Working' # {}
    BY <1>1
  <2>3. (\A q \in Working : Finds(q)') => \A q \in Working' : Finds(q)'
    BY <1>1
  <2> QED
    BY <2>1, <2>2, <2>3, Zenon DEF InOrder
<1>2. Working = {o} /\ Finds(o) /\ Follows
  BY <1>1 DEF InOrder, Apart, Orderly
<1> QED
  BY <1>2

\* A step of an operation that is not done.
LEMMA FollowsKept ==
    ASSUME Typed, NEW o \in Operations, Step(o), Follows,
           pc[o] \in Busy, pc'[o] \in Busy, upto'[o] = upto[o]
    PROVE  Follows'
<1>1. /\ log' = log
      /\ \A q \in Operations \ {o} : pc'[q] = pc[q] /\ upto'[q] = upto[q]
  BY StepFacts DEF Typed
<1>2. CASE \E q \in Operations : pc[q] \in {"lock", "last", "read"}
  <2>1. PICK q \in Operations : pc[q] \in {"lock", "last", "read"}
    BY <1>2
  <2>2. pc'[q] \in {"lock", "last", "read"}
    BY <1>1, <2>1 DEF Busy, Inserting
  <2> QED
    BY <2>2 DEF Follows
<1>3. CASE \E q \in Operations : pc[q] \in Busy /\ upto[q] = log
  <2>1. \E q \in Operations : pc'[q] \in Busy /\ upto'[q] = log'
    BY <1>1, <1>3
  <2> QED
    BY <2>1 DEF Follows, Busy
<1> QED
  BY <1>2, <1>3 DEF Follows, Busy

\* A step by which an operation gets done: the index has the log, unless somebody
\* has yet to begin.
LEMMA FollowsDone ==
    ASSUME Typed, NEW o \in Operations, Step(o), Follows, Working = {o},
           pc[o] = "read" \/ (pc[o] \in Busy /\ (upto[o] = log => applied' = log)),
           pc[o] = "read" => applied' = log,
           pc'[o] = "ok"
    PROVE  Follows'
<1>1. /\ log' = log
      /\ \A q \in Operations \ {o} : pc'[q] = pc[q] /\ upto'[q] = upto[q]
  BY StepFacts DEF Typed
<1>2. \A q \in Operations \ {o} : pc[q] \in {"idle", "lock", "done"}
  BY DEF Working
<1>3. CASE \E q \in Operations \ {o} : pc[q] = "lock"
  BY <1>1, <1>3 DEF Follows
<1>4. CASE \A q \in Operations \ {o} : pc[q] # "lock"
  <2>1. applied' = log'
    BY <1>1, <1>2, <1>4 DEF Follows, Busy, Inserting
  <2>2. \A q \in Operations : pc'[q] \notin Busy
    BY <1>1, <1>2 DEF Busy, Inserting
  <2> QED
    BY <2>1, <2>2 DEF Follows, Busy
<1> QED
  BY <1>3, <1>4

LEMMA InOrderStep ==
    ASSUME Inv, NEW o \in Operations, Step(o)
    PROVE  InOrder'
<1>0. /\ Typed /\ Apart /\ InOrder /\ Alone /\ Covers /\ TypeOK
      /\ pc \in [Operations -> Pcs] /\ upto \in [Operations -> 0..log] /\ log \in Nat
      /\ conn \in [Operations -> 0..made] /\ made \in Nat /\ db \in 0..made
      /\ todo \in [Operations -> SUBSET (1..log)]
      /\ db = 0 => tables = "none"
  BY DEF Inv, Typed, TypeOK
<1> SUFFICES ASSUME Orderly, Finds(o), Follows, Working = {o}
             PROVE  Finds(o)' /\ Follows'
  BY <1>0, InOrderKept
<1>01. Knows(o) /\ ~mixed
  <2>1. solo[o] /\ ~mixed /\ o \in Working
    BY DEF Orderly
  <2> QED
    BY <1>0, <2>1 DEF Alone
<1> USE DEF Goto
<1>1. CASE ReadLast(o)
  <2>1. pc[o] = "last" /\ pc'[o] = "read" /\ UNCHANGED <<dir, tables, rows, applied, summary>>
    BY <1>0, <1>1 DEF ReadLast
  <2>2. Whole
    BY <2>1 DEF Finds
  <2>3. UNCHANGED db
    BY <1>1, <2>2 DEF ReadLast, Whole, OpenFile
  <2>4. Whole'
    BY <2>1, <2>2, <2>3 DEF Whole
  <2>5. Finds(o)'
    BY <2>1, <2>4 DEF Finds, Inserting
  <2> QED
    BY <2>1, <2>5 DEF Follows
<1>2. CASE ReadLog(o)
  <2>1. /\ pc[o] = "read" /\ pc'[o] \in {"remove", "check", "ok"} /\ upto'[o] = log /\ log' = log
        /\ pc'[o] = "check" => ~Rebuild(o)
        /\ pc'[o] = "ok" => ~Rebuild(o) /\ (upto[o] + 1)..log = {}
        /\ UNCHANGED <<dir, db, tables, rows, applied, summary>>
    BY <1>0, <1>2 DEF ReadLog, dbVars
  <2>2. Whole'
    BY <2>1 DEF Finds, Whole
  <2>3. Finds(o)'
    BY <2>1, <2>2 DEF Finds, Inserting, Rebuild
  <2>4. CASE pc'[o] = "ok"
    <3>1. upto[o] = log
      <4>1. (upto[o] + 1)..log = {} /\ upto[o] \in 0..log
        BY <1>0, <2>1, <2>4
      <4>2. ASSUME upto[o] < log PROVE FALSE
        BY <1>0, <4>1, <4>2
      <4> QED
        BY <1>0, <4>1, <4>2
    <3>2. applied' = log
      BY <1>01, <2>1, <2>4, <3>1 DEF Knows
    <3> QED
      BY <1>0, <2>1, <2>3, <2>4, <3>2, FollowsDone
  <2>5. CASE pc'[o] # "ok"
    <3>1. pc'[o] \in Inserting /\ upto'[o] = log'
      BY <2>1, <2>5 DEF Inserting
    <3> QED
      BY <2>3, <3>1 DEF Follows
  <2> QED
    BY <2>4, <2>5
<1>3. CASE Check(o)
  <2>1. /\ pc[o] = "check" /\ pc'[o] = (IF db = 0 THEN "mkdir" ELSE "open")
        /\ UNCHANGED <<dir, db, tables, rows, applied, summary, todo, upto>>
    BY <1>0, <1>3 DEF Check, dbVars, ownVars
  <2>2. Whole /\ ~Rebuild(o)
    BY <2>1 DEF Finds, Inv, Handles
  <2>3. Finds(o)'
    BY <1>0, <2>1, <2>2 DEF Finds, Whole, Inserting, Rebuild
  <2> QED
    BY <1>0, <2>1, <2>3, FollowsKept DEF Busy, Inserting
<1>4. CASE Remove(o)
  <2>1. /\ pc[o] = "remove" /\ pc'[o] = "mkdir" /\ tables' = "none" /\ rows' = {}
        /\ UNCHANGED <<todo, upto>>
    BY <1>0, <1>4 DEF Remove, ownVars
  <2>2. Finds(o)'
    BY <2>1 DEF Finds, Inserting, Rebuild
  <2> QED
    BY <1>0, <2>1, <2>2, FollowsKept DEF Busy, Inserting
<1>5. CASE MakeDir(o)
  <2>1. /\ pc[o] = "mkdir" /\ pc'[o] = "create" /\ UNCHANGED <<tables, rows, todo, upto>>
    BY <1>0, <1>5 DEF MakeDir, ownVars
  <2>2. Finds(o)'
    BY <2>1 DEF Finds, Inserting, Rebuild
  <2> QED
    BY <1>0, <2>1, <2>2, FollowsKept DEF Busy, Inserting
<1>6. CASE Create(o)
  <2>1. /\ pc[o] = "create" /\ pc'[o] = "events" /\ UNCHANGED <<tables, rows, todo, upto>>
        /\ OpenFile(o)
    BY <1>0, <1>6 DEF Create
  <2>2. conn'[o] = db'
    BY <1>0, <2>1, OpenFileFacts
  <2>3. Finds(o)'
    BY <2>1, <2>2 DEF Finds, Inserting, Rebuild
  <2> QED
    BY <1>0, <2>1, <2>3, FollowsKept DEF Busy, Inserting
<1>7. CASE CreateEvents(o)
  <2>1. pc[o] = "events" /\ UNCHANGED <<db, rows, todo, upto, conn>>
    BY <1>7 DEF CreateEvents, ownVars
  <2>2. tables = "none" /\ conn[o] = db
    BY <2>1 DEF Finds
  <2>3. tables' = "events" /\ pc'[o] = "metadata"
    BY <1>0, <1>7, <2>2 DEF CreateEvents, Writable
  <2>4. Finds(o)'
    BY <2>1, <2>2, <2>3 DEF Finds, Inserting, Rebuild
  <2> QED
    BY <1>0, <2>1, <2>3, <2>4, FollowsKept DEF Busy, Inserting
<1>8. CASE CreateMetadata(o)
  <2>1. pc[o] = "metadata" /\ UNCHANGED <<db, rows, todo, upto, conn>>
    BY <1>8 DEF CreateMetadata, ownVars
  <2>2. tables = "events" /\ conn[o] = db /\ db # 0
    BY <1>0, <2>1 DEF Finds
  <2>3. tables' = "both" /\ pc'[o] = IF Rebuild(o) THEN "insert" ELSE "open"
    BY <1>0, <1>8, <2>2 DEF CreateMetadata, Writable
  <2>4. Finds(o)'
    BY <2>1, <2>2, <2>3 DEF Finds, Inserting, Rebuild
  <2> QED
    BY <1>0, <2>1, <2>3, <2>4, FollowsKept DEF Busy, Inserting
<1>9. CASE Open(o)
  <2>1. pc[o] = "open" /\ UNCHANGED <<tables, rows, todo, upto>> /\ OpenFile(o)
    BY <1>9 DEF Open
  <2>2. tables = "both" /\ db # 0
    BY <2>1 DEF Finds
  <2>3. pc'[o] = "insert" /\ conn'[o] = db' /\ db' = db
    BY <1>0, <1>9, <2>1, <2>2, OpenFileFacts DEF Open
  <2>4. Finds(o)'
    BY <2>1, <2>2, <2>3 DEF Finds, Inserting, Rebuild
  <2> QED
    BY <1>0, <2>1, <2>3, <2>4, FollowsKept DEF Busy, Inserting
<1>10. CASE Insert(o)
  <2>1. Min(todo[o]) \in todo[o]
    <3>1. todo[o] \subseteq Nat /\ todo[o] # {}
      BY <1>0, <1>10 DEF Insert
    <3> QED
      BY <3>1, MinIsMember
  <2>2. pc[o] = "insert" /\ UNCHANGED <<db, tables, upto, conn>>
    BY <1>10 DEF Insert
  <2>3. /\ tables = "both" /\ db # 0 /\ conn[o] = db
        /\ Rebuild(o) => rows \intersect todo[o] = {}
    BY <2>2 DEF Finds, Inserting
  <2>4. /\ rows' = rows \union {Min(todo[o])} /\ todo'[o] = todo[o] \ {Min(todo[o])}
        /\ pc'[o] = "insert"
    <3>1. Writable(o) /\ ~(Rebuild(o) /\ Min(todo[o]) \in rows)
      BY <2>1, <2>3 DEF Writable
    <3> QED
      BY <1>0, <1>10, <2>2, <3>1 DEF Insert
  <2>5. Rebuild(o) => rows' \intersect todo'[o] = {}
    BY <2>3, <2>4
  <2>6. Finds(o)'
    BY <2>2, <2>3, <2>4, <2>5 DEF Finds, Inserting, Rebuild
  <2> QED
    BY <1>0, <2>2, <2>4, <2>6, FollowsKept DEF Busy, Inserting
<1>11. CASE Record(o)
  <2>1. pc[o] = "insert" /\ UNCHANGED <<db, tables, upto>>
    BY <1>11 DEF Record, ownVars
  <2>2. tables = "both" /\ db # 0 /\ conn[o] = db
    BY <2>1 DEF Finds
  <2>3. pc'[o] = "select"
    BY <1>0, <1>11, <2>2 DEF Record, Writable
  <2>4. Finds(o)'
    BY <2>1, <2>2, <2>3 DEF Finds, Inserting
  <2> QED
    BY <1>0, <2>1, <2>3, <2>4, FollowsKept DEF Busy, Inserting
<1>12. CASE Select(o)
  <2>1. pc[o] = "select" /\ UNCHANGED <<tables, upto>>
    BY <1>12 DEF Select
  <2>2. tables = "both" /\ db # 0
    BY <2>1 DEF Finds
  <2>3. pc'[o] = "summary" /\ db' = db
    BY <1>0, <1>12, <2>2 DEF Select, OpenFile
  <2>4. Finds(o)'
    BY <2>1, <2>2, <2>3 DEF Finds, Inserting
  <2> QED
    BY <1>0, <2>1, <2>3, <2>4, FollowsKept DEF Busy, Inserting
<1>13. CASE WriteSummary(o)
  <2>1. /\ pc[o] = "summary" /\ pc'[o] = "ok" /\ summary' = read[o]
        /\ UNCHANGED <<dir, db, tables, rows, applied>>
    BY <1>0, <1>13 DEF WriteSummary, dbVars, ownVars
  <2>2. tables = "both" /\ db # 0
    BY <2>1 DEF Finds
  <2>3. read[o] = rows /\ applied = upto[o] /\ rows = 1..upto[o]
    BY <1>01, <2>1 DEF Knows, Recorded
  <2>4. Whole'
    BY <2>1, <2>2, <2>3 DEF Whole
  <2>5. Finds(o)'
    BY <2>1, <2>4 DEF Finds, Inserting
  <2>6. upto[o] = log => applied' = log
    BY <2>1, <2>3
  <2> QED
    BY <1>0, <2>1, <2>5, <2>6, FollowsDone DEF Busy
<1> QED
  BY <1>1, <1>2, <1>3, <1>4, <1>5, <1>6, <1>7, <1>8, <1>9, <1>10, <1>11, <1>12, <1>13
     DEF Step

-----------------------------------------------------------------------------
\* What happens beside the steps of the work

\* An operation begins to work on the files.
LEMMA StartKeeps ==
    ASSUME Inv, NEW o \in Operations, pc[o] \in {"idle", "lock"}, StartWork(o),
           NEW at \in {"last", "read"}, pc' = [pc EXCEPT ![o] = at],
           at = "read" => Rebuild(o),
           log' \in Nat, UNCHANGED <<dbVars, summary, ownVars, faults>>
    PROVE  Apart' /\ Covers' /\ Alone' /\ InOrder'
<1>0. /\ Typed /\ Apart /\ Covers /\ Alone /\ InOrder
      /\ pc \in [Operations -> Pcs] /\ Working \subseteq Operations
  BY DEF Inv, Typed, TypeOK, Working
<1>1. /\ Apart' /\ Working' = Working \union {o} /\ o \notin Working
      /\ mixed => mixed'
      /\ solo[o] /\ (solo'[o] <=> Working = {})
      /\ \A q \in Operations \ {o} : solo'[q] => solo[q] /\ q \notin Working
  BY <1>0, ApartStart DEF ownVars
<1>2. /\ pc'[o] = at /\ \A q \in Operations \ {o} : pc'[q] = pc[q]
      /\ UNCHANGED <<dir, db, made, tables, rows, applied, summary, conn, todo, upto, read,
                     faults>>
  BY <1>0 DEF dbVars, ownVars
<1>3. Covers'
  <2> SUFFICES ASSUME ~mixed', NEW q \in Operations
               PROVE  /\ 1..applied' \subseteq rows'
                      /\ pc'[q] = "read" /\ ~Rebuild(q) => 1..upto'[q] \subseteq rows'
                      /\ pc'[q] \in Inserting => 1..upto'[q] \subseteq rows' \union todo'[q]
                      /\ pc'[q] = "remove" => 1..upto'[q] \subseteq todo'[q]
    BY DEF Covers, Rebuild
  <2>1. CASE q = o
    BY <1>0, <1>1, <1>2, <2>1 DEF Covers, Inserting
  <2>2. CASE q # o
    BY <1>0, <1>1, <1>2, <2>2 DEF Covers
  <2> QED
    BY <2>1, <2>2
<1>4. Alone'
  <2> SUFFICES ASSUME NEW q \in Working', solo'[q], ~mixed'
               PROVE  Knows(q)'
    BY Zenon DEF Alone
  <2>1. q = o
    BY <1>0, <1>1
  <2>2. read[o] = {}
    BY <1>0 DEF Apart
  <2> QED
    BY <1>2, <2>1, <2>2 DEF Knows, Inserting, Recorded, Rebuild
<1>5. InOrder'
  <2> SUFFICES ASSUME Orderly'
               PROVE  (\A q \in Working' : Finds(q)') /\ Follows'
    <3>1. Working' # {}
      BY <1>1
    <3> QED
      BY <3>1, Zenon DEF InOrder
  <2>1. solo'[o] /\ Working = {} /\ Working' = {o}
    BY <1>1 DEF Orderly
  <2>2. Orderly
    BY <1>1, <1>2 DEF Orderly
  <2>3. Whole'
    BY <1>0, <1>2, <2>1, <2>2 DEF InOrder, Whole
  <2>4. Finds(o)'
    BY <1>2, <2>3 DEF Finds, Inserting
  <2>5. Follows'
    BY <1>2 DEF Follows
  <2> QED
    BY <2>1, <2>4, <2>5
<1> QED
  BY <1>1, <1>3, <1>4, <1>5

\* Somebody waits, ends, fails or is cut off: the files stay as they are, and nobody
\* begins to work on them.
LEMMA LessKeeps ==
    ASSUME Inv, UNCHANGED <<dir, tables, rows, applied, summary, todo, upto, read, mixed>>,
           pc' \in [Operations -> Pcs], solo' \in [Operations -> BOOLEAN],
           \A q \in Operations :
               /\ solo'[q] => solo[q]
               /\ \/ pc'[q] = pc[q]
                  \/ pc'[q] = "error" /\ q \in Working
                  \/ pc'[q] = "done"
                  \/ pc'[q] = "lock" /\ pc[q] = "idle"
               /\ pc'[q] \in {"idle", "lock"} => solo'[q] = solo[q]
    PROVE  Apart' /\ Covers' /\ Alone'
<1>0. Typed /\ Apart /\ Covers /\ Alone /\ pc \in [Operations -> Pcs]
  BY DEF Inv, Typed, TypeOK
<1>1. Working' \subseteq Working
  BY <1>0 DEF Working
<1>2. Apart'
  <2>1. \A q \in Operations :
            pc'[q] \in {"idle", "lock"} => pc[q] \in {"idle", "lock"} /\ solo'[q] = solo[q]
    OBVIOUS
  <2> QED
    BY <1>0, <1>1, <2>1, ApartLess
<1>3. Covers'
  <2>1. \A q \in Operations : pc'[q] \in {"read"} \union Inserting => pc'[q] = pc[q]
    BY DEF Inserting
  <2> QED
    BY <1>0, <2>1 DEF Covers, Rebuild, Inserting
<1>4. Alone'
  <2> SUFFICES ASSUME NEW q \in Working', solo'[q], ~mixed'
               PROVE  Knows(q)'
    BY Zenon DEF Alone
  <2>1. q \in Working /\ q \in Operations
    BY <1>1 DEF Working
  <2>2. Knows(q)
    BY <1>0, <2>1 DEF Alone
  <2>3. pc'[q] = pc[q] \/ pc'[q] = "error"
    BY <2>1 DEF Working
  <2> QED
    BY <2>2, <2>3 DEF Knows, Inserting, Recorded, Rebuild
<1> QED
  BY <1>2, <1>3, <1>4

LEMMA ElseKeeps ==
    ASSUME Inv,
           \/ \E o \in Operations : Begin(o) \/ Lock(o) \/ End(o) \/ Fail(o) \/ KillAi(o)
           \/ KillDaemon \/ Status \/ UNCHANGED vars
    PROVE  Apart' /\ Covers' /\ Alone' /\ InOrder'
<1>0. /\ Typed /\ Apart /\ InOrder /\ TypeOK /\ Handles
      /\ pc \in [Operations -> Pcs] /\ solo \in [Operations -> BOOLEAN]
      /\ log \in Nat /\ faults \in Nat /\ Working \subseteq Operations
  BY DEF Inv, Typed, TypeOK, Working
<1>1. ASSUME NEW o \in Operations, Begin(o)
      PROVE  Apart' /\ Covers' /\ Alone' /\ InOrder'
  <2>0. /\ pc[o] = "idle" /\ UNCHANGED <<dbVars, summary, mutex, ownVars, faults>>
        /\ log' \in Nat
    BY <1>0, <1>1 DEF Begin
  <2>1. CASE Guarded(o) /\ pc' = [pc EXCEPT ![o] = "lock"] /\ UNCHANGED <<solo, mixed>>
    <3>1. /\ pc' \in [Operations -> Pcs] /\ pc'[o] = "lock"
          /\ \A q \in Operations \ {o} : pc'[q] = pc[q]
          /\ UNCHANGED <<dir, db, tables, rows, applied, summary, conn, todo, upto, read>>
      BY <1>0, <2>0, <2>1 DEF Pcs, dbVars, ownVars
    <3>2. Apart' /\ Covers' /\ Alone'
      BY <1>0, <2>0, <2>1, <3>1, LessKeeps
    <3>3. Working' = Working
      BY <1>0, <2>0, <3>1 DEF Working
    <3>4. InOrder'
      <4> SUFFICES ASSUME Orderly
                   PROVE  (Working = {} => Whole') /\ (\A q \in Working : Finds(q)') /\ Follows'
        BY <2>0, <2>1, <3>3, Zenon DEF InOrder, Orderly
      <4>1. Working = {} => Whole'
        BY <1>0, <3>1 DEF InOrder, Whole
      <4>2. ASSUME NEW q \in Working
            PROVE  Finds(q)'
        <5>1. Finds(q) /\ q # o /\ pc'[q] = pc[q]
          BY <1>0, <2>0, <3>1 DEF InOrder, Working
        <5> QED
          BY <3>1, <5>1 DEF Finds, Whole, Rebuild, Inserting
      <4>3. Follows'
        BY <3>1 DEF Follows
      <4> QED
        BY <4>1, <4>2, <4>3
    <3> QED
      BY <3>2, <3>4
  <2>2. CASE \/ ~Rebuild(o) /\ pc' = [pc EXCEPT ![o] = "last"] /\ StartWork(o)
             \/ Rebuild(o) /\ pc' = [pc EXCEPT ![o] = "read"] /\ StartWork(o)
    BY <2>0, <2>2, StartKeeps
  <2> QED
    BY <1>1, <2>1, <2>2 DEF Begin, Goto, Rebuild
<1>2. ASSUME NEW o \in Operations, Lock(o)
      PROVE  Apart' /\ Covers' /\ Alone' /\ InOrder'
  <2>1. /\ pc[o] = "lock" /\ pc' = [pc EXCEPT ![o] = "last"] /\ StartWork(o)
        /\ UNCHANGED <<log, dbVars, summary, ownVars, faults>>
    BY <1>2 DEF Lock, Goto
  <2> QED
    BY <1>0, <2>1, StartKeeps
<1>3. ASSUME NEW o \in Operations, End(o)
      PROVE  Apart' /\ Covers' /\ Alone' /\ InOrder'
  <2>1. /\ pc' \in [Operations -> Pcs] /\ pc[o] \in {"ok", "error"} /\ pc'[o] = "done"
        /\ \A q \in Operations \ {o} : pc'[q] = pc[q]
        /\ UNCHANGED <<dir, db, tables, rows, applied, summary, conn, todo, upto, read,
                       solo, mixed, faults>>
        /\ pc[o] = "ok" => log' = log
    BY <1>0, <1>3 DEF End, Goto, Pcs, dbVars, ownVars
  <2>2. Apart' /\ Covers' /\ Alone'
    BY <1>0, <2>1, LessKeeps
  <2>3. InOrder'
    <3> SUFFICES ASSUME Orderly
                 PROVE  Whole' /\ Working' = {} /\ Follows'
      BY <2>1, Zenon DEF InOrder, Orderly
    <3>1. o \in Working /\ Working = {o} /\ Finds(o) /\ Follows
      BY <1>0, <2>1 DEF Working, Apart, InOrder, Orderly
    <3>2. Working' = {}
      BY <2>1, <3>1 DEF Working
    <3>3. pc[o] = "ok" /\ Whole' /\ log' = log
      BY <2>1, <3>1 DEF Finds, Whole
    <3>4. Follows'
      BY <2>1, <3>1, <3>3 DEF Follows, Inserting
    <3> QED
      BY <3>2, <3>3, <3>4
  <2> QED
    BY <2>2, <2>3
<1>4. ASSUME NEW o \in Operations, Fail(o) \/ KillAi(o)
      PROVE  Apart' /\ Covers' /\ Alone' /\ InOrder'
  <2>1. /\ pc' \in [Operations -> Pcs] /\ o \in Working /\ pc'[o] \in {"error", "done"}
        /\ \A q \in Operations \ {o} : pc'[q] = pc[q] /\ solo'[q] = solo[q]
        /\ solo'[o] => solo[o]
        /\ solo' \in [Operations -> BOOLEAN]
        /\ UNCHANGED <<dir, tables, rows, applied, summary, todo, upto, read, mixed>>
        /\ faults' = faults + 1
    BY <1>0, <1>4 DEF Fail, KillAi, Fault, Goto, Pcs, dbVars, ownVars
  <2>2. Apart' /\ Covers' /\ Alone'
    BY <2>1, LessKeeps
  <2>3. InOrder'
    BY <1>0, <2>1 DEF InOrder, Orderly
  <2> QED
    BY <2>2, <2>3
<1>5. CASE KillDaemon
  <2>1. /\ pc' \in [Operations -> Pcs]
        /\ \A q \in Operations : pc'[q] = pc[q] \/ pc'[q] = "done"
        /\ UNCHANGED <<dir, tables, rows, applied, summary, todo, upto, read, mixed, solo>>
        /\ faults' = faults + 1
    BY <1>0, <1>5 DEF KillDaemon, Fault, Pcs, dbVars, ownVars
  <2>2. Apart' /\ Covers' /\ Alone'
    BY <1>0, <2>1, LessKeeps
  <2>3. InOrder'
    BY <1>0, <2>1 DEF InOrder, Orderly
  <2> QED
    BY <2>2, <2>3
<1>6. CASE Status
  <2>1. /\ dir /\ db = 0 /\ db' = made + 1
        /\ UNCHANGED <<log, dir, tables, rows, applied, summary, pc, conn, todo, upto, read,
                       solo, mixed, faults>>
    BY <1>6 DEF Status, ownVars
  <2>2. Apart' /\ Covers' /\ Alone'
    BY <1>0, <2>1, LessKeeps
  <2>3. InOrder'
    <3> SUFFICES ASSUME Orderly
                 PROVE  Working # {} /\ (\A q \in Working : Finds(q)') /\ Follows'
      <4>1. Working' = Working
        BY <2>1 DEF Working
      <4> QED
        BY <2>1, <4>1, Zenon DEF InOrder, Orderly
    <3>1. ~Whole
      BY <2>1 DEF Whole
    <3>2. ASSUME NEW q \in Working
          PROVE  Finds(q)'
      <4>1. Finds(q) /\ q \in Operations
        BY <1>0, <3>2 DEF InOrder
      <4>2. pc[q] \notin {"last", "read", "check", "remove", "ok", "open", "insert", "select",
                         "summary", "events", "metadata"}
        BY <1>0, <2>1, <3>1, <4>1 DEF Finds, Handles
      <4> QED
        BY <2>1, <4>1, <4>2 DEF Finds, Inserting, Rebuild
    <3>3. Follows'
      BY <1>0, <2>1 DEF InOrder, Follows
    <3> QED
      BY <1>0, <3>1, <3>2, <3>3 DEF InOrder
  <2> QED
    BY <2>2, <2>3
<1>7. CASE UNCHANGED vars
  <2>1. UNCHANGED <<log, dir, db, made, tables, rows, applied, summary, mutex, pc, conn, todo,
                    upto, read, solo, mixed, faults>>
    BY <1>7 DEF vars, dbVars, ownVars
  <2>2. Apart' /\ Covers' /\ Alone'
    BY <1>0, <2>1, LessKeeps
  <2>3. InOrder'
    BY <1>0, <2>1 DEF InOrder, Orderly, Working, Whole, Finds, Follows, Rebuild
  <2> QED
    BY <2>2, <2>3
<1> QED
  BY <1>1, <1>2, <1>3, <1>4, <1>5, <1>6, <1>7

-----------------------------------------------------------------------------
\* The invariant

LEMMA InvInitially == Init => Inv
<1> SUFFICES ASSUME Init PROVE Inv
  OBVIOUS
<1>1. Working = {}
  BY DEF Init, Working
<1>2. TypeOK
  <2>1. /\ pc \in [Operations -> Pcs] /\ conn \in [Operations -> 0..made]
        /\ todo \in [Operations -> SUBSET (1..log)]
        /\ upto \in [Operations -> 0..log]
        /\ read \in [Operations -> SUBSET (1..log)]
        /\ solo \in [Operations -> BOOLEAN]
    BY DEF Init, Pcs
  <2>2. /\ log \in Nat /\ made \in Nat /\ faults \in Nat
        /\ db \in 0..made /\ applied \in 0..log
    BY DEF Init
  <2>4. dir \in BOOLEAN /\ mixed \in BOOLEAN /\ mutex \in Operations \union {Nobody}
    BY Zenon DEF Init
  <2>3. /\ tables \in {"none", "events", "both"}
        /\ rows \subseteq 1..log /\ summary \subseteq 1..log
        /\ db = 0 => tables = "none"
        /\ tables = "none" => rows = {}
        /\ tables # "both" => applied = 0
    BY DEF Init
  <2> QED
    BY <2>1, <2>2, <2>3, <2>4, Zenon DEF TypeOK
<1>3. Handles /\ Apart /\ Covers
  BY <1>1 DEF Init, Handles, Apart, Covers, Inserting
<1>4. Alone
  BY <1>1 DEF Alone
<1>5. InOrder
  BY <1>1 DEF Init, InOrder, Whole, Follows, Inserting
<1> QED
  BY <1>2, <1>3, <1>4, <1>5 DEF Inv

LEMMA InvStep == Inv /\ [Next]_vars => Inv'
<1> SUFFICES ASSUME Inv, [Next]_vars PROVE Inv'
  OBVIOUS
<1>0. Typed /\ Apart
  BY DEF Inv, Typed
<1>1. ASSUME NEW o \in Operations, Step(o)
      PROVE  Inv'
  BY <1>0, <1>1, TypedStep, ApartStep, WorkStep, InOrderStep DEF Inv, Typed
<1>2. ASSUME \/ \E o \in Operations : Begin(o) \/ Lock(o) \/ End(o) \/ Fail(o) \/ KillAi(o)
             \/ KillDaemon \/ Status \/ UNCHANGED vars
      PROVE  Inv'
  BY <1>0, <1>2, TypedElse, ElseKeeps DEF Inv, Typed
<1> QED
  BY <1>1, <1>2 DEF Next, Idle

LEMMA InvAlways == Spec => []Inv
  BY InvInitially, InvStep, PTL DEF Spec

\* What the index says it has applied is in it, unless a rebuild ran beside another
\* operation; and an operation that had the files for itself and returns Ok has
\* indexed all it has read, whatever those before it left behind.
THEOREM IndexTellsTheTruth == Spec => []IndexIsTrue
<1>1. Inv => IndexIsTrue
  <2> SUFFICES ASSUME Inv PROVE IndexIsTrue
    OBVIOUS
  <2>1. AppliedIsIndexed
    BY DEF Inv, Covers, AppliedIsIndexed
  <2>2. OkMeansIndexed
    <3> SUFFICES ASSUME NEW o \in Operations, pc[o] = "ok", solo[o], ~mixed
                 PROVE  /\ applied = upto[o] /\ rows = 1..upto[o] /\ todo[o] = {}
                        /\ read[o] # {} => summary = rows
      BY DEF OkMeansIndexed
    <3>1. Knows(o)
      BY DEF Inv, Alone, Working
    <3> QED
      BY <3>1 DEF Knows, Recorded
  <2> QED
    BY <2>1, <2>2 DEF IndexIsTrue
<1> QED
  BY <1>1, InvAlways, PTL

\* Once all operations are done, and they came one after the other without a
\* failure, the index and the summary hold the whole log.
THEOREM IndexHoldsTheLog == Spec => []NothingForgotten
<1>1. Inv => NothingForgotten
  <2> SUFFICES ASSUME Inv, \A o \in Operations : pc[o] = "done" /\ solo[o],
                      faults = 0, ~mixed
               PROVE  rows = 1..log /\ summary = rows /\ applied = log
    BY DEF NothingForgotten
  <2>1. Orderly /\ Working = {}
    BY DEF Orderly, Working
  <2>2. Whole /\ Follows
    BY <2>1 DEF Inv, InOrder
  <2>3. applied = log
    BY <2>2 DEF Follows, Inserting
  <2> QED
    BY <2>2, <2>3 DEF Whole
<1> QED
  BY <1>1, InvAlways, PTL

=============================================================================
