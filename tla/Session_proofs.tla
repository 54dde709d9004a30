----------------------------- MODULE Session_proofs -----------------------------
(***************************************************************************)
(* What holds of sessions, in three parts.                                 *)
(*                                                                         *)
(* EventLog: whatever processes append to one session, with or without     *)
(* the daemon, no number is skipped, an event is written as often as its   *)
(* append may be tried, and while the appends do not overlap the log is    *)
(* serial, as SessionLog has it.                                           *)
(*                                                                         *)
(* SessionHistory: however many `ai` review one session at the same time,  *)
(* a part is recorded at most once, and none is lost unless an `ai` is     *)
(* killed while it holds one.  What makes it so is that the rename of a    *)
(* part out of the session directory is atomic: a message is a part, in    *)
(* the hand of one process, or recorded, and never two of these (Apart).   *)
(* That a record says how its text was reviewed needs more: that no other  *)
(* `ai` reviews the part in between.  While the runs do not overlap (Solo) *)
(* what the only one reviews is not recorded yet, and what it is about to  *)
(* record is what the reviewed file says.  Counted bounds the ids, so that *)
(* every part has a name in `reviewed`.  And while the runs do not overlap *)
(* the ids of the manifest ascend, what is left to review is younger than  *)
(* what is recorded, and what is compacted is what the manifest held when  *)
(* it was read (Order), so no two compactions cover the same message.      *)
(*                                                                         *)
(* Invocation and AishCommand: what a call of `ai` is told of the session, *)
(* the limit and the terminal goes through the environments of processes   *)
(* and through requests.  Every level of a line of calls has the           *)
(* environment of the worker that waits for it (Linked) and asked its      *)
(* worker for what its own environment says (AsAsked), so lineage and the  *)
(* rule for nested calls hold however long the line is.  The first level   *)
(* has the environment of a shell.  A session that someone records has a   *)
(* version, unless it is being made, that was cut short, or it was found   *)
(* without one (SessionsOK).  Its attachment is that of a recorder, if all *)
(* of them came to their end by themselves, and a recorder that had its    *)
(* session for itself holds it (RecOK).                                    *)
(***************************************************************************)
EXTENDS EventLog, SessionHistory, AishCommand, SequenceFacts, SequenceTheorems,
        FiniteSetTheorems, NaturalsInduction, WellFoundedInduction, TLAPS

-----------------------------------------------------------------------------
\* next_seq

\* The largest member of a nonempty set of indices is a member and bounds it.
LEMMA MaxOfIndices ==
    ASSUME NEW n \in Nat, NEW S \in SUBSET (1..n), S # {}
    PROVE  /\ Max(S) \in S
           /\ \A i \in S : i <= Max(S)
<1> DEFINE T == {n - i : i \in S}
<1>1. \A i \in S : i \in 1..n /\ n - i \in Nat
  OBVIOUS
<1>2. T \subseteq Nat
  BY <1>1, Zenon
<1>3. T # {}
  OBVIOUS
<1> HIDE DEF T
<1>4. PICK x \in T : \A y \in T : ~(<<y, x>> \in OpToRel(<, Nat))
  BY <1>2, <1>3, WFMin, NatLessThanWellFounded
<1>5. \A y \in T : ~(y < x)
  BY <1>2, <1>4 DEF OpToRel
<1> USE DEF T
<1>6. PICK m \in S : x = n - m
  BY <1>4
<1>7. ASSUME NEW i \in S
      PROVE  m >= i
  <2>1. n - i \in T
    OBVIOUS
  <2>2. ~(n - i < n - m)
    BY <2>1, <1>5, <1>6
  <2> HIDE DEF T
  <2> QED
    BY <2>2, <1>1
<1> QED
  BY <1>1, <1>7 DEF Max

Tokens == Events \cup {LineBreak} \cup Pieces

\* What next_seq returns is an error, 1, or one more than the seq of an event
\* that is in the file.
LEMMA NextSeqContinues ==
    ASSUME NEW f \in Seq(Tokens)
    PROVE  \/ NextSeq(f) = 0
           \/ NextSeq(f) = 1
           \/ \E i \in 1..Len(f) : IsEvent(f[i]) /\ NextSeq(f) = f[i].seq + 1
<1> DEFINE Ink == {i \in 1..Len(f) : f[i] # LineBreak}
           last == Max(Ink)
<1>1. CASE Ink = {} \/ ~Readable(f)
  BY <1>1 DEF NextSeq
<1>2. CASE Ink # {} /\ Readable(f)
  <2>1. last \in Ink
    <3>1. Len(f) \in Nat /\ Ink \in SUBSET (1..Len(f))
      OBVIOUS
    <3> HIDE DEF Ink
    <3> QED
      BY <3>1, <1>2, MaxOfIndices
  <2>2. last \in 1..Len(f)
    BY <2>1
  <2>3. \/ NextSeq(f) = 0
        \/ IsEvent(f[last]) /\ NextSeq(f) = f[last].seq + 1
    BY <1>2 DEF NextSeq
  <2> HIDE DEF last
  <2> QED
    BY <2>2, <2>3
<1> QED
  BY <1>1, <1>2

\* The seq of a token is a natural number, and next_seq returns one.
LEMMA NextSeqType ==
    ASSUME NEW f \in Seq(Tokens)
    PROVE  /\ \A i \in 1..Len(f) : f[i].seq \in Nat
           /\ NextSeq(f) \in Nat
<1>1. \A t \in Tokens : t.seq \in Nat
  BY DEF Tokens, Events, LineBreak, Pieces, Torn, Garbled
<1>2. \A i \in 1..Len(f) : f[i] \in Tokens
  OBVIOUS
<1>3. \A i \in 1..Len(f) : f[i].seq \in Nat
  BY <1>1, <1>2
<1> QED
  BY <1>3, NextSeqContinues

-----------------------------------------------------------------------------
\* Types

PcType == [Writers -> {"idle", "start", "numbered", "written", "appended"}]
LegType == [Writers -> {"own", "daemon"}]
HasNumber == \A w \in Writers : step[w] = "numbered" => number[w] > 0

\* The types that are not Boolean, and those that are.
Data ==
    /\ file \in Seq(Tokens) /\ step \in PcType /\ leg \in LegType
    /\ number \in [Writers -> Nat] /\ HasNumber
    /\ count \in [Writers -> Nat] /\ acked \subseteq Writers \X Nat
    /\ faults \in Nat
Flags == up \in BOOLEAN /\ calm \in BOOLEAN

\* TypeOK is the two together, before and after a step.
LEMMA TypeParts ==
    /\ TypeOK <=> Data /\ Flags
    /\ TypeOK' <=> Data' /\ Flags'
  BY DEF Data, Flags, TypeOK, Tokens, PcType, LegType, HasNumber

\* GiveUp keeps the types, and gives nobody a number.
LEMMA GiveUpType ==
    ASSUME TypeOK, NEW w \in Writers, GiveUp(w)
    PROVE  /\ step' \in PcType
           /\ leg' \in LegType
           /\ \A u \in Writers : step'[u] \notin {"idle", "start"} =>
                u # w /\ step[u] = step'[u]
  BY DEF TypeOK, GiveUp, PcType, LegType

\* The initial state is well typed.
LEMMA InitType == LogInit => TypeOK
  BY DEF LogInit, TypeOK

\* Every step keeps the types that are not Boolean.
LEMMA StepData == TypeOK /\ [LogNext]_logVars => Data'
<1> SUFFICES ASSUME TypeOK, [LogNext]_logVars
             PROVE  Data'
  OBVIOUS
<1>0. Data
  BY TypeParts
<1>1. CASE Idle \/ UNCHANGED logVars
  BY <1>1, <1>0 DEF Idle, Data, HasNumber, logVars
<1>2. ASSUME NEW w \in Writers, BeginAppend(w)
      PROVE  Data'
  <2>1. step' \in PcType /\ leg' \in LegType /\ HasNumber'
    BY <1>2, <1>0 DEF Data, BeginAppend, PcType, LegType, HasNumber
  <2>2. count' \in [Writers -> Nat]
    BY <1>2, <1>0 DEF Data, BeginAppend
  <2> QED
    BY <1>2, <2>1, <2>2, <1>0 DEF Data, BeginAppend
<1>3. ASSUME NEW w \in Writers, TakeSeq(w)
      PROVE  Data'
  <2>1. NextSeq(file) \in Nat
    BY <1>0, NextSeqType DEF Data
  <2>2. step' \in PcType /\ leg' \in LegType
    BY <1>3, GiveUpType, <1>0 DEF Data, TakeSeq, PcType
  <2>3. number' \in [Writers -> Nat]
    BY <1>3, <2>1, <1>0 DEF Data, TakeSeq
  <2>4. HasNumber'
    <3>1. CASE NextSeq(file) = 0
      BY <1>3, <3>1, GiveUpType, <1>0 DEF Data, TakeSeq, HasNumber
    <3>2. CASE NextSeq(file) # 0
      BY <1>3, <3>2, <2>1, <1>0 DEF Data, TakeSeq, PcType, HasNumber
    <3> QED
      BY <3>1, <3>2
  <2> QED
    BY <1>3, <2>2, <2>3, <2>4, <1>0 DEF Data, TakeSeq
<1>4. ASSUME NEW w \in Writers, WriteLine(w)
      PROVE  Data'
  <2>1. number[w] \in Nat \ {0} /\ count[w] \in Nat
    BY <1>4, <1>0 DEF Data, WriteLine, HasNumber
  <2>2. [seq |-> number[w], by |-> w, nth |-> count[w]] \in Events
    BY <2>1 DEF Events
  <2>3. file' \in Seq(Tokens)
    <3>1. PICK t \in Tokens : file' = Append(file, t)
      BY <1>4, <2>2 DEF WriteLine, Tokens
    <3> QED
      BY <3>1, <1>0 DEF Data
  <2>4. step' \in PcType /\ leg' \in LegType
    BY <1>4, GiveUpType, <1>0 DEF Data, WriteLine, PcType
  <2>5. HasNumber'
    BY <1>4, GiveUpType, <1>0 DEF Data, WriteLine, PcType, HasNumber
  <2>6. faults' \in Nat
    BY <1>4, <1>0 DEF Data, WriteLine, Fault
  <2> QED
    BY <1>4, <2>3, <2>4, <2>5, <2>6, <1>0 DEF Data, WriteLine
<1>5. ASSUME NEW w \in Writers, EndLine(w)
      PROVE  Data'
  <2>1. file' \in Seq(Tokens)
    <3>1. file' = file \/ file' = Append(file, LineBreak)
      BY <1>5 DEF EndLine
    <3>2. file \in Seq(Tokens) /\ LineBreak \in Tokens
      BY <1>0 DEF Data, Tokens
    <3> QED BY <3>1, <3>2
  <2>2. step' \in PcType /\ leg' \in LegType
    BY <1>5, GiveUpType, <1>0 DEF Data, EndLine, PcType
  <2>3. HasNumber'
    BY <1>5, GiveUpType, <1>0 DEF Data, EndLine, PcType, HasNumber
  <2>4. faults' \in Nat
    BY <1>5, <1>0 DEF Data, EndLine, Fault
  <2> QED
    BY <1>5, <2>1, <2>2, <2>3, <2>4, <1>0 DEF Data, EndLine
<1>6. ASSUME NEW w \in Writers, Finish(w)
      PROVE  Data'
  <2>1. step' \in PcType /\ HasNumber'
    BY <1>6, <1>0 DEF Data, Finish, PcType, HasNumber
  <2>2. acked' \subseteq Writers \X Nat
    BY <1>6, <1>0 DEF Data, Finish
  <2> QED
    BY <1>6, <2>1, <2>2, <1>0 DEF Data, Finish
<1>7. ASSUME NEW w \in Writers, KillWriter(w)
      PROVE  Data'
  <2>1. step' \in PcType /\ HasNumber'
    BY <1>7, <1>0 DEF Data, KillWriter, PcType, HasNumber
  <2>2. faults' \in Nat
    BY <1>7, <1>0 DEF Data, KillWriter, Fault
  <2> QED
    BY <1>7, <2>1, <2>2, <1>0 DEF Data, KillWriter
<1>8. CASE DaemonDies
  <2>1. step' \in PcType /\ leg' \in LegType /\ HasNumber'
    BY <1>8, <1>0 DEF Data, DaemonDies, PcType, LegType, HasNumber
  <2>2. faults' \in Nat
    BY <1>8, <1>0 DEF Data, DaemonDies, Fault
  <2> QED
    BY <1>8, <2>1, <2>2, <1>0 DEF Data, DaemonDies
<1>9. CASE DaemonStarts
  BY <1>9, <1>0 DEF Data, HasNumber, DaemonStarts
<1> QED
  BY <1>1, <1>2, <1>3, <1>4, <1>5, <1>6, <1>7, <1>8, <1>9 DEF LogNext, Step

\* Every step keeps the types that are Boolean.
LEMMA StepFlags == TypeOK /\ [LogNext]_logVars => Flags'
<1> SUFFICES ASSUME TypeOK, [LogNext]_logVars
             PROVE  Flags'
  OBVIOUS
<1>1. up \in BOOLEAN /\ calm \in BOOLEAN
  BY DEF TypeOK
<1>2. \/ calm' = (calm /\ InFlight = {})
      \/ calm' = (calm /\ InDaemon = {})
      \/ calm' = FALSE
      \/ calm' = calm
  BY Zenon DEF LogNext, Step, BeginAppend, TakeSeq, WriteLine, EndLine, Finish, KillWriter,
               DaemonDies, DaemonStarts, Idle, logVars
<1>3. up' = TRUE \/ up' = FALSE \/ up' = up
  BY Zenon DEF LogNext, Step, BeginAppend, TakeSeq, WriteLine, EndLine, Finish, KillWriter,
               DaemonDies, DaemonStarts, Idle, logVars
<1>4. calm' \in BOOLEAN
  BY <1>1, <1>2
<1>5. up' \in BOOLEAN
  BY <1>1, <1>3
<1> QED
  BY <1>4, <1>5 DEF Flags

\* Every variable keeps its type, and no append goes on with the error of
\* next_seq for a number.
THEOREM TypeCorrect == LogSpec => []TypeOK
  BY InitType, StepData, StepFlags, TypeParts, PTL DEF LogSpec

-----------------------------------------------------------------------------
\* No number is skipped

\* A number that was taken is 1, or continues an event of the file: events
\* are never taken back, so it still does when the line is written.
PendingContinues ==
    \A w \in Writers : step[w] = "numbered" =>
        \/ number[w] = 1
        \/ \E i \in 1..Len(file) : IsEvent(file[i]) /\ number[w] = file[i].seq + 1

GapInv == NoGaps /\ PendingContinues

\* A token appended to the file keeps NoGaps, and what was pending stays so,
\* provided an event among the tokens continues the file.
LEMMA AppendKeepsGapInv ==
    ASSUME TypeOK, NoGaps, NEW t \in Tokens, file' = Append(file, t),
           \/ t.seq <= 1
           \/ \E i \in 1..Len(file) : t.seq = file[i].seq + 1
    PROVE  /\ NoGaps'
           /\ \A n \in Nat :
                (\E i \in 1..Len(file) : IsEvent(file[i]) /\ n = file[i].seq + 1) =>
                \E i \in 1..Len(file') : IsEvent(file'[i]) /\ n = file'[i].seq + 1
<1>1. /\ file \in Seq(Tokens)
      /\ Len(file') = Len(file) + 1
      /\ \A i \in 1..Len(file) : file'[i] = file[i]
      /\ file'[Len(file) + 1] = t
  BY DEF TypeOK, Tokens
<1>2. Len(file) \in Nat /\ \A i \in 1..Len(file) : file[i].seq \in Nat
  BY <1>1, NextSeqType
<1>3. ASSUME NEW i \in 1..Len(file'), file'[i].seq > 1
      PROVE  \E k \in 1..(i - 1) : file'[k].seq = file'[i].seq - 1
  <2>1. CASE i <= Len(file)
    <3>1. PICK k \in 1..(i - 1) : file[k].seq = file[i].seq - 1
      BY <1>1, <1>2, <1>3, <2>1 DEF NoGaps
    <3> QED
      BY <1>1, <1>2, <2>1, <3>1
  <2>2. CASE i = Len(file) + 1
    <3>1. file'[i] = t /\ t.seq > 1
      BY <1>1, <1>3, <2>2
    <3>2. t.seq \in Nat
      BY DEF Tokens, Events, LineBreak, Pieces, Torn, Garbled
    <3>3. PICK k \in 1..Len(file) : t.seq = file[k].seq + 1
      BY <3>1, <3>2
    <3> QED
      BY <1>1, <1>2, <2>2, <3>1, <3>3
  <2> QED
    BY <1>1, <1>2, <2>1, <2>2
<1>4. NoGaps'
  BY <1>3 DEF NoGaps
<1> QED
  BY <1>1, <1>2, <1>4

\* Every step keeps GapInv.
LEMMA GapInvariant == TypeOK /\ GapInv /\ [LogNext]_logVars => GapInv'
<1> SUFFICES ASSUME TypeOK, GapInv, [LogNext]_logVars
             PROVE  GapInv'
  OBVIOUS
<1>0. /\ file \in Seq(Tokens) /\ step \in PcType /\ number \in [Writers -> Nat]
      /\ count \in [Writers -> Nat] /\ HasNumber
  BY TypeParts DEF Data
<1>1. CASE Idle \/ UNCHANGED logVars
  BY <1>1 DEF Idle, logVars, GapInv, NoGaps, PendingContinues
<1>2. ASSUME NEW w \in Writers, BeginAppend(w)
      PROVE  GapInv'
  <2>1. UNCHANGED <<file, number>>
    BY <1>2 DEF BeginAppend
  <2>2. \A u \in Writers : step'[u] = "numbered" => step[u] = "numbered"
    BY <1>2, <1>0 DEF BeginAppend, PcType
  <2> QED
    BY <2>1, <2>2 DEF GapInv, NoGaps, PendingContinues
<1>3. ASSUME NEW w \in Writers, TakeSeq(w)
      PROVE  GapInv'
  <2>1. UNCHANGED file
    BY <1>3 DEF TakeSeq
  <2>2. CASE NextSeq(file) = 0
    <3>1. UNCHANGED number
      BY <1>3, <2>2 DEF TakeSeq
    <3>2. \A u \in Writers : step'[u] = "numbered" => step[u] = "numbered"
      BY <1>3, <2>2, GiveUpType DEF TakeSeq
    <3> QED
      BY <2>1, <3>1, <3>2 DEF GapInv, NoGaps, PendingContinues
  <2>3. CASE NextSeq(file) # 0
    <3>1. /\ number' = [number EXCEPT ![w] = NextSeq(file)]
          /\ \A u \in Writers : u # w /\ step'[u] = "numbered" => step[u] = "numbered"
      BY <1>3, <2>3, <1>0 DEF TakeSeq, PcType
    <3>2. \/ NextSeq(file) = 1
          \/ \E i \in 1..Len(file) :
                IsEvent(file[i]) /\ NextSeq(file) = file[i].seq + 1
      BY <2>3, <1>0, NextSeqContinues
    <3>3. number'[w] = NextSeq(file) /\ \A u \in Writers : u # w => number'[u] = number[u]
      BY <3>1, <1>0
    <3>4. PendingContinues'
      BY <2>1, <3>1, <3>2, <3>3 DEF GapInv, PendingContinues
    <3>5. NoGaps'
      BY <2>1 DEF GapInv, NoGaps
    <3> QED
      BY <3>4, <3>5 DEF GapInv
  <2> QED
    BY <2>2, <2>3
<1>4. ASSUME NEW w \in Writers, WriteLine(w)
      PROVE  GapInv'
  <2>1. PICK t \in Tokens : /\ file' = Append(file, t)
                            /\ t.seq \in {0, number[w]}
    <3>1. [seq |-> number[w], by |-> w, nth |-> count[w]] \in Events
      BY <1>4, <1>0 DEF WriteLine, HasNumber, Events
    <3> QED
      BY <1>4, <3>1 DEF WriteLine, Tokens, Pieces, Torn, Garbled
  <2>2. /\ UNCHANGED number
        /\ \A u \in Writers : step'[u] = "numbered" => step[u] = "numbered"
    BY <1>4, <1>0, GiveUpType DEF WriteLine, PcType
  <2>3. step[w] = "numbered"
    BY <1>4 DEF WriteLine
  <2>4. t.seq <= 1 \/ \E i \in 1..Len(file) : t.seq = file[i].seq + 1
    BY <2>1, <2>3 DEF GapInv, PendingContinues
  <2>5. /\ NoGaps'
        /\ \A n \in Nat :
             (\E i \in 1..Len(file) : IsEvent(file[i]) /\ n = file[i].seq + 1) =>
             \E i \in 1..Len(file') : IsEvent(file'[i]) /\ n = file'[i].seq + 1
    BY <2>1, <2>4, AppendKeepsGapInv DEF GapInv
  <2>6. PendingContinues'
    BY <2>2, <2>5, <1>0 DEF GapInv, PendingContinues
  <2> QED
    BY <2>5, <2>6 DEF GapInv
<1>5. ASSUME NEW w \in Writers, EndLine(w)
      PROVE  GapInv'
  <2>1. /\ UNCHANGED number
        /\ \A u \in Writers : step'[u] = "numbered" => step[u] = "numbered"
    BY <1>5, <1>0, GiveUpType DEF EndLine, PcType
  <2>2. CASE UNCHANGED file
    BY <2>1, <2>2 DEF GapInv, NoGaps, PendingContinues
  <2>3. CASE file' = Append(file, LineBreak)
    <3>1. /\ NoGaps'
          /\ \A n \in Nat :
               (\E i \in 1..Len(file) : IsEvent(file[i]) /\ n = file[i].seq + 1) =>
               \E i \in 1..Len(file') : IsEvent(file'[i]) /\ n = file'[i].seq + 1
      BY <2>3, AppendKeepsGapInv DEF GapInv, LineBreak, Tokens
    <3>2. PendingContinues'
      BY <2>1, <3>1, <1>0 DEF GapInv, PendingContinues
    <3> QED
      BY <3>1, <3>2 DEF GapInv
  <2> QED
    BY <1>5, <2>2, <2>3 DEF EndLine
<1>6. ASSUME NEW w \in Writers, Finish(w) \/ KillWriter(w)
      PROVE  GapInv'
  <2>1. UNCHANGED <<file, number>>
    BY <1>6 DEF Finish, KillWriter
  <2>2. \A u \in Writers : step'[u] = "numbered" => step[u] = "numbered"
    BY <1>6, <1>0 DEF Finish, KillWriter, PcType
  <2> QED
    BY <2>1, <2>2 DEF GapInv, NoGaps, PendingContinues
<1>7. CASE DaemonDies \/ DaemonStarts
  <2>1. UNCHANGED <<file, number>>
    BY <1>7 DEF DaemonDies, DaemonStarts
  <2>2. \A u \in Writers : step'[u] = "numbered" => step[u] = "numbered"
    BY <1>7 DEF DaemonDies, DaemonStarts
  <2> QED
    BY <2>1, <2>2 DEF GapInv, NoGaps, PendingContinues
<1> QED
  BY <1>1, <1>2, <1>3, <1>4, <1>5, <1>6, <1>7 DEF LogNext, Step

\* NoGaps: whatever races and failures there were, an event with seq n + 1
\* stands behind an event with seq n, for any number of writers.
THEOREM NumbersHaveNoGaps == LogSpec => []NoGaps
<1>1. LogInit => GapInv
  BY DEF LogInit, GapInv, NoGaps, PendingContinues
<1>2. GapInv => NoGaps
  BY DEF GapInv
<1> QED
  BY <1>1, <1>2, TypeCorrect, GapInvariant, PTL DEF LogSpec

-----------------------------------------------------------------------------
\* A broken log

\* A step from a broken log leaves it as it is.
LEMMA BrokenStep ==
    ASSUME TypeOK, LogNext, BrokenForGood
    PROVE  BrokenForGood' /\ file' = file
<1>0. /\ step \in PcType
      /\ NextSeq(file) = 0
      /\ \A u \in Writers : step[u] \notin {"numbered", "written"}
  BY TypeParts DEF Data, BrokenForGood
<1>1. /\ file' = file
      /\ \A u \in Writers : step'[u] \notin {"numbered", "written"}
  <2>1. ASSUME NEW w \in Writers, BeginAppend(w)
        PROVE  <1>1!1 /\ <1>1!2
    BY <2>1, <1>0 DEF BeginAppend, PcType
  <2>2. ASSUME NEW w \in Writers, TakeSeq(w)
        PROVE  <1>1!1 /\ <1>1!2
    BY <2>2, <1>0, GiveUpType DEF TakeSeq
  <2>3. ASSUME NEW w \in Writers, WriteLine(w) \/ EndLine(w)
        PROVE  FALSE
    BY <2>3, <1>0 DEF WriteLine, EndLine
  <2>4. ASSUME NEW w \in Writers, Finish(w) \/ KillWriter(w)
        PROVE  <1>1!1 /\ <1>1!2
    BY <2>4, <1>0 DEF Finish, KillWriter, PcType
  <2>5. CASE DaemonDies \/ DaemonStarts
    BY <2>5, <1>0 DEF DaemonDies, DaemonStarts
  <2>6. CASE Idle
    BY <2>6, <1>0 DEF Idle, logVars
  <2> QED
    BY <2>1, <2>2, <2>3, <2>4, <2>5, <2>6 DEF LogNext, Step
<1> QED
  BY <1>0, <1>1 DEF BrokenForGood

\* A token appended to a file that cannot be read leaves it so.
LEMMA StaysUnreadable ==
    ASSUME NEW f \in Seq(Tokens), NEW t \in Tokens, ~Readable(f)
    PROVE  ~Readable(Append(f, t))
<1>1. PICK i \in 1..Len(f) : f[i] = Garbled
  BY DEF Readable
<1>2. i \in 1..Len(Append(f, t)) /\ Append(f, t)[i] = Garbled
  BY <1>1
<1> QED BY <1>2 DEF Readable

\* A file that cannot be read gives the number 1.
LEMMA CountIsLost ==
    ASSUME NEW f, ~Readable(f)
    PROVE  NextSeq(f) = 1
  BY DEF NextSeq

\* A step from a file that cannot be read appends no event but with the number 1.
LEMMA LostStep ==
    ASSUME TypeOK, LogNext, LostCount
    PROVE  LostCount' /\ \A i \in (Len(file) + 1)..Len(file') : file'[i].seq <= 1
<1> DEFINE Ones == \A u \in Writers : step'[u] = "numbered" => number'[u] = 1
           Same == file' = file /\ Ones
           OneMore == (\E t \in Tokens : file' = Append(file, t) /\ t.seq <= 1) /\ Ones
<1>0. /\ file \in Seq(Tokens) /\ step \in PcType /\ number \in [Writers -> Nat]
      /\ count \in [Writers -> Nat] /\ HasNumber
      /\ \A u \in Writers : step[u] = "numbered" => number[u] = 1
  BY TypeParts DEF Data, LostCount
<1>1. ASSUME NEW w \in Writers, BeginAppend(w)
      PROVE  Same
  BY <1>1, <1>0 DEF BeginAppend, PcType
<1>2. ASSUME NEW w \in Writers, TakeSeq(w)
      PROVE  Same
  <2>1. NextSeq(file) = 1
    BY CountIsLost DEF LostCount
  <2>2. /\ file' = file
        /\ step' = [step EXCEPT ![w] = "numbered"] /\ number' = [number EXCEPT ![w] = 1]
    BY <1>2, <2>1 DEF TakeSeq
  <2> QED BY <1>0, <2>2 DEF PcType
<1>3. ASSUME NEW w \in Writers, WriteLine(w)
      PROVE  OneMore
  <2>1. number[w] = 1 /\ number' = number
    BY <1>0, <1>3 DEF WriteLine
  <2>2. \A u \in Writers : step'[u] = "numbered" => step[u] = "numbered"
    BY <1>3, <1>0, GiveUpType DEF WriteLine, PcType
  <2>3. \E t \in Tokens : file' = Append(file, t) /\ t.seq <= 1
    <3>1. [seq |-> number[w], by |-> w, nth |-> count[w]] \in Events
      BY <1>0, <2>1 DEF Events
    <3> QED BY <1>3, <2>1, <3>1 DEF WriteLine, Tokens, Pieces, Torn, Garbled
  <2> QED BY <1>0, <2>1, <2>2, <2>3
<1>4. ASSUME NEW w \in Writers, EndLine(w)
      PROVE  Same \/ OneMore
  <2>1. Ones
    <3>1. \A u \in Writers : step'[u] = "numbered" => step[u] = "numbered"
      BY <1>4, <1>0, GiveUpType DEF EndLine, PcType
    <3> QED BY <1>0, <1>4, <3>1 DEF EndLine
  <2> QED BY <1>4, <2>1 DEF EndLine, Tokens, LineBreak
<1>5. ASSUME NEW w \in Writers, Finish(w) \/ KillWriter(w)
      PROVE  Same
  BY <1>5, <1>0 DEF Finish, KillWriter, PcType
<1>6. ASSUME DaemonDies \/ DaemonStarts
      PROVE  Same
  BY <1>6, <1>0 DEF DaemonDies, DaemonStarts
<1>7. ASSUME Idle
      PROVE  Same
  BY <1>7, <1>0 DEF Idle, logVars
<1>8. Same \/ OneMore
  <2> HIDE DEF Same, OneMore
  <2> QED BY <1>1, <1>2, <1>3, <1>4, <1>5, <1>6, <1>7 DEF LogNext, Step
<1>9. ~Readable(file)
  BY DEF LostCount
<1>10. CASE Same
  <2>1. file' = file /\ Len(file) \in Nat
    BY <1>0, <1>10
  <2>2. ~Readable(file')
    BY <1>9, <2>1
  <2>3. (Len(file) + 1)..Len(file') = {}
    BY <2>1
  <2> QED BY <1>10, <2>2, <2>3 DEF LostCount
<1>11. CASE OneMore
  <2>1. PICK t \in Tokens : file' = Append(file, t) /\ t.seq <= 1
    BY <1>11
  <2>2. ~Readable(file')
    BY <1>0, <1>9, <2>1, StaysUnreadable
  <2>3. Len(file) \in Nat /\ Len(file') = Len(file) + 1 /\ file'[Len(file) + 1] = t
    BY <1>0, <2>1
  <2>4. (Len(file) + 1)..Len(file') = {Len(file) + 1}
    BY <2>3
  <2> QED BY <1>11, <2>1, <2>2, <2>3, <2>4 DEF LostCount
<1> QED BY <1>8, <1>10, <1>11

\* BrokenIsFinal as one step.
LEMMA FinalStep ==
    TypeOK /\ [LogNext]_logVars =>
        [/\ BrokenForGood => BrokenForGood' /\ file' = file
         /\ LostCount =>
              /\ LostCount'
              /\ \A i \in (Len(file) + 1)..Len(file') : file'[i].seq <= 1]_logVars
  BY BrokenStep, LostStep, Zenon

\* BrokenIsFinal: once the log ends in a line that is not one event, and no append
\* has a number from before, the file never changes again; once it was torn inside
\* a character it is never readable again, and what is appended is numbered 1.
THEOREM BrokenStaysBroken == LogSpec => BrokenIsFinal
  BY TypeCorrect, FinalStep, PTL DEF LogSpec, BrokenIsFinal

-----------------------------------------------------------------------------
\* A calm log

Even(n) == \E m \in Nat : n = 2 * m
Odd(n) == \E m \in Nat : n = 2 * m + 1

\* While it is calm at most one append is under way; it has the number after
\* the last line, or has written its line without the newline.
CalmInv ==
    calm =>
      /\ SerialLog
      /\ \A u, w \in Writers : step[u] # "idle" /\ step[w] # "idle" => u = w
      /\ \A w \in Writers : step[w] = "numbered" => 2 * number[w] = Len(file) + 2
      /\ \A w \in Writers : step[w] = "written" => Odd(Len(file))
      /\ (\A w \in Writers : step[w] # "written") => Even(Len(file))

\* next_seq on a calm file numbers the next line.
LEMMA NextSeqOfCalm ==
    ASSUME TypeOK, calm, SerialLog, NEW m \in Nat, Len(file) = 2 * m
    PROVE  NextSeq(file) = m + 1
<1> DEFINE Ink == {i \in 1..Len(file) : file[i] # LineBreak}
<1>0. ASSUME NEW k \in 1..m
      PROVE  file[2*k - 1].seq = k /\ file[2*k] = LineBreak /\ 2*k - 1 \in Ink
  <2>1. k \in 1..Len(file) /\ 2*k - 1 <= Len(file) /\ 2*k <= Len(file)
    OBVIOUS
  <2>2. file[2*k - 1].seq = k /\ file[2*k] = LineBreak
    BY <2>1 DEF SerialLog
  <2>3. 2*k - 1 \in 1..Len(file)
    OBVIOUS
  <2> QED
    BY <2>2, <2>3 DEF LineBreak
<1>9. Readable(file)
  <2>1. SUFFICES ASSUME NEW i \in 1..Len(file) PROVE file[i] # Garbled
    BY DEF Readable
  <2>2. PICK k \in 1..m : i = 2*k - 1 \/ i = 2*k
    <3>1. i \in Nat /\ i >= 1 /\ i <= 2 * m
      BY <2>1
    <3>2. /\ (i + 1) \div 2 \in 1..m
          /\ i = 2 * ((i + 1) \div 2) - 1 \/ i = 2 * ((i + 1) \div 2)
      BY <3>1
    <3> QED BY <3>2
  <2>3. file[2*k - 1].seq = k /\ file[2*k] = LineBreak /\ k # 0
    BY <1>0
  <2> QED BY <2>2, <2>3 DEF Garbled, LineBreak
<1>1. CASE m = 0
  BY <1>1 DEF NextSeq
<1>2. CASE m > 0
  <2>1. m \in 1..m
    BY <1>2
  <2>2. Ink \in SUBSET (1..Len(file)) /\ Len(file) \in Nat
    OBVIOUS
  <2>3. \A i \in Ink : i <= 2*m - 1
    <3>1. file[2*m] = LineBreak
      BY <1>0, <2>1
    <3>2. \A i \in Ink : i \in 1..(2*m) /\ i # 2*m
      BY <3>1
    <3> QED
      BY <3>2
  <2>4. \A i \in Ink : (\A k \in Ink : k <= i) => i = 2*m - 1
    <3>1. 2*m - 1 \in Ink
      BY <1>0, <2>1
    <3>2. \A i \in Ink : i \in Nat
      BY <2>2
    <3> HIDE DEF Ink
    <3> QED
      BY <3>1, <3>2, <2>3
  <2>5. Max(Ink) = 2*m - 1
    <3>1. Ink # {}
      BY <1>0, <2>1
    <3> HIDE DEF Ink
    <3> QED
      BY <3>1, <2>2, <2>4, MaxOfIndices
  <2>6. file[2*m - 1].seq = m /\ (2*m - 1 > 1 => file[2*m - 2] = LineBreak)
    <3>1. file[2*m - 1].seq = m
      BY <1>0, <2>1
    <3>2. ASSUME 2*m - 1 > 1
          PROVE  file[2*m - 2] = LineBreak
      <4>1. m - 1 \in 1..m /\ 2*(m - 1) = 2*m - 2
        BY <3>2
      <4> QED
        BY <1>0, <4>1
    <3> QED
      BY <3>1, <3>2
  <2> HIDE DEF Ink
  <2>7. NextSeq(file) =
          IF Ink = {} \/ ~Readable(file) THEN 1
          ELSE IF IsEvent(file[Max(Ink)]) /\ (Max(Ink) > 1 => file[Max(Ink) - 1] = LineBreak)
               THEN file[Max(Ink)].seq + 1
               ELSE 0
    BY DEF NextSeq, Ink
  <2> QED
    BY <1>0, <1>2, <1>9, <2>1, <2>5, <2>6, <2>7 DEF IsEvent
<1> QED
  BY <1>1, <1>2

\* A step that leaves the file and the numbers alone, and lets nobody new
\* under way, keeps CalmInv; so does any step after which it is not calm.
LEMMA CalmFrame ==
    ASSUME TypeOK, CalmInv,
           \/ calm' = FALSE
           \/ /\ UNCHANGED <<file, number>>
              /\ calm' => calm
              /\ \A w \in Writers : step'[w] # "idle" => step[w] # "idle"
              /\ \A w \in Writers : step'[w] = "numbered" => step[w] = "numbered"
              /\ \A w \in Writers : step'[w] = "written" <=> step[w] = "written"
    PROVE  CalmInv'
  BY DEF CalmInv, SerialLog

\* Every step keeps CalmInv.
LEMMA CalmInvariant == TypeOK /\ CalmInv /\ [LogNext]_logVars => CalmInv'
<1> SUFFICES ASSUME TypeOK, CalmInv, [LogNext]_logVars
             PROVE  CalmInv'
  OBVIOUS
<1>0. /\ file \in Seq(Tokens) /\ step \in PcType /\ number \in [Writers -> Nat]
      /\ Len(file) \in Nat
  BY TypeParts DEF Data
<1>1. CASE Idle \/ UNCHANGED logVars
  <2>1. UNCHANGED logVars
    BY Zenon, <1>1 DEF Idle
  <2> QED
    BY <2>1, CalmFrame DEF logVars
<1>2. ASSUME NEW w \in Writers, BeginAppend(w)
      PROVE  CalmInv'
  <2>1. CASE UNCHANGED <<step, leg, calm>>
    BY <1>2, <2>1, CalmFrame DEF BeginAppend
  <2>2. CASE /\ step' = [step EXCEPT ![w] = "start"]
             /\ calm' = (calm /\ InFlight = {})
    <3>1. CASE calm /\ InFlight = {}
      <4>1. \A u \in Writers : step[u] = "idle"
        BY <3>1 DEF InFlight
      <4>2. \A u \in Writers : step'[u] = IF u = w THEN "start" ELSE "idle"
        BY <4>1, <2>2, <1>0 DEF PcType
      <4>3. UNCHANGED <<file, number>>
        BY <1>2 DEF BeginAppend
      <4>4. SerialLog /\ Even(Len(file))
        BY <3>1, <4>1 DEF CalmInv
      <4>5. SerialLog' /\ Even(Len(file'))
        BY <3>1, <2>2, <4>3, <4>4 DEF SerialLog
      <4> QED
        BY <4>2, <4>5 DEF CalmInv
    <3>2. CASE ~(calm /\ InFlight = {})
      BY <2>2, <3>2, CalmFrame
    <3> QED
      BY <3>1, <3>2
  <2> QED
    BY <1>2, <2>1, <2>2 DEF BeginAppend
<1>3. ASSUME NEW w \in Writers, TakeSeq(w), calm
      PROVE  CalmInv'
  <2>1. /\ step[w] = "start" /\ UNCHANGED <<file, calm>>
        /\ \A u \in Writers : u # w => step[u] = "idle"
    BY <1>3 DEF TakeSeq, CalmInv
  <2>2. SerialLog /\ Even(Len(file))
    BY <1>3, <2>1 DEF CalmInv
  <2>3. PICK m \in Nat : Len(file) = 2 * m
    BY <2>2 DEF Even
  <2>4. NextSeq(file) = m + 1
    BY <1>3, <2>2, <2>3, NextSeqOfCalm
  <2>5. /\ step' = [step EXCEPT ![w] = "numbered"]
        /\ number' = [number EXCEPT ![w] = m + 1]
    BY <1>3, <2>4 DEF TakeSeq
  <2>6. /\ \A u \in Writers : step'[u] = IF u = w THEN "numbered" ELSE "idle"
        /\ number'[w] = m + 1
    BY <2>1, <2>5, <1>0 DEF PcType
  <2>7. SerialLog' /\ Even(Len(file')) /\ 2 * number'[w] = Len(file') + 2
    BY <1>3, <2>1, <2>2, <2>3, <2>6 DEF SerialLog
  <2> QED
    BY <2>6, <2>7 DEF CalmInv
<1>4. ASSUME NEW w \in Writers, WriteLine(w), calm
      PROVE  CalmInv'
  <2>1. CASE calm' = FALSE
    BY <2>1, CalmFrame
  <2>2. CASE /\ file' = Append(file, [seq |-> number[w], by |-> w, nth |-> count[w]])
             /\ step' = [step EXCEPT ![w] = "written"]
             /\ UNCHANGED <<leg, calm, faults>>
    <3>1. /\ step[w] = "numbered"
          /\ \A u \in Writers : u # w => step[u] = "idle"
      BY <1>4 DEF WriteLine, CalmInv
    <3>2. SerialLog /\ Even(Len(file)) /\ 2 * number[w] = Len(file) + 2
      BY <1>4, <3>1 DEF CalmInv
    <3>3. /\ Len(file') = Len(file) + 1
          /\ \A i \in 1..Len(file) : file'[i] = file[i]
          /\ file'[Len(file) + 1].seq = number[w]
      BY <2>2, <1>0
    <3>4. \A u \in Writers : step'[u] = IF u = w THEN "written" ELSE "idle"
      BY <2>2, <3>1, <1>0 DEF PcType
    <3>5. SerialLog'
      <4>1. ASSUME NEW k \in 1..Len(file')
            PROVE  /\ 2*k - 1 <= Len(file') => file'[2*k - 1].seq = k
                   /\ 2*k <= Len(file') => file'[2*k] = LineBreak
        <5>1. CASE 2*k - 1 = Len(file) + 1
          BY <5>1, <3>2, <3>3, <1>0
        <5>2. CASE 2*k - 1 # Len(file) + 1
          <6>1. PICK m \in Nat : Len(file) = 2*m
            BY <3>2 DEF Even
          <6>2. 2*k <= Len(file) + 1 => k \in 1..Len(file) /\ 2*k <= Len(file)
            BY <6>1, <3>3
          <6>3. 2*k - 1 <= Len(file) + 1 => 2*k - 1 <= Len(file) /\ k \in 1..Len(file)
            BY <5>2, <6>1, <3>3
          <6>4. 2*k - 1 <= Len(file) + 1 => file[2*k - 1].seq = k /\ 2*k - 1 \in 1..Len(file)
            BY <6>3, <3>2, <1>4 DEF SerialLog
          <6>5. 2*k <= Len(file) + 1 => file[2*k] = LineBreak /\ 2*k \in 1..Len(file)
            BY <6>2, <3>2, <1>4 DEF SerialLog
          <6> QED
            BY <6>4, <6>5, <3>3
        <5> QED
          BY <5>1, <5>2
      <4> QED
        BY <4>1 DEF SerialLog
    <3>6. Odd(Len(file'))
      BY <3>2, <3>3 DEF Even, Odd
    <3> QED
      BY <3>1, <3>4, <3>5, <3>6 DEF CalmInv
  <2> QED
    BY <1>4, <2>1, <2>2 DEF WriteLine
<1>5. ASSUME NEW w \in Writers, EndLine(w), calm
      PROVE  CalmInv'
  <2>1. CASE calm' = FALSE
    BY <2>1, CalmFrame
  <2>2. CASE /\ file' = Append(file, LineBreak)
             /\ step' = [step EXCEPT ![w] = "appended"]
             /\ UNCHANGED <<leg, calm, faults>>
    <3>1. /\ step[w] = "written"
          /\ \A u \in Writers : u # w => step[u] = "idle"
      BY <1>5 DEF EndLine, CalmInv
    <3>2. SerialLog /\ Odd(Len(file))
      BY <1>5, <3>1 DEF CalmInv
    <3>3. /\ Len(file') = Len(file) + 1
          /\ \A i \in 1..Len(file) : file'[i] = file[i]
          /\ file'[Len(file) + 1] = LineBreak
      BY <2>2, <1>0
    <3>4. \A u \in Writers : step'[u] = IF u = w THEN "appended" ELSE "idle"
      BY <2>2, <3>1, <1>0 DEF PcType
    <3>5. PICK m \in Nat : Len(file) = 2*m + 1
      BY <3>2 DEF Odd
    <3>6. SerialLog'
      <4>1. ASSUME NEW k \in 1..Len(file')
            PROVE  /\ 2*k - 1 <= Len(file') => file'[2*k - 1].seq = k
                   /\ 2*k <= Len(file') => file'[2*k] = LineBreak
        <5>1. 2*k - 1 <= Len(file') => k \in 1..Len(file) /\ 2*k - 1 \in 1..Len(file)
          BY <3>3, <3>5
        <5>2. 2*k - 1 <= Len(file') => file'[2*k - 1].seq = k
          BY <5>1, <3>2, <3>3, <1>5 DEF SerialLog
        <5>3. 2*k <= Len(file) => k \in 1..Len(file) /\ 2*k \in 1..Len(file)
          BY <3>3, <3>5
        <5>4. 2*k <= Len(file) => file[2*k] = LineBreak
          BY <5>3, <3>2, <1>5 DEF SerialLog
        <5> QED
          BY <5>2, <5>3, <5>4, <3>3, <3>5
      <4> QED
        BY <4>1 DEF SerialLog
    <3>7. Even(Len(file'))
      <4>1. Len(file') = 2 * (m + 1) /\ m + 1 \in Nat
        BY <3>3, <3>5
      <4> QED
        BY <4>1 DEF Even
    <3> QED
      BY <3>1, <3>4, <3>6, <3>7 DEF CalmInv
  <2> QED
    BY <1>5, <2>1, <2>2 DEF EndLine
<1>6. ASSUME NEW w \in Writers, Finish(w) \/ KillWriter(w)
      PROVE  CalmInv'
  <2>1. CASE Finish(w)
    <3>1. /\ UNCHANGED <<file, number, calm>>
          /\ \A u \in Writers : IF u = w THEN step[u] = "appended" /\ step'[u] = "idle"
                                         ELSE step'[u] = step[u]
      BY <2>1, <1>0 DEF Finish, PcType
    <3> QED
      BY <3>1, CalmFrame
  <2>2. CASE KillWriter(w)
    BY <2>2, CalmFrame DEF KillWriter
  <2> QED
    BY <1>6, <2>1, <2>2
<1>7. CASE DaemonDies
  <2>1. CASE calm /\ InDaemon = {}
    <3>1. UNCHANGED <<file, number>> /\ \A u \in Writers : step'[u] = step[u]
      BY <1>7, <2>1 DEF DaemonDies
    <3> QED
      BY <2>1, <3>1, CalmFrame
  <2>2. CASE ~(calm /\ InDaemon = {})
    BY <1>7, <2>2, CalmFrame DEF DaemonDies
  <2> QED
    BY <2>1, <2>2
<1>8. CASE DaemonStarts
  BY <1>8, CalmFrame DEF DaemonStarts
<1>9. ASSUME NEW w \in Writers, Step(w), ~calm
      PROVE  CalmInv'
  <2>1. ~calm'
    BY <1>9 DEF Step, TakeSeq, WriteLine, EndLine, Finish
  <2> QED
    BY <2>1 DEF CalmInv
<1> QED
  BY <1>1, <1>2, <1>3, <1>4, <1>5, <1>6, <1>7, <1>8, <1>9 DEF LogNext, Step

\* SerialLog: as long as appends come one after the other, by whichever
\* processes, the file holds one event to a line, numbered 1, 2, 3, ...
THEOREM CalmLogIsSerial == LogSpec => []SerialLog
<1>1. LogInit => CalmInv
  BY DEF LogInit, CalmInv, SerialLog, Even
<1>2. CalmInv => SerialLog
  BY DEF CalmInv, SerialLog
<1> QED
  BY <1>1, <1>2, TypeCorrect, CalmInvariant, PTL DEF LogSpec

-----------------------------------------------------------------------------
\* How often an event is written

Times(w, n) == Cardinality(Copies(w, n))

\* FallbackEventAppender has given up on the daemon, or never had one.
Alone(w) == Mode[w] = "auto" /\ leg[w] = "own"
AtMost(w) == IF Mode[w] = "auto" /\ faults > 0 THEN 2 ELSE 1

\* Before it is written by a leg an event is in the file only if the leg before has
\* failed, and behind its line it is there.
WrittenBy(w) ==
    /\ \A n \in Nat : n > count[w] => Times(w, n) = 0
    /\ \A n \in Nat : Times(w, n) <= AtMost(w)
    /\ step[w] \in {"start", "numbered"} =>
          \/ Times(w, count[w]) = 0
          \/ Times(w, count[w]) = 1 /\ Alone(w) /\ faults > 0
    /\ step[w] \in {"written", "appended"} =>
          /\ Times(w, count[w]) >= 1
          /\ Alone(w) \/ Times(w, count[w]) = 1
    /\ \A n \in Nat : <<w, n>> \in acked => Times(w, n) >= 1

CopiesInv == \A w \in Writers : WrittenBy(w)

LEMMA TimesType ==
    ASSUME TypeOK, NEW w \in Writers, NEW n \in Nat
    PROVE  IsFiniteSet(Copies(w, n)) /\ Times(w, n) \in Nat
<1>1. Len(file) \in Nat
  BY DEF TypeOK
<1>2. IsFiniteSet(1..Len(file))
  BY <1>1, FS_Interval
<1>3. Copies(w, n) \subseteq 1..Len(file)
  BY DEF Copies
<1> QED BY <1>2, <1>3, FS_Subset, FS_CardinalityType DEF Times

LEMMA TimesSame ==
    ASSUME file' = file
    PROVE  \A w, n : Times(w, n)' = Times(w, n)
<1>1. SUFFICES ASSUME NEW w, NEW n PROVE Times(w, n)' = Times(w, n)
  OBVIOUS
<1>2. Copies(w, n)' = Copies(w, n)
  BY DEF Copies
<1> QED BY <1>2 DEF Times

LEMMA TimesAppend ==
    ASSUME TypeOK, NEW t \in Tokens, file' = Append(file, t),
           NEW w \in Writers, NEW n \in Nat
    PROVE  Times(w, n)' = IF t.by = w /\ t.nth = n THEN Times(w, n) + 1 ELSE Times(w, n)
<1>1. /\ file \in Seq(Tokens) /\ Len(file) \in Nat
      /\ Len(file') = Len(file) + 1
      /\ \A i \in 1..Len(file) : file'[i] = file[i]
      /\ file'[Len(file) + 1] = t
  BY DEF TypeOK, Tokens
<1>2. 1..Len(file') = 1..Len(file) \cup {Len(file) + 1}
  BY <1>1
<1>3. Copies(w, n)' = IF t.by = w /\ t.nth = n THEN Copies(w, n) \cup {Len(file) + 1}
                                               ELSE Copies(w, n)
  BY <1>1, <1>2 DEF Copies
<1>4. Len(file) + 1 \notin Copies(w, n)
  BY <1>1 DEF Copies
<1>5. IsFiniteSet(Copies(w, n))
  BY TimesType
<1>6. Cardinality(Copies(w, n) \cup {Len(file) + 1}) = Cardinality(Copies(w, n)) + 1
  BY <1>4, <1>5, FS_AddElement
<1> QED BY <1>3, <1>6 DEF Times

\* A newline and a torn piece are nobody's event.
LEMMA TimesOfOthers ==
    ASSUME TypeOK, NEW t \in {LineBreak} \cup Pieces, file' = Append(file, t)
    PROVE  \A w \in Writers, n \in Nat : Times(w, n)' = Times(w, n)
<1>1. t \in Tokens /\ t.by = NoWriter
  BY DEF Tokens, LineBreak, Pieces, Torn, Garbled
<1>2. NoWriter \notin Writers
  BY WritersAssumption DEF WritersAssumption
<1> QED BY <1>1, <1>2, TimesAppend

\* A writer that does nothing in a step keeps its part.
LEMMA BystanderKeeps ==
    ASSUME TypeOK, NEW w \in Writers, WrittenBy(w),
           step'[w] = step[w], leg'[w] = leg[w], count'[w] = count[w],
           faults' \in Nat, faults' >= faults,
           \A n \in Nat : Times(w, n)' = Times(w, n),
           \A n \in Nat : <<w, n>> \in acked' => <<w, n>> \in acked
    PROVE  WrittenBy(w)'
<1>1. count[w] \in Nat /\ faults \in Nat
  BY DEF TypeOK
<1>2. \A n \in Nat : Times(w, n) \in Nat
  BY TimesType
<1>3. Alone(w)' = Alone(w)
  BY DEF Alone
<1>4. AtMost(w) \in Nat /\ AtMost(w)' \in Nat /\ AtMost(w) <= AtMost(w)'
  BY <1>1 DEF AtMost
<1> QED BY <1>1, <1>2, <1>3, <1>4 DEF WrittenBy

\* What a step that ends the append or sends it to its other leg needs.
LEMMA GiveUpKeeps ==
    ASSUME TypeOK, NEW w \in Writers, WrittenBy(w), GiveUp(w),
           step[w] \in {"start", "numbered", "written"}, count' = count, acked' = acked,
           \/ Fault
           \/ faults' = faults /\ step[w] = "start",
           \A n \in Nat : Times(w, n)' = Times(w, n)
    PROVE  WrittenBy(w)'
<1>1. count[w] \in Nat /\ faults \in Nat /\ faults' \in Nat /\ faults' >= faults
  BY DEF TypeOK, Fault
<1>2. \A n \in Nat : Times(w, n) \in Nat
  BY TimesType
<1>3. AtMost(w) \in Nat /\ AtMost(w)' \in Nat /\ AtMost(w) <= AtMost(w)'
  BY <1>1 DEF AtMost
<1>4. CASE Mode[w] = "auto" /\ leg[w] = "daemon"
  <2>1. step'[w] = "start" /\ leg'[w] = "own" /\ ~Alone(w) /\ Alone(w)'
    BY <1>4 DEF GiveUp, TypeOK, Alone
  <2>2. CASE Times(w, count[w]) = 0
    BY <1>1, <1>2, <1>3, <2>1, <2>2 DEF WrittenBy
  <2>3. CASE Times(w, count[w]) # 0
    <3>1. step[w] = "written" /\ Times(w, count[w]) = 1
      BY <1>1, <1>2, <2>1, <2>3 DEF WrittenBy
    <3>2. faults' > 0
      BY <1>1, <3>1 DEF Fault
    <3> QED BY <1>1, <1>2, <1>3, <2>1, <3>1, <3>2 DEF WrittenBy
  <2> QED BY <2>2, <2>3
<1>5. CASE ~(Mode[w] = "auto" /\ leg[w] = "daemon")
  <2>1. step'[w] = "idle"
    BY <1>5 DEF GiveUp, TypeOK
  <2> QED BY <1>1, <1>2, <1>3, <2>1 DEF WrittenBy
<1> QED BY <1>4, <1>5

\* A step of the append of one writer keeps the parts of all.
LEMMA StepWrites ==
    ASSUME TypeOK, CopiesInv, NEW w \in Writers, Step(w)
    PROVE  CopiesInv'
<1> SUFFICES ASSUME NEW u \in Writers
             PROVE  WrittenBy(u)'
  BY DEF CopiesInv
<1>1. /\ WrittenBy(u) /\ count' = count /\ faults \in Nat
      /\ count[u] \in Nat /\ count[w] \in Nat
      /\ step = [v \in Writers |-> step[v]] /\ leg = [v \in Writers |-> leg[v]]
  BY DEF CopiesInv, TypeOK, Step, TakeSeq, WriteLine, EndLine, Finish
<1>2. /\ faults' \in Nat /\ faults' >= faults
      /\ u # w => step'[u] = step[u] /\ leg'[u] = leg[u]
  BY <1>1 DEF Step, TakeSeq, WriteLine, EndLine, Finish, GiveUp, Fault
<1>3. CASE TakeSeq(w)
  <2>1. (\A n \in Nat : Times(u, n)' = Times(u, n)) /\ acked' = acked /\ faults' = faults
    BY <1>3, TimesSame DEF TakeSeq
  <2>2. CASE u # w
    BY <1>1, <1>2, <2>1, <2>2, BystanderKeeps
  <2>3. CASE u = w /\ GiveUp(w)
    BY <1>1, <1>3, <2>1, <2>3, GiveUpKeeps DEF TakeSeq
  <2>4. CASE u = w /\ step' = [step EXCEPT ![w] = "numbered"] /\ leg' = leg
    <3>1. step[u] = "start" /\ step'[u] = "numbered"
      BY <1>1, <1>3, <2>4 DEF TakeSeq
    <3>2. Alone(u)' = Alone(u) /\ AtMost(u)' = AtMost(u)
      BY <2>1, <2>4 DEF Alone, AtMost
    <3> QED BY <1>1, <2>1, <3>1, <3>2 DEF WrittenBy
  <2> QED BY <1>3, <2>2, <2>3, <2>4 DEF TakeSeq
<1>4. CASE WriteLine(w)
  <2>1. CASE Fault /\ (\E t \in Pieces : file' = Append(file, t)) /\ GiveUp(w)
    <3>1. (\A n \in Nat : Times(u, n)' = Times(u, n)) /\ acked' = acked
      BY <1>4, <2>1, TimesOfOthers DEF WriteLine
    <3>2. CASE u # w
      BY <1>1, <1>2, <3>1, <3>2, BystanderKeeps
    <3>3. CASE u = w
      BY <1>1, <1>4, <2>1, <3>1, <3>3, GiveUpKeeps DEF WriteLine
    <3> QED BY <3>2, <3>3
  <2>2. CASE /\ file' = Append(file, [seq |-> number[w], by |-> w, nth |-> count[w]])
             /\ step' = [step EXCEPT ![w] = "written"]
             /\ UNCHANGED <<leg, calm, faults>>
    <3> DEFINE t == [seq |-> number[w], by |-> w, nth |-> count[w]]
    <3>1. t \in Tokens /\ t.by = w /\ t.nth = count[w]
      <4>1. number[w] \in Nat \ {0}
        BY <1>4 DEF WriteLine, TypeOK
      <4> QED BY <1>1, <4>1 DEF Tokens, Events
    <3> HIDE DEF t
    <3>2. \A n \in Nat : Times(u, n)' = IF u = w /\ n = count[w] THEN Times(u, n) + 1
                                                                 ELSE Times(u, n)
      BY <2>2, <3>1, TimesAppend DEF t
    <3>3. acked' = acked /\ faults' = faults /\ leg' = leg /\ step[w] = "numbered"
      BY <1>4, <2>2 DEF WriteLine
    <3>4. CASE u # w
      BY <1>1, <1>2, <3>2, <3>3, <3>4, BystanderKeeps
    <3>5. CASE u = w
      <4>1. step'[u] = "written" /\ Alone(u)' = Alone(u) /\ AtMost(u)' = AtMost(u)
        BY <1>1, <2>2, <3>3, <3>5 DEF Alone, AtMost
      <4>2. \/ Times(u, count[u]) = 0
            \/ Times(u, count[u]) = 1 /\ Alone(u) /\ AtMost(u) = 2
        BY <1>1, <3>3, <3>5 DEF WrittenBy, Alone, AtMost
      <4>3. \/ Times(u, count[u])' = 1
            \/ Times(u, count[u])' = 2 /\ Alone(u) /\ AtMost(u) = 2
        BY <1>1, <3>2, <3>5, <4>2
      <4>4. \A n \in Nat \ {count[u]} : Times(u, n)' = Times(u, n)
        BY <3>2, <3>5
      <4>5. AtMost(u) \in {1, 2} /\ count'[u] = count[u]
        BY <1>1 DEF AtMost
      <4>6. \A n \in Nat : n > count[u] => Times(u, n)' = 0
        BY <1>1, <4>4 DEF WrittenBy
      <4>7. \A n \in Nat : Times(u, n)' <= AtMost(u)'
        BY <1>1, <4>1, <4>3, <4>4, <4>5 DEF WrittenBy
      <4>8. \A n \in Nat : <<u, n>> \in acked' => Times(u, n)' >= 1
        BY <1>1, <3>3, <4>3, <4>4 DEF WrittenBy
      <4> QED BY <1>1, <4>1, <4>3, <4>5, <4>6, <4>7, <4>8 DEF WrittenBy
    <3> QED BY <3>4, <3>5
  <2> QED BY <1>4, <2>1, <2>2 DEF WriteLine
<1>5. CASE EndLine(w)
  <2>1. (\A n \in Nat : Times(u, n)' = Times(u, n)) /\ acked' = acked /\ step[w] = "written"
    BY <1>5, TimesSame, TimesOfOthers DEF EndLine
  <2>2. CASE u # w
    BY <1>1, <1>2, <2>1, <2>2, BystanderKeeps
  <2>3. CASE u = w /\ Fault /\ GiveUp(w)
    BY <1>1, <2>1, <2>3, GiveUpKeeps
  <2>4. CASE u = w /\ step' = [step EXCEPT ![w] = "appended"] /\ UNCHANGED <<leg, faults>>
    <3>1. step'[u] = "appended" /\ Alone(u)' = Alone(u) /\ AtMost(u)' = AtMost(u)
      BY <1>1, <2>4 DEF Alone, AtMost
    <3> QED BY <1>1, <2>1, <2>4, <3>1 DEF WrittenBy
  <2> QED BY <1>5, <2>2, <2>3, <2>4 DEF EndLine
<1>6. CASE Finish(w)
  <2>1. /\ \A n \in Nat : Times(u, n)' = Times(u, n)
        /\ acked' = acked \cup {<<w, count[w]>>} /\ step[w] = "appended"
        /\ step' = [step EXCEPT ![w] = "idle"] /\ leg' = leg /\ faults' = faults
    BY <1>6, TimesSame DEF Finish
  <2>2. CASE u # w
    <3>1. \A n \in Nat : <<u, n>> \in acked' => <<u, n>> \in acked
      BY <2>1, <2>2
    <3> QED BY <1>1, <1>2, <2>1, <2>2, <3>1, BystanderKeeps
  <2>3. CASE u = w
    <3>1. step'[u] = "idle" /\ AtMost(u)' = AtMost(u) /\ Times(u, count[u]) >= 1
      BY <1>1, <2>1, <2>3 DEF AtMost, WrittenBy
    <3>2. \A n \in Nat : <<u, n>> \in acked' => Times(u, n)' >= 1
      BY <1>1, <2>1, <2>3, <3>1 DEF WrittenBy
    <3> QED BY <1>1, <2>1, <3>1, <3>2 DEF WrittenBy
  <2> QED BY <2>2, <2>3
<1> QED BY <1>3, <1>4, <1>5, <1>6 DEF Step

LEMMA CopiesInvariant == TypeOK /\ CopiesInv /\ [LogNext]_logVars => CopiesInv'
<1> SUFFICES ASSUME TypeOK, CopiesInv, [LogNext]_logVars
             PROVE  CopiesInv'
  OBVIOUS
<1>1. /\ step = [v \in Writers |-> step[v]] /\ leg = [v \in Writers |-> leg[v]]
      /\ count = [v \in Writers |-> count[v]] /\ faults \in Nat
      /\ \A v \in Writers : count[v] \in Nat
  BY DEF TypeOK
<1>2. \A v \in Writers, n \in Nat : Times(v, n) \in Nat
  BY TimesType
<1>3. CASE Idle \/ UNCHANGED logVars
  <2>1. /\ step' = step /\ leg' = leg /\ count' = count /\ acked' = acked /\ faults' = faults
        /\ file' = file
    BY <1>3 DEF Idle, logVars
  <2> QED BY <1>1, <2>1, TimesSame, BystanderKeeps DEF CopiesInv
<1>4. CASE DaemonStarts
  BY <1>1, <1>4, TimesSame, BystanderKeeps DEF CopiesInv, DaemonStarts
<1>5. ASSUME NEW w \in Writers, BeginAppend(w)
      PROVE  CopiesInv'
  <2> SUFFICES ASSUME NEW u \in Writers
               PROVE  WrittenBy(u)'
    BY DEF CopiesInv
  <2>1. /\ \A n \in Nat : Times(u, n)' = Times(u, n)
        /\ acked' = acked /\ faults' = faults /\ step[w] = "idle"
        /\ count' = [count EXCEPT ![w] = @ + 1]
        /\ WrittenBy(u)
    BY <1>5, TimesSame DEF BeginAppend, CopiesInv
  <2>2. CASE u # w
    <3>1. step'[u] = step[u] /\ leg'[u] = leg[u] /\ count'[u] = count[u]
      BY <1>1, <1>5, <2>1, <2>2 DEF BeginAppend
    <3> QED BY <1>1, <2>1, <3>1, BystanderKeeps
  <2>3. CASE u = w
    <3>1. count'[u] = count[u] + 1 /\ step'[u] \in {"idle", "start"} /\ AtMost(u)' = AtMost(u)
      BY <1>1, <1>5, <2>1, <2>3 DEF BeginAppend, AtMost
    <3>2. Times(u, count[u] + 1) = 0
      BY <1>1, <2>1 DEF WrittenBy
    <3>3. \A n \in Nat : n > count[u] + 1 => n > count[u]
      BY <1>1
    <3> QED BY <1>1, <2>1, <3>1, <3>2, <3>3 DEF WrittenBy
  <2> QED BY <2>2, <2>3
<1>6. ASSUME NEW w \in Writers, KillWriter(w)
      PROVE  CopiesInv'
  <2> SUFFICES ASSUME NEW u \in Writers
               PROVE  WrittenBy(u)'
    BY DEF CopiesInv
  <2>1. /\ \A n \in Nat : Times(u, n)' = Times(u, n)
        /\ acked' = acked /\ faults' = faults + 1 /\ count' = count /\ leg' = leg
        /\ step' = [step EXCEPT ![w] = "idle"]
        /\ WrittenBy(u)
    BY <1>6, TimesSame DEF KillWriter, Fault, CopiesInv
  <2>2. CASE u # w
    BY <1>1, <2>1, <2>2, BystanderKeeps
  <2>3. CASE u = w
    <3>1. step'[u] = "idle"
      BY <1>1, <2>1, <2>3
    <3>2. AtMost(u) \in Nat /\ AtMost(u)' \in Nat /\ AtMost(u) <= AtMost(u)'
      BY <1>1, <2>1 DEF AtMost
    <3> QED BY <1>1, <1>2, <2>1, <3>1, <3>2 DEF WrittenBy
  <2> QED BY <2>2, <2>3
<1>7. CASE DaemonDies
  <2> SUFFICES ASSUME NEW u \in Writers
               PROVE  WrittenBy(u)'
    BY DEF CopiesInv
  <2>1. /\ \A n \in Nat : Times(u, n)' = Times(u, n)
        /\ acked' = acked /\ faults' = faults + 1 /\ count' = count
        /\ WrittenBy(u)
    BY <1>7, TimesSame DEF DaemonDies, Fault, CopiesInv
  <2>2. AtMost(u) \in Nat /\ AtMost(u)' \in Nat /\ AtMost(u) <= AtMost(u)'
    BY <1>1, <2>1 DEF AtMost
  <2>3. CASE u \notin InDaemon
    <3>1. step'[u] = step[u] /\ leg'[u] = leg[u]
      BY <1>7, <2>3 DEF DaemonDies
    <3> QED BY <1>1, <2>1, <3>1, BystanderKeeps
  <2>4. CASE u \in InDaemon /\ Mode[u] = "auto"
    <3>1. step'[u] = "start" /\ leg'[u] = "own"
      BY <1>7, <2>4 DEF DaemonDies
    <3>2. Alone(u)' /\ ~Alone(u) /\ faults' > 0
      BY <1>1, <2>1, <2>4, <3>1 DEF Alone, InDaemon
    <3>3. step[u] \in {"start", "numbered", "written", "appended"}
      BY <2>4 DEF InDaemon, InFlight, TypeOK
    <3>4. Times(u, count[u]) \in {0, 1}
      BY <2>1, <3>2, <3>3 DEF WrittenBy
    <3> QED BY <1>1, <1>2, <2>1, <2>2, <3>1, <3>2, <3>4 DEF WrittenBy
  <2>5. CASE u \in InDaemon /\ Mode[u] # "auto"
    <3>1. step'[u] = "idle"
      BY <1>7, <2>5 DEF DaemonDies
    <3> QED BY <1>1, <1>2, <2>1, <2>2, <3>1 DEF WrittenBy
  <2> QED BY <2>3, <2>4, <2>5
<1> QED
  BY <1>3, <1>4, <1>5, <1>6, <1>7, StepWrites DEF LogNext

\* WrittenOnce: an append that was acknowledged is in the file, and an event is there twice
\* only if FallbackEventAppender repeated what the daemon had written before it failed.
THEOREM EveryEventIsWrittenOnce == LogSpec => []WrittenOnce
<1>1. LogInit => CopiesInv
  <2> SUFFICES ASSUME LogInit PROVE CopiesInv
    OBVIOUS
  <2>1. \A w \in Writers, n \in Nat : Times(w, n) = 0
    <3>1. \A w, n : Copies(w, n) = {}
      <4>1. Len(file) = 0
        BY DEF LogInit
      <4> QED BY <4>1 DEF Copies
    <3> QED BY <3>1, FS_EmptySet DEF Times
  <2>2. \A w \in Writers : step[w] = "idle" /\ AtMost(w) \in {1, 2}
    BY DEF LogInit, AtMost
  <2> QED BY <2>1, <2>2 DEF CopiesInv, WrittenBy, LogInit
<1>2. TypeOK /\ CopiesInv => WrittenOnce
  <2> SUFFICES ASSUME TypeOK, CopiesInv, NEW w \in Writers, NEW n \in 1..count[w]
               PROVE  /\ <<w, n>> \in acked => Copies(w, n) # {}
                      /\ Cardinality(Copies(w, n)) <=
                             IF Mode[w] = "auto" /\ faults > 0 THEN 2 ELSE 1
    BY DEF WrittenOnce
  <2>1. n \in Nat /\ WrittenBy(w)
    BY DEF TypeOK, CopiesInv
  <2>2. Times(w, n) <= AtMost(w) /\ (<<w, n>> \in acked => Times(w, n) >= 1)
    BY <2>1 DEF WrittenBy
  <2>3. Times(w, n) = 0 \/ Copies(w, n) # {}
    BY FS_EmptySet DEF Times
  <2> QED BY <2>2, <2>3 DEF Times, AtMost
<1> QED
  BY <1>1, <1>2, TypeCorrect, CopiesInvariant, PTL DEF LogSpec

-----------------------------------------------------------------------------
\* The events of a file

\* g tells the events of each beginning of f up to n.
Tells(f, n, g) ==
    g = [i \in 0..n |-> IF i = 0 THEN <<>>
                        ELSE IF IsEvent(f[i]) THEN Append(g[i - 1], f[i]) ELSE g[i - 1]]

LEMMA TellsIs ==
    ASSUME NEW f, NEW n \in Nat, NEW g, Tells(f, n, g)
    PROVE  /\ g[0] = <<>>
           /\ \A i \in 1..n :
                g[i] = IF IsEvent(f[i]) THEN Append(g[i - 1], f[i]) ELSE g[i - 1]
<1>1. \A i \in 0..n : g[i] = IF i = 0 THEN <<>>
                             ELSE IF IsEvent(f[i]) THEN Append(g[i - 1], f[i]) ELSE g[i - 1]
  BY Zenon DEF Tells
<1>2. 0 \in 0..n /\ \A i \in 1..n : i \in 0..n /\ i # 0
  OBVIOUS
<1> QED BY <1>1, <1>2

\* Files that begin alike tell the same of their beginnings.
LEMMA TellSame ==
    ASSUME NEW f, NEW h, NEW n \in Nat, NEW m \in Nat, n <= m,
           \A i \in 1..n : h[i] = f[i],
           NEW g, Tells(f, n, g), NEW k, Tells(h, m, k)
    PROVE  \A i \in 0..n : k[i] = g[i]
<1> DEFINE Differ == {i \in 0..n : k[i] # g[i]}
<1> SUFFICES ASSUME Differ # {} PROVE FALSE
  OBVIOUS
<1>1. Differ \subseteq Nat
  OBVIOUS
<1> HIDE DEF Differ
<1>2. PICK x \in Differ : \A y \in Differ : ~(<<y, x>> \in OpToRel(<, Nat))
  BY <1>1, WFMin, NatLessThanWellFounded
<1>3. \A y \in Differ : ~(y < x)
  BY <1>1, <1>2 DEF OpToRel
<1> USE DEF Differ
<1>4. x # 0
  BY TellsIs
<1>5. x \in 1..n /\ x \in 1..m /\ x - 1 \in 0..n /\ x - 1 < x
  BY <1>4
<1>6. k[x - 1] = g[x - 1]
  BY <1>3, <1>5
<1>7. k[x] = g[x]
  BY <1>5, <1>6, TellsIs
<1> QED BY <1>7

\* Every file has its events, beginning by beginning.
LEMMA TellExists ==
    ASSUME NEW f
    PROVE  \A n \in Nat : \E g : Tells(f, n, g)
<1> DEFINE Lost == {n \in Nat : ~\E g : Tells(f, n, g)}
<1> SUFFICES ASSUME Lost # {} PROVE FALSE
  OBVIOUS
<1>1. Lost \subseteq Nat
  OBVIOUS
<1> HIDE DEF Lost
<1>2. PICK x \in Lost : \A y \in Lost : ~(<<y, x>> \in OpToRel(<, Nat))
  BY <1>1, WFMin, NatLessThanWellFounded
<1>3. \A y \in Lost : ~(y < x)
  BY <1>1, <1>2 DEF OpToRel
<1> USE DEF Lost
<1>4. x # 0
  <2>1. Tells(f, 0, [i \in 0..0 |-> <<>>])
    BY DEF Tells
  <2> QED BY <2>1
<1>5. x \in Nat /\ x - 1 \in Nat /\ x - 1 < x
  BY <1>4
<1>6. PICK g : Tells(f, x - 1, g)
  BY <1>3, <1>5
<1>7. /\ g[0] = <<>>
      /\ \A i \in 1..(x - 1) :
           g[i] = IF IsEvent(f[i]) THEN Append(g[i - 1], f[i]) ELSE g[i - 1]
  BY <1>5, <1>6, TellsIs
<1> DEFINE last == IF IsEvent(f[x]) THEN Append(g[x - 1], f[x]) ELSE g[x - 1]
           k == [i \in 0..x |-> IF i = x THEN last ELSE g[i]]
<1> HIDE DEF last
<1>8. \A i \in 0..x : k[i] = IF i = 0 THEN <<>>
                             ELSE IF IsEvent(f[i]) THEN Append(k[i - 1], f[i]) ELSE k[i - 1]
  <2> SUFFICES ASSUME NEW i \in 0..x
               PROVE  k[i] = IF i = 0 THEN <<>>
                             ELSE IF IsEvent(f[i]) THEN Append(k[i - 1], f[i]) ELSE k[i - 1]
    OBVIOUS
  <2>1. CASE i = 0
    BY <1>4, <1>7, <2>1
  <2>2. CASE i = x
    <3>1. k[x] = last /\ k[x - 1] = g[x - 1]
      BY <1>5
    <3> QED BY <1>4, <2>2, <3>1 DEF last
  <2>3. CASE i # 0 /\ i # x
    <3>1. i \in 1..(x - 1) /\ i - 1 \in 0..x /\ i - 1 # x
      BY <1>5, <2>3
    <3>2. k[i] = g[i] /\ k[i - 1] = g[i - 1]
      BY <2>3, <3>1
    <3> QED BY <1>7, <2>3, <3>1, <3>2
  <2> QED BY <2>1, <2>2, <2>3
<1>9. Tells(f, x, k)
  <2>1. k = [i \in 0..x |-> k[i]]
    OBVIOUS
  <2> HIDE DEF k
  <2> QED BY <1>8, <2>1, Zenon DEF Tells
<1> QED BY <1>9

LEMMA EventsTell ==
    ASSUME NEW f, Len(f) \in Nat
    PROVE  \E g : Tells(f, Len(f), g) /\ EventsOf(f) = g[Len(f)]
<1> DEFINE c == CHOOSE g : Tells(f, Len(f), g)
<1>1. Tells(f, Len(f), c)
  BY TellExists
<1>2. EventsOf(f) = c[Len(f)]
  BY DEF EventsOf, Tells
<1> QED BY <1>1, <1>2

\* What is appended adds itself, if it is an event.
LEMMA EventsAppend ==
    ASSUME NEW f \in Seq(Tokens), NEW t \in Tokens
    PROVE  EventsOf(Append(f, t)) = IF IsEvent(t) THEN Append(EventsOf(f), t) ELSE EventsOf(f)
<1> DEFINE n == Len(f)
           h == Append(f, t)
<1>1. n \in Nat /\ Len(h) = n + 1 /\ h[n + 1] = t /\ \A i \in 1..n : h[i] = f[i]
  OBVIOUS
<1> HIDE DEF n, h
<1>2. PICK g : Tells(f, n, g) /\ EventsOf(f) = g[n]
  BY <1>1, EventsTell DEF n
<1>3. PICK k : Tells(h, n + 1, k) /\ EventsOf(h) = k[n + 1]
  BY <1>1, EventsTell
<1>4. n + 1 \in Nat /\ n <= n + 1 /\ n \in 0..n /\ n + 1 \in 1..(n + 1) /\ (n + 1) - 1 = n
  BY <1>1
<1>5. k[n] = g[n]
  <2>1. \A i \in 0..n : k[i] = g[i]
    <3> DEFINE m == n + 1
    <3>1. m \in Nat /\ n <= m /\ Tells(h, m, k)
      BY <1>3, <1>4
    <3> HIDE DEF m
    <3> QED BY <1>1, <1>2, <3>1, TellSame
  <2> QED BY <1>4, <2>1
<1>6. k[n + 1] = IF IsEvent(t) THEN Append(k[n], t) ELSE k[n]
  <2>1. \A i \in 1..(n + 1) :
          k[i] = IF IsEvent(h[i]) THEN Append(k[i - 1], h[i]) ELSE k[i - 1]
    <3> DEFINE m == n + 1
    <3>1. m \in Nat /\ Tells(h, m, k)
      BY <1>3, <1>4
    <3> HIDE DEF m
    <3>2. \A i \in 1..m :
            k[i] = IF IsEvent(h[i]) THEN Append(k[i - 1], h[i]) ELSE k[i - 1]
      BY <3>1, TellsIs
    <3> QED BY <3>2 DEF m
  <2>2. k[n + 1] = IF IsEvent(h[n + 1]) THEN Append(k[(n + 1) - 1], h[n + 1])
                                        ELSE k[(n + 1) - 1]
    BY <1>4, <2>1, Zenon
  <2> QED BY <1>1, <1>4, <2>2
<1> QED BY <1>2, <1>3, <1>5, <1>6 DEF h

LEMMA NoEventsAtFirst == EventsOf(<<>>) = <<>>
<1>1. Len(<<>>) = 0
  OBVIOUS
<1>2. PICK g : Tells(<<>>, 0, g) /\ EventsOf(<<>>) = g[0]
  BY <1>1, EventsTell
<1> QED BY <1>2, TellsIs

\* The events of the file are events, every event of the file is among them,
\* and on a calm log every second token is one.
EventsInv ==
    /\ EventsOf(file) \in Seq(Events)
    /\ \A i \in 1..Len(file) : IsEvent(file[i]) =>
          \E k \in 1..Len(EventsOf(file)) : EventsOf(file)[k] = file[i]
    /\ calm => 2 * Len(EventsOf(file)) \in {Len(file), Len(file) + 1}

\* What a writer that has a number writes.
Line(w) == [seq |-> number[w], by |-> w, nth |-> count[w]]

\* The file grows by one token at most, and by a torn one only while it is
\* not calm any more.
LEMMA FileSteps ==
    ASSUME TypeOK, [LogNext]_logVars
    PROVE  \/ file' = file /\ (calm' = calm \/ calm' = FALSE)
           \/ \E w \in Writers : /\ step[w] = "numbered"
                                 /\ file' = Append(file, Line(w))
                                 /\ calm' = calm
           \/ (\E t \in Pieces : file' = Append(file, t)) /\ calm' = FALSE
           \/ \E w \in Writers : /\ step[w] = "written"
                                 /\ file' = Append(file, LineBreak)
                                 /\ calm' = calm
<1> DEFINE Still == file' = file /\ (calm' = calm \/ calm' = FALSE)
<1>1. CASE UNCHANGED logVars
  BY <1>1 DEF logVars
<1>2. ASSUME NEW w \in Writers, BeginAppend(w) PROVE Still
  <2>1. file' = file
    BY <1>2 DEF BeginAppend
  <2>2. calm' = calm \/ calm' = (calm /\ InFlight = {})
    BY <1>2, Zenon DEF BeginAppend
  <2>3. (calm /\ InFlight = {}) \in {calm, FALSE}
    BY Zenon DEF TypeOK
  <2> QED BY <2>1, <2>2, <2>3
<1>3. ASSUME NEW w \in Writers, TakeSeq(w) \/ Finish(w) \/ KillWriter(w) PROVE Still
  BY <1>3 DEF TakeSeq, Finish, KillWriter
<1>4. ASSUME DaemonDies PROVE Still
  <2>1. file' = file /\ calm' = (calm /\ InDaemon = {})
    BY <1>4, Zenon DEF DaemonDies
  <2>2. (calm /\ InDaemon = {}) \in {calm, FALSE}
    BY Zenon DEF TypeOK
  <2> QED BY <2>1, <2>2
<1>5. ASSUME DaemonStarts \/ Idle PROVE Still
  BY <1>5 DEF DaemonStarts, Idle, logVars
<1>6. ASSUME NEW w \in Writers, WriteLine(w)
      PROVE  \/ step[w] = "numbered" /\ file' = Append(file, Line(w)) /\ calm' = calm
             \/ (\E t \in Pieces : file' = Append(file, t)) /\ calm' = FALSE
  BY <1>6 DEF WriteLine, Line
<1>7. ASSUME NEW w \in Writers, EndLine(w)
      PROVE  \/ step[w] = "written" /\ file' = Append(file, LineBreak) /\ calm' = calm
             \/ Still
  BY <1>7 DEF EndLine
<1> HIDE DEF Still
<1>8. \/ UNCHANGED logVars \/ Still
      \/ \E w \in Writers : WriteLine(w) \/ EndLine(w)
  BY <1>2, <1>3, <1>4, <1>5, Zenon DEF LogNext, Step
<1> QED BY <1>1, <1>6, <1>7, <1>8, Zenon DEF Still

\* An event appended to a file whose events are known.
LEMMA EventAdded ==
    ASSUME file \in Seq(Tokens), EventsOf(file) \in Seq(Events),
           \A i \in 1..Len(file) : IsEvent(file[i]) =>
              \E k \in 1..Len(EventsOf(file)) : EventsOf(file)[k] = file[i],
           NEW t \in Tokens, file' = Append(file, t)
    PROVE  /\ EventsOf(file') \in Seq(Events)
           /\ \A i \in 1..Len(file') : IsEvent(file'[i]) =>
                \E k \in 1..Len(EventsOf(file')) : EventsOf(file')[k] = file'[i]
           /\ IsEvent(t) => EventsOf(file') = Append(EventsOf(file), t)
           /\ ~IsEvent(t) => EventsOf(file') = EventsOf(file)
           /\ Len(file') = Len(file) + 1
<1> DEFINE old == EventsOf(file)
<1>1. PICK new : new = EventsOf(file')
  OBVIOUS
<1>2. new = IF IsEvent(t) THEN Append(old, t) ELSE old
  BY <1>1, EventsAppend
<1>3. old \in Seq(Events) /\ Len(file) \in Nat
  OBVIOUS
<1>4. \A i \in 1..Len(file) : IsEvent(file[i]) => \E k \in 1..Len(old) : old[k] = file[i]
  OBVIOUS
<1>5. /\ Len(file') = Len(file) + 1 /\ file'[Len(file) + 1] = t
      /\ \A i \in 1..Len(file) : file'[i] = file[i]
  OBVIOUS
<1> HIDE DEF old
<1>6. CASE IsEvent(t)
  <2>1. t \in Events
    BY <1>6 DEF Tokens, LineBreak, Pieces, Torn, Garbled, IsEvent
  <2>2. /\ new = Append(old, t) /\ new \in Seq(Events) /\ Len(new) = Len(old) + 1
        /\ Len(old) \in Nat /\ new[Len(old) + 1] = t
        /\ \A k \in 1..Len(old) : new[k] = old[k]
    BY <1>2, <1>3, <1>6, <2>1
  <2>3. \A i \in 1..Len(file') : IsEvent(file'[i]) => \E k \in 1..Len(new) : new[k] = file'[i]
    <3> TAKE i \in 1..Len(file')
    <3>1. CASE i = Len(file) + 1
      BY <1>5, <2>2, <3>1
    <3>2. CASE i \in 1..Len(file)
      BY <1>4, <1>5, <2>2, <3>2
    <3> QED BY <1>3, <1>5, <3>1, <3>2
  <2> QED BY <1>1, <1>5, <1>6, <2>2, <2>3 DEF old
<1>7. CASE ~IsEvent(t)
  <2>1. new = old
    BY <1>2, <1>7
  <2>2. \A i \in 1..Len(file') : IsEvent(file'[i]) => \E k \in 1..Len(new) : new[k] = file'[i]
    <3> TAKE i \in 1..Len(file')
    <3>1. CASE i = Len(file) + 1
      BY <1>5, <1>7, <3>1
    <3>2. CASE i \in 1..Len(file)
      BY <1>4, <1>5, <2>1, <3>2
    <3> QED BY <1>3, <1>5, <3>1, <3>2
  <2> QED BY <1>1, <1>3, <1>5, <1>7, <2>1, <2>2 DEF old
<1> QED BY <1>6, <1>7

\* The line a writer writes is an event.
LEMMA LineIsEvent ==
    ASSUME TypeOK, NEW w \in Writers, step[w] = "numbered"
    PROVE  Line(w) \in Events /\ Line(w) \in Tokens /\ IsEvent(Line(w))
  BY DEF TypeOK, Line, Events, Tokens, IsEvent

LEMMA MarksAreTokens ==
    /\ LineBreak \in Tokens /\ ~IsEvent(LineBreak)
    /\ \A t \in Pieces : t \in Tokens /\ ~IsEvent(t)
  BY DEF LineBreak, Pieces, Torn, Garbled, Tokens, IsEvent

\* On a calm log a line is begun where a line ends, and ended where it is begun.
LEMMA CalmPlaces ==
    ASSUME TypeOK, CalmInv, EventsInv, calm, NEW w \in Writers
    PROVE  /\ step[w] = "numbered" => /\ 2 * Len(EventsOf(file)) = Len(file)
                                    /\ number[w] = Len(EventsOf(file)) + 1
           /\ step[w] = "written" => 2 * Len(EventsOf(file)) = Len(file) + 1
<1> DEFINE m == Len(EventsOf(file))
           n == Len(file)
<1>1. m \in Nat /\ n \in Nat /\ number[w] \in Nat
  BY DEF EventsInv, TypeOK
<1>2. 2 * m \in {n, n + 1}
  BY DEF EventsInv
<1>3. /\ step[w] = "numbered" => 2 * number[w] = n + 2
      /\ step[w] = "written" => \E k \in Nat : n = 2 * k + 1
  BY DEF CalmInv, Odd
<1> HIDE DEF m, n
<1>4. step[w] = "numbered" => 2 * m = n /\ number[w] = m + 1
  BY <1>1, <1>2, <1>3
<1>5. step[w] = "written" => 2 * m = n + 1
  BY <1>1, <1>2, <1>3
<1> QED BY <1>4, <1>5 DEF m, n

\* Every step keeps EventsInv.
LEMMA EventsInvariant ==
    TypeOK /\ CalmInv /\ EventsInv /\ [LogNext]_logVars => EventsInv'
<1> SUFFICES ASSUME TypeOK, CalmInv, EventsInv, [LogNext]_logVars
             PROVE  EventsInv'
  OBVIOUS
<1>1. /\ file \in Seq(Tokens) /\ EventsOf(file) \in Seq(Events)
      /\ \A i \in 1..Len(file) : IsEvent(file[i]) =>
           \E k \in 1..Len(EventsOf(file)) : EventsOf(file)[k] = file[i]
      /\ calm => 2 * Len(EventsOf(file)) \in {Len(file), Len(file) + 1}
  BY TypeParts DEF Data, EventsInv
<1>2. CASE file' = file /\ (calm' = calm \/ calm' = FALSE)
  BY <1>1, <1>2 DEF EventsInv
<1>3. ASSUME NEW w \in Writers, step[w] = "numbered",
             file' = Append(file, Line(w)), calm' = calm
      PROVE  EventsInv'
  <2>1. Line(w) \in Events /\ Line(w) \in Tokens /\ IsEvent(Line(w))
    BY <1>3, LineIsEvent
  <2>2. /\ EventsOf(file') \in Seq(Events)
        /\ \A i \in 1..Len(file') : IsEvent(file'[i]) =>
             \E k \in 1..Len(EventsOf(file')) : EventsOf(file')[k] = file'[i]
        /\ EventsOf(file') = Append(EventsOf(file), Line(w))
        /\ Len(file') = Len(file) + 1
    BY <1>1, <1>3, <2>1, EventAdded
  <2>3. calm => 2 * Len(EventsOf(file')) = Len(file') + 1
    <3>1. Len(EventsOf(file')) = Len(EventsOf(file)) + 1 /\ Len(EventsOf(file)) \in Nat
      BY <1>1, <2>1, <2>2
    <3>2. calm => 2 * Len(EventsOf(file)) = Len(file)
      BY <1>3, CalmPlaces
    <3>3. Len(file) \in Nat
      BY <1>1
    <3> DEFINE e == Len(EventsOf(file))
               e2 == Len(EventsOf(file'))
               n == Len(file)
               n2 == Len(file')
    <3>4. e2 = e + 1 /\ e \in Nat /\ n \in Nat /\ n2 = n + 1 /\ (calm => 2 * e = n)
      BY <2>2, <3>1, <3>2, <3>3
    <3> HIDE DEF e, e2, n, n2
    <3>5. calm => 2 * e2 = n2 + 1
      BY <3>4
    <3> QED BY <3>5 DEF e2, n2
  <2> QED BY <1>3, <2>2, <2>3 DEF EventsInv
<1>4. ASSUME NEW t \in Pieces, file' = Append(file, t), calm' = FALSE
      PROVE  EventsInv'
  <2>1. /\ EventsOf(file') \in Seq(Events)
        /\ \A i \in 1..Len(file') : IsEvent(file'[i]) =>
             \E k \in 1..Len(EventsOf(file')) : EventsOf(file')[k] = file'[i]
    BY <1>1, <1>4, MarksAreTokens, EventAdded
  <2> QED BY <1>4, <2>1 DEF EventsInv
<1>5. ASSUME NEW w \in Writers, step[w] = "written",
             file' = Append(file, LineBreak), calm' = calm
      PROVE  EventsInv'
  <2>1. /\ EventsOf(file') \in Seq(Events)
        /\ \A i \in 1..Len(file') : IsEvent(file'[i]) =>
             \E k \in 1..Len(EventsOf(file')) : EventsOf(file')[k] = file'[i]
        /\ EventsOf(file') = EventsOf(file)
        /\ Len(file') = Len(file) + 1
    BY <1>1, <1>5, MarksAreTokens, EventAdded
  <2>2. calm => 2 * Len(EventsOf(file)) = Len(file) + 1
    BY <1>5, CalmPlaces
  <2> QED BY <1>5, <2>1, <2>2 DEF EventsInv
<1> QED BY <1>2, <1>3, <1>4, <1>5, FileSteps

\* The initial states map to initial states of SessionLog.
LEMMA FirstEvents == LogInit => EventsInv /\ Abstract!Init
<1> SUFFICES ASSUME LogInit PROVE EventsInv /\ Abstract!Init
  OBVIOUS
<1>1. file = <<>> /\ calm = TRUE
  BY DEF LogInit
<1>2. EventsOf(file) = <<>>
  BY <1>1, NoEventsAtFirst
<1>3. /\ EventsOf(file) \in Seq(Events)
      /\ \A i \in 1..Len(file) : ~IsEvent(file[i])
      /\ 2 * Len(EventsOf(file)) = Len(file)
  <2>1. <<>> \in Seq(Events) /\ Len(<<>>) = 0 /\ 1..0 = {}
    OBVIOUS
  <2>2. EventsOf(file) \in Seq(Events) /\ Len(EventsOf(file)) = 0 /\ Len(file) = 0
    BY <1>1, <1>2, <2>1, Zenon
  <2> QED BY <2>1, <2>2
<1> QED BY <1>1, <1>2, <1>3 DEF EventsInv, Abstract!Init

\* Every step maps to a step of SessionLog or leaves its variables alone: a
\* line is an Add, an overlap, a cut-off append or a torn line is a Disturb.
LEMMA LogStep ==
    TypeOK /\ CalmInv /\ GapInv /\ EventsInv /\ [LogNext]_logVars
      => [Abstract!Next]_<<EventsOf(file), calm>>
<1> SUFFICES ASSUME TypeOK, CalmInv, GapInv, EventsInv, [LogNext]_logVars
             PROVE  [Abstract!Next]_<<EventsOf(file), calm>>
  OBVIOUS
<1>1. /\ file \in Seq(Tokens) /\ EventsOf(file) \in Seq(Events)
      /\ \A i \in 1..Len(file) : IsEvent(file[i]) =>
           \E k \in 1..Len(EventsOf(file)) : EventsOf(file)[k] = file[i]
  BY TypeParts DEF Data, EventsInv
<1>2. CASE file' = file /\ (calm' = calm \/ calm' = FALSE)
  BY <1>2 DEF Abstract!Next, Abstract!Disturb
<1>3. ASSUME NEW w \in Writers, step[w] = "numbered",
             file' = Append(file, Line(w)), calm' = calm
      PROVE  Abstract!Add
  <2>1. Line(w) \in Events /\ Line(w) \in Tokens /\ IsEvent(Line(w))
    BY <1>3, LineIsEvent
  <2>2. EventsOf(file') = Append(EventsOf(file), Line(w))
    BY <1>1, <1>3, <2>1, EventAdded
  <2> DEFINE old == EventsOf(file)
  <2>3. PICK new : new = EventsOf(file')
    OBVIOUS
  <2>4. /\ Len(new) = Len(old) + 1 /\ new[Len(new)] = Line(w)
        /\ SubSeq(new, 1, Len(old)) = old
    BY <1>1, <2>1, <2>2, <2>3
  <2>5. IF calm THEN number[w] = Len(new) ELSE Abstract!Continues(number[w])
    <3>1. CASE calm
      BY <1>3, <2>4, <3>1, CalmPlaces
    <3>2. CASE ~calm
      <4>1. \/ number[w] = 1
            \/ \E i \in 1..Len(file) : IsEvent(file[i]) /\ number[w] = file[i].seq + 1
        BY <1>3 DEF GapInv, PendingContinues
      <4>2. \/ number[w] = 1
            \/ \E k \in 1..Len(old) : number[w] = old[k].seq + 1
        BY <1>1, <4>1
      <4> QED BY <3>2, <4>2 DEF Abstract!Continues
    <3> QED BY <3>1, <3>2
  <2>6. new[Len(new)].seq = number[w]
    BY <2>4 DEF Line
  <2> HIDE DEF old
  <2>7. /\ Len(EventsOf(file')) = Len(old) + 1
        /\ SubSeq(EventsOf(file'), 1, Len(old)) = old
        /\ LET n == EventsOf(file')[Len(EventsOf(file'))].seq
           IN  IF calm THEN n = Len(EventsOf(file')) ELSE Abstract!Continues(n)
    BY <2>3, <2>4, <2>5, <2>6
  <2> QED BY <1>3, <2>7 DEF Abstract!Add, old
<1>4. ASSUME NEW t \in Pieces, file' = Append(file, t), calm' = FALSE
      PROVE  Abstract!Next
  <2>1. EventsOf(file') = EventsOf(file)
    BY <1>1, <1>4, MarksAreTokens, EventAdded
  <2> QED BY <1>4, <2>1 DEF Abstract!Next, Abstract!Disturb
<1>5. ASSUME NEW w \in Writers, step[w] = "written",
             file' = Append(file, LineBreak), calm' = calm
      PROVE  UNCHANGED <<EventsOf(file), calm>>
  <2>1. EventsOf(file') = EventsOf(file)
    BY <1>1, <1>5, MarksAreTokens, EventAdded
  <2> QED BY <1>5, <2>1
<1> QED
  <2>1. Abstract!Add => Abstract!Next
    BY DEF Abstract!Next
  <2> QED BY <1>2, <1>3, <1>4, <1>5, <2>1, FileSteps

\* SessionLogSpec: the file of a session, with any writers, races, crashes and
\* torn lines, does what SessionLog promises to its readers.
THEOREM LogFollowsSessionLog == LogSpec => SessionLogSpec
<1>1. LogInit => CalmInv /\ GapInv
  BY DEF LogInit, CalmInv, GapInv, NoGaps, PendingContinues, SerialLog, Even
<1>2. LogSpec => [](TypeOK /\ CalmInv /\ GapInv /\ EventsInv)
  BY <1>1, FirstEvents, TypeCorrect, CalmInvariant, GapInvariant, EventsInvariant, PTL DEF LogSpec
<1> QED
  BY <1>2, FirstEvents, LogStep, PTL DEF LogSpec, SessionLogSpec, Abstract!Spec

-----------------------------------------------------------------------------
\* The inductive invariant of the history

Decisions == {"none", "allow", "deny", "mask"}
Steps == {"idle", "list", "read", "check", "write", "rename", "append", "newline",
          "records", "summary", "compact", "compacted", "load", "view", "asked"}

\* The process has moved a part away and not recorded it yet.
Holds(p) == pc[p] = "append"
InHand(p) == Head(todo[p])

Shape ==
    /\ issued \in Nat /\ runs \in 0..MaxRuns /\ parts \subseteq 1..issued
    /\ pc \in [Procs -> Steps] /\ DOMAIN todo = Procs
    /\ choice \in [Procs -> Decisions]
    /\ reviewed \in [1..LastId -> Decisions]
    /\ manifest \in Seq(Range(manifest))

\* Every id was given to a query, to the answer that ended one, or to the rollout.
Counted ==
    /\ IsFiniteSet(Running)
    /\ issued + Cardinality(Running) + (IF "rollout" \in events THEN 1 ELSE 0)
          <= 2 * runs + 1

\* A message is a part, in one process's hand, or recorded, and only one of them.
Apart ==
    /\ Ids(manifest) \subseteq (1..issued) \ parts
    /\ \A p \in Procs : Holds(p) => InHand(p) \in (1..issued) \ (parts \union Ids(manifest))
    /\ \A p, q \in Procs : Holds(p) /\ Holds(q) /\ InHand(p) = InHand(q) => p = q

\* While the runs do not overlap: what the one that runs is reviewing is not
\* recorded, and what it is about to record is what the reviewed file says.
Solo ==
    alone =>
        /\ \A p, q \in Running : p = q
        /\ \A p \in Procs :
             /\ pc[p] \in {"check", "write", "rename"} =>
                    InHand(p) \in (1..issued) \ Ids(manifest)
             /\ pc[p] \in {"rename", "append"} => reviewed[InHand(p)] = choice[p]

Inv ==
    /\ Shape /\ Counted /\ Apart /\ Solo
    /\ RecordedOnce /\ NoneForgotten /\ RecordsMatchFiles

-----------------------------------------------------------------------------
\* Lemmas

\* A manifest stays a sequence when a record is added, and knows one more id if
\* the record is a message.
LEMMA ManifestAppend ==
    ASSUME Shape, NEW r, manifest' = Append(manifest, r)
    PROVE  /\ manifest' \in Seq(Range(manifest'))
           /\ Len(manifest) \in Nat
           /\ DOMAIN manifest = 1..Len(manifest)
           /\ DOMAIN manifest' = 1..(Len(manifest) + 1)
           /\ manifest'[Len(manifest) + 1] = r
           /\ \A i \in DOMAIN manifest : manifest'[i] = manifest[i]
           /\ Ids(manifest)' = Ids(manifest) \union (IF IsMessage(r) THEN {r.id} ELSE {})
<1> DEFINE n == Len(manifest)
           S == Range(manifest) \union {r}
           m == Append(manifest, r)
<1>1. manifest \in Seq(S)
  <2>1. manifest \in Seq(Range(manifest)) /\ Range(manifest) \subseteq S
    BY DEF Shape
  <2> HIDE DEF S
  <2> QED
    BY <2>1
<1>2. r \in S
  OBVIOUS
<1> HIDE DEF S
<1>3. /\ m \in Seq(S) /\ Len(m) = n + 1 /\ n \in Nat
      /\ DOMAIN manifest = 1..n /\ DOMAIN m = 1..(n + 1)
      /\ m[n + 1] = r /\ \A i \in 1..n : m[i] = manifest[i]
  BY <1>1, <1>2
<1> HIDE DEF m
<1>4. m \in Seq(Range(m))
  <2>1. \A i \in 1..Len(m) : m[i] \in Range(m)
    BY <1>3 DEF Range
  <2> QED
    BY <1>3, <2>1
<1>5. Ids(m) = Ids(manifest) \union (IF IsMessage(r) THEN {r.id} ELSE {})
  <2>1. \A i \in 1..(n + 1) : i \in 1..n \/ i = n + 1
    BY <1>3
  <2>2. ASSUME NEW x \in Ids(m)
        PROVE  x \in Ids(manifest) \union (IF IsMessage(r) THEN {r.id} ELSE {})
    <3>1. PICK i \in 1..(n + 1) : IsMessage(m[i]) /\ x = m[i].id
      BY <1>3, <2>2 DEF Ids
    <3>2. CASE i \in 1..n
      <4>1. i \in DOMAIN manifest /\ m[i] = manifest[i]
        BY <1>3, <3>2
      <4> QED
        BY <3>1, <4>1 DEF Ids
    <3>3. CASE i = n + 1
      BY <1>3, <3>1, <3>3
    <3> QED
      BY <2>1, <3>1, <3>2, <3>3
  <2>3. ASSUME NEW x \in Ids(manifest)
        PROVE  x \in Ids(m)
    <3>1. PICK i \in 1..n : IsMessage(manifest[i]) /\ x = manifest[i].id
      BY <1>3, <2>3 DEF Ids
    <3>2. i \in DOMAIN m /\ m[i] = manifest[i]
      BY <1>3, <3>1
    <3> QED
      BY <3>1, <3>2 DEF Ids
  <2>4. IsMessage(r) => r.id \in Ids(m)
    <3>1. n + 1 \in DOMAIN m /\ m[n + 1] = r
      BY <1>3
    <3> QED
      BY <3>1 DEF Ids
  <2> QED
    BY <2>2, <2>3, <2>4
<1> QED
  BY <1>3, <1>4, <1>5 DEF m

\* What is in the manifest is known by its ids.
LEMMA IdsKnow ==
    \A i \in DOMAIN manifest : IsMessage(manifest[i]) => manifest[i].id \in Ids(manifest)
  BY DEF Ids

\* There are no more ids than the reviewed files have names for.
LEMMA IdsFit == Shape /\ Counted => \A id \in 1..issued : id \in 1..LastId
<1> SUFFICES ASSUME Shape, Counted
             PROVE  issued <= LastId /\ issued \in Nat /\ LastId \in Nat
  <2>1. ASSUME issued <= LastId, issued \in Nat, LastId \in Nat
        PROVE  \A id \in 1..issued : id \in 1..LastId
    BY <2>1
  <2> QED
    BY <2>1
<1>1. PICK c \in Nat : Cardinality(Running) = c
  BY FS_CardinalityType DEF Counted
<1>2. issued + c <= 2 * runs + 1
  <2>1. CASE "rollout" \in events
    <3>1. issued + c + 1 <= 2 * runs + 1
      BY <1>1, <2>1 DEF Counted
    <3> QED
      BY <3>1 DEF Shape
  <2>2. CASE "rollout" \notin events
    <3>1. issued + c + 0 <= 2 * runs + 1
      BY <1>1, <2>2 DEF Counted
    <3> QED
      BY <3>1 DEF Shape
  <2> QED
    BY <2>1, <2>2
<1>3. runs \in Nat /\ MaxRuns \in Nat /\ runs <= MaxRuns /\ issued \in Nat
  BY HistoryAssumption DEF Shape, HistoryAssumption
<1> QED
  BY <1>2, <1>3 DEF LastId

\* Starting and ending a run change the number of those that run by one.
LEMMA RunningGrows ==
    ASSUME Shape, Counted, NEW p \in Procs, pc[p] = "idle", NEW at \in Steps \ {"idle"},
           pc' = [pc EXCEPT ![p] = at]
    PROVE  /\ IsFiniteSet(Running') /\ Cardinality(Running') = Cardinality(Running) + 1
           /\ Running' = Running \union {p}
<1>1. Running' = Running \union {p} /\ p \notin Running
  BY DEF Running, Shape
<1> QED
  BY <1>1, FS_AddElement DEF Counted

LEMMA RunningShrinks ==
    ASSUME Shape, Counted, NEW p \in Procs, pc[p] # "idle",
           pc' = [pc EXCEPT ![p] = "idle"]
    PROVE  /\ IsFiniteSet(Running') /\ Cardinality(Running') = Cardinality(Running) - 1
           /\ Running' = Running \ {p}
<1>1. Running' = Running \ {p} /\ p \in Running
  BY DEF Running, Shape
<1> QED
  BY <1>1, FS_RemoveElement DEF Counted

LEMMA RunningStays ==
    ASSUME Shape, NEW p \in Procs, pc[p] # "idle", NEW at \in Steps \ {"idle"},
           pc' = [pc EXCEPT ![p] = at]
    PROVE  Running' = Running
  BY DEF Running, Shape

-----------------------------------------------------------------------------
\* What keeps each part of the invariant

\* A step that records nothing, moves nothing into a hand, and adds at most the
\* next id as a part.
LEMMA ApartKept ==
    ASSUME Shape, Shape', Apart, Ids(manifest)' = Ids(manifest),
           \/ issued' = issued /\ parts' \subseteq parts
           \/ issued' = issued + 1 /\ parts' \subseteq parts \union {issued + 1},
           \A q \in Procs : Holds(q)' => Holds(q) /\ InHand(q)' = InHand(q)
    PROVE  Apart'
<1>1. issued \in Nat /\ issued + 1 \notin 1..issued /\ 1..issued \subseteq 1..issued'
  BY DEF Shape
<1>2. Ids(manifest)' \subseteq (1..issued') \ parts'
  BY <1>1 DEF Apart
<1>3. ASSUME NEW p \in Procs, Holds(p)'
      PROVE  InHand(p)' \in (1..issued') \ (parts' \union Ids(manifest)')
  <2>1. InHand(p)' = InHand(p) /\ InHand(p) \in (1..issued) \ (parts \union Ids(manifest))
    BY <1>3 DEF Apart
  <2> QED
    BY <1>1, <2>1
<1>4. \A p, q \in Procs : Holds(p)' /\ Holds(q)' /\ InHand(p)' = InHand(q)' => p = q
  BY DEF Apart
<1> QED
  BY <1>2, <1>3, <1>4, Zenon DEF Apart

\* A step that loses no message that is there, and accounts for a new one.
LEMMA AccountedKept ==
    ASSUME NoneForgotten, Shape, lost \subseteq lost',
           issued' = issued \/ (issued' = issued + 1 /\ issued + 1 \in parts'),
           parts \union dropped \union Ids(manifest)
              \subseteq parts' \union dropped' \union Ids(manifest)',
           \A q \in Procs : Holds(q) =>
               \/ Holds(q)' /\ InHand(q)' = InHand(q)
               \/ InHand(q) \in parts' \union dropped' \union Ids(manifest)' \union lost'
    PROVE  NoneForgotten'
<1> SUFFICES ASSUME NEW id \in 1..issued'
             PROVE  \/ id \in parts' \union dropped' \union Ids(manifest)' \union lost'
                    \/ \E p \in Procs : Holds(p)' /\ InHand(p)' = id
  BY Zenon DEF NoneForgotten, Holds, InHand
<1>1. CASE id \in 1..issued
  <2>1. \/ id \in parts \union dropped \union Ids(manifest) \union lost
        \/ \E p \in Procs : Holds(p) /\ InHand(p) = id
    BY <1>1, Zenon DEF NoneForgotten, Holds, InHand
  <2>2. CASE id \in parts \union dropped \union Ids(manifest) \union lost
    BY <2>2
  <2>3. CASE \E p \in Procs : Holds(p) /\ InHand(p) = id
    BY <2>3
  <2> QED
    BY <2>1, <2>2, <2>3
<1>2. CASE id \notin 1..issued
  BY <1>2 DEF Shape
<1> QED
  BY <1>1, <1>2

\* A step that brings nobody to review or to record, and starts no run.
LEMMA SoloKept ==
    ASSUME Shape, Solo, alone' => alone, Ids(manifest)' = Ids(manifest),
           reviewed' = reviewed, issued' \in {issued, issued + 1},
           \A q \in Procs : pc'[q] # "idle" => pc[q] # "idle",
           \A q \in Procs : pc'[q] \in {"check", "write", "rename", "append"} =>
               pc'[q] = pc[q] /\ todo'[q] = todo[q] /\ choice'[q] = choice[q]
    PROVE  Solo'
<1> SUFFICES ASSUME alone'
             PROVE  /\ \A p, q \in Running' : p = q
                    /\ \A p \in Procs :
                         /\ pc'[p] \in {"check", "write", "rename"} =>
                                InHand(p)' \in (1..issued') \ Ids(manifest)'
                         /\ pc'[p] \in {"rename", "append"} =>
                                reviewed'[InHand(p)'] = choice'[p]
  BY Zenon DEF Solo
<1>1. Running' \subseteq Running
  BY DEF Running
<1>2. \A p, q \in Running' : p = q
  BY <1>1 DEF Solo
<1>3. 1..issued \subseteq 1..issued'
  BY DEF Shape
<1>4. ASSUME NEW p \in Procs
      PROVE  /\ pc'[p] \in {"check", "write", "rename"} =>
                    InHand(p)' \in (1..issued') \ Ids(manifest)'
             /\ pc'[p] \in {"rename", "append"} => reviewed'[InHand(p)'] = choice'[p]
  BY <1>3 DEF Solo, InHand
<1> QED
  BY <1>2, <1>4

\* A step that leaves the manifest and the reviewed files alone.
LEMMA RecordsKept ==
    ASSUME RecordedOnce, RecordsMatchFiles, alone' => alone, UNCHANGED <<manifest, reviewed>>
    PROVE  RecordedOnce' /\ RecordsMatchFiles'
  BY DEF RecordedOnce, RecordsMatchFiles

\* A record added: its message is new, and says what the reviewed file says.
LEMMA RecordsAppend ==
    ASSUME Shape, RecordedOnce, RecordsMatchFiles, alone' => alone, reviewed' = reviewed,
           NEW r, manifest' = Append(manifest, r),
           IsMessage(r) => /\ r.id \notin Ids(manifest)
                           /\ alone' => reviewed[r.id] = r.decision
    PROVE  RecordedOnce' /\ RecordsMatchFiles'
<1> DEFINE n == Len(manifest)
<1>1. /\ n \in Nat /\ DOMAIN manifest = 1..n /\ DOMAIN manifest' = 1..(n + 1)
      /\ manifest'[n + 1] = r
      /\ \A i \in DOMAIN manifest : manifest'[i] = manifest[i]
  BY ManifestAppend
<1> HIDE DEF n
<1>2. \A i \in DOMAIN manifest' : i = n + 1 \/ (i \in DOMAIN manifest /\ i # n + 1)
  BY <1>1
<1>3. RecordedOnce'
  <2> SUFFICES ASSUME NEW i \in DOMAIN manifest', NEW j \in DOMAIN manifest',
                      IsMessage(manifest'[i]), IsMessage(manifest'[j]),
                      manifest'[i].id = manifest'[j].id
               PROVE  i = j
    BY Zenon DEF RecordedOnce
  <2>1. CASE i \in DOMAIN manifest /\ j \in DOMAIN manifest
    BY <1>1, <2>1 DEF RecordedOnce
  <2>2. CASE i \in DOMAIN manifest /\ j = n + 1
    <3>1. manifest[i].id \in Ids(manifest) /\ manifest[i].id = r.id /\ IsMessage(r)
      BY <1>1, <2>2, IdsKnow
    <3> QED
      BY <3>1
  <2>3. CASE j \in DOMAIN manifest /\ i = n + 1
    <3>1. manifest[j].id \in Ids(manifest) /\ manifest[j].id = r.id /\ IsMessage(r)
      BY <1>1, <2>3, IdsKnow
    <3> QED
      BY <3>1
  <2> QED
    BY <1>2, <2>1, <2>2, <2>3
<1>4. RecordsMatchFiles'
  BY <1>1, <1>2 DEF RecordsMatchFiles
<1> QED
  BY <1>3, <1>4

\* A step that adds no message to the manifest.
LEMMA NoMessageAdded ==
    ASSUME Shape, RecordedOnce, RecordsMatchFiles, alone' => alone, reviewed' = reviewed,
           manifest' = manifest \/ \E r : manifest' = Append(manifest, r) /\ ~IsMessage(r)
    PROVE  /\ Ids(manifest)' = Ids(manifest)
           /\ manifest' \in Seq(Range(manifest'))
           /\ RecordedOnce' /\ RecordsMatchFiles'
<1>1. CASE manifest' = manifest
  <2>1. Ids(manifest)' = Ids(manifest) /\ manifest' \in Seq(Range(manifest'))
    BY <1>1 DEF Ids, Shape, Range
  <2> QED
    BY <1>1, <2>1, RecordsKept
<1>2. CASE \E r : manifest' = Append(manifest, r) /\ ~IsMessage(r)
  <2>1. PICK r : manifest' = Append(manifest, r) /\ ~IsMessage(r)
    BY <1>2
  <2>2. /\ manifest' \in Seq(Range(manifest'))
        /\ Ids(manifest)' = Ids(manifest) \union (IF IsMessage(r) THEN {r.id} ELSE {})
    BY <2>1, ManifestAppend
  <2>3. Ids(manifest)' = Ids(manifest)
    BY <2>1, <2>2
  <2>4. RecordedOnce' /\ RecordsMatchFiles'
    BY <2>1, RecordsAppend
  <2> QED
    BY <2>2, <2>3, <2>4
<1> QED
  BY <1>1, <1>2

-----------------------------------------------------------------------------
\* The steps

\* A step of a run that only moves on: it touches neither parts nor reviewed files,
\* adds no message to the manifest, and what it takes into its hand to review is
\* not recorded.
LEMMA MovesOn ==
    ASSUME Inv, NEW p \in Procs, NEW at \in Steps \ {"idle", "append"},
           pc[p] \in Steps \ {"idle", "append"}, pc' = [pc EXCEPT ![p] = at],
           UNCHANGED <<issued, parts, reviewed, alone, lost, dropped, runs, events>>,
           manifest' = manifest \/ \E r : manifest' = Append(manifest, r) /\ ~IsMessage(r),
           DOMAIN todo' = Procs, choice' \in [Procs -> Decisions],
           \A q \in Procs \ {p} : todo'[q] = todo[q] /\ choice'[q] = choice[q],
           alone => /\ at \in {"check", "write", "rename"} =>
                           Head(todo'[p]) \in (1..issued) \ Ids(manifest)
                    /\ at = "rename" => reviewed[Head(todo'[p])] = choice'[p]
    PROVE  Inv'
<1> USE DEF Inv
<1>10. /\ Ids(manifest)' = Ids(manifest)
       /\ manifest' \in Seq(Range(manifest'))
       /\ RecordedOnce' /\ RecordsMatchFiles'
  BY NoMessageAdded
<1>1. /\ pc' \in [Procs -> Steps] /\ pc'[p] = at
      /\ \A q \in Procs \ {p} : pc'[q] = pc[q]
  BY DEF Shape
<1>2. Shape'
  BY <1>1, <1>10 DEF Shape, LastId
<1>3. Ids(manifest)' = Ids(manifest)
  BY <1>10
<1>4. \A q \in Procs : Holds(q)' <=> Holds(q) /\ q # p
  BY <1>1 DEF Holds
<1>5. \A q \in Procs \ {p} : InHand(q)' = InHand(q)
  BY DEF InHand
<1>6. Apart'
  BY <1>2, <1>3, <1>4, <1>5, ApartKept
<1>7. NoneForgotten'
  <2>1. ~Holds(p)
    BY DEF Holds
  <2> QED
    BY <1>3, <1>4, <1>5, <2>1, AccountedKept
<1>8. Solo'
  <2> SUFFICES ASSUME alone'
               PROVE  /\ \A s, q \in Running' : s = q
                      /\ \A q \in Procs :
                           /\ pc'[q] \in {"check", "write", "rename"} =>
                                  InHand(q)' \in (1..issued') \ Ids(manifest)'
                           /\ pc'[q] \in {"rename", "append"} =>
                                  reviewed'[InHand(q)'] = choice'[q]
    BY Zenon DEF Solo
  <2>1. Running' = Running
    BY RunningStays
  <2>2. ASSUME NEW q \in Procs
        PROVE  /\ pc'[q] \in {"check", "write", "rename"} =>
                      InHand(q)' \in (1..issued') \ Ids(manifest)'
               /\ pc'[q] \in {"rename", "append"} => reviewed'[InHand(q)'] = choice'[q]
    <3>1. CASE q = p
      BY <1>1, <1>3, <3>1 DEF InHand
    <3>2. CASE q # p
      BY <1>1, <1>3, <1>5, <3>2 DEF Solo
    <3> QED
      BY <3>1, <3>2
  <2> QED
    BY <2>1, <2>2 DEF Solo
<1>9. Counted'
  BY RunningStays DEF Counted
<1> QED
  BY <1>2, <1>6, <1>7, <1>8, <1>9, <1>10

\* The end of a run; what it leaves in its hand is lost.
LEMMA RunOver ==
    ASSUME Inv, NEW p \in Procs, pc[p] # "idle", End(p),
           lost \subseteq lost', Forsaken(p) \subseteq lost', alone' = alone,
           UNCHANGED <<reviewed, dropped, runs>>,
           manifest' = manifest \/ manifest' = Append(manifest, HalfRecord),
           \/ UNCHANGED <<issued, parts>>
           \/ issued' = NextId /\ parts' = parts \union {NextId},
           "rollout" \in events' => "rollout" \in events
    PROVE  Inv'
<1>0. Shape /\ Counted /\ Apart /\ Solo
      /\ RecordedOnce /\ NoneForgotten /\ RecordsMatchFiles
  BY DEF Inv
<1>1. /\ pc' = [pc EXCEPT ![p] = "idle"] /\ pc' \in [Procs -> Steps] /\ pc'[p] = "idle"
      /\ \A q \in Procs \ {p} : /\ pc'[q] = pc[q] /\ todo'[q] = todo[q]
                               /\ choice'[q] = choice[q]
      /\ DOMAIN todo' = Procs /\ choice' \in [Procs -> Decisions]
  BY <1>0 DEF Shape, End, Goto, Steps, Decisions
<1>2. \/ issued' = issued /\ parts' = parts
      \/ issued' = issued + 1 /\ parts' = parts \union {issued + 1}
  BY DEF NextId
<1>11. /\ Ids(manifest)' = Ids(manifest)
       /\ manifest' \in Seq(Range(manifest'))
       /\ RecordedOnce' /\ RecordsMatchFiles'
  <2>1. ~IsMessage(HalfRecord)
    BY DEF IsMessage, HalfRecord
  <2> QED
    BY <1>0, <2>1, NoMessageAdded
<1>3. Shape'
  <2>1. issued' \in Nat /\ parts' \subseteq 1..issued'
    <3>1. CASE issued' = issued /\ parts' = parts
      BY <1>0, <3>1 DEF Shape
    <3>2. CASE issued' = issued + 1 /\ parts' = parts \union {issued + 1}
      BY <1>0, <3>2 DEF Shape
    <3> QED
      BY <1>2, <3>1, <3>2
  <2> QED
    BY <1>0, <1>1, <1>11, <2>1 DEF Shape, LastId
<1>4. Ids(manifest)' = Ids(manifest)
  BY <1>11
<1>5. \A q \in Procs : Holds(q)' => Holds(q) /\ InHand(q)' = InHand(q)
  BY <1>1 DEF Holds, InHand
<1>10. \A q \in Procs : Holds(q) =>
           (Holds(q)' /\ InHand(q)' = InHand(q)) \/ InHand(q) \in lost'
  BY <1>1 DEF Holds, InHand, Forsaken
<1>6. Apart'
  <2>1. \/ issued' = issued /\ parts' \subseteq parts
        \/ issued' = issued + 1 /\ parts' \subseteq parts \union {issued + 1}
    BY <1>2
  <2> QED
    BY <1>0, <1>3, <1>4, <1>5, <2>1, ApartKept
<1>7. NoneForgotten'
  <2>1. /\ issued' = issued \/ (issued' = issued + 1 /\ issued + 1 \in parts')
        /\ parts \subseteq parts'
    BY <1>2
  <2> QED
    BY <1>0, <1>4, <1>10, <2>1, AccountedKept
<1>8. Solo'
  BY <1>0, <1>1, <1>2, <1>4, SoloKept
<1>9. Counted'
  <2>1. PICK c \in Nat : Cardinality(Running) = c
    BY <1>0, FS_CardinalityType DEF Counted
  <2>2. IsFiniteSet(Running') /\ Cardinality(Running') = c - 1
    BY <1>0, <1>1, <2>1, RunningShrinks
  <2>3. PICK k \in {0, 1} : k = IF "rollout" \in events THEN 1 ELSE 0
    OBVIOUS
  <2>4. PICK l \in {0, 1} : l = (IF "rollout" \in events' THEN 1 ELSE 0) /\ l <= k
    BY <2>3
  <2>5. issued + c + k <= 2 * runs + 1
    BY <1>0, <2>1, <2>3 DEF Counted
  <2>6. issued \in Nat /\ runs \in Nat /\ issued' <= issued + 1 /\ issued' \in Nat
    BY <1>0, <1>2 DEF Shape
  <2>7. issued' + (c - 1) + l <= 2 * runs + 1
    <3>1. \A i, j, r \in Nat : j <= i + 1 /\ i + c + k <= 2 * r + 1
                                  => j + (c - 1) + l <= 2 * r + 1
      BY <2>4
    <3> QED
      BY <2>5, <2>6, <3>1, Zenon
  <2> QED
    BY <2>2, <2>4, <2>7 DEF Counted
<1> QED
  BY <1>0, <1>3, <1>6, <1>7, <1>8, <1>9, <1>11 DEF Inv

\* The query of a new run becomes a part.
LEMMA SaveUserStep == ASSUME Inv, NEW p \in Procs, SaveUser(p) PROVE Inv'
<1>0. Shape /\ Counted /\ Apart /\ Solo
      /\ RecordedOnce /\ NoneForgotten /\ RecordsMatchFiles
  BY DEF Inv
<1>1. PICK at \in {"list", "load"} : pc' = [pc EXCEPT ![p] = at]
  BY DEF SaveUser, Goto
<1>2. /\ pc[p] = "idle" /\ pc' \in [Procs -> Steps] /\ pc'[p] = at
      /\ \A q \in Procs \ {p} : pc'[q] = pc[q]
      /\ issued' = issued + 1 /\ parts' = parts \union {issued + 1}
      /\ runs' = runs + 1 /\ runs < MaxRuns
      /\ alone' = (alone /\ Running = {})
      /\ UNCHANGED <<reviewed, manifest, todo, choice, lost, dropped, events>>
  BY <1>0, <1>1 DEF SaveUser, NextId, Shape, Steps
<1>3. Shape'
  <2>1. issued' \in Nat /\ parts' \subseteq 1..issued'
    BY <1>0, <1>2 DEF Shape
  <2>2. runs' \in 0..MaxRuns
    BY <1>0, <1>2, HistoryAssumption DEF Shape, HistoryAssumption
  <2> QED
    BY <1>0, <1>2, <2>1, <2>2 DEF Shape, LastId
<1>4. Ids(manifest)' = Ids(manifest)
  BY <1>2 DEF Ids
<1>5. \A q \in Procs : Holds(q)' => Holds(q) /\ InHand(q)' = InHand(q)
  BY <1>2 DEF Holds, InHand
<1>6. \A q \in Procs : Holds(q) => Holds(q)' /\ InHand(q)' = InHand(q)
  BY <1>2 DEF Holds, InHand
<1>7. Apart'
  <2>1. issued' = issued + 1 /\ parts' \subseteq parts \union {issued + 1}
    BY <1>2
  <2> QED
    BY <1>0, <1>3, <1>4, <1>5, <2>1, ApartKept
<1>8. NoneForgotten'
  <2>1. /\ issued' = issued + 1 /\ issued + 1 \in parts' /\ parts \subseteq parts'
        /\ lost' = lost
    BY <1>2
  <2> QED
    BY <1>0, <1>2, <1>4, <1>6, <2>1, AccountedKept
<1>9. Solo'
  <2>1. Running' = Running \union {p}
    BY <1>0, <1>1, <1>2, RunningGrows DEF Steps
  <2>2. ASSUME alone', NEW q \in Procs, q # p
        PROVE  pc'[q] = "idle"
    BY <1>2, <2>2 DEF Running
  <2>3. alone' => \A s, q \in Running' : s = q
    BY <1>2, <2>1
  <2> QED
    BY <1>2, <2>2, <2>3 DEF Solo
<1>10. Counted'
  <2>1. PICK c \in Nat : Cardinality(Running) = c
    BY <1>0, FS_CardinalityType DEF Counted
  <2>2. IsFiniteSet(Running') /\ Cardinality(Running') = c + 1
    BY <1>0, <1>1, <1>2, <2>1, RunningGrows DEF Steps
  <2>3. PICK k \in {0, 1} : k = IF "rollout" \in events THEN 1 ELSE 0
    OBVIOUS
  <2>4. issued + c + k <= 2 * runs + 1
    BY <1>0, <2>1, <2>3 DEF Counted
  <2>5. \A i, r \in Nat : i + c + k <= 2 * r + 1
                             => (i + 1) + (c + 1) + k <= 2 * (r + 1) + 1
    BY <2>3
  <2>6. issued \in Nat /\ runs \in Nat
    BY <1>0 DEF Shape
  <2>7. (issued + 1) + (c + 1) + k <= 2 * (runs + 1) + 1
    BY <2>4, <2>5, <2>6, Zenon
  <2> QED
    BY <1>2, <2>2, <2>3, <2>7 DEF Counted
<1> QED
  BY <1>0, <1>2, <1>3, <1>7, <1>8, <1>9, <1>10, RecordsKept DEF Inv

\* The steps by which a run moves on.
LEMMA MovesOnSteps ==
    ASSUME Inv, NEW p \in Procs,
           \/ ListParts(p) \/ ReadPart(p) \/ Check(p) \/ AppendNewLine(p)
           \/ LoadForCompaction(p) \/ WriteSummary(p) \/ AppendCompaction(p)
           \/ LoadHistory(p) \/ ViewHistory(p)
    PROVE  Inv'
<1>0. Shape /\ Apart /\ Solo
  BY DEF Inv
<1>1. DOMAIN pc = Procs /\ DOMAIN todo = Procs /\ choice \in [Procs -> Decisions]
  BY <1>0 DEF Shape
<1>2. CASE ListParts(p)
  <2>1. /\ pc[p] = "list" /\ pc' = [pc EXCEPT ![p] = "read"]
        /\ UNCHANGED <<issued, parts, reviewed, manifest, alone, lost, dropped, runs, events,
                       choice>>
        /\ DOMAIN todo' = Procs /\ \A q \in Procs \ {p} : todo'[q] = todo[q]
    BY <1>1, <1>2 DEF ListParts, Goto, ghostVars
  <2> QED
    BY <1>1, <2>1, MovesOn DEF Steps
<1>3. CASE ReadPart(p)
  <2>0. /\ pc[p] = "read" /\ UNCHANGED choice
        /\ UNCHANGED <<issued, parts, reviewed, manifest, alone, lost, dropped, runs, events>>
    BY <1>3 DEF ReadPart, fileVars, ghostVars
  <2>1. CASE pc' = [pc EXCEPT ![p] = "records"] /\ UNCHANGED todo
    BY <1>1, <2>0, <2>1, MovesOn DEF Steps
  <2>2. CASE pc' = [pc EXCEPT ![p] = "check"] /\ UNCHANGED todo /\ Head(todo[p]) \in parts
    <3>1. Head(todo'[p]) \in (1..issued) \ Ids(manifest)
      BY <1>0, <2>2 DEF Shape, Apart
    <3> QED
      BY <1>1, <2>0, <2>2, <3>1, MovesOn DEF Steps
  <2>3. CASE pc' = pc /\ todo' = [todo EXCEPT ![p] = Tail(@)]
    <3>1. pc' = [pc EXCEPT ![p] = "read"]
      BY <1>0, <2>0, <2>3 DEF Shape
    <3>2. DOMAIN todo' = Procs /\ \A q \in Procs \ {p} : todo'[q] = todo[q]
      BY <1>1, <2>3
    <3> QED
      BY <1>1, <2>0, <3>1, <3>2, MovesOn DEF Steps
  <2> QED
    BY <1>3, <2>1, <2>2, <2>3 DEF ReadPart, Goto
<1>4. CASE Check(p)
  <2>1. PICK d \in Decisions : choice' = [choice EXCEPT ![p] = d]
    BY <1>4 DEF Check, Decisions
  <2>2. /\ pc[p] = "check" /\ pc' = [pc EXCEPT ![p] = "write"] /\ UNCHANGED todo
        /\ UNCHANGED <<issued, parts, reviewed, manifest, alone, lost, dropped, runs, events>>
    BY <1>4 DEF Check, Goto, fileVars, ghostVars
  <2>3. choice' \in [Procs -> Decisions] /\ \A q \in Procs \ {p} : choice'[q] = choice[q]
    BY <1>1, <2>1
  <2>4. alone => Head(todo'[p]) \in (1..issued) \ Ids(manifest)
    BY <1>0, <2>2 DEF Solo, InHand
  <2> QED
    BY <1>1, <2>2, <2>3, <2>4, MovesOn DEF Steps
<1>5. CASE AppendNewLine(p)
  <2>1. PICK at \in {"read", "load"} : pc' = [pc EXCEPT ![p] = at]
    BY <1>5 DEF AppendNewLine, Goto
  <2>2. /\ pc[p] \in {"newline", "compacted"}
        /\ manifest' = Append(manifest, NewLine)
        /\ UNCHANGED <<issued, parts, reviewed, alone, lost, dropped, runs, events>>
        /\ choice' = [choice EXCEPT ![p] = "none"]
        /\ todo' = [todo EXCEPT ![p] = Tail(@)] \/ todo' = todo
    BY <1>5 DEF AppendNewLine, ghostVars
  <2>3. /\ DOMAIN todo' = Procs /\ choice' \in [Procs -> Decisions]
        /\ \A q \in Procs \ {p} : todo'[q] = todo[q] /\ choice'[q] = choice[q]
    BY <1>1, <2>2 DEF Decisions
  <2>4. ~IsMessage(NewLine)
    BY DEF IsMessage, NewLine
  <2> QED
    BY <2>1, <2>2, <2>3, <2>4, MovesOn DEF Steps
<1>6. CASE LoadForCompaction(p)
  <2>1. PICK at \in {"load", "summary"} : pc' = [pc EXCEPT ![p] = at]
    BY <1>6 DEF LoadForCompaction, Goto
  <2>2. /\ pc[p] = "records" /\ UNCHANGED <<todo, choice>>
        /\ UNCHANGED <<issued, parts, reviewed, manifest, alone, lost, dropped, runs, events>>
    BY <1>6 DEF LoadForCompaction, fileVars, ghostVars
  <2> QED
    BY <1>1, <2>1, <2>2, MovesOn DEF Steps
<1>7. CASE WriteSummary(p)
  <2>1. /\ pc[p] = "summary" /\ pc' = [pc EXCEPT ![p] = "compact"] /\ UNCHANGED <<todo, choice>>
        /\ UNCHANGED <<issued, parts, reviewed, manifest, alone, lost, dropped, runs, events>>
    BY <1>7 DEF WriteSummary, Goto, ghostVars
  <2> QED
    BY <1>1, <2>1, MovesOn DEF Steps
<1>8. CASE AppendCompaction(p)
  <2>1. PICK from, to : manifest' = Append(manifest, Comp(from, to))
    BY <1>8 DEF AppendCompaction
  <2>2. /\ pc[p] = "compact" /\ pc' = [pc EXCEPT ![p] = "compacted"]
        /\ UNCHANGED <<todo, choice>>
        /\ UNCHANGED <<issued, parts, reviewed, alone, lost, dropped, runs, events>>
    BY <1>8 DEF AppendCompaction, Goto, ghostVars
  <2>3. ~IsMessage(Comp(from, to))
    BY DEF IsMessage, Comp
  <2> QED
    BY <1>1, <2>1, <2>2, <2>3, MovesOn DEF Steps
<1>9. CASE LoadHistory(p)
  <2>1. PICK at \in {"asked", "view"} : pc' = [pc EXCEPT ![p] = at]
    BY <1>9 DEF LoadHistory, Goto
  <2>2. /\ pc[p] = "load" /\ UNCHANGED <<todo, choice>>
        /\ UNCHANGED <<issued, parts, reviewed, manifest, alone, lost, dropped, runs, events>>
    BY <1>9 DEF LoadHistory, fileVars, ghostVars
  <2> QED
    BY <1>1, <2>1, <2>2, MovesOn DEF Steps
<1>10. CASE ViewHistory(p)
  <2>1. /\ pc[p] = "view" /\ pc' = [pc EXCEPT ![p] = "asked"] /\ UNCHANGED <<todo, choice>>
        /\ UNCHANGED <<issued, parts, reviewed, manifest, alone, lost, dropped, runs, events>>
    BY <1>10 DEF ViewHistory, Goto, fileVars, ghostVars
  <2> QED
    BY <1>1, <2>1, MovesOn DEF Steps
<1> QED
  BY <1>2, <1>3, <1>4, <1>5, <1>6, <1>7, <1>8, <1>9, <1>10

\* The reviewed text of a part is written.
LEMMA WriteReviewedStep == ASSUME Inv, NEW p \in Procs, WriteReviewed(p) PROVE Inv'
<1> DEFINE h == Head(todo[p])
<1>0. Shape /\ Counted /\ Apart /\ Solo
      /\ RecordedOnce /\ NoneForgotten /\ RecordsMatchFiles
  BY DEF Inv
<1>1. /\ pc[p] = "write" /\ pc' = [pc EXCEPT ![p] = "rename"]
      /\ reviewed' = [reviewed EXCEPT ![h] = choice[p]]
      /\ UNCHANGED <<issued, parts, manifest, todo, choice, alone, lost, dropped, runs, events>>
  BY DEF WriteReviewed, Goto, ghostVars
<1>2. /\ pc' \in [Procs -> Steps] /\ pc'[p] = "rename"
      /\ \A q \in Procs \ {p} : pc'[q] = pc[q]
      /\ reviewed' \in [1..LastId -> Decisions]
  BY <1>0, <1>1 DEF Shape, Steps
<1>3. Shape'
  BY <1>0, <1>1, <1>2 DEF Shape, LastId
<1>4. Ids(manifest)' = Ids(manifest)
  BY <1>1 DEF Ids
<1>5. \A q \in Procs : Holds(q)' => Holds(q) /\ InHand(q)' = InHand(q)
  BY <1>1, <1>2 DEF Holds, InHand
<1>6. \A q \in Procs : Holds(q) => Holds(q)' /\ InHand(q)' = InHand(q)
  BY <1>1, <1>2 DEF Holds, InHand
<1>7. Apart'
  BY <1>0, <1>1, <1>3, <1>4, <1>5, ApartKept
<1>8. NoneForgotten'
  BY <1>0, <1>1, <1>4, <1>6, AccountedKept
<1>9. ASSUME alone
      PROVE  /\ h \in (1..issued) \ Ids(manifest)
             /\ reviewed'[h] = choice[p]
             /\ \A id \in Ids(manifest) : reviewed'[id] = reviewed[id]
             /\ \A q \in Running : q = p
  <2>1. h \in (1..issued) \ Ids(manifest) /\ \A q \in Running : q = p
    BY <1>0, <1>1, <1>9 DEF Solo, InHand, Running
  <2>2. h \in 1..LastId
    BY <1>0, <2>1, IdsFit
  <2>3. reviewed'[h] = choice[p] /\ \A id \in Ids(manifest) : reviewed'[id] = reviewed[id]
    BY <1>0, <1>1, <2>1, <2>2 DEF Shape, Apart
  <2> QED
    BY <2>1, <2>3
<1>10. Running' = Running
  BY <1>0, <1>1, RunningStays DEF Steps
<1>11. Solo'
  <2>1. ASSUME alone, NEW q \in Procs, q # p
        PROVE  pc'[q] = "idle"
    BY <1>2, <1>9, <2>1 DEF Running
  <2>2. alone => \A s, q \in Running' : s = q
    BY <1>9, <1>10
  <2> QED
    BY <1>1, <1>2, <1>4, <1>9, <2>1, <2>2 DEF Solo, InHand
<1>12. Counted'
  BY <1>0, <1>1, <1>10 DEF Counted
<1>13. RecordedOnce' /\ RecordsMatchFiles'
  <2>1. RecordedOnce'
    BY <1>0, <1>1 DEF RecordedOnce
  <2>2. ASSUME alone', NEW i \in DOMAIN manifest', IsMessage(manifest'[i])
        PROVE  reviewed'[manifest'[i].id] = manifest'[i].decision
    <3>1. manifest[i].id \in Ids(manifest)
      BY <1>1, <2>2, IdsKnow
    <3> QED
      BY <1>0, <1>1, <1>9, <2>2, <3>1 DEF RecordsMatchFiles
  <2> QED
    BY <2>1, <2>2 DEF RecordsMatchFiles
<1> QED
  BY <1>3, <1>7, <1>8, <1>11, <1>12, <1>13 DEF Inv

\* A part is moved away: the process holds it.
LEMMA EvacuateStep == ASSUME Inv, NEW p \in Procs, Evacuate(p) PROVE Inv'
<1> DEFINE h == Head(todo[p])
<1>0. Shape /\ Counted /\ Apart /\ Solo
      /\ RecordedOnce /\ NoneForgotten /\ RecordsMatchFiles
  BY DEF Inv
<1>1. /\ pc[p] = "rename" /\ pc' = [pc EXCEPT ![p] = "append"]
      /\ h \in parts /\ parts' = parts \ {h}
      /\ UNCHANGED <<issued, reviewed, manifest, todo, choice, alone, lost, dropped, runs,
                     events>>
  BY DEF Evacuate, Goto, ghostVars
<1>2. /\ pc' \in [Procs -> Steps] /\ pc'[p] = "append"
      /\ \A q \in Procs \ {p} : pc'[q] = pc[q]
  BY <1>0, <1>1 DEF Shape, Steps
<1>3. Shape'
  BY <1>0, <1>1, <1>2 DEF Shape, LastId
<1>4. Ids(manifest)' = Ids(manifest)
  BY <1>1 DEF Ids
<1>5. /\ \A q \in Procs : Holds(q)' <=> Holds(q) \/ q = p
      /\ \A q \in Procs : InHand(q)' = InHand(q)
      /\ ~Holds(p) /\ InHand(p) = h
  BY <1>1, <1>2 DEF Holds, InHand
<1>6. Apart'
  <2>1. Ids(manifest)' \subseteq (1..issued') \ parts'
    BY <1>0, <1>1, <1>4 DEF Apart
  <2>2. h \in (1..issued) \ Ids(manifest)
    BY <1>0, <1>1 DEF Shape, Apart
  <2>3. ASSUME NEW q \in Procs, Holds(q)'
        PROVE  InHand(q)' \in (1..issued') \ (parts' \union Ids(manifest)')
    <3>1. CASE q = p
      BY <1>1, <1>4, <1>5, <2>2, <3>1
    <3>2. CASE q # p
      BY <1>0, <1>1, <1>4, <1>5, <2>3, <3>2 DEF Apart
    <3> QED
      BY <3>1, <3>2
  <2>4. ASSUME NEW q \in Procs, Holds(q)
        PROVE  InHand(q) # h
    BY <1>0, <1>1, <2>4 DEF Apart
  <2>5. \A q, s \in Procs : Holds(q)' /\ Holds(s)' /\ InHand(q)' = InHand(s)' => q = s
    <3> SUFFICES ASSUME NEW q \in Procs, NEW s \in Procs, Holds(q) \/ q = p, Holds(s) \/ s = p,
                        InHand(q) = InHand(s)
                 PROVE  q = s
      BY <1>5
    <3>1. CASE Holds(q) /\ Holds(s)
      BY <1>0, <3>1 DEF Apart
    <3>2. CASE q = p \/ s = p
      BY <1>5, <2>4, <3>2
    <3> QED
      BY <3>1, <3>2
  <2> QED
    BY <2>1, <2>3, <2>5, Zenon DEF Apart
<1>7. NoneForgotten'
  <2> SUFFICES ASSUME NEW id \in 1..issued'
               PROVE  \/ id \in parts' \union dropped' \union Ids(manifest)' \union lost'
                      \/ \E q \in Procs : Holds(q)' /\ InHand(q)' = id
    BY Zenon DEF NoneForgotten, Holds, InHand
  <2>1. CASE id = h
    BY <1>5, <2>1
  <2>2. CASE id # h
    <3>1. \/ id \in parts \union dropped \union Ids(manifest) \union lost
          \/ \E q \in Procs : Holds(q) /\ InHand(q) = id
      BY <1>0, <1>1, Zenon DEF NoneForgotten, Holds, InHand
    <3> QED
      BY <1>1, <1>4, <1>5, <2>2, <3>1
  <2> QED
    BY <2>1, <2>2
<1>8. Running' = Running
  BY <1>0, <1>1, RunningStays DEF Steps
<1>9. Solo'
  <2>1. ASSUME NEW q \in Procs, q # p, alone
        PROVE  pc'[q] = "idle"
    BY <1>0, <1>1, <1>2, <2>1 DEF Solo, Running
  <2> QED
    BY <1>0, <1>1, <1>2, <1>8, <2>1 DEF Solo, InHand
<1>10. Counted'
  BY <1>0, <1>1, <1>8 DEF Counted
<1> QED
  BY <1>0, <1>1, <1>3, <1>6, <1>7, <1>9, <1>10, RecordsKept DEF Inv

\* The record of a message is appended.
LEMMA AppendRecordStep == ASSUME Inv, NEW p \in Procs, AppendRecord(p) PROVE Inv'
<1> DEFINE h == Head(todo[p])
           r == Msg(h, choice[p])
<1>0. Shape /\ Counted /\ Apart /\ Solo
      /\ RecordedOnce /\ NoneForgotten /\ RecordsMatchFiles
  BY DEF Inv
<1>1. /\ pc[p] = "append" /\ pc' = [pc EXCEPT ![p] = "newline"]
      /\ manifest' = Append(manifest, r)
      /\ UNCHANGED <<issued, parts, reviewed, todo, choice, alone, lost, dropped, runs, events>>
  BY DEF AppendRecord, Goto, ghostVars
<1>2. /\ pc' \in [Procs -> Steps] /\ pc'[p] = "newline"
      /\ \A q \in Procs \ {p} : pc'[q] = pc[q]
  BY <1>0, <1>1 DEF Shape, Steps
<1>3. IsMessage(r) /\ r.id = h /\ r.decision = choice[p]
  BY DEF IsMessage, Msg
<1> HIDE DEF r
<1>4. /\ manifest' \in Seq(Range(manifest'))
      /\ Ids(manifest)' = Ids(manifest) \union (IF IsMessage(r) THEN {r.id} ELSE {})
  BY <1>0, <1>1, ManifestAppend
<1>5. Ids(manifest)' = Ids(manifest) \union {h}
  BY <1>3, <1>4
<1>6. Shape'
  BY <1>0, <1>1, <1>2, <1>4 DEF Shape, LastId
<1>7. /\ \A q \in Procs : Holds(q)' <=> Holds(q) /\ q # p
      /\ \A q \in Procs : InHand(q)' = InHand(q)
      /\ Holds(p) /\ InHand(p) = h
  BY <1>1, <1>2 DEF Holds, InHand
<1>8. h \in (1..issued) \ (parts \union Ids(manifest))
  BY <1>0, <1>7 DEF Apart
<1>9. Apart'
  <2>1. Ids(manifest)' \subseteq (1..issued') \ parts'
    BY <1>0, <1>1, <1>5, <1>8 DEF Apart
  <2>2. ASSUME NEW q \in Procs, Holds(q)'
        PROVE  InHand(q)' \in (1..issued') \ (parts' \union Ids(manifest)')
    <3>1. Holds(q) /\ q # p
      BY <1>7, <2>2
    <3>2. InHand(q) # h /\ InHand(q) \in (1..issued) \ (parts \union Ids(manifest))
      BY <1>0, <1>7, <3>1 DEF Apart
    <3> QED
      BY <1>1, <1>5, <1>7, <3>2
  <2>3. \A q, s \in Procs : Holds(q)' /\ Holds(s)' /\ InHand(q)' = InHand(s)' => q = s
    BY <1>0, <1>7 DEF Apart
  <2> QED
    BY <2>1, <2>2, <2>3, Zenon DEF Apart
<1>10. NoneForgotten'
  <2>1. \A q \in Procs : Holds(q) =>
            \/ Holds(q)' /\ InHand(q)' = InHand(q)
            \/ InHand(q) \in parts' \union dropped' \union Ids(manifest)' \union lost'
    BY <1>5, <1>7
  <2>2. parts \union dropped \union Ids(manifest)
           \subseteq parts' \union dropped' \union Ids(manifest)'
    BY <1>1, <1>5
  <2> QED
    BY <1>0, <1>1, <2>1, <2>2, AccountedKept
<1>11. Running' = Running
  BY <1>0, <1>1, RunningStays DEF Steps
<1>12. Solo'
  <2>1. ASSUME NEW q \in Procs, q # p, alone
        PROVE  pc'[q] = "idle"
    BY <1>0, <1>1, <1>2, <2>1 DEF Solo, Running
  <2> QED
    BY <1>0, <1>1, <1>2, <1>11, <2>1 DEF Solo
<1>13. Counted'
  BY <1>0, <1>1, <1>11 DEF Counted
<1>14. RecordedOnce' /\ RecordsMatchFiles'
  <2>1. IsMessage(r) => /\ r.id \notin Ids(manifest)
                        /\ alone' => reviewed[r.id] = r.decision
    BY <1>0, <1>1, <1>3, <1>8 DEF Solo, InHand
  <2> QED
    BY <1>0, <1>1, <2>1, RecordsAppend
<1> QED
  BY <1>6, <1>9, <1>10, <1>12, <1>13, <1>14 DEF Inv

\* The ways a run ends.
LEMMA EndSteps ==
    ASSUME Inv, NEW p \in Procs,
           Interrupt(p) \/ EvacuateFails(p) \/ AppendFails(p) \/ Answer(p) \/ Kill(p)
    PROVE  Inv'
<1>1. CASE Interrupt(p)
  <2>1. /\ pc[p] = "check" /\ End(p)
        /\ UNCHANGED <<issued, parts, reviewed, manifest, alone, lost, dropped, runs, events>>
    BY <1>1 DEF Interrupt, fileVars, ghostVars
  <2>2. Forsaken(p) = {}
    BY <2>1 DEF Forsaken
  <2> QED
    BY <2>1, <2>2, RunOver
<1>2. CASE EvacuateFails(p)
  <2>1. /\ pc[p] = "rename" /\ End(p)
        /\ UNCHANGED <<issued, parts, reviewed, manifest, alone, lost, dropped, runs, events>>
    BY <1>2 DEF EvacuateFails, fileVars, ghostVars
  <2>2. Forsaken(p) = {}
    BY <2>1 DEF Forsaken
  <2> QED
    BY <2>1, <2>2, RunOver
<1>3. CASE Answer(p)
  <2>1. /\ pc[p] = "asked" /\ End(p)
        /\ UNCHANGED <<reviewed, manifest, alone, lost, dropped, runs, events>>
        /\ \/ UNCHANGED <<issued, parts>>
           \/ issued' = NextId /\ parts' = parts \union {NextId}
    BY <1>3 DEF Answer, ghostVars
  <2>2. Forsaken(p) = {}
    BY <2>1 DEF Forsaken
  <2> QED
    BY <2>1, <2>2, RunOver
<1>4. CASE Kill(p)
  <2>1. /\ pc[p] # "idle" /\ End(p) /\ lost' = lost \union Forsaken(p) /\ events' \subseteq events
        /\ UNCHANGED <<issued, parts, reviewed, manifest, alone, dropped, runs>>
    BY <1>4 DEF Kill, Event, fileVars
  <2> QED
    BY <2>1, RunOver
<1>5. CASE AppendFails(p)
  <2>1. /\ pc[p] # "idle" /\ End(p) /\ lost' = lost \union Forsaken(p) /\ events' \subseteq events
        /\ UNCHANGED <<issued, parts, reviewed, alone, dropped, runs>>
        /\ manifest' = manifest \/ manifest' = Append(manifest, HalfRecord)
    BY <1>5 DEF AppendFails, Event
  <2> QED
    BY <2>1, RunOver
<1> QED
  BY <1>1, <1>2, <1>3, <1>4, <1>5

\* What happens outside the runs: the console log becomes a part, parts are cleared.
LEMMA Elsewhere ==
    ASSUME Inv, UNCHANGED <<pc, todo, choice, reviewed, manifest, alone, lost, runs>>,
           \/ /\ issued' = issued /\ parts' \subseteq parts
              /\ parts \union dropped \subseteq parts' \union dropped'
              /\ "rollout" \in events' => "rollout" \in events
           \/ /\ issued' = issued + 1 /\ parts' = parts \union {issued + 1}
              /\ dropped' = dropped
              /\ "rollout" \in events /\ "rollout" \notin events'
    PROVE  Inv'
<1>0. Shape /\ Counted /\ Apart /\ Solo
      /\ RecordedOnce /\ NoneForgotten /\ RecordsMatchFiles
  BY DEF Inv
<1>1. issued \in Nat /\ issued' \in Nat /\ parts' \subseteq 1..issued'
  <2>1. CASE issued' = issued /\ parts' \subseteq parts
    BY <1>0, <2>1 DEF Shape
  <2>2. CASE issued' = issued + 1 /\ parts' = parts \union {issued + 1}
    BY <1>0, <2>2 DEF Shape
  <2> QED
    BY <2>1, <2>2
<1>2. Shape'
  BY <1>0, <1>1 DEF Shape, LastId
<1>3. Ids(manifest)' = Ids(manifest)
  BY DEF Ids
<1>4. \A q \in Procs : Holds(q)' => Holds(q) /\ InHand(q)' = InHand(q)
  BY DEF Holds, InHand
<1>5. \A q \in Procs : Holds(q) => Holds(q)' /\ InHand(q)' = InHand(q)
  BY DEF Holds, InHand
<1>6. Apart'
  <2>1. \/ issued' = issued /\ parts' \subseteq parts
        \/ issued' = issued + 1 /\ parts' \subseteq parts \union {issued + 1}
    OBVIOUS
  <2> QED
    BY <1>0, <1>2, <1>3, <1>4, <2>1, ApartKept
<1>7. NoneForgotten'
  <2>1. /\ issued' = issued \/ (issued' = issued + 1 /\ issued + 1 \in parts')
        /\ parts \union dropped \union Ids(manifest)
              \subseteq parts' \union dropped' \union Ids(manifest)'
    BY <1>3
  <2> QED
    BY <1>0, <1>5, <2>1, AccountedKept
<1>8. Solo'
  <2>1. issued' \in {issued, issued + 1}
    OBVIOUS
  <2> QED
    BY <1>0, <1>3, <2>1, SoloKept
<1>9. Counted'
  <2>1. Running' = Running
    BY DEF Running
  <2>2. PICK c \in Nat : Cardinality(Running) = c
    BY <1>0, FS_CardinalityType DEF Counted
  <2>3. CASE issued' = issued /\ ("rollout" \in events' => "rollout" \in events)
    <3>1. issued \in Nat /\ runs \in Nat
      BY <1>0 DEF Shape
    <3> QED
      BY <1>0, <2>1, <2>2, <2>3, <3>1 DEF Counted
  <2>4. CASE issued' = issued + 1 /\ "rollout" \in events /\ "rollout" \notin events'
    <3>1. issued \in Nat /\ runs \in Nat
      BY <1>0 DEF Shape
    <3> QED
      BY <1>0, <2>1, <2>2, <2>4, <3>1 DEF Counted
  <2> QED
    BY <2>3, <2>4
<1> QED
  BY <1>0, <1>2, <1>6, <1>7, <1>8, <1>9, RecordsKept DEF Inv

-----------------------------------------------------------------------------
\* The invariant

LEMMA InvInitially == Init => Inv
<1> SUFFICES ASSUME Init PROVE Inv
  OBVIOUS
<1>1. Running = {} /\ Ids(manifest) = {}
  BY DEF Init, Running, Ids
<1>2. Shape
  <2>1. manifest \in Seq(Range(manifest))
    BY DEF Init
  <2>2. runs \in 0..MaxRuns
    BY HistoryAssumption DEF Init, HistoryAssumption
  <2> QED
    BY <2>1, <2>2 DEF Init, Shape, Steps, Decisions
<1>3. Counted
  <2>1. IsFiniteSet(Running) /\ Cardinality(Running) = 0
    BY <1>1, FS_EmptySet
  <2> QED
    BY <2>1 DEF Init, Counted
<1>4. Apart /\ Solo
  BY <1>1 DEF Init, Apart, Solo, Holds
<1>5. RecordedOnce /\ NoneForgotten /\ RecordsMatchFiles
  BY DEF Init, RecordedOnce, NoneForgotten, RecordsMatchFiles
<1> QED
  BY <1>2, <1>3, <1>4, <1>5 DEF Inv

LEMMA InvStep == Inv /\ [Next]_vars => Inv'
<1> SUFFICES ASSUME Inv, [Next]_vars PROVE Inv'
  OBVIOUS
<1>1. ASSUME NEW p \in Procs, Run(p)
      PROVE  Inv'
  BY <1>1, SaveUserStep, MovesOnSteps, WriteReviewedStep, EvacuateStep, AppendRecordStep,
     EndSteps DEF Run
<1>2. CASE RollOut
  <2>1. /\ UNCHANGED <<pc, todo, choice, reviewed, manifest, alone, lost, dropped, runs>>
        /\ issued' = issued + 1 /\ parts' = parts \union {issued + 1}
        /\ "rollout" \in events /\ "rollout" \notin events'
    BY <1>2 DEF RollOut, Event, NextId, procVars, ghostVars
  <2> QED
    BY <2>1, Elsewhere
<1>3. CASE Clear
  <2>1. /\ UNCHANGED <<pc, todo, choice, reviewed, manifest, alone, lost, runs, issued>>
        /\ parts' \subseteq parts /\ parts \union dropped \subseteq parts' \union dropped'
        /\ events' \subseteq events
    BY <1>3 DEF Clear, ClearList, ClearPart, ClearEvacuated, ClearCount, ClearWrite, Event,
                fileVars, procVars, ghostVars
  <2> QED
    BY <2>1, Elsewhere
<1>4. CASE UNCHANGED vars
  BY <1>4, Elsewhere DEF vars, fileVars, procVars, ghostVars
<1> QED
  BY <1>1, <1>2, <1>3, <1>4 DEF Next

LEMMA InvAlways == Spec => []Inv
  BY InvInitially, InvStep, PTL DEF Spec

\* However many `ai` review a session at the same time, and wherever they are
\* killed, no part is recorded twice; and while they do not overlap, the record
\* says how the text that is sent for it was reviewed.
THEOREM PartsRecordedTruly == Spec => []RecordedTruly
<1>1. Inv => RecordedTruly
  BY DEF Inv, RecordedTruly
<1> QED
  BY <1>1, InvAlways, PTL

-----------------------------------------------------------------------------
\* The lines of the manifest

\* While the runs do not overlap and none is cut off, records and newlines take turns,
\* and the last record is without its newline only while one is about to write it.
Writing == \E p \in Procs : pc[p] \in {"newline", "compacted"}

Lined ==
    alone /\ ~cut =>
        /\ lost = {}
        /\ \A i \in DOMAIN manifest :
              manifest[i] # HalfRecord /\ (manifest[i] = NewLine <=> i % 2 = 0)
        /\ Writing <=> Len(manifest) % 2 = 1

LEMMA LinedGrows ==
    ASSUME Shape, Lined, alone, ~cut, alone', ~cut', NEW r, manifest' = Append(manifest, r),
           r # HalfRecord, r = NewLine <=> Writing, Writing' <=> ~Writing, lost' = lost
    PROVE  Lined'
<1>1. PICK n \in Nat : n = Len(manifest)
  BY DEF Shape
<1>2. /\ DOMAIN manifest = 1..n /\ DOMAIN manifest' = 1..(n + 1) /\ manifest'[n + 1] = r
      /\ \A i \in 1..n : manifest'[i] = manifest[i]
  BY <1>1, ManifestAppend
<1>3. Len(manifest') = n + 1
  BY <1>1 DEF Shape
<1>4. Writing <=> n % 2 = 1
  BY <1>1 DEF Lined
<1>5. (n + 1) % 2 = 0 <=> n % 2 = 1
  BY <1>1
<1>6. (n + 1) % 2 = 1 <=> ~(n % 2 = 1)
  BY <1>1
<1>7. ASSUME NEW i \in 1..(n + 1)
      PROVE  manifest'[i] # HalfRecord /\ (manifest'[i] = NewLine <=> i % 2 = 0)
  <2>1. CASE i = n + 1
    BY <1>2, <1>4, <1>5, <2>1
  <2>2. CASE i # n + 1
    <3>1. i \in 1..n
      BY <1>1, <2>2
    <3> QED
      BY <1>2, <3>1 DEF Lined
  <2> QED
    BY <2>1, <2>2
<1>8. lost' = {}
  BY DEF Lined
<1>9. Writing' <=> Len(manifest') % 2 = 1
  BY <1>3, <1>4, <1>6
<1> QED
  BY <1>2, <1>7, <1>8, <1>9 DEF Lined

\* Steps that write nothing to it.
LEMMA LinedStill ==
    ASSUME Lined, alone' /\ ~cut' => alone /\ ~cut /\ lost' = lost, manifest' = manifest,
           alone' /\ ~cut' => (Writing' <=> Writing)
    PROVE  Lined'
  BY DEF Lined

\* Whether something is being written is known from one, while the others rest.
LEMMA OneWrites ==
    ASSUME Inv, alone, NEW p \in Procs, pc[p] # "idle", NEW at \in Steps,
           pc' = [pc EXCEPT ![p] = at]
    PROVE  /\ Writing <=> pc[p] \in {"newline", "compacted"}
           /\ Writing' <=> at \in {"newline", "compacted"}
<1>1. \A q \in Procs : q # p => pc[q] = "idle"
  BY DEF Inv, Solo, Running
<1>2. \A q \in Procs : pc'[q] = IF q = p THEN at ELSE pc[q]
  BY DEF Inv, Shape
<1> QED
  BY <1>1, <1>2 DEF Writing

LEMMA LinedStep == Inv /\ Lined /\ [Next]_vars => Lined'
<1> SUFFICES ASSUME Inv, Lined, [Next]_vars, alone', ~cut' PROVE Lined'
  BY DEF Lined
<1>0. Shape
  BY DEF Inv
<1>1. ASSUME NEW p \in Procs, SaveUser(p)
      PROVE  Lined'
  <2>1. /\ UNCHANGED <<manifest, lost, cut>> /\ alone /\ pc[p] = "idle"
        /\ \E at \in {"list", "load"} : pc' = [pc EXCEPT ![p] = at]
    BY <1>1 DEF SaveUser, Goto
  <2>2. \A q \in Procs : pc'[q] \in {"newline", "compacted"}
                            <=> pc[q] \in {"newline", "compacted"}
    BY <1>0, <2>1 DEF Shape
  <2>3. Writing' <=> Writing
    BY <2>2 DEF Writing
  <2> QED
    BY <2>1, <2>3, LinedStill
<1>2. ASSUME NEW p \in Procs, NEW at \in Steps \ {"newline", "compacted"},
             pc[p] \in Steps \ {"idle", "newline", "compacted"}, pc' = [pc EXCEPT ![p] = at],
             UNCHANGED <<manifest, lost, cut, alone>>
      PROVE  Lined'
  <2>1. Writing' <=> Writing
    <3>1. /\ Writing <=> pc[p] \in {"newline", "compacted"}
          /\ Writing' <=> at \in {"newline", "compacted"}
      BY <1>2, OneWrites
    <3> QED
      BY <1>2, <3>1
  <2> QED
    BY <1>2, <2>1, LinedStill
<1>3. ASSUME NEW p \in Procs,
             \/ ListParts(p) \/ ReadPart(p) \/ Check(p) \/ Interrupt(p) \/ WriteReviewed(p)
             \/ Evacuate(p) \/ EvacuateFails(p) \/ LoadForCompaction(p) \/ WriteSummary(p)
             \/ LoadHistory(p) \/ ViewHistory(p) \/ Answer(p)
      PROVE  Lined'
  <2>1. /\ UNCHANGED <<manifest, lost, cut, alone>>
        /\ pc[p] \in Steps \ {"idle", "newline", "compacted"}
    BY <1>3 DEF ListParts, ReadPart, Check, Interrupt, WriteReviewed, Evacuate, EvacuateFails,
                LoadForCompaction, WriteSummary, LoadHistory, ViewHistory, Answer, fileVars,
                ghostVars, Steps
  <2>2. \/ pc' = pc
        \/ \E at \in {"idle", "read", "check", "write", "rename", "append", "records", "summary",
                       "compact", "load", "view", "asked"} : pc' = [pc EXCEPT ![p] = at]
    BY <1>3 DEF ListParts, ReadPart, Check, Interrupt, WriteReviewed, Evacuate, EvacuateFails,
                LoadForCompaction, WriteSummary, LoadHistory, ViewHistory, Answer, Goto, End
  <2>3. CASE pc' = pc
    <3>1. Writing' <=> Writing
      BY <2>3 DEF Writing
    <3> QED
      BY <2>1, <3>1, LinedStill
  <2> QED
    BY <1>2, <2>1, <2>2, <2>3 DEF Steps
<1>4. ASSUME NEW p \in Procs, AppendRecord(p) \/ AppendCompaction(p)
      PROVE  Lined'
  <2>1. /\ UNCHANGED <<lost, cut, alone>> /\ pc[p] \in {"append", "compact"}
        /\ \E at \in {"newline", "compacted"} : pc' = [pc EXCEPT ![p] = at]
        /\ \E r : /\ manifest' = Append(manifest, r) /\ r # HalfRecord /\ r # NewLine
    BY <1>4 DEF AppendRecord, AppendCompaction, Goto, ghostVars, Msg, Comp, HalfRecord, NewLine
  <2>2. PICK at \in {"newline", "compacted"} : pc' = [pc EXCEPT ![p] = at]
    BY <2>1
  <2>5. PICK r : manifest' = Append(manifest, r) /\ r # HalfRecord /\ r # NewLine
    BY <2>1
  <2>3. at \in Steps /\ pc[p] # "idle" /\ pc[p] \notin {"newline", "compacted"}
    BY <2>1 DEF Steps
  <2>4. ~Writing /\ Writing'
    BY <2>1, <2>2, <2>3, OneWrites
  <2> QED
    BY <1>0, <2>1, <2>2, <2>4, <2>5, LinedGrows
<1>5. ASSUME NEW p \in Procs, AppendNewLine(p)
      PROVE  Lined'
  <2>1. /\ UNCHANGED <<lost, cut, alone>> /\ pc[p] \in {"newline", "compacted"}
        /\ \E at \in {"read", "load"} : pc' = [pc EXCEPT ![p] = at]
        /\ manifest' = Append(manifest, NewLine)
    BY <1>5 DEF AppendNewLine, Goto, ghostVars
  <2>2. PICK at \in {"read", "load"} : pc' = [pc EXCEPT ![p] = at]
    BY <2>1
  <2>3. at \in Steps /\ pc[p] # "idle" /\ at \notin {"newline", "compacted"}
    BY <2>1 DEF Steps
  <2>4. Writing /\ ~Writing'
    BY <2>1, <2>2, <2>3, OneWrites
  <2>5. NewLine # HalfRecord
    BY DEF NewLine, HalfRecord
  <2> QED
    BY <1>0, <2>1, <2>4, <2>5, LinedGrows
<1>6. ASSUME NEW p \in Procs, AppendFails(p) \/ Kill(p)
      PROVE  FALSE
  BY <1>6 DEF AppendFails, Kill
<1>7. CASE RollOut \/ Clear \/ UNCHANGED vars
  <2>1. UNCHANGED <<manifest, lost, cut, alone, pc>>
    BY <1>7 DEF RollOut, Clear, ClearList, ClearPart, ClearEvacuated, ClearCount, ClearWrite,
                vars, fileVars, procVars, ghostVars
  <2>2. Writing' <=> Writing
    BY <2>1 DEF Writing
  <2> QED
    BY <2>1, <2>2, LinedStill
<1> QED
  BY <1>1, <1>3, <1>4, <1>5, <1>6, <1>7 DEF Next, Run

\* Records and newlines that take turns are whole lines.
LEMMA LinedApart == Shape /\ Lined /\ alone /\ ~cut => lost = {} /\ LinesApart
<1> SUFFICES ASSUME Shape, Lined, alone, ~cut PROVE lost = {} /\ LinesApart
  OBVIOUS
<1>1. PICK n \in Nat : n = Len(manifest) /\ DOMAIN manifest = 1..n
  BY DEF Shape
<1>2. \A i \in 1..n : manifest[i] # HalfRecord /\ (manifest[i] = NewLine <=> i % 2 = 0)
  BY <1>1 DEF Lined
<1>3. ASSUME NEW i \in 1..n, IsMessage(manifest[i])
      PROVE  StartsLine(manifest, i) /\ EndsLine(manifest, i)
  <2>1. manifest[i] # NewLine
    BY <1>3 DEF IsMessage, NewLine
  <2>2. i % 2 # 0
    BY <1>2, <2>1
  <2>3. (i - 1) % 2 = 0 /\ (i + 1) % 2 = 0
    BY <1>1, <2>2
  <2>4. i # 1 => i - 1 \in 1..n
    BY <1>1
  <2>5. i # n => i + 1 \in 1..n
    BY <1>1
  <2> QED
    BY <1>1, <1>2, <2>1, <2>3, <2>4, <2>5 DEF StartsLine, EndsLine
<1>4. LinesApart
  BY <1>1, <1>2, <1>3 DEF LinesApart, WholeLines
<1> QED
  BY <1>4 DEF Lined

\* No message is lost on its way to the manifest but the one in the hand of a process
\* that is killed or whose write fails; until then, and while the runs do not overlap,
\* none is, and each that is recorded is on a line of its own.
THEOREM NoPartLost == Spec => []PartsAccounted
<1>1. Inv /\ Lined => PartsAccounted
  BY LinedApart DEF Inv, PartsAccounted
<1>2. Init => Lined
  BY DEF Init, Lined, Writing
<1> QED
  BY <1>1, <1>2, InvAlways, LinedStep, PTL DEF Spec


-----------------------------------------------------------------------------
\* Those: some of the elements of a sequence, in their order

\* h finds the elements of t in s: they are those at places of W among the first n.
Picks(h, t, s, W, n) ==
    /\ h \in [1..Len(t) -> W \cap 1..n]
    /\ \A k \in 1..Len(t) : t[k] = s[h[k]]
    /\ \A j, k \in 1..Len(t) : j < k => h[j] < h[k]
    /\ \A i \in W \cap 1..n : \E k \in 1..Len(t) : h[k] = i

\* Nothing is picked of nothing.
LEMMA PicksNone ==
    ASSUME NEW s, NEW W
    PROVE  \E h : Picks(h, <<>>, s, W, 0)
<1>1. Len(<<>>) = 0 /\ 1..0 = {}
  OBVIOUS
<1>2. Picks([k \in {} |-> 0], <<>>, s, W, 0)
  BY <1>1 DEF Picks
<1> QED BY <1>2

\* A place that is not in W changes nothing.
LEMMA PicksSame ==
    ASSUME NEW s, NEW W, NEW n \in Nat, NEW t, NEW h, Picks(h, t, s, W, n), n + 1 \notin W
    PROVE  Picks(h, t, s, W, n + 1)
<1>1. W \cap 1..n = W \cap 1..(n + 1)
  <2>1. \A i \in 1..(n + 1) : i \in 1..n \/ i = n + 1
    OBVIOUS
  <2>2. \A i \in 1..n : i \in 1..(n + 1)
    OBVIOUS
  <2> QED BY <2>1, <2>2
<1> QED BY <1>1 DEF Picks

\* A place of W is one more.
LEMMA PicksMore ==
    ASSUME NEW S, NEW s, NEW W, NEW n \in Nat, NEW t \in Seq(S), NEW h, Picks(h, t, s, W, n),
           n + 1 \in W, s[n + 1] \in S
    PROVE  \E k : Picks(k, Append(t, s[n + 1]), s, W, n + 1)
<1> DEFINE m == Len(t) + 1
           u == Append(t, s[n + 1])
           k == [i \in 1..m |-> IF i = m THEN n + 1 ELSE h[i]]
<1>1. /\ Len(t) \in Nat /\ Len(u) = m /\ u[m] = s[n + 1] /\ \A i \in 1..Len(t) : u[i] = t[i]
      /\ m \in 1..m /\ \A i \in 1..m : i \in 1..Len(t) \/ i = m
      /\ \A i \in 1..Len(t) : i \in 1..m /\ i < m
  OBVIOUS
<1>2. /\ \A i \in 1..Len(t) : h[i] \in W /\ h[i] \in 1..n
      /\ \A i \in 1..Len(t) : t[i] = s[h[i]]
      /\ \A i, j \in 1..Len(t) : i < j => h[i] < h[j]
      /\ \A i \in W \cap 1..n : \E j \in 1..Len(t) : h[j] = i
  BY DEF Picks
<1>3. k[m] = n + 1 /\ \A i \in 1..Len(t) : k[i] = h[i]
  BY <1>1
<1>4. k \in [1..m -> W \cap 1..(n + 1)]
  <2>1. \A i \in 1..n : i \in 1..(n + 1)
    OBVIOUS
  <2>2. n + 1 \in W \cap 1..(n + 1)
    OBVIOUS
  <2>3. ASSUME NEW i \in 1..m PROVE k[i] \in W \cap 1..(n + 1)
    BY <1>1, <1>2, <1>3, <2>1, <2>2
  <2> QED BY <2>3
<1> HIDE DEF m, u, k
<1>5. \A i \in 1..m : u[i] = s[k[i]]
  BY <1>1, <1>2, <1>3
<1>6. \A i, j \in 1..m : i < j => k[i] < k[j]
  <2> SUFFICES ASSUME NEW i \in 1..m, NEW j \in 1..m, i < j PROVE k[i] < k[j]
    OBVIOUS
  <2>1. i \in 1..Len(t)
    BY <1>1 DEF m
  <2>2. CASE j = m
    <3>1. k[j] = n + 1 /\ k[i] = h[i] /\ h[i] \in 1..n
      BY <1>2, <1>3, <2>1, <2>2
    <3> QED BY <3>1
  <2>3. CASE j \in 1..Len(t)
    BY <1>2, <1>3, <2>1, <2>3
  <2> QED BY <1>1, <2>2, <2>3
<1>7. \A i \in W \cap 1..(n + 1) : \E j \in 1..m : k[j] = i
  <2> SUFFICES ASSUME NEW i \in W \cap 1..(n + 1) PROVE \E j \in 1..m : k[j] = i
    OBVIOUS
  <2>1. CASE i = n + 1
    BY <1>1, <1>3, <2>1
  <2>2. CASE i # n + 1
    <3>1. i \in W \cap 1..n
      BY <2>2
    <3>2. PICK j \in 1..Len(t) : h[j] = i
      BY <1>2, <3>1
    <3> QED BY <1>1, <1>3, <3>2
  <2> QED BY <2>1, <2>2
<1>8. Picks(k, u, s, W, n + 1)
  BY <1>1, <1>4, <1>5, <1>6, <1>7 DEF Picks
<1> QED BY <1>8 DEF u

\* Those are elements of s, found in it one after the other.
LEMMA ThoseAre ==
    ASSUME NEW S, NEW s \in Seq(S), NEW W
    PROVE  Those(s, W) \in Seq(S) /\ \E h : Picks(h, Those(s, W), s, W, Len(s))
<1> DEFINE n == Len(s)
           parts1 == [i \in DOMAIN s |-> IF i \in W THEN <<s[i]>> ELSE <<>>]
<1>1. n \in Nat /\ DOMAIN s = 1..n /\ \A i \in 1..n : s[i] \in S
  OBVIOUS
<1>2. /\ parts1 \in Seq(Seq(S)) /\ Len(parts1) = n
      /\ \A i \in 1..n : parts1[i] = IF i \in W THEN <<s[i]>> ELSE <<>>
  <2>1. parts1 = [i \in 1..n |-> IF i \in W THEN <<s[i]>> ELSE <<>>]
    BY <1>1
  <2>2. \A i \in 1..n : (IF i \in W THEN <<s[i]>> ELSE <<>>) \in Seq(S)
    BY <1>1
  <2> HIDE DEF n, parts1
  <2> QED BY <1>1, <2>1, <2>2
<1>3. Those(s, W) = FlattenSeq(parts1)
  BY DEF Those
<1> DEFINE Upto(m) == FlattenSeq(FirstOf(parts1, m))
           T == {m \in 0..n : Upto(m) \in Seq(S) /\ \E h : Picks(h, Upto(m), s, W, m)}
<1> HIDE DEF n, parts1
<1>4. 0 \in T
  <2>1. Upto(0) = <<>>
    BY <1>2, FirstAndAll, FlattenEmpty
  <2>2. <<>> \in Seq(S) /\ 0 \in 0..n
    BY <1>1
  <2> QED BY <2>1, <2>2, PicksNone
<1>5. ASSUME NEW m \in 0..(n - 1), m \in T PROVE m + 1 \in T
  <2>1. PICK a : a = Upto(m)
    OBVIOUS
  <2>2. PICK h : Picks(h, a, s, W, m)
    BY <1>5, <2>1
  <2>3. m \in Nat /\ m + 1 \in 0..n /\ m + 1 \in 1..n /\ m \in 0..(Len(parts1) - 1)
    BY <1>1, <1>2
  <2>4. a \in Seq(S) /\ Upto(m + 1) = a \o parts1[m + 1]
    BY <1>2, <2>1, <2>3, FlattenOneMore
  <2>5. CASE m + 1 \in W
    <3>1. PICK x : x = s[m + 1]
      OBVIOUS
    <3>2. x \in S /\ parts1[m + 1] = <<x>>
      BY <1>1, <1>2, <2>3, <2>5, <3>1
    <3>3. a \o <<x>> = Append(a, x) /\ Append(a, x) \in Seq(S)
      BY <2>4, <3>2
    <3>4. Upto(m + 1) = Append(a, x)
      BY <2>4, <3>2, <3>3
    <3>5. \E k : Picks(k, Append(a, x), s, W, m + 1)
      BY <2>2, <2>3, <2>4, <2>5, <3>1, <3>2, PicksMore
    <3> HIDE DEF Upto
    <3> QED BY <2>3, <3>3, <3>4, <3>5
  <2>6. CASE m + 1 \notin W
    <3>1. parts1[m + 1] = <<>>
      BY <1>2, <2>3, <2>6
    <3>2. a \o <<>> = a
      BY <2>4
    <3>3. Upto(m + 1) = a
      BY <2>4, <3>1, <3>2
    <3>4. Picks(h, a, s, W, m + 1)
      BY <2>2, <2>3, <2>6, PicksSame
    <3> HIDE DEF Upto
    <3> QED BY <2>3, <2>4, <3>3, <3>4
  <2> QED BY <2>5, <2>6
<1> HIDE DEF T
<1>6. n \in T
  BY <1>1, <1>4, <1>5, SetInduction
<1>7. Upto(n) = Those(s, W)
  BY <1>2, <1>3, FirstAndAll
<1> QED BY <1>6, <1>7 DEF T, n

\* Those of those: g finds in s what h finds in t and t in s.
LEMMA ThoseOfThose ==
    ASSUME NEW s, NEW V, NEW n \in Nat, NEW t, NEW h, Picks(h, t, s, V, n), Len(t) \in Nat,
           NEW W, NEW u, NEW k, Picks(k, u, t, W, Len(t)),
           NEW X, \A i \in 1..Len(t) : i \in W <=> h[i] \in X
    PROVE  \E g : Picks(g, u, s, V \cap X, n)
<1>1. /\ \A i \in 1..Len(t) : h[i] \in V /\ h[i] \in 1..n
      /\ \A i \in 1..Len(t) : t[i] = s[h[i]]
      /\ \A i, j \in 1..Len(t) : i < j => h[i] < h[j]
      /\ \A i \in V \cap 1..n : \E j \in 1..Len(t) : h[j] = i
  BY DEF Picks
<1>2. /\ \A i \in 1..Len(u) : k[i] \in W /\ k[i] \in 1..Len(t)
      /\ \A i \in 1..Len(u) : u[i] = t[k[i]]
      /\ \A i, j \in 1..Len(u) : i < j => k[i] < k[j]
      /\ \A i \in W \cap 1..Len(t) : \E j \in 1..Len(u) : k[j] = i
  BY DEF Picks
<1> DEFINE g == [i \in 1..Len(u) |-> h[k[i]]]
<1>3. g \in [1..Len(u) -> (V \cap X) \cap 1..n]
  BY <1>1, <1>2
<1>4. \A i \in 1..Len(u) : g[i] = h[k[i]]
  OBVIOUS
<1> HIDE DEF g
<1>5. \A i \in 1..Len(u) : u[i] = s[g[i]]
  BY <1>1, <1>2, <1>4
<1>6. ASSUME NEW i \in 1..Len(u), NEW j \in 1..Len(u), i < j PROVE g[i] < g[j]
  <2>1. k[i] \in 1..Len(t) /\ k[j] \in 1..Len(t) /\ k[i] < k[j]
    BY <1>2, <1>6
  <2>2. h[k[i]] < h[k[j]]
    BY <1>1, <2>1
  <2> QED BY <1>4, <2>2
<1>7. \A i \in (V \cap X) \cap 1..n : \E j \in 1..Len(u) : g[j] = i
  <2> SUFFICES ASSUME NEW i \in (V \cap X) \cap 1..n PROVE \E j \in 1..Len(u) : g[j] = i
    OBVIOUS
  <2>1. PICK l \in 1..Len(t) : h[l] = i
    BY <1>1
  <2>2. l \in W
    BY <2>1
  <2>3. PICK j \in 1..Len(u) : k[j] = l
    BY <1>2, <2>2
  <2> QED BY <1>4, <2>1, <2>3
<1>8. Picks(g, u, s, V \cap X, n)
  BY <1>3, <1>5, <1>6, <1>7 DEF Picks
<1> QED BY <1>8

\* The records of a kind, of the whole lines of a manifest.
OfKind(f, kind) == {i \in WholeLines(f) : f[i].kind = kind}
ThoseOfKind(rs, kind) == Those(rs, {i \in DOMAIN rs : rs[i].kind = kind})

\* The records of a kind of the manifest's whole lines are picked from it in order, their
\* places those of the kind.
LEMMA KindPicked ==
    ASSUME NEW S, NEW f \in Seq(S), NEW kind
    PROVE  /\ ParseLines(f) \in Seq(S) /\ ThoseOfKind(ParseLines(f), kind) \in Seq(S)
           /\ \E g : Picks(g, ThoseOfKind(ParseLines(f), kind), f, OfKind(f, kind), Len(f))
<1>1. PICK rs : rs = ParseLines(f)
  OBVIOUS
<1>2. Len(f) \in Nat /\ DOMAIN f = 1..Len(f)
  OBVIOUS
<1>3. PICK h : Picks(h, rs, f, WholeLines(f), Len(f))
  BY <1>1, ThoseAre DEF ParseLines
<1>4. rs \in Seq(S)
  BY <1>1, ThoseAre DEF ParseLines
<1>5. PICK W : W = {i \in DOMAIN rs : rs[i].kind = kind}
  OBVIOUS
<1>6. PICK u : u = Those(rs, W)
  OBVIOUS
<1>7. u \in Seq(S) /\ \E k : Picks(k, u, rs, W, Len(rs))
  BY <1>4, <1>6, ThoseAre
<1>8. PICK k : Picks(k, u, rs, W, Len(rs))
  BY <1>7
<1>9. PICK X : X = {i \in DOMAIN f : f[i].kind = kind}
  OBVIOUS
<1>10. \A i \in 1..Len(rs) : i \in W <=> h[i] \in X
  <2>1. DOMAIN rs = 1..Len(rs)
    BY <1>4
  <2>2. \A i \in 1..Len(rs) : rs[i] = f[h[i]] /\ h[i] \in DOMAIN f
    BY <1>2, <1>3 DEF Picks
  <2> QED BY <1>5, <1>9, <2>1, <2>2
<1>11. Len(rs) \in Nat
  BY <1>4
<1>12. \E g : Picks(g, u, f, WholeLines(f) \cap X, Len(f))
  BY ONLY <1>2, <1>3, <1>8, <1>10, <1>11, ThoseOfThose
<1>13. WholeLines(f) \cap X = OfKind(f, kind)
  BY <1>9 DEF OfKind, WholeLines
<1>14. u = ThoseOfKind(rs, kind)
  BY <1>5, <1>6 DEF ThoseOfKind
<1> QED BY <1>1, <1>4, <1>7, <1>12, <1>13, <1>14

\* Messages and compactions are kinds of records.
LEMMA KindsAre ==
    ASSUME NEW rs
    PROVE  Messages(rs) = ThoseOfKind(rs, "message") /\ Compactions(rs) = ThoseOfKind(rs, "compaction")
  BY DEF Messages, Compactions, ThoseOfKind, IsMessage, IsCompaction

-----------------------------------------------------------------------------
\* The order of the messages and of the compactions

\* Where an `ai` reviews the parts it has listed.
Reviewing == {"read", "check", "write", "rename", "append", "newline"}

\* What is recorded later is younger, and what is still a part is younger than that.
IdsAscend ==
    /\ \A i, j \in DOMAIN manifest :
          i < j /\ IsMessage(manifest[i]) /\ IsMessage(manifest[j])
          => manifest[i].id < manifest[j].id
    /\ \A id \in Ids(manifest) : \A part \in parts : id < part

\* What p has listed comes in order; it is not recorded yet, but for the first one
\* before its newline; and parts that were not listed are younger.
TodoAscends(p) ==
    pc[p] \in Reviewing =>
        /\ todo[p] \in Seq(Nat) /\ \A k \in 1..Len(todo[p]) : todo[p][k] <= issued
        /\ \A j, k \in 1..Len(todo[p]) : j < k => todo[p][j] < todo[p][k]
        /\ \A id \in Ids(manifest) : \A k \in 1..Len(todo[p]) :
              id < todo[p][k] \/ (k = 1 /\ pc[p] = "newline")
        /\ \A id \in parts : \/ \E k \in 1..Len(todo[p]) : todo[p][k] = id
                             \/ \A k \in 1..Len(todo[p]) : todo[p][k] < id
        /\ pc[p] # "read" => todo[p] # <<>>
        /\ pc[p] \in {"append", "newline"} => todo[p][1] \notin parts

\* The compactions of the whole lines cover one range after the other.
RangesAscend ==
    /\ \A i \in OfKind(manifest, "compaction") :
          manifest[i].from \in Nat /\ manifest[i].to \in Nat /\ manifest[i].from <= manifest[i].to
    /\ \A i, j \in OfKind(manifest, "compaction") :
          i < j => manifest[i].to < manifest[j].from

\* What p compacts is what it has loaded.
Loaded(p) ==
    pc[p] \in {"summary", "compact"} =>
        recs[p] = ParseLines(manifest) /\ Selected(recs[p]) # <<>>

\* While the runs do not overlap.
Order ==
    /\ DOMAIN recs = Procs
    /\ alone => /\ IdsAscend /\ RangesAscend
                /\ \A p \in Procs : TodoAscends(p) /\ Loaded(p)

\* Without an overlap only one runs.
LEMMA OthersRest ==
    ASSUME Inv, alone, NEW p \in Procs, pc[p] # "idle", NEW q \in Procs, q # p
    PROVE  pc[q] = "idle"
  BY DEF Inv, Solo, Running

\* The compactions that are read follow each other.
LEMMA OrderedRead == Shape /\ RangesAscend =>
    \A i, j \in DOMAIN Compactions(ParseLines(manifest)) :
        i < j => Compactions(ParseLines(manifest))[i].to < Compactions(ParseLines(manifest))[j].from
<1> SUFFICES ASSUME Shape, RangesAscend
             PROVE  \A i, j \in DOMAIN Compactions(ParseLines(manifest)) :
                       i < j => Compactions(ParseLines(manifest))[i].to
                                  < Compactions(ParseLines(manifest))[j].from
  OBVIOUS
<1>1. PICK f : f = manifest
  OBVIOUS
<1>2. f \in Seq(Range(f))
  BY <1>1 DEF Shape
<1>3. PICK cs : cs = Compactions(ParseLines(f))
  OBVIOUS
<1>4. cs \in Seq(Range(f)) /\ \E g : Picks(g, cs, f, OfKind(f, "compaction"), Len(f))
  BY <1>2, <1>3, KindPicked, KindsAre
<1>5. PICK g : Picks(g, cs, f, OfKind(f, "compaction"), Len(f))
  BY <1>4
<1>6. /\ \A i \in 1..Len(cs) : g[i] \in OfKind(f, "compaction") /\ cs[i] = f[g[i]]
      /\ \A i, j \in 1..Len(cs) : i < j => g[i] < g[j]
  BY <1>5 DEF Picks
<1>7. DOMAIN cs = 1..Len(cs)
  BY <1>4
<1>8. ASSUME NEW i \in 1..Len(cs), NEW j \in 1..Len(cs), i < j
      PROVE  cs[i].to < cs[j].from
  BY <1>1, <1>6, <1>8 DEF RangesAscend
<1> QED BY <1>1, <1>3, <1>7, <1>8

\* The last compaction that is read ends where none ends later.
LEMMA LastToBounds ==
    ASSUME Shape, RangesAscend
    PROVE  /\ LastTo(ParseLines(manifest)) \in Nat
           /\ \A i \in OfKind(manifest, "compaction") :
                 manifest[i].to <= LastTo(ParseLines(manifest))
<1>1. PICK f : f = manifest
  OBVIOUS
<1>2. f \in Seq(Range(f)) /\ Len(f) \in Nat
  BY <1>1 DEF Shape
<1>3. PICK cs : cs = Compactions(ParseLines(f))
  OBVIOUS
<1>4. cs \in Seq(Range(f)) /\ \E g : Picks(g, cs, f, OfKind(f, "compaction"), Len(f))
  BY <1>2, <1>3, KindPicked, KindsAre
<1>5. PICK g : Picks(g, cs, f, OfKind(f, "compaction"), Len(f))
  BY <1>4
<1>6. /\ \A i \in 1..Len(cs) : g[i] \in OfKind(f, "compaction") /\ cs[i] = f[g[i]]
      /\ \A i, j \in 1..Len(cs) : i < j => g[i] < g[j]
      /\ \A i \in OfKind(f, "compaction") \cap 1..Len(f) : \E k \in 1..Len(cs) : g[k] = i
  BY <1>5 DEF Picks
<1>7. OfKind(f, "compaction") \subseteq 1..Len(f)
  BY <1>2 DEF OfKind, WholeLines
<1>8. LastTo(ParseLines(f)) = IF cs = <<>> THEN 0 ELSE cs[Len(cs)].to
  BY <1>3 DEF LastTo, Last
<1>9. CASE cs = <<>>
  <2>1. Len(cs) = 0
    BY <1>9
  <2>2. \A i \in OfKind(f, "compaction") : FALSE
    BY <1>6, <1>7, <2>1
  <2> QED BY <1>1, <1>8, <1>9, <2>2
<1>10. CASE cs # <<>>
  <2>1. Len(cs) \in Nat /\ Len(cs) \in 1..Len(cs)
    BY <1>4, <1>10
  <2>2. PICK last : last = g[Len(cs)]
    OBVIOUS
  <2>3. /\ last \in OfKind(f, "compaction") /\ cs[Len(cs)] = f[last]
        /\ f[last].from \in Nat /\ f[last].to \in Nat /\ f[last].from <= f[last].to
    BY <1>1, <1>6, <2>1, <2>2 DEF RangesAscend
  <2>4. ASSUME NEW i \in OfKind(f, "compaction") PROVE f[i].to <= f[last].to
    <3>1. PICK k \in 1..Len(cs) : g[k] = i
      BY <1>6, <1>7
    <3>2. CASE k = Len(cs)
      BY <2>2, <2>3, <3>1, <3>2
    <3>3. CASE k # Len(cs)
      <4>1. i < last
        BY <1>6, <2>1, <2>2, <3>1, <3>3
      <4>2. f[i].to < f[last].from /\ f[i].to \in Nat
        BY <1>1, <2>3, <4>1 DEF RangesAscend
      <4> QED BY <2>3, <4>2
    <3> QED BY <3>2, <3>3
  <2> QED BY <1>1, <1>8, <1>10, <2>3, <2>4
<1> QED BY <1>9, <1>10

\* What is selected lies behind the last compaction, and in order.
LEMMA SelectedRange ==
    ASSUME Shape, Apart, IdsAscend, RangesAscend, NEW rs, rs = ParseLines(manifest),
           Selected(rs) # <<>>
    PROVE  /\ Range1(Selected(rs))[1] \in Nat /\ Range1(Selected(rs))[2] \in Nat
           /\ Range1(Selected(rs))[1] <= Range1(Selected(rs))[2]
           /\ LastTo(rs) < Range1(Selected(rs))[1]
<1>1. PICK f : f = manifest
  OBVIOUS
<1>2. f \in Seq(Range(f)) /\ Len(f) \in Nat /\ rs = ParseLines(f)
  BY <1>1 DEF Shape
<1>3. PICK ms : ms = Messages(rs)
  OBVIOUS
<1>4. ms \in Seq(Range(f)) /\ \E g : Picks(g, ms, f, OfKind(f, "message"), Len(f))
  BY <1>2, <1>3, KindPicked, KindsAre
<1>5. PICK g : Picks(g, ms, f, OfKind(f, "message"), Len(f))
  BY <1>4
<1>6. /\ \A i \in 1..Len(ms) : g[i] \in OfKind(f, "message") /\ ms[i] = f[g[i]]
      /\ \A i, j \in 1..Len(ms) : i < j => g[i] < g[j]
  BY <1>5 DEF Picks
<1>7. \A i \in OfKind(f, "message") : i \in DOMAIN f /\ IsMessage(f[i])
  BY DEF OfKind, WholeLines, IsMessage
<1>8. \A i \in 1..Len(ms) : ms[i].id \in Nat
  BY <1>1, <1>6, <1>7, IdsKnow DEF Apart, Shape
<1>9. \A i, j \in 1..Len(ms) : i < j => ms[i].id < ms[j].id
  BY <1>1, <1>6, <1>7 DEF IdsAscend
<1>10. PICK W : W = {i \in DOMAIN ms : ms[i].id > LastTo(rs)}
  OBVIOUS
<1>11. PICK cs : cs = Candidates(rs)
  OBVIOUS
<1>12. cs \in Seq(Range(f)) /\ \E k : Picks(k, cs, ms, W, Len(ms))
  BY <1>3, <1>4, <1>10, <1>11, ThoseAre DEF Candidates
<1>13. PICK k : Picks(k, cs, ms, W, Len(ms))
  BY <1>12
<1>14. /\ \A i \in 1..Len(cs) : k[i] \in W /\ k[i] \in 1..Len(ms) /\ cs[i] = ms[k[i]]
       /\ \A i, j \in 1..Len(cs) : i < j => k[i] < k[j]
  BY <1>13 DEF Picks
<1>15. ASSUME NEW i \in 1..Len(cs) PROVE cs[i].id \in Nat /\ LastTo(rs) < cs[i].id
  <2>1. LastTo(rs) \in Nat
    BY LastToBounds
  <2>2. k[i] \in W /\ k[i] \in 1..Len(ms) /\ cs[i] = ms[k[i]]
    BY <1>14
  <2>3. ms[k[i]].id > LastTo(rs) /\ ms[k[i]].id \in Nat
    BY <1>8, <1>10, <2>2
  <2> QED BY <2>1, <2>2, <2>3
<1>16. ASSUME NEW i \in 1..Len(cs), NEW j \in 1..Len(cs), i <= j PROVE cs[i].id <= cs[j].id
  <2>1. CASE i = j
    BY <1>15, <2>1
  <2>2. CASE i # j
    <3>1. k[i] < k[j] /\ k[i] \in 1..Len(ms) /\ k[j] \in 1..Len(ms)
      BY <1>14, <1>16, <2>2
    <3>2. ms[k[i]].id < ms[k[j]].id
      BY <1>9, <3>1
    <3>3. cs[i].id < cs[j].id
      BY <1>14, <3>2
    <3> QED BY <1>15, <3>3
  <2> QED BY <2>1, <2>2
<1>17. PICK sel : sel = Selected(rs)
  OBVIOUS
<1>18. PICK m : m = IF Chunk < Len(cs) THEN Chunk ELSE Len(cs)
  OBVIOUS
<1>19. Len(cs) \in Nat /\ Chunk \in Nat \ {0} /\ Trigger \in Nat \ {0}
  BY <1>12, HistoryAssumption DEF HistoryAssumption
<1>20. Len(cs) > Trigger /\ sel = SubSeq(cs, 1, m)
  <2>1. ~(Len(Messages(rs)) <= Trigger \/ Len(cs) <= Trigger) /\ sel = SubSeq(cs, 1, m)
    BY <1>11, <1>17, <1>18 DEF Selected
  <2> QED BY <1>19, <2>1
<1>21. m \in 1..Len(cs) /\ 1 \in 1..Len(cs) /\ 1 <= m
  BY <1>18, <1>19, <1>20
<1>22. Len(sel) = m /\ sel[1] = cs[1] /\ sel[Len(sel)] = cs[m]
  BY <1>12, <1>20, <1>21
<1>23. Range1(sel) = <<cs[1].id, cs[m].id>>
  BY <1>22 DEF Range1, Last
<1> QED BY <1>15, <1>16, <1>17, <1>21, <1>23

\* A record makes at most its own line whole, and a newline none.
LEMMA WholeAppend ==
    ASSUME NEW S, NEW f \in Seq(S), NEW r \in S
    PROVE  /\ WholeLines(Append(f, r)) \subseteq WholeLines(f) \union {Len(f) + 1}
           /\ r = NewLine => WholeLines(Append(f, r)) \subseteq WholeLines(f)
<1> DEFINE n == Len(f)
           m == Append(f, r)
<1>1. /\ n \in Nat /\ DOMAIN f = 1..n /\ DOMAIN m = 1..(n + 1) /\ Len(m) = n + 1
      /\ m[n + 1] = r /\ \A i \in 1..n : m[i] = f[i]
  OBVIOUS
<1> HIDE DEF m
<1>2. ASSUME NEW i \in WholeLines(m), i # n + 1
      PROVE  i \in WholeLines(f)
  <2>1. i \in 1..n /\ StartsLine(m, i) /\ EndsLine(m, i)
    BY <1>1, <1>2 DEF WholeLines
  <2>2. StartsLine(f, i)
    <3>1. i = 1 \/ i - 1 \in 1..n
      BY <1>1, <2>1
    <3> QED BY <1>1, <2>1, <3>1 DEF StartsLine
  <2>3. EndsLine(f, i)
    <3>1. CASE i = n
      BY <3>1 DEF EndsLine
    <3>2. CASE i # n
      <4>1. i + 1 \in 1..n /\ i # Len(m)
        <5>1. n \in Nat /\ i \in 1..n /\ i # n /\ Len(m) = n + 1
          BY <1>1, <2>1, <3>2
        <5> QED BY ONLY <5>1
      <4>2. m[i + 1] = f[i + 1] /\ m[i + 1] = NewLine
        BY <1>1, <2>1, <4>1 DEF EndsLine
      <4> QED BY <4>2 DEF EndsLine
    <3> QED BY <3>1, <3>2
  <2> QED BY <1>1, <2>1, <2>2, <2>3 DEF WholeLines
<1>3. r = NewLine => n + 1 \notin WholeLines(m)
  BY <1>1 DEF WholeLines, StartsLine
<1> QED BY <1>2, <1>3 DEF m

-----------------------------------------------------------------------------
\* What keeps the order

\* q does not come to where the order says something of it, or goes on with what it has.
Still(q) ==
    \/ pc'[q] \notin Reviewing \union {"summary", "compact"}
    \/ /\ todo'[q] = todo[q] /\ recs'[q] = recs[q]
       /\ \/ pc'[q] = pc[q]
          \/ pc[q] = "read" /\ pc'[q] = "check" /\ todo[q] # <<>>
          \/ <<pc[q], pc'[q]>> \in
                {<<"check", "write">>, <<"write", "rename">>, <<"summary", "compact">>}
          \/ pc[q] = "rename" /\ pc'[q] = "append" /\ todo[q][1] \notin parts'

\* Parts that are added are younger than all others.
YoungerParts ==
    \/ issued' = issued /\ parts' \subseteq parts
    \/ issued' = issued + 1 /\ parts' \subseteq parts \union {issued + 1}

\* The list of one that goes on.
LEMMA TodoStill ==
    ASSUME Shape, Ids(manifest)' = Ids(manifest), YoungerParts, NEW q \in Procs, TodoAscends(q),
           Still(q)
    PROVE  TodoAscends(q)'
<1> SUFFICES ASSUME pc'[q] \in Reviewing PROVE TodoAscends(q)'
  BY DEF TodoAscends
<1>1. PICK t : t = todo[q]
  OBVIOUS
<1>2. pc[q] \in Reviewing /\ todo'[q] = t
  BY <1>1 DEF Still, Reviewing
<1>3. /\ t \in Seq(Nat) /\ \A k \in 1..Len(t) : t[k] <= issued
      /\ \A j, k \in 1..Len(t) : j < k => t[j] < t[k]
      /\ \A id \in Ids(manifest) : \A k \in 1..Len(t) :
            id < t[k] \/ (k = 1 /\ pc[q] = "newline")
      /\ \A id \in parts : (\E k \in 1..Len(t) : t[k] = id) \/ (\A k \in 1..Len(t) : t[k] < id)
      /\ pc[q] # "read" => t # <<>>
      /\ pc[q] \in {"append", "newline"} => t[1] \notin parts
  BY <1>1, <1>2 DEF TodoAscends
<1>4. issued \in Nat /\ parts \subseteq 1..issued
  BY DEF Shape
<1>5. \A k \in 1..Len(t) : t[k] \in Nat /\ t[k] <= issued'
  BY <1>3, <1>4 DEF YoungerParts
<1>6. pc[q] = "newline" => pc'[q] = "newline"
  BY DEF Still, Reviewing
<1>7. ASSUME NEW id \in parts'
      PROVE  (\E k \in 1..Len(t) : t[k] = id) \/ (\A k \in 1..Len(t) : t[k] < id)
  <2>1. CASE id \in parts
    BY <1>3, <2>1
  <2>2. CASE id \notin parts
    <3>1. id = issued + 1
      BY <2>2 DEF YoungerParts
    <3> QED BY <1>3, <1>4, <1>5, <3>1
  <2> QED BY <2>1, <2>2
<1>8. pc'[q] # "read" => t # <<>>
  BY <1>1, <1>3 DEF Still
<1>9. pc'[q] \in {"append", "newline"} => t[1] \notin parts'
  <2>1. CASE pc[q] \in {"append", "newline"}
    <3>1. t # <<>> /\ t[1] \notin parts
      BY <1>3, <2>1
    <3>2. t[1] <= issued
      BY <1>3, <3>1
    <3> QED BY <1>4, <3>1, <3>2 DEF YoungerParts
  <2>2. CASE pc[q] \notin {"append", "newline"}
    BY <1>1, <2>2 DEF Still
  <2> QED BY <2>1, <2>2
<1>10. \A id \in Ids(manifest)' : \A k \in 1..Len(t) :
          id < t[k] \/ (k = 1 /\ pc'[q] = "newline")
  BY <1>3, <1>6
<1> QED BY <1>2, <1>3, <1>5, <1>7, <1>8, <1>9, <1>10 DEF TodoAscends

\* Steps that record nothing.
LEMMA OrderStill ==
    ASSUME Inv, Order, alone' => alone, manifest' = manifest, YoungerParts,
           DOMAIN recs' = Procs, \A q \in Procs : Still(q)
    PROVE  Order'
<1> SUFFICES ASSUME alone' PROVE /\ IdsAscend' /\ RangesAscend'
                                 /\ \A p \in Procs : TodoAscends(p)' /\ Loaded(p)'
  BY DEF Order
<1>1. IdsAscend /\ RangesAscend /\ \A p \in Procs : TodoAscends(p) /\ Loaded(p)
  BY DEF Order
<1>2. Shape /\ Apart
  BY DEF Inv
<1>3. Ids(manifest)' = Ids(manifest)
  BY DEF Ids
<1>4. IdsAscend'
  <2>1. \A id \in Ids(manifest) : id \in 1..issued
    BY <1>2 DEF Apart
  <2>2. issued \in Nat
    BY <1>2 DEF Shape
  <2>3. \A id \in Ids(manifest)' : \A part \in parts' : id < part
    BY <1>1, <1>3, <2>1, <2>2 DEF IdsAscend, YoungerParts
  <2> QED BY <1>1, <2>3 DEF IdsAscend
<1>5. RangesAscend'
  BY <1>1 DEF RangesAscend
<1>6. ASSUME NEW q \in Procs PROVE TodoAscends(q)' /\ Loaded(q)'
  <2>1. TodoAscends(q)'
    BY <1>1, <1>2, <1>3, <1>6, TodoStill
  <2>2. Loaded(q)'
    BY <1>1 DEF Loaded, Still, Reviewing
  <2> QED BY <2>1, <2>2
<1> QED BY <1>4, <1>5, <1>6

\* A record that is no compaction keeps those there are.
LEMMA RangesStay ==
    ASSUME Shape, RangesAscend, NEW r, r.kind # "compaction", manifest' = Append(manifest, r)
    PROVE  RangesAscend'
<1>1. PICK f, S : f = manifest /\ S = Range(manifest) \union {r}
  OBVIOUS
<1>2. f \in Seq(S) /\ r \in S
  <2>1. manifest \in Seq(Range(manifest)) /\ Range(manifest) \subseteq S /\ r \in S
    BY <1>1 DEF Shape
  <2> QED BY <1>1, <2>1
<1>3. WholeLines(Append(f, r)) \subseteq WholeLines(f) \union {Len(f) + 1}
  BY <1>2, WholeAppend
<1>4. PICK m : m = Append(f, r)
  OBVIOUS
<1>5. m[Len(f) + 1] = r /\ \A i \in WholeLines(f) : m[i] = f[i]
  <2>1. \A i \in WholeLines(f) : i \in 1..Len(f)
    BY <1>2 DEF WholeLines
  <2> QED BY <1>2, <1>4, <2>1
<1>6. ASSUME NEW i \in OfKind(m, "compaction")
      PROVE  i \in OfKind(f, "compaction") /\ m[i] = f[i]
  <2>1. i \in WholeLines(m) /\ m[i].kind = "compaction"
    BY DEF OfKind
  <2>2. i # Len(f) + 1
    BY <1>5, <2>1
  <2>3. i \in WholeLines(f)
    BY <1>3, <1>4, <2>1, <2>2
  <2> QED BY <1>5, <2>1, <2>3 DEF OfKind
<1>7. manifest' = m /\ RangesAscend
  BY <1>1, <1>4
<1> QED BY <1>1, <1>6, <1>7 DEF RangesAscend

\* A compaction comes behind those there are.
LEMMA RangesGrow ==
    ASSUME Shape, RangesAscend, NEW from \in Nat, NEW to \in Nat, from <= to,
           LastTo(ParseLines(manifest)) < from,
           manifest' = Append(manifest, Comp(from, to))
    PROVE  RangesAscend'
<1>0. PICK r : r = Comp(from, to)
  OBVIOUS
<1>1. PICK f, S : f = manifest /\ S = Range(manifest) \union {r}
  OBVIOUS
<1>2. f \in Seq(S) /\ r \in S
  <2>1. manifest \in Seq(Range(manifest)) /\ Range(manifest) \subseteq S /\ r \in S
    BY <1>1 DEF Shape
  <2> QED BY <1>1, <2>1
<1>3. WholeLines(Append(f, r)) \subseteq WholeLines(f) \union {Len(f) + 1}
  BY <1>2, WholeAppend
<1>4. PICK m : m = Append(f, r)
  OBVIOUS
<1>5. /\ m[Len(f) + 1] = r /\ Len(f) \in Nat
      /\ \A i \in WholeLines(f) : m[i] = f[i] /\ i \in 1..Len(f)
  <2>1. \A i \in WholeLines(f) : i \in 1..Len(f)
    BY <1>2 DEF WholeLines
  <2> QED BY <1>2, <1>4, <2>1
<1>6. ASSUME NEW i \in OfKind(m, "compaction"), i # Len(f) + 1
      PROVE  i \in OfKind(f, "compaction") /\ m[i] = f[i] /\ i \in 1..Len(f)
  <2>1. i \in WholeLines(m) /\ m[i].kind = "compaction"
    BY DEF OfKind
  <2>2. i \in WholeLines(f)
    BY <1>3, <1>4, <1>6, <2>1
  <2> QED BY <1>5, <2>1, <2>2 DEF OfKind
<1>7. r.from = from /\ r.to = to
  BY <1>0 DEF Comp
<1>8. /\ LastTo(ParseLines(f)) \in Nat
      /\ \A i \in OfKind(f, "compaction") :
            f[i].from \in Nat /\ f[i].to \in Nat /\ f[i].from <= f[i].to
            /\ f[i].to <= LastTo(ParseLines(f))
      /\ \A i, j \in OfKind(f, "compaction") : i < j => f[i].to < f[j].from
  BY <1>1, LastToBounds DEF RangesAscend
<1>9. ASSUME NEW i \in OfKind(m, "compaction")
      PROVE  m[i].from \in Nat /\ m[i].to \in Nat /\ m[i].from <= m[i].to
  BY <1>5, <1>6, <1>7, <1>8
<1>10. ASSUME NEW i \in OfKind(m, "compaction"), NEW j \in OfKind(m, "compaction"), i < j
       PROVE  m[i].to < m[j].from
  <2>1. CASE j = Len(f) + 1
    <3>1. i # Len(f) + 1
      BY <1>5, <1>10, <2>1
    <3>2. m[i].to \in Nat /\ m[i].to <= LastTo(ParseLines(f))
      BY <1>6, <1>8, <3>1
    <3>3. LastTo(ParseLines(f)) < from
      BY <1>1
    <3> QED BY <1>5, <1>7, <1>8, <2>1, <3>2, <3>3
  <2>2. CASE j # Len(f) + 1
    <3>1. j \in OfKind(f, "compaction") /\ m[j] = f[j] /\ j \in 1..Len(f)
      BY <1>6, <2>2
    <3>2. i # Len(f) + 1
      BY <1>5, <1>10, <3>1
    <3>3. i \in OfKind(f, "compaction") /\ m[i] = f[i]
      BY <1>6, <3>2
    <3> QED BY <1>8, <1>10, <3>1, <3>3
  <2> QED BY <2>1, <2>2
<1>11. manifest' = m
  BY <1>0, <1>1, <1>4
<1> QED BY <1>9, <1>10, <1>11 DEF RangesAscend

\* The others go on with what they have.
LEMMA OthersStill ==
    ASSUME Shape, DOMAIN recs = Procs, NEW p \in Procs, NEW at, pc' = [pc EXCEPT ![p] = at],
           todo' = todo \/ \E t : todo' = [todo EXCEPT ![p] = t],
           recs' = recs \/ \E r : recs' = [recs EXCEPT ![p] = r]
    PROVE  DOMAIN recs' = Procs /\ pc'[p] = at /\ \A q \in Procs : q # p => Still(q)
<1>1. DOMAIN todo = Procs /\ pc \in [Procs -> Steps]
  BY DEF Shape
<1>2. ASSUME NEW q \in Procs, q # p
      PROVE  pc'[q] = pc[q] /\ todo'[q] = todo[q] /\ recs'[q] = recs[q]
  BY <1>1, <1>2
<1> QED BY <1>1, <1>2 DEF Still

\* The steps of a run that record nothing, and list and select nothing.
LEMMA OrderStillSteps ==
    ASSUME Inv, Order, NEW p \in Procs,
           \/ SaveUser(p) \/ Check(p) \/ Interrupt(p)
           \/ WriteReviewed(p) \/ Evacuate(p) \/ EvacuateFails(p)
           \/ WriteSummary(p) \/ LoadHistory(p) \/ ViewHistory(p) \/ Answer(p) \/ Kill(p)
    PROVE  Order'
<1>0. Shape /\ DOMAIN recs = Procs /\ pc \in [Procs -> Steps] /\ DOMAIN todo = Procs
  BY DEF Inv, Shape, Order
<1>1. ASSUME NEW at, pc' = [pc EXCEPT ![p] = at], alone' => alone, manifest' = manifest,
             YoungerParts,
             todo' = todo \/ \E t : todo' = [todo EXCEPT ![p] = t],
             recs' = recs \/ \E r : recs' = [recs EXCEPT ![p] = r],
             Still(p)
      PROVE  Order'
  <2>1. DOMAIN recs' = Procs /\ \A q \in Procs : Still(q)
    BY <1>0, <1>1, OthersStill
  <2> QED BY <1>1, <2>1, OrderStill
<1>2. CASE SaveUser(p)
  <2>1. PICK at : pc' = [pc EXCEPT ![p] = at] /\ at \in {"list", "load"}
    BY <1>2 DEF SaveUser, Goto
  <2>2. Still(p)
    BY <1>0, <2>1 DEF Still, Reviewing
  <2>3. (alone' => alone) /\ manifest' = manifest /\ YoungerParts /\ todo' = todo /\ recs' = recs
    BY <1>2 DEF SaveUser, YoungerParts, NextId
  <2> QED BY <1>1, <2>1, <2>2, <2>3
<1>3. CASE Check(p)
  <2>1. /\ pc' = [pc EXCEPT ![p] = "write"] /\ pc[p] = "check"
        /\ alone' = alone /\ manifest' = manifest /\ YoungerParts /\ todo' = todo /\ recs' = recs
    BY <1>3 DEF Check, Goto, YoungerParts, fileVars, ghostVars
  <2>2. Still(p)
    BY <1>0, <2>1 DEF Still
  <2> QED BY <1>1, <2>1, <2>2
<1>4. CASE WriteReviewed(p)
  <2>1. /\ pc' = [pc EXCEPT ![p] = "rename"] /\ pc[p] = "write"
        /\ alone' = alone /\ manifest' = manifest /\ YoungerParts /\ todo' = todo /\ recs' = recs
    BY <1>4 DEF WriteReviewed, Goto, YoungerParts, ghostVars
  <2>2. Still(p)
    BY <1>0, <2>1 DEF Still
  <2> QED BY <1>1, <2>1, <2>2
<1>5. CASE Evacuate(p)
  <2>1. /\ pc' = [pc EXCEPT ![p] = "append"] /\ pc[p] = "rename"
        /\ alone' = alone /\ manifest' = manifest /\ YoungerParts /\ todo' = todo /\ recs' = recs
        /\ parts' = parts \ {Head(todo[p])}
    BY <1>5 DEF Evacuate, Goto, YoungerParts, ghostVars
  <2>2. CASE alone
    <3>1. todo[p] \in Seq(Nat) /\ todo[p] # <<>>
      BY <2>1, <2>2 DEF Order, TodoAscends, Reviewing
    <3>2. todo[p][1] \notin parts'
      BY <2>1, <3>1
    <3>3. Still(p)
      BY <1>0, <2>1, <3>2 DEF Still
    <3> QED BY <1>1, <2>1, <3>3
  <2>3. CASE ~alone
    BY <1>0, <2>1, <2>3 DEF Order
  <2> QED BY <2>2, <2>3
<1>6. CASE WriteSummary(p)
  <2>1. /\ pc' = [pc EXCEPT ![p] = "compact"] /\ pc[p] = "summary"
        /\ alone' = alone /\ manifest' = manifest /\ YoungerParts /\ todo' = todo /\ recs' = recs
    BY <1>6 DEF WriteSummary, Goto, YoungerParts, ghostVars
  <2>2. Still(p)
    BY <1>0, <2>1 DEF Still
  <2> QED BY <1>1, <2>1, <2>2
<1>7. CASE LoadHistory(p)
  <2>1. PICK at : pc' = [pc EXCEPT ![p] = at] /\ at \in {"asked", "view"}
    BY <1>7 DEF LoadHistory, Goto
  <2>2. /\ alone' = alone /\ manifest' = manifest /\ YoungerParts /\ todo' = todo
        /\ recs' = recs \/ \E r : recs' = [recs EXCEPT ![p] = r]
    BY <1>7 DEF LoadHistory, YoungerParts, fileVars, ghostVars
  <2>3. Still(p)
    BY <1>0, <2>1 DEF Still, Reviewing
  <2> QED BY <1>1, <2>1, <2>2, <2>3
<1>8. CASE ViewHistory(p)
  <2>1. pc' = [pc EXCEPT ![p] = "asked"]
    BY <1>8 DEF ViewHistory, Goto
  <2>2. /\ alone' = alone /\ manifest' = manifest /\ YoungerParts /\ todo' = todo
        /\ \E r : recs' = [recs EXCEPT ![p] = r]
    BY <1>8 DEF ViewHistory, YoungerParts, fileVars, ghostVars
  <2>3. Still(p)
    BY <1>0, <2>1 DEF Still, Reviewing
  <2> QED BY <1>1, <2>1, <2>2, <2>3
<1>9. CASE Interrupt(p) \/ EvacuateFails(p) \/ Answer(p) \/ Kill(p)
  <2>1. End(p) /\ alone' = alone /\ manifest' = manifest /\ YoungerParts
    BY <1>9 DEF Interrupt, EvacuateFails, Answer, Kill, YoungerParts, fileVars, ghostVars, NextId
  <2>2. /\ pc' = [pc EXCEPT ![p] = "idle"]
        /\ \E t : todo' = [todo EXCEPT ![p] = t]
        /\ \E r : recs' = [recs EXCEPT ![p] = r]
    BY <2>1 DEF End, Goto
  <2>3. Still(p)
    BY <1>0, <2>2 DEF Still, Reviewing
  <2> QED BY <1>1, <2>1, <2>2, <2>3
<1> QED BY <1>2, <1>3, <1>4, <1>5, <1>6, <1>7, <1>8, <1>9

\* The rest of a list in order is in order.
LEMMA TailAscends ==
    ASSUME NEW t \in Seq(Nat), t # <<>>
    PROVE  /\ Tail(t) \in Seq(Nat) /\ Len(Tail(t)) = Len(t) - 1 /\ Len(t) \in Nat \ {0}
           /\ \A k \in 1..Len(Tail(t)) : Tail(t)[k] = t[k + 1] /\ k + 1 \in 1..Len(t)
           /\ \A k \in 1..Len(t) : k = 1 \/ (k - 1 \in 1..Len(Tail(t)) /\ Tail(t)[k - 1] = t[k])
<1>1. Tail(t) \in Seq(Nat) /\ Len(Tail(t)) = Len(t) - 1 /\ Len(t) \in Nat \ {0}
  OBVIOUS
<1>2. \A k \in 1..Len(Tail(t)) : Tail(t)[k] = t[k + 1] /\ k + 1 \in 1..Len(t)
  BY <1>1
<1>3. ASSUME NEW k \in 1..Len(t), k # 1
      PROVE  k - 1 \in 1..Len(Tail(t)) /\ Tail(t)[k - 1] = t[k]
  <2>1. k - 1 \in 1..Len(Tail(t)) /\ (k - 1) + 1 = k
    BY <1>1, <1>3
  <2> QED BY <1>2, <2>1
<1> QED BY <1>1, <1>2, <1>3

\* One that passes over the first part it has listed, or has recorded it.
LEMMA TodoPasses ==
    ASSUME Shape, Apart, NEW p \in Procs, TodoAscends(p), todo[p] # <<>>,
           \/ pc[p] = "read" /\ Head(todo[p]) \notin parts
           \/ pc[p] = "newline",
           pc'[p] = "read", todo'[p] = Tail(todo[p]), issued' = issued, parts' = parts,
           Ids(manifest)' = Ids(manifest)
    PROVE  TodoAscends(p)'
<1>1. PICK t, u : t = todo[p] /\ u = Tail(t)
  OBVIOUS
<1>2. /\ t \in Seq(Nat) /\ t # <<>> /\ \A k \in 1..Len(t) : t[k] <= issued
      /\ \A j, k \in 1..Len(t) : j < k => t[j] < t[k]
      /\ \A id \in Ids(manifest) : \A k \in 1..Len(t) :
            id < t[k] \/ (k = 1 /\ pc[p] = "newline")
      /\ \A id \in parts : (\E k \in 1..Len(t) : t[k] = id) \/ (\A k \in 1..Len(t) : t[k] < id)
  BY <1>1 DEF TodoAscends, Reviewing
<1>3. t[1] \notin parts
  BY <1>1, <1>2 DEF TodoAscends, Reviewing
<1>4. /\ u \in Seq(Nat) /\ Len(u) = Len(t) - 1 /\ Len(t) \in Nat \ {0}
      /\ \A k \in 1..Len(u) : u[k] = t[k + 1] /\ k + 1 \in 1..Len(t)
      /\ \A k \in 1..Len(t) : k = 1 \/ (k - 1 \in 1..Len(u) /\ u[k - 1] = t[k])
  BY <1>1, <1>2, TailAscends
<1>5. \A k \in 1..Len(u) : u[k] <= issued
  BY <1>2, <1>4
<1>6. ASSUME NEW j \in 1..Len(u), NEW k \in 1..Len(u), j < k PROVE u[j] < u[k]
  <2>1. j + 1 < k + 1 /\ j + 1 \in 1..Len(t) /\ k + 1 \in 1..Len(t)
    BY <1>4, <1>6
  <2> QED BY <1>2, <1>4, <2>1
<1>7. ASSUME NEW id \in Ids(manifest), NEW k \in 1..Len(u) PROVE id < u[k]
  <2>1. k + 1 \in 1..Len(t) /\ u[k] = t[k + 1]
    BY <1>4
  <2>2. k + 1 # 1
    <3>1. k \in 1..Len(u) /\ Len(u) \in Nat
      BY <1>4
    <3> QED BY ONLY <3>1
  <2> QED BY <1>2, <2>1, <2>2
<1>8. ASSUME NEW id \in parts
      PROVE  (\E k \in 1..Len(u) : u[k] = id) \/ (\A k \in 1..Len(u) : u[k] < id)
  <2>1. CASE \E k \in 1..Len(t) : t[k] = id
    <3>1. PICK k \in 1..Len(t) : t[k] = id
      BY <2>1
    <3>2. k # 1
      BY <1>3, <3>1
    <3> QED BY <1>4, <3>1, <3>2
  <2>2. CASE \A k \in 1..Len(t) : t[k] < id
    BY <1>4, <2>2
  <2> QED BY <1>2, <2>1, <2>2
<1>9. todo'[p] = u
  BY <1>1
<1> QED BY <1>4, <1>5, <1>6, <1>7, <1>8, <1>9 DEF TodoAscends, Reviewing

\* When only p runs, only p counts.
LEMMA OrderOfOne ==
    ASSUME Inv, Order, NEW p \in Procs, pc[p] # "idle", NEW at, pc' = [pc EXCEPT ![p] = at],
           todo' = todo \/ \E t : todo' = [todo EXCEPT ![p] = t],
           recs' = recs \/ \E r : recs' = [recs EXCEPT ![p] = r],
           alone' = alone,
           alone => IdsAscend' /\ RangesAscend' /\ TodoAscends(p)' /\ Loaded(p)'
    PROVE  Order'
<1>1. Shape /\ DOMAIN recs = Procs
  BY DEF Inv, Order
<1>2. DOMAIN recs' = Procs
  BY <1>1, OthersStill
<1>3. ASSUME alone, NEW q \in Procs, q # p
      PROVE  TodoAscends(q)' /\ Loaded(q)'
  <2>1. pc[q] = "idle"
    BY <1>3, OthersRest
  <2>2. pc'[q] = "idle"
    BY <1>1, <1>3, <2>1 DEF Shape
  <2> QED BY <2>2 DEF TodoAscends, Loaded, Reviewing
<1> QED BY <1>2, <1>3 DEF Order

\* The names are listed in order.
LEMMA ListPartsOrder ==
    ASSUME Inv, Order, NEW p \in Procs, ListParts(p)
    PROVE  Order'
<1>1. Shape /\ Apart /\ DOMAIN recs = Procs
  BY DEF Inv, Order
<1>2. /\ pc[p] = "list" /\ pc' = [pc EXCEPT ![p] = "read"]
      /\ todo' = [todo EXCEPT ![p] = Those([id \in 1..issued |-> id], parts)]
      /\ UNCHANGED <<issued, parts, manifest, recs, alone>>
  BY DEF ListParts, Goto, ghostVars
<1>3. PICK listed : listed = [id \in 1..issued |-> id]
  OBVIOUS
<1>4. issued \in Nat /\ parts \subseteq 1..issued
  BY <1>1 DEF Shape
<1>5. listed \in Seq(Nat) /\ Len(listed) = issued /\ \A i \in 1..issued : listed[i] = i
  BY <1>3, <1>4
<1>6. PICK t : t = Those(listed, parts)
  OBVIOUS
<1>7. t \in Seq(Nat) /\ \E h : Picks(h, t, listed, parts, issued)
  BY <1>5, <1>6, ThoseAre
<1>8. PICK h : Picks(h, t, listed, parts, issued)
  BY <1>7
<1>9. /\ \A k \in 1..Len(t) : h[k] \in parts /\ h[k] \in 1..issued /\ t[k] = listed[h[k]]
      /\ \A j, k \in 1..Len(t) : j < k => h[j] < h[k]
      /\ \A i \in parts \cap 1..issued : \E k \in 1..Len(t) : h[k] = i
  BY <1>8 DEF Picks
<1>10. \A k \in 1..Len(t) : t[k] = h[k] /\ t[k] \in parts /\ t[k] <= issued
  BY <1>5, <1>9
<1>11. ASSUME NEW j \in 1..Len(t), NEW k \in 1..Len(t), j < k PROVE t[j] < t[k]
  BY <1>9, <1>10, <1>11
<1>12. \A id \in parts : \E k \in 1..Len(t) : t[k] = id
  BY <1>4, <1>9, <1>10
<1>13. pc'[p] = "read" /\ todo'[p] = t
  BY <1>1, <1>2, <1>3, <1>6 DEF Shape
<1>14. ASSUME alone
       PROVE  IdsAscend' /\ RangesAscend' /\ TodoAscends(p)' /\ Loaded(p)'
  <2>1. IdsAscend /\ RangesAscend
    BY <1>14 DEF Order
  <2>2. IdsAscend' /\ RangesAscend'
    BY <1>2, <2>1 DEF IdsAscend, RangesAscend, Ids
  <2>3. \A id \in Ids(manifest)' : \A k \in 1..Len(t) : id < t[k]
    BY <1>2, <1>10, <2>1 DEF IdsAscend, Ids
  <2>4. TodoAscends(p)'
    <3>1. issued' = issued /\ parts' = parts
      BY <1>2
    <3>2. \A j, k \in 1..Len(t) : j < k => t[j] < t[k]
      BY <1>11
    <3> QED BY <1>7, <1>10, <1>12, <1>13, <2>3, <3>1, <3>2 DEF TodoAscends
  <2>5. Loaded(p)'
    BY <1>13 DEF Loaded
  <2> QED BY <2>2, <2>4, <2>5
<1> QED BY <1>2, <1>14, OrderOfOne

\* The next one of the list.
LEMMA ReadPartOrder ==
    ASSUME Inv, Order, NEW p \in Procs, ReadPart(p)
    PROVE  Order'
<1>1. Shape /\ Apart /\ DOMAIN recs = Procs
  BY DEF Inv, Order
<1>2. pc[p] = "read" /\ UNCHANGED <<issued, parts, manifest, recs, alone>>
  BY DEF ReadPart, fileVars, ghostVars
<1>3. CASE todo[p] # <<>> /\ Head(todo[p]) \notin parts
  <2>1. pc' = pc /\ todo' = [todo EXCEPT ![p] = Tail(@)]
    BY <1>3 DEF ReadPart
  <2>2. pc' = [pc EXCEPT ![p] = "read"] /\ pc'[p] = "read" /\ todo'[p] = Tail(todo[p])
    BY <1>1, <1>2, <2>1 DEF Shape
  <2>3. ASSUME alone
        PROVE  IdsAscend' /\ RangesAscend' /\ TodoAscends(p)' /\ Loaded(p)'
    <3>1. IdsAscend /\ RangesAscend /\ TodoAscends(p)
      BY <2>3 DEF Order
    <3>2. IdsAscend' /\ RangesAscend' /\ Ids(manifest)' = Ids(manifest)
      BY <1>2, <3>1 DEF IdsAscend, RangesAscend, Ids
    <3>3. TodoAscends(p)'
      BY <1>1, <1>2, <1>3, <2>2, <3>1, <3>2, TodoPasses
    <3> QED BY <2>2, <3>2, <3>3 DEF Loaded
  <2> QED BY <1>2, <2>1, <2>2, <2>3, OrderOfOne
<1>4. CASE ~(todo[p] # <<>> /\ Head(todo[p]) \notin parts)
  <2>1. PICK at : /\ pc' = [pc EXCEPT ![p] = at] /\ todo' = todo
                  /\ at = "records" \/ (at = "check" /\ todo[p] # <<>>)
    BY <1>4 DEF ReadPart, Goto
  <2>2. pc'[p] = at
    BY <1>1, <2>1 DEF Shape
  <2>3. Still(p)
    BY <1>2, <2>1, <2>2 DEF Still, Reviewing
  <2>4. DOMAIN recs' = Procs /\ \A q \in Procs : Still(q)
    BY <1>1, <1>2, <2>1, <2>3, OthersStill
  <2> QED BY <1>2, <2>4, OrderStill DEF YoungerParts
<1> QED BY <1>3, <1>4

\* What is recorded is younger than what was, and older than what is not yet.
LEMMA AppendRecordOrder ==
    ASSUME Inv, Order, NEW p \in Procs, AppendRecord(p)
    PROVE  Order'
<1>1. Shape /\ Apart /\ DOMAIN recs = Procs
  BY DEF Inv, Order
<1>2. /\ pc[p] = "append" /\ pc' = [pc EXCEPT ![p] = "newline"]
      /\ manifest' = Append(manifest, Msg(Head(todo[p]), choice[p]))
      /\ UNCHANGED <<issued, parts, todo, recs, alone>>
  BY DEF AppendRecord, Goto, ghostVars
<1>3. pc'[p] = "newline"
  BY <1>1, <1>2 DEF Shape
<1>4. ASSUME alone
      PROVE  IdsAscend' /\ RangesAscend' /\ TodoAscends(p)' /\ Loaded(p)'
  <2>1. IdsAscend /\ RangesAscend /\ TodoAscends(p)
    BY <1>4 DEF Order
  <2>2. PICK t : t = todo[p]
    OBVIOUS
  <2>3. /\ t \in Seq(Nat) /\ t # <<>> /\ \A k \in 1..Len(t) : t[k] <= issued
        /\ \A j, k \in 1..Len(t) : j < k => t[j] < t[k]
        /\ \A id \in Ids(manifest) : \A k \in 1..Len(t) : id < t[k]
        /\ \A id \in parts : (\E k \in 1..Len(t) : t[k] = id) \/ (\A k \in 1..Len(t) : t[k] < id)
        /\ t[1] \notin parts
    BY <1>2, <2>1, <2>2 DEF TodoAscends, Reviewing
  <2>4. Head(t) = t[1] /\ 1 \in 1..Len(t) /\ Len(t) \in Nat
    BY <2>3
  <2>5. PICK r : r = Msg(t[1], choice[p])
    OBVIOUS
  <2>6. IsMessage(r) /\ r.id = t[1] /\ r.kind # "compaction"
    BY <2>5 DEF Msg, IsMessage
  <2>7. manifest' = Append(manifest, r)
    BY <1>2, <2>2, <2>4, <2>5
  <2>8. /\ Len(manifest) \in Nat
        /\ DOMAIN manifest = 1..Len(manifest) /\ DOMAIN manifest' = 1..(Len(manifest) + 1)
        /\ manifest'[Len(manifest) + 1] = r
        /\ \A i \in DOMAIN manifest : manifest'[i] = manifest[i]
        /\ Ids(manifest)' = Ids(manifest) \union {t[1]}
    BY <1>1, <2>6, <2>7, ManifestAppend
  <2>9. RangesAscend'
    BY <1>1, <2>1, <2>6, <2>7, RangesStay
  <2>10. \A i \in DOMAIN manifest : IsMessage(manifest[i]) => manifest[i].id < t[1]
    BY <2>3, <2>4, IdsKnow
  <2>11. ASSUME NEW i \in DOMAIN manifest', NEW j \in DOMAIN manifest', i < j,
                IsMessage(manifest'[i]), IsMessage(manifest'[j])
         PROVE  manifest'[i].id < manifest'[j].id
    <3>1. i \in DOMAIN manifest
      BY <2>8, <2>11
    <3>2. CASE j = Len(manifest) + 1
      BY <2>6, <2>8, <2>10, <2>11, <3>1, <3>2
    <3>3. CASE j # Len(manifest) + 1
      <4>1. j \in DOMAIN manifest
        BY <2>8, <3>3
      <4> QED BY <2>1, <2>8, <2>11, <3>1, <4>1 DEF IdsAscend
    <3> QED BY <3>2, <3>3
  <2>12. ASSUME NEW part \in parts PROVE t[1] < part
    <3>1. CASE \E k \in 1..Len(t) : t[k] = part
      <4>1. PICK k \in 1..Len(t) : t[k] = part
        BY <3>1
      <4>2. k # 1 /\ 1 < k
        BY <2>3, <2>4, <4>1
      <4> QED BY <2>3, <2>4, <4>1, <4>2
    <3>2. CASE \A k \in 1..Len(t) : t[k] < part
      BY <2>4, <3>2
    <3> QED BY <2>3, <3>1, <3>2
  <2>13. IdsAscend'
    <3>1. \A id \in Ids(manifest)' : \A part \in parts' : id < part
      BY <1>2, <2>1, <2>8, <2>12 DEF IdsAscend
    <3> QED BY <2>11, <3>1 DEF IdsAscend
  <2>14. \A id \in Ids(manifest)' : \A k \in 1..Len(t) : id < t[k] \/ k = 1
    <3> SUFFICES ASSUME NEW id \in Ids(manifest)', NEW k \in 1..Len(t), k # 1 PROVE id < t[k]
      OBVIOUS
    <3>1. t[1] < t[k]
      BY <2>3, <2>4
    <3> QED BY <2>3, <2>8, <3>1
  <2>15. todo'[p] = t /\ issued' = issued /\ parts' = parts
    BY <1>2, <2>2
  <2>16. TodoAscends(p)'
    BY <1>3, <2>3, <2>14, <2>15 DEF TodoAscends
  <2> QED BY <1>3, <2>9, <2>13, <2>16 DEF Loaded
<1> QED BY <1>2, <1>4, OrderOfOne

\* A newline moves no record.
LEMMA AppendNewLineOrder ==
    ASSUME Inv, Order, NEW p \in Procs, AppendNewLine(p)
    PROVE  Order'
<1>1. Shape /\ Apart /\ DOMAIN recs = Procs
  BY DEF Inv, Order
<1>2. PICK at : /\ pc[p] \in {"newline", "compacted"} /\ pc' = [pc EXCEPT ![p] = at]
                /\ \/ /\ pc[p] = "newline" /\ at = "read"
                      /\ todo' = [todo EXCEPT ![p] = Tail(@)]
                   \/ pc[p] = "compacted" /\ at = "load" /\ todo' = todo
                /\ manifest' = Append(manifest, NewLine)
                /\ UNCHANGED <<issued, parts, recs, alone>>
  BY DEF AppendNewLine, Goto, ghostVars
<1>3. pc'[p] = at
  BY <1>1, <1>2 DEF Shape
<1>4. ASSUME alone
      PROVE  IdsAscend' /\ RangesAscend' /\ TodoAscends(p)' /\ Loaded(p)'
  <2>1. IdsAscend /\ RangesAscend /\ TodoAscends(p)
    BY <1>4 DEF Order
  <2>2. PICK r : r = NewLine
    OBVIOUS
  <2>3. ~IsMessage(r) /\ r.kind # "compaction" /\ manifest' = Append(manifest, r)
    BY <1>2, <2>2 DEF NewLine, IsMessage
  <2>4. /\ Len(manifest) \in Nat
        /\ DOMAIN manifest = 1..Len(manifest) /\ DOMAIN manifest' = 1..(Len(manifest) + 1)
        /\ manifest'[Len(manifest) + 1] = r
        /\ \A i \in DOMAIN manifest : manifest'[i] = manifest[i]
        /\ Ids(manifest)' = Ids(manifest)
    BY <1>1, <2>3, ManifestAppend
  <2>5. RangesAscend'
    BY <1>1, <2>1, <2>3, RangesStay
  <2>6. ASSUME NEW i \in DOMAIN manifest', IsMessage(manifest'[i])
        PROVE  i \in DOMAIN manifest
    BY <2>3, <2>4, <2>6
  <2>7. IdsAscend'
    BY <1>2, <2>1, <2>4, <2>6 DEF IdsAscend
  <2>8. TodoAscends(p)'
    <3>1. CASE pc[p] = "newline"
      <4>1. todo'[p] = Tail(todo[p]) /\ pc'[p] = "read" /\ issued' = issued /\ parts' = parts
        BY <1>1, <1>2, <1>3, <3>1 DEF Shape
      <4>2. todo[p] # <<>>
        BY <2>1, <3>1 DEF TodoAscends, Reviewing
      <4> QED BY <1>1, <2>1, <2>4, <3>1, <4>1, <4>2, TodoPasses
    <3>2. CASE pc[p] # "newline"
      <4>1. pc'[p] = "load"
        BY <1>2, <1>3, <3>2
      <4> QED BY <4>1 DEF TodoAscends, Reviewing
    <3> QED BY <3>1, <3>2
  <2>9. Loaded(p)'
    BY <1>2, <1>3 DEF Loaded
  <2> QED BY <2>5, <2>7, <2>8, <2>9
<1>5. todo' = todo \/ \E t : todo' = [todo EXCEPT ![p] = t]
  BY <1>2
<1>6. pc[p] # "idle" /\ pc' = [pc EXCEPT ![p] = at] /\ recs' = recs /\ alone' = alone
  BY <1>2
<1> QED BY <1>4, <1>5, <1>6, OrderOfOne

\* A record that is not written whole is no record.
LEMMA AppendFailsOrder ==
    ASSUME Inv, Order, NEW p \in Procs, AppendFails(p)
    PROVE  Order'
<1>1. Shape /\ DOMAIN recs = Procs
  BY DEF Inv, Order
<1>2. /\ pc[p] # "idle" /\ pc' = [pc EXCEPT ![p] = "idle"]
      /\ \E t : todo' = [todo EXCEPT ![p] = t]
      /\ \E t : recs' = [recs EXCEPT ![p] = t]
      /\ UNCHANGED <<issued, parts, alone>>
      /\ manifest' = manifest \/ manifest' = Append(manifest, HalfRecord)
  BY DEF AppendFails, End, Goto
<1>3. pc'[p] = "idle"
  BY <1>1, <1>2 DEF Shape
<1>4. ASSUME alone
      PROVE  IdsAscend' /\ RangesAscend' /\ TodoAscends(p)' /\ Loaded(p)'
  <2>1. IdsAscend /\ RangesAscend
    BY <1>4 DEF Order
  <2>2. TodoAscends(p)' /\ Loaded(p)'
    BY <1>3 DEF TodoAscends, Loaded, Reviewing
  <2>3. CASE manifest' = manifest
    <3>1. IdsAscend' /\ RangesAscend'
      BY <1>2, <2>1, <2>3 DEF IdsAscend, RangesAscend, Ids
    <3> QED BY <2>2, <3>1
  <2>4. CASE manifest' = Append(manifest, HalfRecord)
    <3>1. PICK r : r = HalfRecord
      OBVIOUS
    <3>2. ~IsMessage(r) /\ r.kind # "compaction" /\ manifest' = Append(manifest, r)
      BY <2>4, <3>1 DEF HalfRecord, IsMessage
    <3>3. /\ DOMAIN manifest' = 1..(Len(manifest) + 1) /\ DOMAIN manifest = 1..Len(manifest)
          /\ manifest'[Len(manifest) + 1] = r /\ Len(manifest) \in Nat
          /\ \A i \in DOMAIN manifest : manifest'[i] = manifest[i]
          /\ Ids(manifest)' = Ids(manifest)
      BY <1>1, <3>2, ManifestAppend
    <3>4. RangesAscend'
      BY <1>1, <2>1, <3>2, RangesStay
    <3>5. ASSUME NEW i \in DOMAIN manifest', IsMessage(manifest'[i])
          PROVE  i \in DOMAIN manifest
      BY <3>2, <3>3, <3>5
    <3>6. IdsAscend'
      BY <1>2, <2>1, <3>3, <3>5 DEF IdsAscend
    <3> QED BY <2>2, <3>4, <3>6
  <2> QED BY <1>2, <2>3, <2>4
<1> QED BY <1>2, <1>4, OrderOfOne

\* What is selected is selected from all that is there.
LEMMA LoadForCompactionOrder ==
    ASSUME Inv, Order, NEW p \in Procs, LoadForCompaction(p)
    PROVE  Order'
<1>1. Shape /\ DOMAIN recs = Procs
  BY DEF Inv, Order
<1>2. PICK at : /\ pc[p] = "records" /\ pc' = [pc EXCEPT ![p] = at]
                /\ at = IF Selected(ParseLines(manifest)) = <<>> THEN "load" ELSE "summary"
                /\ recs' = [recs EXCEPT ![p] = ParseLines(manifest)]
                /\ UNCHANGED <<issued, parts, manifest, todo, alone>>
  BY DEF LoadForCompaction, Goto, fileVars, ghostVars
<1>3. pc'[p] = at /\ recs'[p] = ParseLines(manifest)
  BY <1>1, <1>2 DEF Shape
<1>4. ASSUME alone
      PROVE  IdsAscend' /\ RangesAscend' /\ TodoAscends(p)' /\ Loaded(p)'
  <2>1. IdsAscend /\ RangesAscend
    BY <1>4 DEF Order
  <2>2. IdsAscend' /\ RangesAscend'
    BY <1>2, <2>1 DEF IdsAscend, RangesAscend, Ids
  <2>3. TodoAscends(p)'
    BY <1>2, <1>3 DEF TodoAscends, Reviewing
  <2>4. Loaded(p)'
    <3>1. PICK rs : rs = ParseLines(manifest)
      OBVIOUS
    <3>2. at = "summary" => Selected(rs) # <<>>
      BY <1>2, <3>1
    <3>3. recs'[p] = rs /\ ParseLines(manifest)' = rs /\ pc'[p] \in {"summary", "load"}
      BY <1>2, <1>3, <3>1
    <3> QED BY <1>3, <3>2, <3>3 DEF Loaded
  <2> QED BY <2>2, <2>3, <2>4
<1>5. pc[p] # "idle" /\ \E r : recs' = [recs EXCEPT ![p] = r]
  BY <1>2
<1> QED BY <1>2, <1>4, <1>5, OrderOfOne

\* What is compacted lies behind the last compaction.
LEMMA AppendCompactionOrder ==
    ASSUME Inv, Order, NEW p \in Procs, AppendCompaction(p)
    PROVE  Order'
<1>1. Shape /\ Apart /\ DOMAIN recs = Procs
  BY DEF Inv, Order
<1>2. PICK range : range = Range1(Selected(recs[p]))
  OBVIOUS
<1>3. /\ pc[p] = "compact" /\ pc' = [pc EXCEPT ![p] = "compacted"]
      /\ manifest' = Append(manifest, Comp(range[1], range[2]))
      /\ UNCHANGED <<issued, parts, todo, recs, alone>>
  BY <1>2 DEF AppendCompaction, Goto, ghostVars
<1>4. pc'[p] = "compacted"
  BY <1>1, <1>3 DEF Shape
<1>5. ASSUME alone
      PROVE  IdsAscend' /\ RangesAscend' /\ TodoAscends(p)' /\ Loaded(p)'
  <2>1. IdsAscend /\ RangesAscend /\ Loaded(p)
    BY <1>5 DEF Order
  <2>2. PICK rs : rs = recs[p]
    OBVIOUS
  <2>3. rs = ParseLines(manifest) /\ Selected(rs) # <<>> /\ range = Range1(Selected(rs))
    BY <1>2, <1>3, <2>1, <2>2 DEF Loaded
  <2>4. /\ range[1] \in Nat /\ range[2] \in Nat /\ range[1] <= range[2]
        /\ LastTo(rs) < range[1]
    BY <1>1, <2>1, <2>3, SelectedRange
  <2>5. PICK from, to : from = range[1] /\ to = range[2]
    OBVIOUS
  <2>6. /\ from \in Nat /\ to \in Nat /\ from <= to /\ LastTo(ParseLines(manifest)) < from
        /\ manifest' = Append(manifest, Comp(from, to))
    BY <1>3, <2>3, <2>4, <2>5
  <2>7. RangesAscend'
    BY <1>1, <2>1, <2>6, RangesGrow
  <2>8. PICK r : r = Comp(from, to)
    OBVIOUS
  <2>9. ~IsMessage(r) /\ manifest' = Append(manifest, r)
    BY <2>6, <2>8 DEF Comp, IsMessage
  <2>10. /\ Len(manifest) \in Nat
         /\ DOMAIN manifest = 1..Len(manifest) /\ DOMAIN manifest' = 1..(Len(manifest) + 1)
         /\ manifest'[Len(manifest) + 1] = r
         /\ \A i \in DOMAIN manifest : manifest'[i] = manifest[i]
         /\ Ids(manifest)' = Ids(manifest)
    BY <1>1, <2>9, ManifestAppend
  <2>11. ASSUME NEW i \in DOMAIN manifest', IsMessage(manifest'[i])
         PROVE  i \in DOMAIN manifest
    BY <2>9, <2>10, <2>11
  <2>12. IdsAscend'
    BY <1>3, <2>1, <2>10, <2>11 DEF IdsAscend
  <2>13. TodoAscends(p)' /\ Loaded(p)'
    BY <1>4 DEF TodoAscends, Loaded, Reviewing
  <2> QED BY <2>7, <2>12, <2>13
<1>6. pc[p] # "idle"
  BY <1>3
<1> QED BY <1>3, <1>5, <1>6, OrderOfOne

\* Nothing is recorded at first.
LEMMA OrderInitially == Init => Order
<1> SUFFICES ASSUME Init PROVE Order
  OBVIOUS
<1>1. manifest = <<>> /\ DOMAIN manifest = {} /\ DOMAIN recs = Procs
      /\ \A p \in Procs : pc[p] = "idle"
  BY DEF Init
<1>2. OfKind(manifest, "compaction") = {} /\ Ids(manifest) = {}
  BY <1>1 DEF OfKind, WholeLines, Ids
<1>3. IdsAscend /\ RangesAscend
  BY <1>1, <1>2 DEF IdsAscend, RangesAscend
<1>4. \A p \in Procs : TodoAscends(p) /\ Loaded(p)
  BY <1>1 DEF TodoAscends, Loaded, Reviewing
<1> QED BY <1>1, <1>3, <1>4 DEF Order

\* Every step keeps the order.
LEMMA OrderStep == Inv /\ Order /\ [Next]_vars => Order'
<1> SUFFICES ASSUME Inv, Order, [Next]_vars PROVE Order'
  OBVIOUS
<1>1. ASSUME NEW p \in Procs, Run(p)
      PROVE  Order'
  <2>1. CASE \/ SaveUser(p) \/ Check(p) \/ Interrupt(p)
             \/ WriteReviewed(p) \/ Evacuate(p) \/ EvacuateFails(p)
             \/ WriteSummary(p) \/ LoadHistory(p) \/ ViewHistory(p) \/ Answer(p) \/ Kill(p)
    BY <2>1, OrderStillSteps
  <2>2. CASE \/ ListParts(p) \/ ReadPart(p) \/ AppendRecord(p) \/ AppendNewLine(p)
             \/ AppendFails(p) \/ LoadForCompaction(p) \/ AppendCompaction(p)
    BY <2>2, ListPartsOrder, ReadPartOrder, AppendRecordOrder, AppendNewLineOrder,
       AppendFailsOrder, LoadForCompactionOrder, AppendCompactionOrder
  <2> QED BY <1>1, <2>1, <2>2 DEF Run
<1>2. ASSUME UNCHANGED <<pc, todo, recs, manifest, alone>>, YoungerParts
      PROVE  Order'
  <2>1. DOMAIN recs' = Procs /\ \A q \in Procs : Still(q)
    BY <1>2 DEF Order, Still
  <2> QED BY <1>2, <2>1, OrderStill
<1>3. CASE RollOut
  <2>1. UNCHANGED <<pc, todo, recs, manifest, alone>> /\ YoungerParts
    BY <1>3 DEF RollOut, NextId, procVars, ghostVars, YoungerParts
  <2> QED BY <1>2, <2>1
<1>4. CASE Clear
  <2>1. UNCHANGED <<pc, todo, recs, manifest, alone>> /\ YoungerParts
    BY <1>4 DEF Clear, ClearList, ClearPart, ClearEvacuated, ClearCount, ClearWrite,
                fileVars, procVars, ghostVars, YoungerParts
  <2> QED BY <1>2, <2>1
<1>5. CASE UNCHANGED vars
  BY <1>2, <1>5 DEF vars, fileVars, procVars, ghostVars, YoungerParts
<1> QED BY <1>1, <1>3, <1>4, <1>5 DEF Next

\* While the runs of a session do not overlap, compactions cover the messages in order
\* and none twice, wherever a run is killed and whatever line that tears.
THEOREM CompactionsInOrder == Spec => []CompactionsFollow
<1>1. Inv /\ Order => CompactionsFollow
  <2> SUFFICES ASSUME Inv, Order, alone
               PROVE  LET cs == Compactions(ParseLines(manifest))
                      IN  \A i, j \in DOMAIN cs : i < j => cs[i].to < cs[j].from
    BY DEF CompactionsFollow
  <2>1. Shape /\ RangesAscend
    BY DEF Inv, Order
  <2> QED BY <2>1, OrderedRead
<1> QED
  BY <1>1, InvAlways, OrderInitially, OrderStep, PTL DEF Spec

-----------------------------------------------------------------------------
\* A line of calls

LevelFields == {"env", "terminal", "screen", "args", "at", "req", "wenv", "called", "said",
                "system", "origin", "profile", "script", "steps", "ask", "by", "unsafe", "code"}

Elements(s) == {s[i] : i \in 1..Len(s)}

\* Before there is a worker, and while it works.
Unbegun == {"front", "built", "sent"}
Begun == {"list", "mode", "hooks", "ready", "script", "agent", "asking"}

Questions == {"approval", "continue", "sensitive"}

\* The request says what the environment of its front end says.
AsAsked(l) ==
    /\ l.env.depth # Bad
    /\ l.req.parent = l.env.job /\ l.req.depth = Depth(l.env) /\ l.req.max = l.env.max
    /\ l.req.session = l.env.session /\ l.req.home = l.env.home /\ l.req.tty = TtyOf(l)

\* What was looked up for a task: its prompt before its script, on one disk.
TaskIsOne(d, l) ==
    l.args.kind = "task" /\ l.args.system = None =>
        \/ l.origin = FindOrigin(d, l.wenv, l.args.name)
        \/ l.origin = None /\ l.args.mode # None
TaskFound(d, l) ==
    /\ l.at \in Unbegun \cup {"list", "mode", "hooks"} => l.script = None /\ l.origin = None
    /\ l.at = "ready" => l.script = None
    /\ l.at \in {"ready", "script", "agent", "asking"} \/ l.script # None => TaskIsOne(d, l)
    /\ l.script # None => /\ l.args.kind = "task"
                          /\ l.script = ScriptRoot(d, l.wenv, l.args.name)

LevelOK(d, l) ==
    /\ DOMAIN l = LevelFields
    /\ l.env.depth \in Nat \cup {None, Bad}
    /\ l.req = None \/ AsAsked(l)
    /\ l.at \in {"built", "sent"} \cup Begun => AsAsked(l)
    /\ l.at \in Begun => l.wenv = Apply(l.req)
    /\ TaskFound(d, l)

Asks(l) == l.at = "asking" => l.ask \in Questions

\* A call below another one that has no terminal.
Denied(l) == ~l.terminal => l.by \in {None, "rule"} /\ l.unsafe = None

\* A level below another one has the environment of its worker, which waits for it.
Linked(above, l) ==
    /\ above.at \in {"hooks", "script", "agent"}
    /\ l.env = above.wenv
    /\ Denied(l)

LineOK ==
    /\ disk \in Disks
    /\ chain \in Seq(Elements(chain))
    /\ \A i \in 1..Len(chain) : LevelOK(disk, chain[i]) /\ Asks(chain[i])
    /\ \A i \in 2..Len(chain) : Linked(chain[i - 1], chain[i])

-----------------------------------------------------------------------------
\* What it says

\* A number is not the mark of a variable that is not set.
LEMMA NumbersAreNumbers == None \notin Nat
BY InvocationAssumption DEF InvocationAssumption

\* The environment of a worker has a depth.
LEMMA WorkerHasDepth ==
    ASSUME NEW d, NEW l, LevelOK(d, l), l.at \in Begun
    PROVE  l.wenv.depth \in Nat /\ l.wenv.depth # None
<1>1. l.wenv = Apply(l.req) /\ AsAsked(l) /\ l.env.depth \in Nat \cup {None}
  BY DEF LevelOK, AsAsked
<1>2. l.req.depth \in Nat
  BY <1>1 DEF AsAsked, Depth
<1>3. l.wenv.depth = l.req.depth + 1
  BY <1>1 DEF Apply
<1> QED BY <1>2, <1>3, NumbersAreNumbers

\* Every level but the first is nested.
LEMMA BelowHasDepth ==
    ASSUME LineOK, NEW i \in 2..Len(chain)
    PROVE  chain[i].env.depth \in Nat /\ chain[i].env.depth # None
<1>1. Len(chain) \in Nat /\ i - 1 \in 1..Len(chain) /\ i \in 1..Len(chain)
  BY DEF LineOK
<1>2. LevelOK(disk, chain[i - 1]) /\ Linked(chain[i - 1], chain[i])
  BY <1>1 DEF LineOK
<1> QED BY <1>2, WorkerHasDepth, Zenon DEF Linked, Begun

LEMMA LineageFollows == LineOK => LineageHolds
<1> SUFFICES ASSUME LineOK, NEW i \in 2..Len(chain), chain[i].req # None
             PROVE  /\ chain[i].req.parent = chain[i - 1].req.job
                    /\ chain[i].req.depth = chain[i - 1].req.depth + 1
                    /\ chain[i].req.session = chain[i - 1].req.session
                    /\ chain[i].req.home = chain[i - 1].req.home
                    /\ chain[i].req.max = chain[i - 1].req.max
                    /\ chain[i - 1].req.tty # None => chain[i].req.tty = chain[i - 1].req.tty
  BY DEF LineageHolds
<1> DEFINE l == chain[i]
           u == chain[i - 1]
<1>1. Len(chain) \in Nat /\ i - 1 \in 1..Len(chain) /\ i \in 1..Len(chain)
  BY DEF LineOK
<1>2. LevelOK(disk, u) /\ LevelOK(disk, l) /\ Linked(u, l)
  BY <1>1 DEF LineOK
<1>3. l.env.depth \in Nat /\ l.env.depth # None
  BY BelowHasDepth
<1>4. l.env = Apply(u.req) /\ AsAsked(l)
  BY <1>2 DEF Linked, LevelOK, Begun
<1> HIDE DEF l, u
<1>5. /\ l.env.job = u.req.job /\ l.env.depth = u.req.depth + 1 /\ l.env.max = u.req.max
      /\ l.env.session = u.req.session /\ l.env.home = u.req.home /\ l.env.tty = u.req.tty
  BY <1>4 DEF Apply
<1>6. /\ l.req.parent = u.req.job /\ l.req.depth = u.req.depth + 1
      /\ l.req.session = u.req.session /\ l.req.home = u.req.home /\ l.req.max = u.req.max
      /\ u.req.tty # None => l.req.tty = u.req.tty
  BY <1>3, <1>4, <1>5 DEF AsAsked, Depth, TtyOf
<1> QED BY <1>6 DEF l, u

LEMMA DeniedFollows == LineOK => NestedIsDenied
<1> SUFFICES ASSUME LineOK, NEW i \in 2..Len(chain), ~chain[i].terminal
             PROVE  /\ chain[i].by \in {None, "rule"} /\ chain[i].unsafe = None
                    /\ ~(i = Len(chain) /\ Prompting)
  BY DEF NestedIsDenied
<1>1. chain[i].by \in {None, "rule"} /\ chain[i].unsafe = None
  BY DEF LineOK, Linked, Denied
<1>2. ASSUME i = Len(chain) PROVE AutoAnswered(top)
  BY <1>2, BelowHasDepth DEF AutoAnswered, top
<1> QED BY <1>1, <1>2 DEF Prompting

\* The two components that look for a task find the same one, where a script is in a
\* directory.
LEMMA SameTask ==
    ASSUME NEW d \in Disks, NEW env, NEW name, Parse(name) = name,
           ScriptRoot(d, env, name) # None
    PROVE  ScriptRoot(d, env, name) = FindOrigin(d, env, name)
<1> DEFINE has(r) == LayoutIn(d, r, name) # None
           there(r) == r \in d.dirs /\ has(r)
<1>1. ASSUME NEW r, has(r) PROVE r \in d.dirs
  <2>1. \/ <<r, name, "directory">> \in d.scripts
        \/ <<r, name, "file">> \in d.scripts
    BY <1>1 DEF LayoutIn
  <2>2. \A s \in d.scripts : s[1] \in d.dirs
    BY InvocationAssumption DEF InvocationAssumption
  <2> QED BY <2>1, <2>2
<1>2. \A r : there(r) <=> has(r)
  BY <1>1
<1>3. ASSUME NEW roots PROVE FirstRoot(roots, there) = FirstRoot(roots, has)
  <2> DEFINE first(S) == IF S = {} THEN None
                         ELSE roots[CHOOSE i \in S : \A k \in S : i <= k]
             T == {i \in 1..Len(roots) : there(roots[i])}
             H == {i \in 1..Len(roots) : has(roots[i])}
  <2>1. T = H
    BY <1>2
  <2>2. FirstRoot(roots, there) = first(T) /\ FirstRoot(roots, has) = first(H)
    BY DEF FirstRoot
  <2> HIDE DEF first, T, H
  <2> QED BY <2>1, <2>2
<1>4. Parse(name) # None
  BY DEF ScriptRoot
<1>5. ScriptRoot(d, env, name) =
        IF FirstRoot(TaskRoots(d, env), has) # None THEN FirstRoot(TaskRoots(d, env), has)
        ELSE FirstRoot(PackageRoots(d, env), there)
  BY <1>4 DEF ScriptRoot
<1>6. FindOrigin(d, env, name) =
        IF FirstRoot(TaskRoots(d, env), has) # None THEN FirstRoot(TaskRoots(d, env), has)
        ELSE FirstRoot(PackageRoots(d, env), has)
  BY DEF FindOrigin
<1> HIDE DEF has, there
<1> QED BY <1>3, <1>5, <1>6

LEMMA PromptFollows == LineOK => PromptOfTheTask
<1> SUFFICES ASSUME LineOK, NEW i \in 1..Len(chain),
                    chain[i].script # None, Parse(chain[i].args.name) = chain[i].args.name,
                    chain[i].args.system = None
             PROVE  \/ chain[i].script = chain[i].origin
                    \/ chain[i].origin = None /\ chain[i].args.mode # None
  BY DEF PromptOfTheTask
<1>1. TaskFound(disk, chain[i]) /\ disk \in Disks
  BY DEF LineOK, LevelOK
<1>2. TaskIsOne(disk, chain[i]) /\ chain[i].args.kind = "task"
      /\ chain[i].script = ScriptRoot(disk, chain[i].wenv, chain[i].args.name)
  BY <1>1 DEF TaskFound
<1>3. chain[i].script = FindOrigin(disk, chain[i].wenv, chain[i].args.name)
  BY <1>1, <1>2, SameTask
<1> QED BY <1>2, <1>3 DEF TaskIsOne

-----------------------------------------------------------------------------
\* The last level goes on

\* A sequence is one of its own elements.
LEMMA OfItsOwn ==
    ASSUME NEW S, NEW s \in Seq(S)
    PROVE  s \in Seq(Elements(s))
BY DEF Elements

LEMMA TopIs ==
    ASSUME LineOK, chain # <<>>
    PROVE  /\ Len(chain) \in Nat /\ Len(chain) > 0 /\ Len(chain) \in 1..Len(chain)
           /\ LevelOK(disk, top) /\ Asks(top) /\ disk \in Disks
           /\ Len(chain) >= 2 => Linked(chain[Len(chain) - 1], top)
BY DEF LineOK, top

\* What every step of a call comes to: the line stays one, and the user's environment.
LineGoesOn == LineOK' /\ chain # <<>> /\ chain' # <<>> /\ chain'[1].env = chain[1].env

\* A step of the last level that keeps what holds of a level.
LEMMA PutKept ==
    ASSUME LineOK, chain # <<>>, NEW l, Put(l), LevelOK(disk, l), Asks(l), l.env = top.env,
           Len(chain) >= 2 => Denied(l)
    PROVE  LineGoesOn
<1> DEFINE n == Len(chain)
<1>1. /\ n \in Nat /\ n > 0 /\ chain \in Seq(Elements(chain)) /\ disk' = disk
      /\ chain' = [chain EXCEPT ![n] = l]
  BY TopIs DEF LineOK, Put
<1>2. chain' \in Seq(Elements(chain) \cup {l}) /\ Len(chain') = n
  BY <1>1
<1>3. chain'[n] = l /\ \A i \in 1..n : i # n => chain'[i] = chain[i]
  BY <1>1
<1>4. chain' \in Seq(Elements(chain'))
  BY <1>2, OfItsOwn
<1> HIDE DEF n
<1>5. disk' = disk /\ Len(chain') = n
  BY <1>1, <1>2
<1>6. ASSUME NEW i \in 1..n PROVE LevelOK(disk, chain'[i]) /\ Asks(chain'[i])
  BY <1>1, <1>3, <1>6 DEF LineOK, n
<1>7. ASSUME NEW i \in 2..n PROVE Linked(chain'[i - 1], chain'[i])
  <2>1. Linked(chain[i - 1], chain[i]) /\ chain'[i - 1] = chain[i - 1]
    BY <1>1, <1>3, <1>7 DEF LineOK, n
  <2>2. chain'[i].env = chain[i].env /\ Denied(chain'[i])
    BY <1>1, <1>3, <2>1 DEF Linked, top, n
  <2> QED BY <2>1, <2>2 DEF Linked
<1>8. disk' \in Disks
  BY <1>1 DEF LineOK
<1>9. chain' # <<>> /\ chain'[1].env = chain[1].env
  <2>1. chain' # <<>>
    BY <1>1, <1>5
  <2>2. CASE n = 1
    BY <1>3, <2>1, <2>2 DEF top, n
  <2>3. CASE n # 1
    BY <1>1, <1>3, <2>1, <2>3
  <2> QED BY <2>2, <2>3
<1>10. LineOK'
  BY <1>4, <1>5, <1>6, <1>7, <1>8 DEF LineOK
<1> QED BY <1>9, <1>10 DEF LineGoesOn

\* A level ends.
LEMMA OverKept ==
    ASSUME LineOK, chain # <<>>, NEW l, NEW code, Over(l, code), LevelOK(disk, l), l.env = top.env,
           Len(chain) >= 2 => Denied(l)
    PROVE  LineGoesOn
<1> DEFINE m == [l EXCEPT !.at = "over", !.code = code]
<1>1. /\ DOMAIN m = LevelFields /\ m.at = "over" /\ m.env = l.env /\ m.req = l.req
      /\ m.wenv = l.wenv /\ m.args = l.args /\ m.origin = l.origin /\ m.script = l.script
      /\ m.terminal = l.terminal /\ m.screen = l.screen /\ m.by = l.by /\ m.unsafe = l.unsafe
  BY DEF LevelOK, LevelFields
<1>2. Put(m)
  BY DEF Over
<1> HIDE DEF m
<1>3. LevelOK(disk, m)
  BY <1>1 DEF LevelOK, AsAsked, TaskFound, TaskIsOne, TtyOf, Begun, Unbegun
<1>4. Asks(m) /\ (Len(chain) >= 2 => Denied(m))
  BY <1>1 DEF Asks, Denied
<1> QED BY <1>1, <1>2, <1>3, <1>4, PutKept

\* ... as it is now.
LEMMA TopOver ==
    ASSUME LineOK, chain # <<>>, (\E code : Over(top, code)) \/ Fail(top)
    PROVE  LineGoesOn
<1>1. LevelOK(disk, top) /\ (Len(chain) >= 2 => Denied(top))
  BY TopIs DEF Linked
<1>2. PICK code : Over(top, code)
  BY DEF Fail
<1> QED BY <1>1, <1>2, OverKept

-----------------------------------------------------------------------------
\* The steps of the front end and of the worker

\* What a level was asked, and where it looks, are settled step by step.
LEMMA AskedKept ==
    ASSUME LineOK, BuildRequest \/ Connect \/ Begin
    PROVE  LineGoesOn
<1>1. chain # <<>> /\ LevelOK(disk, top) /\ (Len(chain) >= 2 => Denied(top))
  BY TopIs DEF BuildRequest, Connect, Begin, At, Linked
<1>2. CASE Fail(top)
  BY <1>1, <1>2, TopOver
<1>3. CASE BuildRequest /\ ~Fail(top)
  <2> DEFINE m == [top EXCEPT !.at = "built", !.req = Request(top)]
  <2>1. top.at = "front" /\ NumberOk(top.env.depth) /\ Put(m)
    BY <1>3 DEF BuildRequest, At
  <2>2. /\ DOMAIN m = LevelFields /\ m.at = "built" /\ m.env = top.env
        /\ m.req = Request(top) /\ m.terminal = top.terminal /\ m.screen = top.screen
        /\ m.args = top.args /\ m.origin = top.origin /\ m.script = top.script
        /\ m.by = top.by /\ m.unsafe = top.unsafe
    BY <1>1 DEF LevelOK, LevelFields
  <2> HIDE DEF m
  <2>3. AsAsked(m)
    BY <2>1, <2>2 DEF AsAsked, Request, TtyOf, NumberOk
  <2>4. TaskFound(disk, m)
    BY <1>1, <2>1, <2>2 DEF LevelOK, TaskFound, Unbegun
  <2>5. LevelOK(disk, m)
    BY <1>1, <2>2, <2>3, <2>4 DEF LevelOK, Begun
  <2> QED BY <1>1, <2>1, <2>2, <2>5, PutKept DEF Denied, Asks
<1>4. CASE Connect /\ ~Fail(top)
  <2> DEFINE m == [top EXCEPT !.at = "sent"]
  <2>1. top.at = "built" /\ Put(m)
    BY <1>4 DEF Connect, At
  <2>2. /\ DOMAIN m = LevelFields /\ m.at = "sent" /\ m.env = top.env
        /\ m.req = top.req /\ m.terminal = top.terminal /\ m.screen = top.screen
        /\ m.args = top.args /\ m.origin = top.origin /\ m.script = top.script
        /\ m.by = top.by /\ m.unsafe = top.unsafe
    BY <1>1 DEF LevelOK, LevelFields
  <2> HIDE DEF m
  <2>3. AsAsked(m)
    BY <1>1, <2>1, <2>2 DEF AsAsked, TtyOf, LevelOK
  <2>4. TaskFound(disk, m)
    BY <1>1, <2>1, <2>2 DEF LevelOK, TaskFound, Unbegun
  <2>5. LevelOK(disk, m)
    BY <1>1, <2>2, <2>3, <2>4 DEF LevelOK, Begun
  <2> QED BY <1>1, <2>1, <2>2, <2>5, PutKept DEF Denied, Asks
<1>5. CASE Begin /\ ~Fail(top)
  <2> DEFINE place == IF top.args.kind \in ListKinds THEN "list" ELSE "mode"
             m == [top EXCEPT !.at = place, !.wenv = Apply(top.req)]
  <2>1. top.at = "sent" /\ Put(m) /\ place \in {"list", "mode"}
    BY <1>5 DEF Begin, At
  <2> HIDE DEF place
  <2>2. /\ DOMAIN m = LevelFields /\ m.at = place /\ m.env = top.env /\ m.wenv = Apply(top.req)
        /\ m.req = top.req /\ m.terminal = top.terminal /\ m.screen = top.screen
        /\ m.args = top.args /\ m.origin = top.origin /\ m.script = top.script
        /\ m.by = top.by /\ m.unsafe = top.unsafe
    BY <1>1 DEF LevelOK, LevelFields
  <2> HIDE DEF m
  <2>3. AsAsked(m)
    BY <1>1, <2>1, <2>2 DEF AsAsked, TtyOf, LevelOK
  <2>4. TaskFound(disk, m)
    BY <1>1, <2>1, <2>2 DEF LevelOK, TaskFound, Unbegun
  <2>5. LevelOK(disk, m)
    BY <1>1, <2>1, <2>2, <2>3, <2>4 DEF LevelOK, Begun
  <2> QED BY <1>1, <2>1, <2>2, <2>5, PutKept DEF Denied, Asks
<1> QED BY <1>2, <1>3, <1>4, <1>5

\* A worker goes to another place, in the environment of its request.
LEMMA WorkerKept ==
    ASSUME LineOK, chain # <<>>, top.at \in Begun, NEW m, Put(m),
           DOMAIN m = LevelFields, m.at \in Begun,
           m.env = top.env, m.wenv = top.wenv, m.req = top.req, m.terminal = top.terminal,
           m.screen = top.screen, m.args = top.args, TaskFound(disk, m),
           Asks(m), Len(chain) >= 2 => Denied(m)
    PROVE  LineGoesOn
<1>1. LevelOK(disk, top)
  BY TopIs
<1>2. AsAsked(m)
  BY <1>1 DEF LevelOK, AsAsked, TtyOf
<1>3. LevelOK(disk, m)
  BY <1>1, <1>2 DEF LevelOK
<1> QED BY <1>3, PutKept

\* The mode may bring a system prompt, which takes the place of the task's.
LEMMA ReadModeKept ==
    ASSUME LineOK, ReadMode
    PROVE  LineGoesOn
<1>1. chain # <<>> /\ LevelOK(disk, top) /\ (Len(chain) >= 2 => Denied(top)) /\ top.at = "mode"
  BY TopIs DEF ReadMode, At, Linked
<1>2. CASE Fail(top)
  BY <1>1, <1>2, TopOver
<1>3. CASE ~Fail(top)
  <2>1. PICK s, p, a :
          /\ Put([top EXCEPT !.system = s, !.profile = p, !.at = a])
          /\ a = "hooks" \/ (a = "ready" /\ (top.args.mode = None => top.args.system # None))
    <3> DEFINE given == [system |-> top.args.system, profile |-> top.args.profile]
               mode == ModeOf(disk, top.wenv, top.args.mode)
               merged == IF top.args.mode = None THEN given ELSE MergeMode(given, mode.sets)
               a == IF merged.system # None THEN "ready" ELSE "hooks"
    <3>1. Put([top EXCEPT !.system = merged.system, !.profile = merged.profile, !.at = a])
      BY <1>3 DEF ReadMode
    <3>2. top.args.mode = None => merged.system = top.args.system
      OBVIOUS
    <3> HIDE DEF merged
    <3>3. a = "hooks" \/ (a = "ready" /\ (top.args.mode = None => top.args.system # None))
      BY <3>2
    <3> QED BY <3>1, <3>3
  <2> DEFINE m == [top EXCEPT !.system = s, !.profile = p, !.at = a]
  <2>2. /\ DOMAIN m = LevelFields /\ m.at = a /\ m.env = top.env /\ m.wenv = top.wenv
        /\ m.req = top.req /\ m.terminal = top.terminal /\ m.screen = top.screen
        /\ m.args = top.args /\ m.origin = top.origin /\ m.script = top.script
        /\ m.by = top.by /\ m.unsafe = top.unsafe
    BY <1>1 DEF LevelOK, LevelFields
  <2>3. Put(m)
    BY <2>1
  <2> HIDE DEF m
  <2>4. m.script = None /\ m.origin = None
    BY <1>1, <2>2 DEF LevelOK, TaskFound
  <2>5. TaskFound(disk, m)
    BY <2>1, <2>2, <2>4 DEF TaskFound, TaskIsOne, Unbegun
  <2>6. top.at \in Begun /\ m.at \in Begun /\ Asks(m) /\ (Len(chain) >= 2 => Denied(m))
    BY <1>1, <2>1, <2>2 DEF Begun, Asks, Denied
  <2> QED BY <1>1, <2>2, <2>3, <2>5, <2>6, WorkerKept
<1> QED BY <1>2, <1>3

\* The prompt of a task, its script, and the run.
LEMMA TaskKept ==
    ASSUME LineOK, Prompt \/ StartScript \/ StartRun
    PROVE  LineGoesOn
<1>1. /\ chain # <<>> /\ LevelOK(disk, top) /\ (Len(chain) >= 2 => Denied(top))
      /\ top.at \in {"hooks", "ready"}
  BY TopIs DEF Prompt, StartScript, StartRun, At, Linked
<1>2. CASE Fail(top)
  BY <1>1, <1>2, TopOver
<1>3. CASE Prompt
  <2>1. PICK s : Put([top EXCEPT !.at = "ready", !.system = s,
                                 !.origin = IF top.args.kind = "task"
                                            THEN FindOrigin(disk, top.wenv, top.args.name)
                                            ELSE None])
    BY <1>3 DEF Prompt
  <2> DEFINE o == IF top.args.kind = "task" THEN FindOrigin(disk, top.wenv, top.args.name)
                  ELSE None
             m == [top EXCEPT !.at = "ready", !.system = s, !.origin = o]
  <2>2. top.at = "hooks" /\ Put(m)
    BY <1>3, <2>1 DEF Prompt, At
  <2>3. top.args.kind = "task" => o = FindOrigin(disk, top.wenv, top.args.name)
    OBVIOUS
  <2> HIDE DEF o
  <2>4. /\ DOMAIN m = LevelFields /\ m.at = "ready" /\ m.env = top.env /\ m.wenv = top.wenv
        /\ m.req = top.req /\ m.terminal = top.terminal /\ m.screen = top.screen
        /\ m.args = top.args /\ m.origin = o /\ m.script = top.script
        /\ m.by = top.by /\ m.unsafe = top.unsafe
    BY <1>1 DEF LevelOK, LevelFields
  <2> HIDE DEF m
  <2>5. m.script = None
    BY <1>1, <2>2, <2>4 DEF LevelOK, TaskFound
  <2>6. TaskFound(disk, m)
    BY <2>3, <2>4, <2>5 DEF TaskFound, TaskIsOne, Unbegun
  <2>7. top.at \in Begun /\ m.at \in Begun /\ Asks(m) /\ (Len(chain) >= 2 => Denied(m))
    BY <1>1, <2>4 DEF Begun, Asks, Denied
  <2> QED BY <1>1, <2>2, <2>4, <2>6, <2>7, WorkerKept
<1>4. CASE StartScript
  <2> DEFINE root == ScriptRoot(disk, top.wenv, top.args.name)
             m == [top EXCEPT !.at = "script", !.script = root]
  <2>1. top.at = "ready" /\ top.args.kind = "task" /\ Put(m)
    BY <1>4 DEF StartScript, At
  <2> HIDE DEF root
  <2>2. /\ DOMAIN m = LevelFields /\ m.at = "script" /\ m.env = top.env /\ m.wenv = top.wenv
        /\ m.req = top.req /\ m.terminal = top.terminal /\ m.screen = top.screen
        /\ m.args = top.args /\ m.origin = top.origin /\ m.script = root
        /\ m.by = top.by /\ m.unsafe = top.unsafe
    BY <1>1 DEF LevelOK, LevelFields
  <2> HIDE DEF m
  <2>3. TaskIsOne(disk, top)
    BY <1>1, <2>1 DEF LevelOK, TaskFound
  <2>4. TaskIsOne(disk, m)
    BY <2>2, <2>3 DEF TaskIsOne
  <2>5. TaskFound(disk, m)
    BY <2>1, <2>2, <2>4 DEF TaskFound, Unbegun, root
  <2>6. top.at \in Begun /\ m.at \in Begun /\ Asks(m) /\ (Len(chain) >= 2 => Denied(m))
    BY <1>1, <2>1, <2>2 DEF Begun, Asks, Denied
  <2> QED BY <1>1, <2>1, <2>2, <2>5, <2>6, WorkerKept
<1>5. CASE StartRun /\ ~Fail(top)
  <2> DEFINE m == [top EXCEPT !.at = "agent"]
  <2>1. top.at = "ready" /\ Put(m)
    BY <1>5 DEF StartRun, At
  <2>2. /\ DOMAIN m = LevelFields /\ m.at = "agent" /\ m.env = top.env /\ m.wenv = top.wenv
        /\ m.req = top.req /\ m.terminal = top.terminal /\ m.screen = top.screen
        /\ m.args = top.args /\ m.origin = top.origin /\ m.script = top.script
        /\ m.by = top.by /\ m.unsafe = top.unsafe
    BY <1>1 DEF LevelOK, LevelFields
  <2> HIDE DEF m
  <2>3. TaskIsOne(disk, top) /\ top.script = None
    BY <1>1, <2>1 DEF LevelOK, TaskFound
  <2>4. TaskIsOne(disk, m)
    BY <2>2, <2>3 DEF TaskIsOne
  <2>5. TaskFound(disk, m)
    BY <2>1, <2>2, <2>3, <2>4 DEF TaskFound, Unbegun
  <2>6. top.at \in Begun /\ m.at \in Begun /\ Asks(m) /\ (Len(chain) >= 2 => Denied(m))
    BY <1>1, <2>1, <2>2 DEF Begun, Asks, Denied
  <2> QED BY <1>1, <2>1, <2>2, <2>5, <2>6, WorkerKept
<1> QED BY <1>2, <1>3, <1>4, <1>5

\* What only shows something, and the ends.
LEMMA EndsKept ==
    ASSUME LineOK, Local \/ List \/ DryRun \/ ScriptEnds \/ RunEnds \/ TerminalGone
    PROVE  LineGoesOn
<1>1. chain # <<>>
  BY DEF Local, List, DryRun, ScriptEnds, RunEnds, TerminalGone, At
<1>2. (\E code : Over(top, code)) \/ Fail(top)
  <2>1. CASE Local
    BY <2>1, Zenon DEF Local
  <2>2. CASE List
    BY <2>2, Zenon DEF List
  <2>3. CASE DryRun
    BY <2>3, Zenon DEF DryRun
  <2>4. CASE ScriptEnds \/ RunEnds \/ TerminalGone
    BY <2>4, Zenon DEF ScriptEnds, RunEnds, TerminalGone
  <2> QED BY <2>1, <2>2, <2>3, <2>4
<1> QED BY <1>1, <1>2, TopOver

-----------------------------------------------------------------------------
\* Questions

LEMMA AskKept ==
    ASSUME LineOK, Ask
    PROVE  LineGoesOn
<1>1. chain # <<>> /\ LevelOK(disk, top) /\ (Len(chain) >= 2 => Denied(top)) /\ top.at = "agent"
  BY TopIs DEF Ask, At, Linked
<1>2. PICK q \in Questions, s \in {top.steps + 1} :
         Put([top EXCEPT !.at = "asking", !.ask = q, !.steps = s])
  BY DEF Ask, Questions
<1> DEFINE m == [top EXCEPT !.at = "asking", !.ask = q, !.steps = s]
<1>3. /\ DOMAIN m = LevelFields /\ m.at = "asking" /\ m.env = top.env /\ m.wenv = top.wenv
      /\ m.req = top.req /\ m.terminal = top.terminal /\ m.screen = top.screen
      /\ m.args = top.args /\ m.origin = top.origin /\ m.script = top.script
      /\ m.by = top.by /\ m.unsafe = top.unsafe /\ m.ask = q /\ Put(m)
  BY <1>1, <1>2 DEF LevelOK, LevelFields
<1> HIDE DEF m
<1>4. TaskIsOne(disk, top)
  BY <1>1 DEF LevelOK, TaskFound
<1>5. TaskIsOne(disk, m)
  BY <1>3, <1>4 DEF TaskIsOne
<1>6. TaskFound(disk, m)
  BY <1>1, <1>3, <1>5 DEF LevelOK, TaskFound, Unbegun
<1>7. top.at \in Begun /\ m.at \in Begun /\ Asks(m) /\ (Len(chain) >= 2 => Denied(m))
  BY <1>1, <1>3 DEF Begun, Asks, Denied
<1> QED BY <1>1, <1>3, <1>6, <1>7, WorkerKept

\* An answer: a call that nobody sees gets no other than the rule's.
LEMMA AnsweredKept ==
    ASSUME LineOK, At("asking"), NEW yes \in BOOLEAN, NEW by, Answered(yes, by),
           Len(chain) >= 2 /\ ~top.terminal => by = "rule" /\ ~yes
    PROVE  LineGoesOn
<1>1. chain # <<>> /\ LevelOK(disk, top) /\ (Len(chain) >= 2 => Denied(top)) /\ top.at = "asking"
  BY TopIs DEF At, Linked
<1> DEFINE u == IF top.ask = "approval" /\ yes THEN by ELSE top.unsafe
           l == [top EXCEPT !.ask = None, !.by = by, !.unsafe = u]
           m == [l EXCEPT !.at = "agent"]
<1>2. Put(m) \/ (\E code : Over(l, code))
  <2>1. CASE top.ask = "approval"
    BY <2>1 DEF Answered
  <2>2. CASE top.ask = "continue"
    BY <2>2 DEF Answered, Fail
  <2>3. CASE top.ask = "sensitive"
    BY <2>3 DEF Answered, Fail
  <2> QED BY <1>1, <2>1, <2>2, <2>3, TopIs DEF Asks, Questions
<1>3. Len(chain) >= 2 /\ ~top.terminal => u = None /\ by = "rule"
  BY <1>1 DEF Denied
<1> HIDE DEF u
<1>4. /\ DOMAIN l = LevelFields /\ l.at = "asking" /\ l.env = top.env /\ l.wenv = top.wenv
      /\ l.req = top.req /\ l.terminal = top.terminal /\ l.screen = top.screen
      /\ l.args = top.args /\ l.origin = top.origin /\ l.script = top.script
      /\ l.by = by /\ l.unsafe = u
  BY <1>1 DEF LevelOK, LevelFields
<1>5. TaskIsOne(disk, top)
  BY <1>1 DEF LevelOK, TaskFound
<1>6. Len(chain) >= 2 => Denied(l)
  BY <1>3, <1>4 DEF Denied
<1>7. CASE Put(m)
  <2>1. /\ DOMAIN m = LevelFields /\ m.at = "agent" /\ m.env = l.env /\ m.wenv = l.wenv
        /\ m.req = l.req /\ m.terminal = l.terminal /\ m.screen = l.screen
        /\ m.args = l.args /\ m.origin = l.origin /\ m.script = l.script
        /\ m.by = l.by /\ m.unsafe = l.unsafe
    BY <1>4 DEF LevelFields
  <2> HIDE DEF l, m
  <2>2. TaskIsOne(disk, m)
    BY <1>4, <1>5, <2>1 DEF TaskIsOne
  <2>3. TaskFound(disk, m)
    BY <1>1, <1>4, <2>1, <2>2 DEF LevelOK, TaskFound, Unbegun
  <2>4. top.at \in Begun /\ m.at \in Begun /\ Asks(m) /\ (Len(chain) >= 2 => Denied(m))
    BY <1>1, <1>6, <2>1 DEF Begun, Asks, Denied
  <2> QED BY <1>1, <1>4, <1>7, <2>1, <2>3, <2>4, WorkerKept
<1>8. CASE \E code : Over(l, code)
  <2> HIDE DEF l
  <2>1. TaskIsOne(disk, l)
    BY <1>4, <1>5 DEF TaskIsOne
  <2>2. TaskFound(disk, l)
    BY <1>1, <1>4, <2>1 DEF LevelOK, TaskFound, Unbegun
  <2>3. AsAsked(l)
    BY <1>1, <1>4 DEF LevelOK, AsAsked, TtyOf, Begun
  <2>4. LevelOK(disk, l)
    BY <1>1, <1>4, <2>2, <2>3 DEF LevelOK, Begun
  <2> QED BY <1>1, <1>4, <1>6, <1>8, <2>4, OverKept
<1> QED BY <1>2, <1>7, <1>8

\* A call below another one has a depth: without a terminal the rule answers for it.
LEMMA AnswersKept ==
    ASSUME LineOK, AutoAnswer \/ Person
    PROVE  LineGoesOn
<1>1. chain # <<>> /\ At("asking")
  BY DEF AutoAnswer, Person, At
<1>2. CASE AutoAnswer
  <2>1. Answered(FALSE, "rule")
    BY <1>2 DEF AutoAnswer
  <2>2. FALSE \in BOOLEAN
    OBVIOUS
  <2> QED BY <1>1, <2>1, <2>2, AnsweredKept
<1>3. CASE Person
  <2>1. Len(chain) >= 2 => top.env.depth # None
    BY <1>1, TopIs, BelowHasDepth DEF top
  <2>2. Len(chain) >= 2 => top.terminal
    BY <1>3, <2>1 DEF Person, AutoAnswered
  <2>3. PICK line \in {"y", "m", "n", "enter", "end"} :
           Answered(Means(top.ask, line),
                    IF line = "end" /\ TtyOf(top) = None THEN "nobody" ELSE "person")
    BY <1>3, Zenon DEF Person
  <2>4. Means(top.ask, line) \in BOOLEAN
    <3>1. top.ask \in Questions
      BY <1>1, TopIs DEF Asks, At
    <3>2. CASE top.ask = "approval"
      BY <3>2 DEF Means
    <3>3. CASE top.ask = "continue"
      BY <3>3 DEF Means
    <3>4. CASE top.ask = "sensitive"
      BY <3>4 DEF Means
    <3> QED BY <3>1, <3>2, <3>3, <3>4 DEF Questions
  <2> QED BY <1>1, <2>2, <2>3, <2>4, AnsweredKept
<1> QED BY <1>2, <1>3

-----------------------------------------------------------------------------
\* The line gets longer and shorter

\* A call that comes from a worker stands below it.
LEMMA CallKept ==
    ASSUME LineOK, Call
    PROVE  LineGoesOn
<1> DEFINE n == Len(chain)
<1>1. /\ chain # <<>> /\ LevelOK(disk, top) /\ Asks(top) /\ (Len(chain) >= 2 => Denied(top))
      /\ top.at \in {"hooks", "script", "agent"} /\ disk' = disk /\ disk \in Disks
  BY TopIs DEF Call, At, Linked
<1>2. PICK args, terminal, c, s :
         chain' = Append([chain EXCEPT ![n] = [top EXCEPT !.called = c, !.steps = s]],
                         Level(top.wenv, terminal, FALSE, args))
  <2>1. PICK args, terminal :
           chain' = Append([chain EXCEPT ![Len(chain)].called =
                                             IF top.at = "hooks" THEN @ + 1 ELSE @,
                                         ![Len(chain)].steps =
                                             IF top.at = "hooks" THEN @ ELSE @ + 1],
                           Level(top.wenv, terminal, FALSE, args))
    BY DEF Call
  <2>2. n \in 1..Len(chain) /\ chain \in Seq(Elements(chain))
    BY <1>1, TopIs DEF LineOK
  <2>3. [chain EXCEPT ![Len(chain)].called = IF top.at = "hooks" THEN @ + 1 ELSE @,
                      ![Len(chain)].steps = IF top.at = "hooks" THEN @ ELSE @ + 1] =
        [chain EXCEPT ![n] =
            [top EXCEPT !.called = IF top.at = "hooks" THEN top.called + 1 ELSE top.called,
                        !.steps = IF top.at = "hooks" THEN top.steps ELSE top.steps + 1]]
    BY <1>1, <2>2 DEF top, LevelOK, LevelFields
  <2> DEFINE c == IF top.at = "hooks" THEN top.called + 1 ELSE top.called
             s == IF top.at = "hooks" THEN top.steps ELSE top.steps + 1
  <2>4. chain' = Append([chain EXCEPT ![n] = [top EXCEPT !.called = c, !.steps = s]],
                        Level(top.wenv, terminal, FALSE, args))
    BY <2>1, <2>3
  <2> HIDE DEF c, s
  <2> QED BY <2>4, Zenon
<1> DEFINE m == [top EXCEPT !.called = c, !.steps = s]
           l == Level(top.wenv, terminal, FALSE, args)
           before == [chain EXCEPT ![n] = m]
<1>3. /\ DOMAIN m = LevelFields /\ m.at = top.at /\ m.env = top.env /\ m.wenv = top.wenv
      /\ m.req = top.req /\ m.terminal = top.terminal /\ m.screen = top.screen
      /\ m.args = top.args /\ m.origin = top.origin /\ m.script = top.script
      /\ m.by = top.by /\ m.unsafe = top.unsafe /\ m.ask = top.ask
  BY <1>1 DEF LevelOK, LevelFields
<1>4. /\ DOMAIN l = LevelFields /\ l.at = "front" /\ l.env = top.wenv /\ l.req = None
      /\ l.by = None /\ l.unsafe = None /\ l.origin = None /\ l.script = None
      /\ l.terminal = terminal
  BY DEF Level, LevelFields
<1>5. n \in Nat /\ n > 0 /\ chain \in Seq(Elements(chain))
  BY <1>1, TopIs DEF LineOK
<1>6. chain' = Append(before, l)
  BY <1>2
<1> HIDE DEF m, l
<1>7. before \in Seq(Elements(chain) \cup {m, l}) /\ Len(before) = n
  BY <1>5
<1>8. before[n] = m /\ \A i \in 1..n : i # n => before[i] = chain[i]
  BY <1>5
<1> HIDE DEF before, n
<1>9. /\ chain' \in Seq(Elements(chain) \cup {m, l}) /\ Len(chain') = n + 1
      /\ chain'[n + 1] = l /\ chain'[n] = m
      /\ \A i \in 1..n : i # n => chain'[i] = chain[i]
  BY <1>5, <1>6, <1>7, <1>8
<1>10. chain' \in Seq(Elements(chain'))
  BY <1>9, OfItsOwn
<1>11. LevelOK(disk, m) /\ Asks(m) /\ (n >= 2 => Denied(m))
  <2>1. AsAsked(top) => AsAsked(m)
    BY <1>3 DEF AsAsked, TtyOf
  <2>2. TaskIsOne(disk, top) => TaskIsOne(disk, m)
    BY <1>3 DEF TaskIsOne
  <2>3. TaskFound(disk, m)
    BY <1>1, <1>3, <2>2 DEF LevelOK, TaskFound
  <2>4. LevelOK(disk, m)
    BY <1>1, <1>3, <2>1, <2>3 DEF LevelOK
  <2> QED BY <1>1, <1>3, <2>4 DEF Asks, Denied, n
<1>12. l.env.depth \in Nat
  BY <1>1, <1>4, WorkerHasDepth DEF Begun
<1>13. LevelOK(disk, l) /\ Asks(l) /\ Denied(l)
  BY <1>4, <1>12 DEF LevelOK, TaskFound, Asks, Denied, Unbegun, Begun
<1>14. ASSUME NEW i \in 1..(n + 1) PROVE LevelOK(disk, chain'[i]) /\ Asks(chain'[i])
  <2>1. CASE i \in 1..(n - 1)
    BY <1>5, <1>9, <2>1 DEF LineOK, n
  <2>2. CASE i = n \/ i = n + 1
    BY <1>5, <1>9, <1>11, <1>13, <2>2
  <2> QED BY <1>5, <1>14, <2>1, <2>2
<1>15. ASSUME NEW i \in 2..(n + 1) PROVE Linked(chain'[i - 1], chain'[i])
  <2>1. CASE i \in 2..n
    <3>1. Linked(chain[i - 1], chain[i]) /\ chain'[i - 1] = chain[i - 1]
      BY <1>5, <1>9, <2>1 DEF LineOK, n
    <3>2. chain'[i].env = chain[i].env /\ Denied(chain'[i])
      BY <1>3, <1>5, <1>9, <1>11, <2>1, <3>1 DEF Linked, top, n
    <3> QED BY <3>1, <3>2 DEF Linked
  <2>2. CASE i = n + 1
    <3>1. chain'[i - 1] = m /\ chain'[i] = l
      BY <1>5, <1>9, <2>2
    <3> QED BY <1>1, <1>3, <1>4, <1>13, <3>1 DEF Linked
  <2> QED BY <1>5, <1>15, <2>1, <2>2
<1>16. chain' # <<>> /\ chain'[1].env = chain[1].env
  BY <1>3, <1>5, <1>9 DEF top, n
<1> QED BY <1>1, <1>9, <1>10, <1>14, <1>15, <1>16 DEF LineOK, LineGoesOn

\* The call below is over: the caller has waited where it called.
LEMMA ReturnKept ==
    ASSUME LineOK, Return
    PROVE  LineGoesOn
<1> DEFINE n == Len(chain) - 1
<1>1. /\ Len(chain) \in Nat /\ Len(chain) > 1 /\ chain \in Seq(Elements(chain))
      /\ disk' = disk /\ disk \in Disks
  BY TopIs DEF Return, LineOK, At
<1>2. n \in Nat /\ n > 0 /\ n \in 1..Len(chain) /\ n + 1 = Len(chain)
  BY <1>1
<1> DEFINE s == SubSeq(chain, 1, n)
<1>3. s \in Seq(Elements(chain)) /\ Len(s) = n /\ \A i \in 1..n : s[i] = chain[i]
  BY <1>1, <1>2
<1>4. chain' = [s EXCEPT ![n].said = @ \/ (chain[n].at = "hooks" /\ top.code = 0)]
  BY DEF Return
<1> DEFINE m == [chain[n] EXCEPT !.said = chain[n].said
                                            \/ (chain[n].at = "hooks" /\ top.code = 0)]
<1>5. chain' = [s EXCEPT ![n] = m]
  BY <1>2, <1>3, <1>4
<1>6. LevelOK(disk, chain[n]) /\ Asks(chain[n])
  BY <1>2 DEF LineOK
<1>7. /\ DOMAIN m = LevelFields /\ m.at = chain[n].at /\ m.env = chain[n].env
      /\ m.wenv = chain[n].wenv
      /\ m.req = chain[n].req /\ m.terminal = chain[n].terminal /\ m.screen = chain[n].screen
      /\ m.args = chain[n].args /\ m.origin = chain[n].origin /\ m.script = chain[n].script
      /\ m.by = chain[n].by /\ m.unsafe = chain[n].unsafe /\ m.ask = chain[n].ask
  BY <1>6 DEF LevelOK, LevelFields
<1> HIDE DEF m, s, n
<1>8. /\ chain' \in Seq(Elements(chain) \cup {m}) /\ Len(chain') = n
      /\ chain'[n] = m /\ \A i \in 1..n : i # n => chain'[i] = chain[i]
  BY <1>2, <1>3, <1>5
<1>9. chain' \in Seq(Elements(chain'))
  BY <1>8, OfItsOwn
<1>10. LevelOK(disk, m) /\ Asks(m)
  <2>1. AsAsked(chain[n]) => AsAsked(m)
    BY <1>7 DEF AsAsked, TtyOf
  <2>2. TaskIsOne(disk, chain[n]) => TaskIsOne(disk, m)
    BY <1>7 DEF TaskIsOne
  <2>3. TaskFound(disk, m)
    BY <1>6, <1>7, <2>2 DEF LevelOK, TaskFound
  <2>4. LevelOK(disk, m)
    BY <1>6, <1>7, <2>1, <2>3 DEF LevelOK
  <2> QED BY <1>6, <1>7, <2>4 DEF Asks
<1>11. ASSUME NEW i \in 1..n PROVE LevelOK(disk, chain'[i]) /\ Asks(chain'[i])
  BY <1>2, <1>8, <1>10, <1>11 DEF LineOK
<1>12. ASSUME NEW i \in 2..n PROVE Linked(chain'[i - 1], chain'[i])
  <2>1. Linked(chain[i - 1], chain[i]) /\ chain'[i - 1] = chain[i - 1]
    BY <1>2, <1>8, <1>12 DEF LineOK
  <2>2. chain'[i].env = chain[i].env /\ Denied(chain'[i])
    BY <1>2, <1>7, <1>8, <2>1 DEF Linked, Denied
  <2> QED BY <2>1, <2>2 DEF Linked
<1>13. chain # <<>> /\ chain' # <<>> /\ chain'[1].env = chain[1].env
  BY <1>1, <1>2, <1>7, <1>8
<1> QED BY <1>1, <1>8, <1>9, <1>11, <1>12, <1>13 DEF LineOK, LineGoesOn

-----------------------------------------------------------------------------
\* A call of `ai`

LEMMA LineKept ==
    ASSUME LineOK, InvocationNext
    PROVE  LineGoesOn
<1>1. CASE Local \/ List \/ DryRun \/ ScriptEnds \/ RunEnds \/ TerminalGone
  BY <1>1, EndsKept
<1>2. CASE BuildRequest \/ Connect \/ Begin
  BY <1>2, AskedKept
<1>3. CASE ReadMode
  BY <1>3, ReadModeKept
<1>4. CASE Prompt \/ StartScript \/ StartRun
  BY <1>4, TaskKept
<1>5. CASE Call
  BY <1>5, CallKept
<1>6. CASE Return
  BY <1>6, ReturnKept
<1>7. CASE Ask
  BY <1>7, AskKept
<1>8. CASE AutoAnswer \/ Person
  BY <1>8, AnswersKept
<1> QED
  BY <1>1, <1>2, <1>3, <1>4, <1>5, <1>6, <1>7, <1>8, Zenon DEF InvocationNext, Proceed

LEMMA LineStays ==
    ASSUME LineOK, UNCHANGED invocationVars
    PROVE  LineOK'
BY DEF invocationVars, LineOK, Elements

\* A call that starts a line.
LEMMA OneLevel ==
    ASSUME NEW d \in Disks, NEW c, NEW env, NEW terminal, NEW screen, NEW args,
           env.depth \in Nat \cup {None, Bad}, c = <<Level(env, terminal, screen, args)>>
    PROVE  /\ c \in Seq(Elements(c)) /\ Len(c) = 1 /\ c[1].env = env
           /\ LevelOK(d, c[1]) /\ Asks(c[1])
<1> DEFINE l == Level(env, terminal, screen, args)
<1>1. /\ DOMAIN l = LevelFields /\ l.at = "front" /\ l.env = env /\ l.req = None
      /\ l.by = None /\ l.unsafe = None /\ l.origin = None /\ l.script = None
  BY DEF Level, LevelFields
<1> HIDE DEF l
<1>2. LevelOK(d, l) /\ Asks(l)
  BY <1>1 DEF LevelOK, TaskFound, Asks, Unbegun, Begun
<1>3. c = <<l>>
  BY DEF l
<1>4. c \in Seq({l}) /\ Len(c) = 1 /\ c[1] = l
  BY <1>3
<1> QED BY <1>1, <1>2, <1>4, OfItsOwn

LEMMA OneLevelNext ==
    ASSUME disk' \in Disks, chain' \in Seq(Elements(chain')), Len(chain') = 1,
           LevelOK(disk', chain'[1]), Asks(chain'[1])
    PROVE  LineOK'
BY DEF LineOK

LEMMA NoLevel ==
    ASSUME disk' \in Disks, chain' = <<>>
    PROVE  LineOK'
BY DEF LineOK, Elements

-----------------------------------------------------------------------------
\* The shells, and the commands that are typed in them

LastSession == PathOf(shells[Len(shells)])
WorkingIn == {"make", "version", "made"}
Settled(s) == s.version \/ s.cut \/ s.bare
\* Of the process o of the other terminal and the command c, one makes p.
Maker(o, c, p) == \/ o.at = "version" /\ o.path = p
                  \/ c # None /\ c.at = "version" /\ c.path = p

Counts == ids \in 0..MaxIds /\ killed \in Nat /\ pids \in Nat

OtherOK ==
    /\ other = [at |-> other.at, path |-> other.path, pid |-> other.pid]
    /\ other.at \in {"none", "version", "made", "in"}
    /\ other.at # "none" => other.path \in DOMAIN sessions

ShellsOK ==
    /\ shells \in Seq(Elements(shells))
    /\ \A i \in 1..Len(shells) : /\ shells[i].session \in Paths /\ shells[i].env \in Envs
                                 /\ shells[i].env.session = shells[i].session

\* A command has the environment of its shell, and works in its session unless the line
\* names another one.
CommandOK ==
    cmd # None =>
        /\ cmd \in Commands /\ cmd.env = OwnEnv(cmd.line, HereEnv)
        /\ cmd.at = "start" => ids < MaxIds
        /\ cmd.at \in WorkingIn => cmd.path \in Paths
        /\ cmd.at \in {"version", "made"} => cmd.path \in DOMAIN sessions
        /\ cmd.at \in WorkingIn /\ cmd.kind = "signal" /\ cmd.line.s = None /\ shells # <<>> =>
               cmd.path = LastSession

\* A directory without a version is being made, or that was cut short, or it was found so.
SessionsOK ==
    /\ sessions = [p \in DOMAIN sessions |-> sessions[p]]
    /\ \A p \in DOMAIN sessions :
         /\ p \in Paths /\ DOMAIN sessions[p] = {"version", "record", "cut", "bare"}
         /\ Settled(sessions[p]) \/ Maker(other, cmd, p)
         /\ sessions[p].bare => ~sessions[p].version /\ ~Maker(other, cmd, p)

\* The recorders R record sessions of S, with pids up to n.
Placed(R, S, n) == \A rec \in R : rec.session \in DOMAIN S /\ rec.pid \in 1..n
\* Those of L are attached to their sessions.
Owned(R, L, S) == \A rec \in R : rec.pid \in L => S[rec.session].record = AttachedTo(rec.pid)
RecordsIn(R, p, x) == \E rec \in R : rec.session = p /\ rec.pid = x
\* Who is attached to a session, or in its AISH_PID, records it.
Held(R, S) ==
    \A p \in DOMAIN S : /\ S[p].record.attached => RecordsIn(R, p, S[p].record.pid)
                        /\ S[p].record.file # None => RecordsIn(R, p, S[p].record.file)
RecOK ==
    /\ Placed(Recorders, sessions, pids)
    /\ Owned(Recorders, lone, sessions)
    /\ killed = 0 => Held(Recorders, sessions)

\* `ai` runs only as a command, and starts with the shell's session.
CallsOK ==
    cmd # None /\ chain # <<>> =>
        /\ cmd.at = "ai"
        /\ cmd.line.s = None /\ cmd.line.id = None /\ shells # <<>> =>
               chain[1].env.session = LastSession

AishInv ==
    /\ LineOK /\ Counts /\ ShellsOK /\ OtherOK /\ CommandOK /\ SessionsOK /\ RecOK
    /\ CallsOK /\ OwnRecorderSignalled

-----------------------------------------------------------------------------
\* Sessions and environments

LEMMA HereIs ==
    ASSUME ShellsOK
    PROVE  /\ HereEnv \in Envs
           /\ shells # <<>> => HereEnv.session = LastSession /\ LastSession \in Paths
           /\ shells = <<>> => HereEnv.session = None
<1>1. CASE shells = <<>>
  BY <1>1 DEF HereEnv, LoginEnv, Envs, Homes
<1>2. CASE shells # <<>>
  <2>1. Len(shells) \in 1..Len(shells)
    BY <1>2 DEF ShellsOK
  <2> QED BY <1>2, <2>1 DEF HereEnv, ShellsOK, LastSession, PathOf
<1> QED BY <1>1, <1>2

LEMMA OwnIs ==
    ASSUME NEW env, env \in Envs, NEW c \in Typed
    PROVE  OwnEnv(c, env) \in Envs /\ OwnEnv(c, env).session = env.session
BY DEF Envs, OwnEnv, Homes

\* A command that goes on is one.
LEMMA MovedIs ==
    ASSUME NEW c \in Commands, NEW a \in {"ai", "start", "make", "version", "made"},
           NEW m, m = [c EXCEPT !.at = a]
    PROVE  /\ m \in Commands /\ m # None /\ m.at = a /\ m.path = c.path
           /\ m.line = c.line /\ m.env = c.env /\ m.kind = c.kind
<1>1. m = [line |-> c.line, env |-> c.env, path |-> c.path, at |-> a, kind |-> c.kind]
  BY DEF Commands
<1>2. m \in Commands
  BY <1>1 DEF Commands
<1> QED BY <1>1, <1>2, AishAssumption DEF AishAssumption

\* The session of a command that starts.
LEMMA SessionDirIs ==
    ASSUME AishInv, cmd # None, cmd.at = "start"
    PROVE  /\ SessionDir \in Paths /\ NewIds \in 0..MaxIds
           /\ cmd.line.s = None /\ shells # <<>> => SessionDir = LastSession
           /\ cmd.env \in Envs
<1>1. /\ cmd.line \in Typed /\ cmd.env = OwnEnv(cmd.line, HereEnv) /\ ids < MaxIds
      /\ ShellsOK /\ ids \in 0..MaxIds /\ MaxIds \in Nat
  BY AishAssumption DEF AishInv, CommandOK, Commands, Counts, AishAssumption
<1>2. cmd.env \in Envs /\ cmd.env.session = HereEnv.session
  BY <1>1, HereIs, OwnIs
<1>3. <<ConfigBase(cmd.env), ids + 1>> \in Paths
  <2>1. ConfigBase(cmd.env) \in {"xdg"} \cup Homes /\ ids + 1 \in 0..MaxIds
    BY <1>1, <1>2 DEF Envs, ConfigBase
  <2> QED BY <2>1 DEF Paths
<1>4. CASE cmd.line.s # None
  BY <1>1, <1>2, <1>4 DEF Paths, SessionDir, NewIds
<1>5. CASE cmd.line.s = None /\ shells # <<>>
  <2>1. cmd.env.session = LastSession /\ LastSession \in Paths /\ LastSession # None
    BY <1>1, <1>2, <1>5, HereIs, AishAssumption DEF AishAssumption
  <2> QED BY <1>1, <1>2, <1>5, <2>1 DEF SessionDir, NewIds
<1>6. CASE cmd.line.s = None /\ shells = <<>>
  BY <1>1, <1>2, <1>3, <1>6, HereIs DEF SessionDir, NewIds
<1> QED BY <1>2, <1>4, <1>5, <1>6

\* The last one in a listing is in it.
LEMMA LatestIs ==
    ASSUME NEW S, S # {}, \A p \in S : p \in Paths
    PROVE  Latest(S) \in S
<1> DEFINE place(p) == MaxIds - ByteOrder[p[2]]
           T == {place(p) : p \in S}
<1>1. \A p \in S : ByteOrder[p[2]] \in 0..MaxIds /\ place(p) \in Nat
  BY AishAssumption DEF AishAssumption
<1>2. T \subseteq Nat /\ T # {}
  BY <1>1
<1>3. \A p \in S : place(p) \in T
  OBVIOUS
<1>4. \A x \in T : \E p \in S : x = place(p)
  OBVIOUS
<1> HIDE DEF T
<1>5. PICK x \in T : \A y \in T : ~(<<y, x>> \in OpToRel(<, Nat))
  BY <1>2, WFMin, NatLessThanWellFounded
<1>6. \A y \in T : ~(y < x)
  BY <1>2, <1>5 DEF OpToRel
<1>7. PICK p \in S : x = place(p)
  BY <1>4
<1>8. \A q \in S : ~(place(q) < place(p))
  BY <1>3, <1>6, <1>7
<1>9. \A q \in S : ByteOrder[q[2]] <= ByteOrder[p[2]]
  <2> TAKE q \in S
  <2>1. ~(place(q) < place(p)) /\ ByteOrder[p[2]] \in 0..MaxIds /\ ByteOrder[q[2]] \in 0..MaxIds
    BY <1>1, <1>8
  <2>2. MaxIds \in Nat
    BY AishAssumption DEF AishAssumption
  <2> QED BY <2>1, <2>2
<1> QED BY <1>9 DEF Latest

-----------------------------------------------------------------------------
\* What most steps leave as it is

\* The session directories get more, and the records stay.
Grow ==
    /\ DOMAIN sessions \subseteq DOMAIN sessions'
    /\ \A p \in DOMAIN sessions : sessions'[p].record = sessions[p].record
    /\ \A p \in DOMAIN sessions' \ DOMAIN sessions : sessions'[p].record = NoRecord

LEMMA RecordsStay ==
    ASSUME RecOK, Grow, Recorders' \subseteq Recorders, lone' = lone, pids' = pids,
           killed' = 0 => killed = 0 /\ Recorders' = Recorders
    PROVE  RecOK'
<1>1. Placed(Recorders', sessions', pids')
  BY DEF RecOK, Placed, Grow
<1>2. Owned(Recorders', lone', sessions')
  <2> SUFFICES ASSUME NEW rec \in Recorders', rec.pid \in lone'
               PROVE  sessions'[rec.session].record = AttachedTo(rec.pid)
    BY DEF Owned
  <2>1. rec \in Recorders /\ rec.session \in DOMAIN sessions
    BY DEF RecOK, Placed
  <2> QED BY <2>1 DEF RecOK, Owned, Grow
<1>3. ASSUME killed' = 0 PROVE Held(Recorders', sessions')
  <2>1. Held(Recorders, sessions) /\ Recorders' = Recorders
    BY <1>3 DEF RecOK
  <2> SUFFICES ASSUME NEW p \in DOMAIN sessions'
               PROVE  /\ sessions'[p].record.attached =>
                             RecordsIn(Recorders, p, sessions'[p].record.pid)
                      /\ sessions'[p].record.file # None =>
                             RecordsIn(Recorders, p, sessions'[p].record.file)
    BY <2>1 DEF Held
  <2>2. CASE p \in DOMAIN sessions
    BY <2>1, <2>2 DEF Held, Grow
  <2>3. CASE p \notin DOMAIN sessions
    BY <2>3 DEF Grow, NoRecord
  <2> QED BY <2>2, <2>3
<1> QED BY <1>1, <1>2, <1>3 DEF RecOK

LEMMA StayIn ==
    ASSUME AishInv, UNCHANGED <<shells, other, lone, pids>>, Grow, Counts', killed <= killed'
    PROVE  ShellsOK' /\ OtherOK' /\ RecOK'
<1>1. ShellsOK' /\ OtherOK'
  BY DEF AishInv, ShellsOK, OtherOK, Elements, Grow
<1>2. Recorders' = Recorders
  BY DEF Recorders
<1>3. killed' = 0 => killed = 0
  BY DEF AishInv, Counts
<1> QED BY <1>1, <1>2, <1>3, RecordsStay DEF AishInv

\* Nobody begins to make a session, nor stops.
LEMMA SessionsStay ==
    ASSUME SessionsOK, sessions' = sessions, other' = other,
           cmd = None \/ cmd.at # "version", cmd' = None \/ cmd'.at # "version"
    PROVE  SessionsOK' /\ Grow
<1>1. \A p \in DOMAIN sessions : Maker(other', cmd', p) <=> Maker(other, cmd, p)
  BY DEF Maker
<1>2. Grow
  BY DEF Grow
<1> HIDE DEF Maker
<1> QED BY <1>1, <1>2 DEF SessionsOK

LEMMA SignalStays ==
    ASSUME AishInv, signalled' = signalled, Counts', killed <= killed'
    PROVE  OwnRecorderSignalled'
<1>1. killed' = 0 => killed = 0
  BY DEF AishInv, Counts
<1> QED BY <1>1 DEF AishInv, OwnRecorderSignalled

\* A directory is made, and who makes a new one goes on to its version.
LEMMA DirMade ==
    ASSUME SessionsOK, NEW path, path \in Paths, sessions' = WithDir(path),
           \A p \in DOMAIN sessions : Maker(other', cmd', p) <=> Maker(other, cmd, p),
           path \notin DOMAIN sessions => Maker(other', cmd', path)
    PROVE  SessionsOK' /\ Grow /\ DOMAIN sessions' = DOMAIN sessions \cup {path}
<1>1. /\ DOMAIN sessions' = DOMAIN sessions \cup {path}
      /\ \A p \in DOMAIN sessions : sessions'[p] = sessions[p]
      /\ path \notin DOMAIN sessions => sessions'[path] = NewSession
      /\ sessions' = [p \in DOMAIN sessions' |-> sessions'[p]]
  BY DEF WithDir
<1>2. /\ DOMAIN NewSession = {"version", "record", "cut", "bare"}
      /\ NewSession.record = NoRecord /\ ~NewSession.bare
  BY DEF NewSession
<1> HIDE DEF Maker
<1>3. Grow
  BY <1>1, <1>2 DEF Grow
<1>4. SessionsOK'
  <2> SUFFICES ASSUME NEW p \in DOMAIN sessions'
               PROVE  /\ p \in Paths
                      /\ DOMAIN sessions'[p] = {"version", "record", "cut", "bare"}
                      /\ Settled(sessions'[p]) \/ Maker(other', cmd', p)
                      /\ sessions'[p].bare => ~sessions'[p].version /\ ~Maker(other', cmd', p)
    BY <1>1 DEF SessionsOK
  <2>1. CASE p \in DOMAIN sessions
    BY <1>1, <2>1 DEF SessionsOK
  <2>2. CASE p \notin DOMAIN sessions
    <3>1. p = path /\ sessions'[p] = NewSession
      BY <1>1, <2>2
    <3> QED BY <1>2, <2>2, <3>1
  <2> QED BY <2>1, <2>2
<1> QED BY <1>1, <1>3, <1>4

\* Who makes a session is done with it: its version is written, or was not.
LEMMA MakerDone ==
    ASSUME SessionsOK, NEW path, path \in DOMAIN sessions, Maker(other, cmd, path),
           \/ sessions' = [sessions EXCEPT ![path].version = TRUE]
           \/ sessions' = [sessions EXCEPT ![path].cut = TRUE],
           \A p \in DOMAIN sessions : p # path =>
               (Maker(other', cmd', p) <=> Maker(other, cmd, p))
    PROVE  SessionsOK' /\ Grow /\ DOMAIN sessions' = DOMAIN sessions
<1> HIDE DEF Maker
<1>1. /\ sessions = [p \in DOMAIN sessions |-> sessions[p]]
      /\ DOMAIN sessions[path] = {"version", "record", "cut", "bare"} /\ path \in Paths
      /\ ~sessions[path].bare
  BY DEF SessionsOK
<1>2. /\ DOMAIN sessions' = DOMAIN sessions
      /\ \A p \in DOMAIN sessions : p # path => sessions'[p] = sessions[p]
      /\ sessions' = [p \in DOMAIN sessions' |-> sessions'[p]]
      /\ DOMAIN sessions'[path] = {"version", "record", "cut", "bare"}
      /\ sessions'[path].record = sessions[path].record /\ ~sessions'[path].bare
      /\ sessions'[path].version \/ sessions'[path].cut
  BY <1>1
<1>3. Grow
  BY <1>2 DEF Grow
<1>4. SessionsOK'
  <2> SUFFICES ASSUME NEW p \in DOMAIN sessions
               PROVE  /\ p \in Paths
                      /\ DOMAIN sessions'[p] = {"version", "record", "cut", "bare"}
                      /\ Settled(sessions'[p]) \/ Maker(other', cmd', p)
                      /\ sessions'[p].bare => ~sessions'[p].version /\ ~Maker(other', cmd', p)
    BY <1>2 DEF SessionsOK
  <2>1. CASE p = path
    BY <1>1, <1>2, <2>1 DEF Settled
  <2>2. CASE p # path
    BY <1>2, <2>2 DEF SessionsOK
  <2> QED BY <2>1, <2>2
<1> QED BY <1>2, <1>3, <1>4

\* A record is written, while nobody begins to make a session or stops.
LEMMA RecordSet ==
    ASSUME SessionsOK, NEW path, path \in DOMAIN sessions, NEW new,
           sessions' = [sessions EXCEPT ![path].record = new],
           \A p \in DOMAIN sessions : Maker(other', cmd', p) <=> Maker(other, cmd, p)
    PROVE  /\ SessionsOK' /\ DOMAIN sessions' = DOMAIN sessions
           /\ sessions'[path].record = new
           /\ \A p \in DOMAIN sessions : p # path => sessions'[p].record = sessions[p].record
<1> HIDE DEF Maker
<1>1. /\ sessions = [p \in DOMAIN sessions |-> sessions[p]]
      /\ DOMAIN sessions[path] = {"version", "record", "cut", "bare"}
  BY DEF SessionsOK
<1>2. /\ DOMAIN sessions' = DOMAIN sessions
      /\ \A p \in DOMAIN sessions : p # path => sessions'[p] = sessions[p]
      /\ sessions' = [p \in DOMAIN sessions' |-> sessions'[p]]
      /\ DOMAIN sessions'[path] = {"version", "record", "cut", "bare"}
      /\ sessions'[path].record = new
      /\ sessions'[path].version = sessions[path].version
      /\ sessions'[path].cut = sessions[path].cut
      /\ sessions'[path].bare = sessions[path].bare
  BY <1>1
<1>3. SessionsOK'
  <2> SUFFICES ASSUME NEW p \in DOMAIN sessions
               PROVE  /\ p \in Paths
                      /\ DOMAIN sessions'[p] = {"version", "record", "cut", "bare"}
                      /\ Settled(sessions'[p]) \/ Maker(other', cmd', p)
                      /\ sessions'[p].bare => ~sessions'[p].version /\ ~Maker(other', cmd', p)
    BY <1>2 DEF SessionsOK
  <2>1. CASE p = path
    BY <1>2, <2>1 DEF Settled, SessionsOK
  <2>2. CASE p # path
    BY <1>2, <2>2 DEF SessionsOK
  <2> QED BY <2>1, <2>2
<1> QED BY <1>2, <1>3

\* A command that is not `ai` has no line of calls.
LEMMA NoLine ==
    ASSUME AishInv, cmd # None, cmd.at # "ai"
    PROVE  chain = <<>>
BY DEF AishInv, CallsOK

\* A command ends in the session directory, or before it had one.
LEMMA EndsWell ==
    ASSUME AishInv, cmd # None, cmd' = None, disk' = disk,
           UNCHANGED <<shells, other, lone, pids>>, chain' = <<>> \/ UNCHANGED invocationVars, SessionsOK', Grow,
           Counts', killed <= killed', OwnRecorderSignalled'
    PROVE  AishInv'
<1>1. LineOK'
  BY NoLevel, LineStays DEF AishInv, LineOK
<1>2. CommandOK' /\ CallsOK'
  BY DEF CommandOK, CallsOK
<1> QED BY <1>1, <1>2, StayIn DEF AishInv

\* A command goes on.
LEMMA GoesWell ==
    ASSUME AishInv, cmd # None, cmd.at # "ai", UNCHANGED <<invocationVars, shells, signalled>>,
           UNCHANGED <<other, lone, pids>>,
           CommandOK', SessionsOK', Grow, Counts', killed <= killed'
    PROVE  AishInv'
<1>1. LineOK'
  BY LineStays DEF AishInv
<1>2. CallsOK'
  BY NoLine DEF CallsOK, invocationVars
<1> QED BY <1>1, <1>2, StayIn, SignalStays DEF AishInv

\* A command that runs `ai` from here.
LEMMA CallsWell ==
    ASSUME AishInv, cmd # None, cmd.at = "start", cmd' = [cmd EXCEPT !.at = "ai"],
           NEW env, env.depth = None, NEW args, chain' = <<Level(env, TRUE, TRUE, args)>>,
           cmd.line.s = None /\ cmd.line.id = None /\ shells # <<>> => env.session = LastSession,
           UNCHANGED <<disk, shells, sessions, signalled, killed, other, lone, pids>>, Counts'
    PROVE  AishInv'
<1>1. LineOK'
  <2>1. disk' \in Disks
    BY DEF AishInv, LineOK
  <2>2. /\ chain' \in Seq(Elements(chain')) /\ Len(chain') = 1
        /\ LevelOK(disk', chain'[1]) /\ Asks(chain'[1])
    BY <2>1, OneLevel
  <2> QED BY <2>1, <2>2, OneLevelNext
<1>2. CommandOK'
  <2>1. cmd' \in Commands /\ cmd'.at = "ai" /\ cmd'.line = cmd.line /\ cmd'.env = cmd.env
    BY MovedIs DEF AishInv, CommandOK, Commands
  <2> QED BY <2>1 DEF AishInv, CommandOK, WorkingIn, HereEnv
<1>3. CallsOK'
  <2>1. chain'[1].env = env
    BY DEF Level
  <2>2. cmd'.at = "ai" /\ cmd'.line = cmd.line
    BY MovedIs DEF AishInv, CommandOK, Commands
  <2> QED BY <2>1, <2>2 DEF CallsOK, LastSession, PathOf
<1>4. SessionsOK' /\ Grow
  <2>1. cmd'.at = "ai"
    BY MovedIs DEF AishInv, CommandOK, Commands
  <2> QED BY <2>1, SessionsStay DEF AishInv
<1>5. killed <= killed'
  BY DEF AishInv, Counts
<1> QED BY <1>1, <1>2, <1>3, <1>4, <1>5, StayIn, SignalStays DEF AishInv

-----------------------------------------------------------------------------
\* The steps of a command

\* A step of a call of `ai`.
LEMMA CallGoesOn ==
    ASSUME AishInv, InvocationNext, UNCHANGED aishVars
    PROVE  AishInv'
<1>1. LineGoesOn
  BY LineKept DEF AishInv
<1>2. /\ UNCHANGED <<shells, sessions, cmd, signalled, ids, killed, other, lone, pids>>
      /\ Counts' /\ killed <= killed'
  BY DEF aishVars, countVars, AishInv, Counts
<1>3. CommandOK' /\ SessionsOK' /\ Grow
  BY <1>2 DEF AishInv, CommandOK, SessionsOK, Grow, HereEnv, LastSession, PathOf
<1>4. CallsOK'
  BY <1>1, <1>2 DEF AishInv, CallsOK, LineGoesOn, LastSession, PathOf
<1> QED BY <1>1, <1>2, <1>3, <1>4, StayIn, SignalStays DEF AishInv, LineGoesOn

LEMMA TypeWell ==
    ASSUME AishInv, Type
    PROVE  AishInv'
<1>1. PICK c \in Typed :
          /\ cmd' = [line |-> c, kind |-> CommandOf(ConfigOf(c)),
                     env |-> OwnEnv(c, HereEnv), path |-> None,
                     at |-> IF c.name = "ai" THEN "ai" ELSE "start"]
          /\ chain' = IF c.name = "ai"
                      THEN <<Level(HereEnv, TRUE, TRUE, ForwardedToAi(c))>> ELSE <<>>
  BY Zenon DEF Type
<1>2. /\ cmd = None /\ ids < MaxIds /\ signalled' = None
      /\ UNCHANGED <<disk, shells, sessions, ids, killed, other, lone, pids>>
      /\ Counts' /\ killed <= killed'
  BY DEF Type, AishInv, Counts, nearVars
<1>3. HereEnv \in Envs /\ (shells # <<>> => HereEnv.session = LastSession)
  BY HereIs DEF AishInv
<1>4. disk' \in Disks
  BY <1>2 DEF AishInv, LineOK
<1>5. LineOK'
  <2>1. CASE chain' = <<>>
    BY <1>4, <2>1, NoLevel
  <2>2. CASE chain' # <<>>
    <3>1. chain' = <<Level(HereEnv, TRUE, TRUE, ForwardedToAi(c))>> /\ HereEnv.depth = None
      BY <1>1, <1>3, <2>2 DEF Envs
    <3>2. /\ chain' \in Seq(Elements(chain')) /\ Len(chain') = 1
          /\ LevelOK(disk', chain'[1]) /\ Asks(chain'[1])
      BY <1>4, <3>1, OneLevel
    <3> QED BY <1>4, <3>2, OneLevelNext
  <2> QED BY <2>1, <2>2
<1>6. HereEnv' = HereEnv
  BY <1>2 DEF HereEnv
<1>7. CommandOK'
  <2>1. OwnEnv(c, HereEnv) \in Envs
    BY <1>3, OwnIs
  <2>2. CommandOf(ConfigOf(c)) \in {"shell", "resume", "answer", "look", "explain", "rebuild",
                                     "clear", "history", "signal", "mute", "unmute"}
    BY DEF CommandOf
  <2>3. cmd' \in Commands
    BY <1>1, <2>1, <2>2 DEF Commands
  <2> QED BY <1>1, <1>2, <1>6, <2>3 DEF CommandOK, WorkingIn
<1>8. CallsOK'
  <2> SUFFICES ASSUME chain' # <<>>
               PROVE  cmd'.at = "ai" /\ (shells' # <<>> => chain'[1].env.session = LastSession')
    BY DEF CallsOK
  <2>1. c.name = "ai"
    BY <1>1
  <2>2. chain'[1].env = HereEnv
    BY <1>1, <2>1 DEF Level
  <2>3. LastSession' = LastSession
    BY <1>2 DEF LastSession, PathOf
  <2> QED BY <1>1, <1>2, <1>3, <2>1, <2>2, <2>3
<1>9. SessionsOK' /\ Grow
  <2>1. cmd'.at # "version"
    BY <1>1
  <2> QED BY <1>2, <2>1, SessionsStay DEF AishInv
<1>10. OwnRecorderSignalled'
  BY <1>2 DEF OwnRecorderSignalled
<1> QED BY <1>2, <1>5, <1>7, <1>8, <1>9, <1>10, StayIn DEF AishInv

\* The session is not looked at, or only read, or others say what is done in it.
LEMMA JustEnds ==
    ASSUME AishInv, AnswerAtOnce \/ ReadOnly \/ DoneThere \/ AiReturns
    PROVE  AishInv'
<1>1. /\ cmd # None /\ cmd.at # "version" /\ cmd' = None
      /\ UNCHANGED <<disk, shells, sessions, signalled, killed, other, lone, pids>>
      /\ chain' = <<>> \/ UNCHANGED invocationVars
  BY DEF AnswerAtOnce, ReadOnly, DoneThere, AiReturns, Does, Arrived, Ends, invocationVars,
         countVars, nearVars
<1>2. ids' \in 0..MaxIds
  <2>1. CASE ReadOnly
    BY <2>1, SessionDirIs DEF ReadOnly, Does, AishInv, Counts
  <2>2. CASE AnswerAtOnce \/ DoneThere \/ AiReturns
    BY <2>2 DEF AnswerAtOnce, DoneThere, AiReturns, countVars, AishInv, Counts
  <2> QED BY <2>1, <2>2
<1>3. Counts' /\ killed <= killed'
  BY <1>1, <1>2 DEF AishInv, Counts
<1>4. SessionsOK' /\ Grow
  BY <1>1, SessionsStay DEF AishInv
<1> QED BY <1>1, <1>3, <1>4, SignalStays, EndsWell

LEMMA CallsKept ==
    ASSUME AishInv, Explain \/ Rebuild
    PROVE  AishInv'
<1>1. /\ cmd # None /\ cmd.at = "start" /\ cmd' = [cmd EXCEPT !.at = "ai"]
      /\ UNCHANGED <<disk, shells, sessions, signalled, killed, other, lone, pids>>
  BY DEF Explain, Rebuild, Does, Goes, countVars, nearVars
<1>2. /\ cmd.env \in Envs /\ NewIds \in 0..MaxIds
      /\ cmd.line.s = None /\ shells # <<>> => SessionDir = LastSession
  BY <1>1, SessionDirIs
<1>3. cmd.line \in Typed /\ cmd.env = OwnEnv(cmd.line, HereEnv)
  BY <1>1 DEF AishInv, CommandOK, Commands
<1>4. shells # <<>> => cmd.env.session = LastSession
  BY <1>3, HereIs, OwnIs DEF AishInv
<1>5. Counts'
  BY <1>1, <1>2 DEF Explain, Rebuild, countVars, AishInv, Counts
<1>6. CASE Explain
  <2>1. chain' = <<Level(cmd.env, TRUE, TRUE, NoArgs("policy"))>> /\ cmd.env.depth = None
    BY <1>2, <1>6 DEF Explain, Envs
  <2> QED BY <1>1, <1>4, <1>5, <2>1, CallsWell
<1>7. CASE Rebuild
  <2> DEFINE target == IF cmd.line.id = None THEN SessionDir
                       ELSE <<SessionDir[1], cmd.line.id>>
             env == [cmd.env EXCEPT !.session = target, !.home = ConfigBase(cmd.env)]
  <2>1. chain' = <<Level(env, TRUE, TRUE, NoArgs("rebuild"))>>
    BY <1>7 DEF Rebuild
  <2>2. env.depth = None /\ env.session = target
    BY <1>2 DEF Envs
  <2>3. cmd.line.s = None /\ cmd.line.id = None /\ shells # <<>> => target = LastSession
    BY <1>2
  <2> HIDE DEF env, target
  <2> QED BY <1>1, <1>5, <2>1, <2>2, <2>3, CallsWell
<1> QED BY <1>6, <1>7

LEMMA ResolveKept ==
    ASSUME AishInv, Resolve \/ ResumeSession
    PROVE  AishInv'
<1>1. /\ cmd # None /\ cmd.at = "start"
      /\ UNCHANGED <<invocationVars, disk, shells, sessions, signalled, killed>>
      /\ UNCHANGED <<other, lone, pids>>
  BY DEF Resolve, ResumeSession, Does, invocationVars, nearVars
<1>2. /\ SessionDir \in Paths /\ NewIds \in 0..MaxIds
      /\ cmd.line.s = None /\ shells # <<>> => SessionDir = LastSession
  BY <1>1, SessionDirIs
<1>3. Counts' /\ killed <= killed'
  BY <1>1, <1>2 DEF Resolve, ResumeSession, AishInv, Counts
<1>4. cmd' = None \/ cmd'.at # "version" => SessionsOK' /\ Grow
  BY <1>1, SessionsStay DEF AishInv
<1>5. CASE cmd' = None
  BY <1>1, <1>3, <1>4, <1>5, SignalStays, EndsWell
<1>6. ASSUME NEW p, p \in Paths, cmd' = [cmd EXCEPT !.at = "make", !.path = p],
             cmd.kind = "signal" /\ cmd.line.s = None /\ shells # <<>> => p = LastSession
      PROVE  AishInv'
  <2>1. /\ cmd' \in Commands /\ cmd'.line = cmd.line /\ cmd'.env = cmd.env
        /\ cmd'.kind = cmd.kind /\ cmd'.at = "make" /\ cmd'.path = p
    <3>1. cmd \in Commands /\ cmd' = [cmd EXCEPT !.at = "make", !.path = p]
      BY <1>1, <1>6 DEF AishInv, CommandOK
    <3>2. p \in Paths
      BY <1>6
    <3>3. cmd' = [line |-> cmd.line, env |-> cmd.env, path |-> p, at |-> "make",
                  kind |-> cmd.kind]
      BY <3>1 DEF Commands
    <3>4. cmd' \in Commands
      BY <3>1, <3>2, <3>3 DEF Commands
    <3> QED BY <3>3, <3>4
  <2>2. CommandOK'
    BY <1>1, <1>6, <2>1 DEF AishInv, CommandOK, WorkingIn, HereEnv, LastSession, PathOf
  <2>3. SessionsOK' /\ Grow
    BY <1>4, <2>1
  <2> QED BY <1>1, <1>3, <2>2, <2>3, GoesWell
<1>7. CASE Resolve
  BY <1>2, <1>6, <1>7 DEF Resolve
<1>8. CASE ResumeSession /\ cmd' # None
  <2> DEFINE root == SessionDir[1]
             beside == {p \in DOMAIN sessions : p[1] = root}
             asked == IF cmd.line.id = None THEN beside ELSE beside \cap {<<root, cmd.line.id>>}
  <2>1. asked # {} /\ cmd' = [cmd EXCEPT !.at = "make", !.path = Latest(asked)]
    BY <1>8 DEF ResumeSession, Ends
  <2>2. asked \subseteq DOMAIN sessions
    OBVIOUS
  <2> HIDE DEF asked
  <2>3. \A p \in asked : p \in Paths
    BY <2>2 DEF AishInv, SessionsOK
  <2>4. Latest(asked) \in Paths
    BY <2>1, <2>3, LatestIs
  <2>5. cmd.kind # "signal"
    BY <1>8 DEF ResumeSession, Does
  <2> QED BY <1>6, <2>1, <2>4, <2>5
<1> QED BY <1>5, <1>7, <1>8

LEMMA MakeDirKept ==
    ASSUME AishInv, MakeDir
    PROVE  AishInv'
<1>1. /\ cmd # None /\ cmd.at = "make" /\ UNCHANGED <<invocationVars, disk, shells, signalled>>
      /\ UNCHANGED <<other, lone, pids>>
      /\ ids' = ids /\ killed' = killed /\ Counts' /\ killed <= killed'
      /\ cmd.path \in Paths
  BY DEF MakeDir, Arrived, invocationVars, countVars, nearVars, AishInv, Counts, CommandOK,
         WorkingIn
<1>2. CASE Ends /\ UNCHANGED sessions
  <2>1. SessionsOK' /\ Grow
    BY <1>1, <1>2, SessionsStay DEF AishInv, Ends
  <2> QED BY <1>1, <1>2, <2>1, SignalStays, EndsWell DEF Ends
<1>3. ASSUME sessions' = WithDir(cmd.path), Goes(AfterDir(cmd.path))
      PROVE  AishInv'
  <2> DEFINE place == AfterDir(cmd.path)
  <2>1. /\ cmd' \in Commands /\ cmd' # None /\ cmd'.line = cmd.line /\ cmd'.env = cmd.env
        /\ cmd'.kind = cmd.kind /\ cmd'.path = cmd.path /\ cmd'.at = place
    <3>1. /\ cmd \in Commands /\ cmd' = [cmd EXCEPT !.at = place]
          /\ place \in {"ai", "start", "make", "version", "made"}
      BY <1>1, <1>3 DEF AishInv, CommandOK, Goes, AfterDir
    <3> HIDE DEF place
    <3> QED BY <3>1, MovedIs
  <2>2. /\ \A p \in DOMAIN sessions : Maker(other', cmd', p) <=> Maker(other, cmd, p)
        /\ cmd.path \notin DOMAIN sessions => Maker(other', cmd', cmd.path)
    BY <1>1, <2>1 DEF Maker, AfterDir
  <2>3. SessionsOK' /\ Grow /\ DOMAIN sessions' = DOMAIN sessions \cup {cmd.path}
    <3>1. SessionsOK
      BY DEF AishInv
    <3> QED BY ONLY <1>1, <1>3, <2>2, <3>1, DirMade
  <2>4. CommandOK'
    BY <1>1, <2>1, <2>3 DEF AishInv, CommandOK, WorkingIn, HereEnv, LastSession, PathOf, AfterDir
  <2> QED BY <1>1, <2>3, <2>4, GoesWell
<1> QED BY <1>2, <1>3 DEF MakeDir

LEMMA WriteVersionKept ==
    ASSUME AishInv, WriteVersion
    PROVE  AishInv'
<1>1. /\ cmd # None /\ cmd.at = "version"
      /\ UNCHANGED <<invocationVars, disk, shells, signalled, other, lone, pids>>
      /\ ids' = ids /\ killed' = killed /\ Counts' /\ killed <= killed'
      /\ cmd \in Commands /\ cmd.path \in DOMAIN sessions
  BY DEF WriteVersion, Arrived, invocationVars, countVars, nearVars, AishInv, Counts, CommandOK
<1>2. Maker(other, cmd, cmd.path)
  BY <1>1 DEF Maker
<1>3. CASE sessions' = [sessions EXCEPT ![cmd.path].version = TRUE] /\ Goes("made")
  <2>1. /\ cmd' \in Commands /\ cmd' # None /\ cmd'.line = cmd.line /\ cmd'.env = cmd.env
        /\ cmd'.kind = cmd.kind /\ cmd'.path = cmd.path /\ cmd'.at = "made"
    BY <1>1, <1>3, MovedIs DEF Goes
  <2>2. \A p \in DOMAIN sessions : p # cmd.path =>
            (Maker(other', cmd', p) <=> Maker(other, cmd, p))
    BY <1>1, <2>1 DEF Maker
  <2>3. SessionsOK' /\ Grow /\ DOMAIN sessions' = DOMAIN sessions
    BY <1>1, <1>2, <1>3, <2>2, MakerDone DEF AishInv
  <2>4. CommandOK'
    BY <1>1, <2>1, <2>3 DEF AishInv, CommandOK, WorkingIn, HereEnv, LastSession, PathOf
  <2> QED BY <1>1, <2>3, <2>4, GoesWell
<1>4. CASE sessions' = [sessions EXCEPT ![cmd.path].cut = TRUE] /\ Ends
  <2>1. \A p \in DOMAIN sessions : p # cmd.path =>
            (Maker(other', cmd', p) <=> Maker(other, cmd, p))
    BY <1>1, <1>4 DEF Maker, Ends
  <2>2. SessionsOK' /\ Grow
    BY <1>1, <1>2, <1>4, <2>1, MakerDone DEF AishInv
  <2> QED BY <1>1, <1>4, <2>2, SignalStays, EndsWell DEF Ends
<1> QED BY <1>3, <1>4 DEF WriteVersion

LEMMA KillCommandKept ==
    ASSUME AishInv, KillCommand
    PROVE  AishInv'
<1>1. /\ cmd # None /\ cmd' = None /\ cmd.at \in WorkingIn
      /\ UNCHANGED <<invocationVars, disk, shells, signalled, other, lone, pids>>
      /\ ids' = ids /\ Counts' /\ killed <= killed'
  BY DEF KillCommand, Ends, WorkingIn, invocationVars, nearVars, AishInv, Counts
<1>2. SessionsOK' /\ Grow
  <2>1. CASE cmd.at = "version"
    <3>1. /\ sessions' = [sessions EXCEPT ![cmd.path].cut = TRUE]
          /\ cmd.path \in DOMAIN sessions
      BY <1>1, <2>1 DEF KillCommand, AishInv, CommandOK
    <3>2. /\ Maker(other, cmd, cmd.path)
          /\ \A p \in DOMAIN sessions : p # cmd.path =>
                 (Maker(other', cmd', p) <=> Maker(other, cmd, p))
      BY <1>1, <2>1 DEF Maker
    <3> QED BY <3>1, <3>2, MakerDone DEF AishInv
  <2>2. CASE cmd.at # "version"
    <3>1. sessions' = sessions
      BY <2>2 DEF KillCommand
    <3> QED BY <1>1, <2>2, <3>1, SessionsStay DEF AishInv
  <2> QED BY <2>1, <2>2
<1> QED BY <1>1, <1>2, SignalStays, EndsWell

\* What is sent from a shell without naming a session goes to who is attached to the
\* shell's session; and who is attached there records it.
LEMMA SendToKept ==
    ASSUME AishInv, SendTo
    PROVE  AishInv'
<1>1. /\ cmd # None /\ cmd.at = "made" /\ cmd.kind = "signal" /\ cmd' = None
      /\ UNCHANGED <<invocationVars, disk, shells, sessions, other, lone, pids>>
      /\ ids' = ids /\ killed' = killed /\ Counts' /\ killed <= killed'
      /\ cmd.path \in DOMAIN sessions
      /\ cmd.line.s = None /\ shells # <<>> => cmd.path = LastSession
  BY DEF SendTo, Arrived, Ends, invocationVars, countVars, nearVars, AishInv, Counts, CommandOK,
         WorkingIn
<1>2. SessionsOK' /\ Grow
  BY <1>1, SessionsStay DEF AishInv
<1>3. OwnRecorderSignalled'
  <2> DEFINE record == sessions[cmd.path].record
             to == IF record.attached THEN record.pid ELSE None
  <2>1. signalled' = [own |-> cmd.line.s = None, from |-> Here,
                      lone |-> shells # <<>> /\ Here \in lone,
                      to |-> to, there |-> PidsIn(cmd.path)]
    BY DEF SendTo
  <2> HIDE DEF record, to
  <2>2. ASSUME cmd.line.s = None, shells # <<>>, Here \in lone
        PROVE  to = Here
    <3>1. Len(shells) \in 1..Len(shells) /\ Here = shells[Len(shells)].pid
          /\ cmd.path = shells[Len(shells)].session
      BY <1>1, <2>2 DEF AishInv, ShellsOK, Here, LastSession, PathOf
    <3>2. [session |-> cmd.path, pid |-> Here] \in Recorders
      BY <3>1 DEF Recorders
    <3>3. sessions[cmd.path].record = AttachedTo(Here)
      BY <2>2, <3>2 DEF AishInv, RecOK, Owned
    <3> QED BY <3>3 DEF to, record, AttachedTo
  <2>3. ASSUME killed = 0, to # None
        PROVE  to \in PidsIn(cmd.path)
    <3>1. record.attached /\ to = record.pid
      BY <2>3 DEF to
    <3>2. RecordsIn(Recorders, cmd.path, to)
      BY <1>1, <2>3, <3>1 DEF AishInv, RecOK, Held, record
    <3> QED BY <3>2 DEF RecordsIn, PidsIn
  <2>4. /\ signalled'.own => cmd.line.s = None
        /\ signalled'.lone => shells # <<>> /\ Here \in lone
        /\ signalled'.from = Here /\ signalled'.to = to
        /\ signalled'.there = PidsIn(cmd.path)
    BY <2>1
  <2> QED BY <1>1, <2>2, <2>3, <2>4 DEF OwnRecorderSignalled
<1> QED BY <1>1, <1>2, <1>3, EndsWell

\* Who is in AISH_PID is attached already, where a recorder had the session for itself.
LEMMA MuteKept ==
    ASSUME AishInv, Mute
    PROVE  AishInv'
<1> DEFINE path == cmd.path
           holder == sessions[path].record.file
<1>1. /\ cmd # None /\ cmd.at = "made" /\ cmd' = None /\ path \in DOMAIN sessions
      /\ UNCHANGED <<invocationVars, disk, shells, signalled, other, lone, pids>>
      /\ ids' = ids /\ killed' = killed /\ Counts' /\ killed <= killed'
  BY DEF Mute, Arrived, Ends, invocationVars, countVars, nearVars, AishInv, Counts, CommandOK
<1>2. CASE holder = None
  <2>1. sessions' = sessions
    BY <1>2 DEF Mute
  <2>2. SessionsOK' /\ Grow
    BY <1>1, <2>1, SessionsStay DEF AishInv
  <2> QED BY <1>1, <2>2, SignalStays, EndsWell
<1>3. CASE holder # None
  <2>1. sessions' = [sessions EXCEPT ![path].record = AttachedTo(holder)]
    BY <1>3 DEF Mute
  <2>2. \A p \in DOMAIN sessions : Maker(other', cmd', p) <=> Maker(other, cmd, p)
    BY <1>1 DEF Maker
  <2> HIDE DEF path, holder
  <2>3. /\ SessionsOK' /\ DOMAIN sessions' = DOMAIN sessions
        /\ sessions'[path].record = AttachedTo(holder)
        /\ \A p \in DOMAIN sessions : p # path => sessions'[p].record = sessions[p].record
    BY <1>1, <2>1, <2>2, RecordSet DEF AishInv
  <2>4. Recorders' = Recorders
    BY <1>1 DEF Recorders
  <2>5. RecOK'
    <3>1. Placed(Recorders', sessions', pids')
      BY <1>1, <2>3, <2>4 DEF AishInv, RecOK, Placed
    <3>2. Owned(Recorders', lone', sessions')
      <4> SUFFICES ASSUME NEW rec \in Recorders, rec.pid \in lone
                   PROVE  sessions'[rec.session].record = AttachedTo(rec.pid)
        BY <1>1, <2>4 DEF Owned
      <4>1. /\ sessions[rec.session].record = AttachedTo(rec.pid)
            /\ rec.session \in DOMAIN sessions
        BY DEF AishInv, RecOK, Owned, Placed
      <4>2. rec.session = path => holder = rec.pid
        BY <4>1 DEF holder, AttachedTo
      <4> QED BY <2>3, <4>1, <4>2
    <3>3. ASSUME killed' = 0 PROVE Held(Recorders', sessions')
      <4>1. Held(Recorders, sessions)
        BY <1>1, <3>3 DEF AishInv, RecOK
      <4>2. RecordsIn(Recorders, path, holder)
        BY <1>1, <1>3, <4>1 DEF Held, holder
      <4>3. AttachedTo(holder).pid = holder /\ AttachedTo(holder).file = holder
        BY DEF AttachedTo
      <4> QED BY <2>3, <2>4, <4>1, <4>2, <4>3 DEF Held
    <3> QED BY <3>1, <3>2, <3>3 DEF RecOK
  <2>6. ShellsOK' /\ OtherOK' /\ LineOK' /\ CommandOK' /\ CallsOK'
    BY <1>1, <2>3, LineStays DEF AishInv, ShellsOK, Elements, OtherOK, CommandOK, CallsOK
  <2>7. OwnRecorderSignalled'
    BY <1>1, SignalStays
  <2> QED BY <1>1, <2>3, <2>5, <2>6, <2>7 DEF AishInv
<1> QED BY <1>2, <1>3

-----------------------------------------------------------------------------
\* The shells

\* The recorders of a stack of shells, and of the other terminal.
ShellRecs(s) == {[session |-> s[i].session, pid |-> s[i].pid] : i \in 1..Len(s)}
OtherRecs(o) == IF o.at = "in" THEN {[session |-> o.path, pid |-> o.pid]} ELSE {}

LEMMA RecordersAre == Recorders = ShellRecs(shells) \cup OtherRecs(other)
BY DEF Recorders, ShellRecs, OtherRecs

LEMMA RecordersAreNext == Recorders' = ShellRecs(shells') \cup OtherRecs(other')
BY DEF Recorders, ShellRecs, OtherRecs

LEMMA OneMoreShell ==
    ASSUME NEW s, NEW t, NEW sh, NEW n \in Nat, Len(s) = n, Len(t) = n + 1, t[n + 1] = sh,
           \A i \in 1..n : t[i] = s[i]
    PROVE  ShellRecs(t) = ShellRecs(s) \cup {[session |-> sh.session, pid |-> sh.pid]}
<1> DEFINE R(q, i) == [session |-> q[i].session, pid |-> q[i].pid]
           sR == [session |-> sh.session, pid |-> sh.pid]
<1>1. \A i \in 1..n : i \in 1..(n + 1) /\ R(t, i) = R(s, i)
  OBVIOUS
<1>2. R(t, n + 1) = sR /\ n + 1 \in 1..(n + 1)
  OBVIOUS
<1>3. \A i \in 1..(n + 1) : i \in 1..n \/ i = n + 1
  OBVIOUS
<1>4. ShellRecs(s) = {R(s, i) : i \in 1..n} /\ ShellRecs(t) = {R(t, i) : i \in 1..(n + 1)}
  BY DEF ShellRecs
<1> HIDE DEF R, sR
<1>5. {R(t, i) : i \in 1..(n + 1)} = {R(s, i) : i \in 1..n} \cup {sR}
  BY <1>1, <1>2, <1>3
<1> QED BY <1>4, <1>5 DEF sR

LEMMA OneShellLess ==
    ASSUME NEW s, NEW t, NEW n \in Nat, n > 0, Len(s) = n, Len(t) = n - 1,
           \A i \in 1..(n - 1) : t[i] = s[i]
    PROVE  /\ ShellRecs(t) \subseteq ShellRecs(s)
           /\ \A rec \in ShellRecs(s) : rec.session # s[n].session => rec \in ShellRecs(t)
<1> DEFINE R(q, i) == [session |-> q[i].session, pid |-> q[i].pid]
<1>1. \A i \in 1..(n - 1) : i \in 1..n /\ R(t, i) = R(s, i)
  OBVIOUS
<1>2. \A i \in 1..n : i \in 1..(n - 1) \/ i = n
  OBVIOUS
<1>3. R(s, n).session = s[n].session
  OBVIOUS
<1>4. ShellRecs(s) = {R(s, i) : i \in 1..n} /\ ShellRecs(t) = {R(t, i) : i \in 1..(n - 1)}
  BY DEF ShellRecs
<1> HIDE DEF R
<1>5. {R(t, i) : i \in 1..(n - 1)} \subseteq {R(s, i) : i \in 1..n}
  BY <1>1
<1>6. ASSUME NEW rec \in {R(s, i) : i \in 1..n}, rec.session # s[n].session
      PROVE  rec \in {R(t, i) : i \in 1..(n - 1)}
  BY <1>1, <1>2, <1>3, <1>6
<1> QED BY <1>4, <1>5, <1>6

\* A recorder comes to a session.
LEMMA Comes ==
    ASSUME RecOK, pids \in Nat, NEW path, path \in DOMAIN sessions,
           DOMAIN sessions' = DOMAIN sessions, sessions'[path].record = AttachedTo(pids + 1),
           \A p \in DOMAIN sessions : p # path => sessions'[p].record = sessions[p].record,
           Recorders' = Recorders \cup {[session |-> path, pid |-> pids + 1]},
           pids' = pids + 1, lone' = (lone \ PidsIn(path)) \cup {pids + 1}, killed' = killed
    PROVE  RecOK'
<1> DEFINE new == [session |-> path, pid |-> pids + 1]
<1>1. new.session = path /\ new.pid = pids + 1 /\ pids + 1 \in 1..(pids + 1)
  OBVIOUS
<1> HIDE DEF new
<1>2. \A rec \in Recorders : /\ rec.session \in DOMAIN sessions /\ rec.pid \in 1..(pids + 1)
                              /\ rec.pid # pids + 1
  BY DEF RecOK, Placed
<1>3. Recorders' = Recorders \cup {new}
  BY DEF new
<1>4. Placed(Recorders', sessions', pids')
  BY <1>1, <1>2, <1>3 DEF Placed
<1>5. Owned(Recorders', lone', sessions')
  <2> SUFFICES ASSUME NEW rec \in Recorders', rec.pid \in lone'
               PROVE  sessions'[rec.session].record = AttachedTo(rec.pid)
    BY DEF Owned
  <2>1. CASE rec = new
    BY <1>1, <2>1
  <2>2. CASE rec \in Recorders
    <3>1. rec.pid \in lone /\ rec.pid \notin PidsIn(path)
      BY <1>2, <2>2
    <3>2. rec.session # path
      BY <2>2, <3>1 DEF PidsIn
    <3> QED BY <1>2, <2>2, <3>1, <3>2 DEF RecOK, Owned
  <2> QED BY <1>3, <2>1, <2>2
<1>6. ASSUME killed' = 0 PROVE Held(Recorders', sessions')
  <2>1. Held(Recorders, sessions)
    BY <1>6 DEF RecOK
  <2>2. \A p, x : RecordsIn(Recorders, p, x) => RecordsIn(Recorders', p, x)
    BY <1>3 DEF RecordsIn
  <2>3. RecordsIn(Recorders', path, pids + 1)
    BY <1>1, <1>3 DEF RecordsIn
  <2>4. AttachedTo(pids + 1).pid = pids + 1 /\ AttachedTo(pids + 1).file = pids + 1
    BY DEF AttachedTo
  <2> QED BY <2>1, <2>2, <2>3, <2>4 DEF Held
<1> QED BY <1>4, <1>5, <1>6 DEF RecOK

\* A recorder goes from its session, or does not get to record it.
LEMMA GoesAway ==
    ASSUME RecOK, NEW path, path \in DOMAIN sessions, DOMAIN sessions' = DOMAIN sessions,
           \A p \in DOMAIN sessions : p # path => sessions'[p].record = sessions[p].record,
           Recorders' \subseteq Recorders,
           \A rec \in Recorders : rec.session # path => rec \in Recorders',
           pids \in Nat, pids' \in Nat, pids <= pids', lone' = lone \ PidsIn(path),
           killed' = 0 => killed = 0 /\ sessions'[path].record = NoRecord
    PROVE  RecOK'
<1>1. Placed(Recorders', sessions', pids')
  <2> SUFFICES ASSUME NEW rec \in Recorders'
               PROVE  rec.session \in DOMAIN sessions' /\ rec.pid \in 1..pids'
    BY DEF Placed
  <2>1. rec.session \in DOMAIN sessions /\ rec.pid \in 1..pids
    BY DEF RecOK, Placed
  <2> QED BY <2>1
<1>2. Owned(Recorders', lone', sessions')
  <2> SUFFICES ASSUME NEW rec \in Recorders', rec.pid \in lone'
               PROVE  sessions'[rec.session].record = AttachedTo(rec.pid)
    BY DEF Owned
  <2>1. rec \in Recorders /\ rec.pid \in lone /\ rec.pid \notin PidsIn(path)
    OBVIOUS
  <2>2. rec.session # path /\ rec.session \in DOMAIN sessions
    BY <2>1 DEF PidsIn, RecOK, Placed
  <2> QED BY <2>1, <2>2 DEF RecOK, Owned
<1>3. ASSUME killed' = 0 PROVE Held(Recorders', sessions')
  <2>1. Held(Recorders, sessions) /\ sessions'[path].record = NoRecord
    BY <1>3 DEF RecOK
  <2>2. \A p, x : p # path /\ RecordsIn(Recorders, p, x) => RecordsIn(Recorders', p, x)
    BY DEF RecordsIn
  <2>3. ~NoRecord.attached /\ NoRecord.file = None
    BY DEF NoRecord
  <2> QED BY <2>1, <2>2, <2>3 DEF Held
<1> QED BY <1>1, <1>2, <1>3 DEF RecOK

LEMMA EnterKept ==
    ASSUME AishInv, Enter
    PROVE  AishInv'
<1> DEFINE n == Len(shells)
           path == cmd.path
           record == AttachedTo(pids + 1)
           sh == [session |-> path, env |-> ChildEnv(cmd.env, path), pid |-> pids + 1]
<1>1. /\ cmd # None /\ cmd.at = "made" /\ cmd' = None
      /\ UNCHANGED <<invocationVars, disk, signalled, other>> /\ pids \in Nat
      /\ ids' = ids /\ killed' = killed /\ Counts' /\ killed <= killed'
      /\ cmd \in Commands /\ path \in DOMAIN sessions /\ path \in Paths
  BY DEF Enter, Arrived, Ends, invocationVars, AishInv, Counts, CommandOK, WorkingIn
<1>2. /\ sessions' = [sessions EXCEPT ![path].record = record] /\ shells' = Append(shells, sh)
      /\ pids' = pids + 1 /\ lone' = (lone \ PidsIn(path)) \cup {pids + 1}
      /\ shells \in Seq(Elements(shells)) /\ n \in Nat
  BY DEF Enter, AishInv, ShellsOK
<1>3. \A p \in DOMAIN sessions : Maker(other', cmd', p) <=> Maker(other, cmd, p)
  BY <1>1 DEF Maker
<1>4. sh.session = path /\ sh.env.session = path /\ sh.env \in Envs /\ sh.pid = pids + 1
  BY <1>1 DEF Commands, Envs, ChildEnv
<1> HIDE DEF sh, n, path
<1>5. /\ SessionsOK' /\ DOMAIN sessions' = DOMAIN sessions
      /\ sessions'[path].record = AttachedTo(pids + 1)
      /\ \A p \in DOMAIN sessions : p # path => sessions'[p].record = sessions[p].record
  BY <1>1, <1>2, <1>3, RecordSet DEF AishInv
<1>6. /\ shells' \in Seq(Elements(shells) \cup {sh}) /\ Len(shells') = n + 1 /\ n \in Nat
      /\ shells'[n + 1] = sh /\ \A i \in 1..n : shells'[i] = shells[i]
  BY <1>2 DEF n
<1>7. ShellsOK'
  <2>1. shells' \in Seq(Elements(shells'))
    BY <1>6, OfItsOwn
  <2>2. ASSUME NEW i \in 1..(n + 1)
        PROVE  /\ shells'[i].session \in Paths /\ shells'[i].env \in Envs
               /\ shells'[i].env.session = shells'[i].session
    <3>1. CASE i \in 1..n
      BY <1>6, <3>1 DEF AishInv, ShellsOK, n
    <3>2. CASE i = n + 1
      BY <1>1, <1>4, <1>6, <3>2
    <3> QED BY <1>6, <2>2, <3>1, <3>2
  <2> QED BY <1>6, <2>1, <2>2 DEF ShellsOK
<1>8. RecOK'
  <2>1. ShellRecs(shells') = ShellRecs(shells) \cup {[session |-> sh.session, pid |-> sh.pid]}
    <3>1. Len(shells) = n
      BY DEF n
    <3> QED BY ONLY <1>6, <3>1, OneMoreShell
  <2>2. Recorders' = Recorders \cup {[session |-> path, pid |-> pids + 1]}
    BY <1>1, <1>4, <2>1, RecordersAre, RecordersAreNext
  <2>3. RecOK
    BY DEF AishInv
  <2> QED BY ONLY <1>1, <1>2, <1>5, <2>2, <2>3, Comes
<1>9. OtherOK' /\ LineOK' /\ CommandOK' /\ CallsOK'
  BY <1>1, <1>5, LineStays DEF AishInv, OtherOK, CommandOK, CallsOK
<1>10. OwnRecorderSignalled'
  BY <1>1, SignalStays
<1> QED BY <1>1, <1>5, <1>7, <1>8, <1>9, <1>10 DEF AishInv

LEMMA StartFailsKept ==
    ASSUME AishInv, StartFails
    PROVE  AishInv'
<1> DEFINE path == cmd.path
           record == [NoRecord EXCEPT !.file = pids + 1]
<1>1. /\ cmd # None /\ cmd.at = "made" /\ cmd' = None /\ path \in DOMAIN sessions
      /\ UNCHANGED <<invocationVars, disk, shells, signalled, other>>
      /\ ids' = ids /\ killed' # 0 /\ Counts' /\ killed <= killed'
      /\ pids \in Nat /\ pids' \in Nat /\ pids <= pids'
      /\ lone' = lone \ PidsIn(path)
      /\ sessions' = [sessions EXCEPT ![path].record = record]
  BY DEF StartFails, Arrived, Ends, invocationVars, AishInv, Counts, CommandOK
<1>2. \A p \in DOMAIN sessions : Maker(other', cmd', p) <=> Maker(other, cmd, p)
  BY <1>1 DEF Maker
<1> HIDE DEF path, record
<1>3. /\ SessionsOK' /\ DOMAIN sessions' = DOMAIN sessions
      /\ \A p \in DOMAIN sessions : p # path => sessions'[p].record = sessions[p].record
  BY <1>1, <1>2, RecordSet DEF AishInv
<1>4. Recorders' = Recorders
  BY <1>1 DEF Recorders
<1>5. RecOK'
  BY <1>1, <1>3, <1>4, GoesAway DEF AishInv
<1>6. ShellsOK' /\ OtherOK' /\ LineOK' /\ CommandOK' /\ CallsOK'
  BY <1>1, <1>3, LineStays DEF AishInv, ShellsOK, Elements, OtherOK, CommandOK, CallsOK
<1>7. OwnRecorderSignalled'
  BY <1>1, SignalStays
<1> QED BY <1>1, <1>3, <1>5, <1>6, <1>7 DEF AishInv

\* The innermost shell is gone, with its recorder: the others are as they were.
LEMMA OthersStay ==
    ASSUME AishInv, shells # <<>>, shells' = WithoutLast(shells), other' = other
    PROVE  /\ ShellsOK' /\ LastSession \in DOMAIN sessions
           /\ Recorders' \subseteq Recorders
           /\ \A rec \in Recorders : rec.session # LastSession => rec \in Recorders'
<1> DEFINE n == Len(shells)
           m == n - 1
<1>1. /\ shells \in Seq(Elements(shells)) /\ n \in Nat /\ n > 0
      /\ m \in Nat
  BY DEF AishInv, ShellsOK
<1>2. shells' = SubSeq(shells, 1, m)
  BY DEF WithoutLast
<1>3. /\ shells' \in Seq(Elements(shells)) /\ Len(shells') = m
      /\ \A i \in 1..m : shells'[i] = shells[i]
  <2>1. m \in 0..Len(shells) /\ 1 \in 1..(Len(shells) + 1)
    BY <1>1
  <2> HIDE DEF m
  <2> QED BY <1>1, <1>2, <2>1, SubSeqProperties
<1>4. \A i \in 1..m : i \in 1..Len(shells)
  BY <1>1
<1>5. ShellsOK'
  <2>1. shells' \in Seq(Elements(shells'))
    BY <1>3, OfItsOwn
  <2> HIDE DEF m
  <2> QED BY <1>3, <1>4, <2>1 DEF AishInv, ShellsOK
<1>6. n \in 1..n /\ LastSession = shells[n].session
  BY <1>1 DEF LastSession, PathOf
<1>7. LastSession \in DOMAIN sessions
  <2>1. [session |-> LastSession, pid |-> shells[n].pid] \in Recorders
    BY <1>6 DEF Recorders
  <2> QED BY <2>1 DEF AishInv, RecOK, Placed
<1>8. /\ ShellRecs(shells') \subseteq ShellRecs(shells)
      /\ \A rec \in ShellRecs(shells) : rec.session # shells[n].session =>
             rec \in ShellRecs(shells')
  <2>1. Len(shells) = n /\ Len(shells') = n - 1 /\ \A i \in 1..(n - 1) : shells'[i] = shells[i]
    BY <1>3
  <2> QED BY ONLY <1>1, <2>1, OneShellLess
<1> QED BY <1>5, <1>6, <1>7, <1>8, RecordersAre, RecordersAreNext

LEMMA LeaveKept ==
    ASSUME AishInv, Leave
    PROVE  AishInv'
<1> DEFINE path == LastSession
<1>1. /\ cmd = None /\ cmd' = None /\ shells # <<>>
      /\ UNCHANGED <<invocationVars, disk, signalled, other, pids>> /\ pids \in Nat
      /\ ids' = ids /\ killed' = killed /\ Counts' /\ killed <= killed'
      /\ shells' = WithoutLast(shells) /\ lone' = lone \ PidsIn(path)
      /\ sessions' = [sessions EXCEPT ![path].record = NoRecord]
  BY DEF Leave, invocationVars, countVars, AishInv, Counts, LastSession
<1>2. \A p \in DOMAIN sessions : Maker(other', cmd', p) <=> Maker(other, cmd, p)
  BY <1>1 DEF Maker
<1> HIDE DEF path
<1>3. /\ ShellsOK' /\ path \in DOMAIN sessions /\ Recorders' \subseteq Recorders
      /\ \A rec \in Recorders : rec.session # path => rec \in Recorders'
  BY <1>1, OthersStay DEF path
<1>4. /\ SessionsOK' /\ DOMAIN sessions' = DOMAIN sessions
      /\ sessions'[path].record = NoRecord
      /\ \A p \in DOMAIN sessions : p # path => sessions'[p].record = sessions[p].record
  BY <1>1, <1>2, <1>3, RecordSet DEF AishInv
<1>5. RecOK'
  <2>1. RecOK /\ pids' \in Nat /\ pids <= pids'
    BY <1>1 DEF AishInv
  <2> QED BY ONLY <1>1, <1>3, <1>4, <2>1, GoesAway
<1>6. OtherOK' /\ LineOK' /\ CommandOK' /\ CallsOK'
  BY <1>1, <1>4, LineStays DEF AishInv, OtherOK, CommandOK, CallsOK
<1>7. OwnRecorderSignalled'
  BY <1>1, SignalStays
<1> QED BY <1>1, <1>3, <1>4, <1>5, <1>6, <1>7 DEF AishInv

LEMMA KillRecorderKept ==
    ASSUME AishInv, KillRecorder
    PROVE  AishInv'
<1>1. /\ cmd = None /\ cmd' = None /\ shells # <<>> /\ shells' = WithoutLast(shells)
      /\ UNCHANGED <<invocationVars, disk, signalled, sessions, other, lone, pids>>
      /\ Counts' /\ killed' # 0 /\ killed <= killed'
  BY DEF KillRecorder, invocationVars, nearVars, AishInv, Counts
<1>2. ShellsOK' /\ Recorders' \subseteq Recorders
  BY <1>1, OthersStay
<1>3. SessionsOK' /\ Grow
  BY <1>1, SessionsStay DEF AishInv
<1>4. RecOK'
  BY <1>1, <1>2, <1>3, RecordsStay DEF AishInv
<1>5. OtherOK' /\ LineOK' /\ CommandOK' /\ CallsOK'
  BY <1>1, LineStays DEF AishInv, OtherOK, CommandOK, CallsOK
<1>6. OwnRecorderSignalled'
  BY <1>1, SignalStays
<1> QED BY <1>1, <1>2, <1>3, <1>4, <1>5, <1>6 DEF AishInv

-----------------------------------------------------------------------------
\* The other terminal

\* What a step of the other terminal leaves as it is.
LEMMA CommandStays ==
    ASSUME AishInv, UNCHANGED <<invocationVars, shells, cmd, signalled, ids>>,
           DOMAIN sessions \subseteq DOMAIN sessions', Counts', killed <= killed'
    PROVE  LineOK' /\ ShellsOK' /\ CommandOK' /\ CallsOK' /\ OwnRecorderSignalled'
<1>1. LineOK' /\ OwnRecorderSignalled'
  BY LineStays, SignalStays DEF AishInv
<1>2. ShellsOK' /\ CallsOK'
  BY DEF AishInv, ShellsOK, Elements, CallsOK, LastSession, PathOf, invocationVars
<1>3. CommandOK'
  BY DEF AishInv, CommandOK, HereEnv, LastSession, PathOf
<1> QED BY <1>1, <1>2, <1>3

LEMMA OtherMakesKept ==
    ASSUME AishInv, OtherMakes
    PROVE  AishInv'
<1>1. /\ other.at = "none" /\ UNCHANGED <<invocationVars, shells, cmd, signalled, ids>>
      /\ UNCHANGED <<lone, pids, killed>> /\ Counts' /\ killed <= killed'
  BY DEF OtherMakes, AishInv, Counts
<1>2. PICK path \in DOMAIN sessions \cup Namable :
         /\ other' = [Away EXCEPT !.at = AfterDir(path), !.path = path]
         /\ sessions' = WithDir(path)
  BY DEF OtherMakes
<1>3. path \in Paths
  BY DEF AishInv, SessionsOK, Namable, Paths
<1>4. /\ other' = [at |-> other'.at, path |-> other'.path, pid |-> other'.pid]
      /\ other'.at = AfterDir(path) /\ other'.path = path
      /\ AfterDir(path) \in {"version", "made"}
  BY <1>2 DEF Away, AfterDir
<1>5. /\ \A p \in DOMAIN sessions : Maker(other', cmd', p) <=> Maker(other, cmd, p)
      /\ path \notin DOMAIN sessions => Maker(other', cmd', path)
  BY <1>1, <1>4 DEF Maker, AfterDir
<1>6. SessionsOK' /\ Grow /\ DOMAIN sessions' = DOMAIN sessions \cup {path}
  <2>1. SessionsOK
    BY DEF AishInv
  <2> QED BY ONLY <1>2, <1>3, <1>5, <2>1, DirMade
<1>7. OtherOK'
  BY <1>4, <1>6 DEF OtherOK
<1>8. Recorders' = Recorders
  BY <1>1, <1>4 DEF Recorders
<1>9. RecOK'
  BY <1>1, <1>6, <1>8, RecordsStay DEF AishInv
<1>10. LineOK' /\ ShellsOK' /\ CommandOK' /\ CallsOK' /\ OwnRecorderSignalled'
  BY <1>1, <1>6, CommandStays
<1> QED BY <1>1, <1>6, <1>7, <1>9, <1>10 DEF AishInv

\* The version is written, or that does not happen.
LEMMA OtherIsDone ==
    ASSUME AishInv, other.at = "version", other'.at \in {"none", "made"},
           other' = [at |-> other'.at, path |-> other'.path, pid |-> other'.pid],
           other'.at = "made" => other'.path = other.path,
           \/ sessions' = [sessions EXCEPT ![other.path].version = TRUE]
           \/ sessions' = [sessions EXCEPT ![other.path].cut = TRUE],
           UNCHANGED <<invocationVars, shells, cmd, signalled, ids, lone, pids>>,
           Counts', killed <= killed'
    PROVE  AishInv'
<1>1. other.path \in DOMAIN sessions /\ Maker(other, cmd, other.path)
  BY DEF AishInv, OtherOK, Maker
<1>2. \A p \in DOMAIN sessions : p # other.path =>
          (Maker(other', cmd', p) <=> Maker(other, cmd, p))
  BY DEF Maker
<1>3. SessionsOK' /\ Grow /\ DOMAIN sessions' = DOMAIN sessions
  BY <1>1, <1>2, MakerDone DEF AishInv
<1>4. OtherOK'
  BY <1>1, <1>3 DEF OtherOK
<1>5. Recorders' = Recorders
  BY DEF Recorders
<1>6. RecOK'
  <2>1. killed' = 0 => killed = 0
    BY DEF AishInv, Counts
  <2> QED BY <1>3, <1>5, <2>1, RecordsStay DEF AishInv
<1>7. LineOK' /\ ShellsOK' /\ CommandOK' /\ CallsOK' /\ OwnRecorderSignalled'
  BY <1>3, CommandStays
<1> QED BY <1>3, <1>4, <1>6, <1>7 DEF AishInv

LEMMA OtherVersionKept ==
    ASSUME AishInv, OtherVersion
    PROVE  AishInv'
<1>1. /\ other.at = "version" /\ other' = [other EXCEPT !.at = "made"]
      /\ sessions' = [sessions EXCEPT ![other.path].version = TRUE]
      /\ UNCHANGED <<invocationVars, shells, cmd, signalled, ids, lone, pids>>
      /\ Counts' /\ killed <= killed'
  BY DEF OtherVersion, countVars, AishInv, Counts
<1>2. other = [at |-> other.at, path |-> other.path, pid |-> other.pid]
  BY DEF AishInv, OtherOK
<1>3. other' = [at |-> "made", path |-> other.path, pid |-> other.pid]
  BY <1>1, <1>2
<1>4. /\ other' = [at |-> other'.at, path |-> other'.path, pid |-> other'.pid]
      /\ other'.at = "made" /\ other'.path = other.path
  BY <1>3
<1> QED BY <1>1, <1>4, OtherIsDone

LEMMA OtherEntersKept ==
    ASSUME AishInv, OtherEnters
    PROVE  AishInv'
<1> DEFINE path == other.path
<1>1. /\ other.at = "made" /\ path \in DOMAIN sessions /\ pids \in Nat
      /\ other' = [other EXCEPT !.at = "in", !.pid = pids + 1]
      /\ other = [at |-> other.at, path |-> other.path, pid |-> other.pid]
      /\ sessions' = [sessions EXCEPT ![path].record = AttachedTo(pids + 1)]
      /\ pids' = pids + 1 /\ lone' = (lone \ PidsIn(path)) \cup {pids + 1}
      /\ UNCHANGED <<invocationVars, shells, cmd, signalled, ids>>
      /\ Counts' /\ killed' = killed /\ killed <= killed'
  BY DEF OtherEnters, AishInv, Counts, OtherOK
<1>2. other' = [at |-> "in", path |-> path, pid |-> pids + 1]
  BY <1>1
<1> HIDE DEF path
<1>3. /\ other' = [at |-> other'.at, path |-> other'.path, pid |-> other'.pid]
      /\ other'.at = "in" /\ other'.path = path /\ other'.pid = pids + 1
  BY <1>2
<1>4. \A p \in DOMAIN sessions : Maker(other', cmd', p) <=> Maker(other, cmd, p)
  BY <1>1, <1>3 DEF Maker
<1>5. /\ SessionsOK' /\ DOMAIN sessions' = DOMAIN sessions
      /\ sessions'[path].record = AttachedTo(pids + 1)
      /\ \A p \in DOMAIN sessions : p # path => sessions'[p].record = sessions[p].record
  BY <1>1, <1>4, RecordSet DEF AishInv
<1>6. Recorders' = Recorders \cup {[session |-> path, pid |-> pids + 1]}
  BY <1>1, <1>3, RecordersAre, RecordersAreNext DEF OtherRecs
<1>7. RecOK'
  <2>1. RecOK
    BY DEF AishInv
  <2> QED BY ONLY <1>1, <1>5, <1>6, <2>1, Comes
<1>8. OtherOK'
  BY <1>1, <1>3, <1>5 DEF OtherOK
<1>9. LineOK' /\ ShellsOK' /\ CommandOK' /\ CallsOK' /\ OwnRecorderSignalled'
  BY <1>1, <1>5, CommandStays
<1> QED BY <1>1, <1>5, <1>7, <1>8, <1>9 DEF AishInv

LEMMA OtherLeavesKept ==
    ASSUME AishInv, OtherLeaves
    PROVE  AishInv'
<1> DEFINE path == other.path
<1>1. /\ other.at = "in" /\ path \in DOMAIN sessions /\ pids \in Nat /\ other' = Away
      /\ sessions' = [sessions EXCEPT ![path].record = NoRecord]
      /\ pids' = pids /\ lone' = lone \ PidsIn(path)
      /\ UNCHANGED <<invocationVars, shells, cmd, signalled, ids>>
      /\ Counts' /\ killed' = killed /\ killed <= killed'
  BY DEF OtherLeaves, countVars, AishInv, Counts, OtherOK
<1>2. Recorders = ShellRecs(shells) \cup {[session |-> path, pid |-> other.pid]}
  BY <1>1, RecordersAre DEF OtherRecs
<1> HIDE DEF path
<1>3. /\ other' = [at |-> other'.at, path |-> other'.path, pid |-> other'.pid]
      /\ other'.at = "none"
  BY <1>1 DEF Away
<1>4. \A p \in DOMAIN sessions : Maker(other', cmd', p) <=> Maker(other, cmd, p)
  BY <1>1, <1>3 DEF Maker
<1>5. /\ SessionsOK' /\ DOMAIN sessions' = DOMAIN sessions
      /\ sessions'[path].record = NoRecord
      /\ \A p \in DOMAIN sessions : p # path => sessions'[p].record = sessions[p].record
  BY <1>1, <1>4, RecordSet DEF AishInv
<1>6. Recorders' = ShellRecs(shells)
  BY <1>1, <1>3, RecordersAreNext DEF OtherRecs
<1>7. /\ Recorders' \subseteq Recorders
      /\ \A rec \in Recorders : rec.session # path => rec \in Recorders'
  BY <1>2, <1>6
<1>8. RecOK'
  <2>1. RecOK /\ pids' \in Nat /\ pids <= pids'
    BY <1>1 DEF AishInv
  <2> QED BY ONLY <1>1, <1>5, <1>7, <2>1, GoesAway
<1>9. OtherOK'
  BY <1>3 DEF OtherOK
<1>10. LineOK' /\ ShellsOK' /\ CommandOK' /\ CallsOK' /\ OwnRecorderSignalled'
  BY <1>1, <1>5, CommandStays
<1> QED BY <1>1, <1>5, <1>8, <1>9, <1>10 DEF AishInv

LEMMA KillOtherKept ==
    ASSUME AishInv, KillOther
    PROVE  AishInv'
<1>1. /\ other' = Away /\ other'.at = "none"
      /\ other' = [at |-> other'.at, path |-> other'.path, pid |-> other'.pid]
      /\ UNCHANGED <<invocationVars, shells, cmd, signalled, ids, lone, pids>>
      /\ Counts' /\ killed' # 0 /\ killed <= killed'
  BY DEF KillOther, Away, AishInv, Counts
<1>2. CASE other.at = "version"
  <2>1. sessions' = [sessions EXCEPT ![other.path].cut = TRUE]
    BY <1>2 DEF KillOther
  <2> QED BY <1>1, <1>2, <2>1, OtherIsDone
<1>3. CASE other.at # "version"
  <2>1. sessions' = sessions
    BY <1>3 DEF KillOther
  <2>2. \A p \in DOMAIN sessions : Maker(other', cmd', p) <=> Maker(other, cmd, p)
    BY <1>1, <1>3 DEF Maker
  <2>3. SessionsOK' /\ Grow
    <3>1. SessionsOK
      BY DEF AishInv
    <3>2. SessionsOK'
      BY <2>1, <2>2, <3>1 DEF SessionsOK
    <3> QED BY <2>1, <3>2 DEF Grow
  <2>4. Recorders' \subseteq Recorders
    BY <1>1, RecordersAre, RecordersAreNext DEF OtherRecs
  <2>5. RecOK'
    BY <1>1, <2>3, <2>4, RecordsStay DEF AishInv
  <2>6. OtherOK'
    BY <1>1 DEF OtherOK
  <2>7. LineOK' /\ ShellsOK' /\ CommandOK' /\ CallsOK' /\ OwnRecorderSignalled'
    BY <1>1, <2>1, CommandStays
  <2> QED BY <1>1, <2>3, <2>5, <2>6, <2>7 DEF AishInv
<1> QED BY <1>2, <1>3

-----------------------------------------------------------------------------
\* The invariant of the commands

LEMMA AishInitially == AishInit => AishInv
<1> SUFFICES ASSUME AishInit PROVE AishInv
  OBVIOUS
<1>1. LineOK
  BY DEF AishInit, LineOK, Elements
<1>2. Counts /\ CommandOK /\ CallsOK /\ OwnRecorderSignalled
  BY AishAssumption
  DEF AishInit, Counts, CommandOK, CallsOK, OwnRecorderSignalled, AishAssumption
<1>3. shells = <<>> /\ other = Away /\ cmd = None
  BY DEF AishInit
<1>4. Recorders = {}
  BY <1>3 DEF Recorders, Away
<1>5. ShellsOK /\ OtherOK
  BY <1>3 DEF ShellsOK, OtherOK, Elements, Away
<1>6. PICK there \in SUBSET Foreign : sessions \in [there -> OldSessions]
  BY DEF AishInit
<1>7. /\ DOMAIN sessions \subseteq Paths
      /\ sessions = [p \in DOMAIN sessions |-> sessions[p]]
      /\ \A p \in DOMAIN sessions : sessions[p] \in OldSessions
  BY <1>6, AishAssumption DEF AishAssumption
<1>8. ASSUME NEW s, s \in OldSessions
      PROVE  /\ DOMAIN s = {"version", "record", "cut", "bare"} /\ s.record = NoRecord
             /\ Settled(s) /\ (s.bare => ~s.version)
  BY <1>8 DEF OldSessions, NewSession, Settled
<1>9. \A p : ~Maker(other, cmd, p)
  BY <1>3 DEF Maker, Away
<1>10. SessionsOK
  BY <1>7, <1>8, <1>9 DEF SessionsOK
<1>11. RecOK
  <2>1. ~NoRecord.attached /\ NoRecord.file = None
    BY DEF NoRecord
  <2> QED BY <1>4, <1>7, <1>8, <2>1 DEF RecOK, Placed, Owned, Held
<1> QED BY <1>1, <1>2, <1>5, <1>10, <1>11 DEF AishInv

LEMMA AishStep == AishInv /\ [AishNext]_allVars => AishInv'
<1> SUFFICES ASSUME AishInv, [AishNext]_allVars PROVE AishInv'
  OBVIOUS
<1>1. CASE UNCHANGED allVars
  <2>1. /\ UNCHANGED <<invocationVars, shells, sessions, cmd, signalled, ids, killed>>
        /\ UNCHANGED <<other, lone, pids>> /\ Counts' /\ killed <= killed'
    BY <1>1 DEF allVars, aishVars, countVars, AishInv, Counts
  <2>2. LineOK' /\ CommandOK' /\ SessionsOK' /\ Grow /\ CallsOK'
    BY <2>1, LineStays
    DEF AishInv, CommandOK, SessionsOK, Grow, CallsOK, HereEnv, LastSession, PathOf, invocationVars
  <2> QED BY <2>1, <2>2, StayIn, SignalStays DEF AishInv
<1>2. CASE (Proceed \/ Person \/ TerminalGone) /\ UNCHANGED aishVars
  BY <1>2, CallGoesOn DEF InvocationNext
<1>3. CASE AnswerAtOnce \/ ReadOnly \/ DoneThere \/ AiReturns
  BY <1>3, JustEnds
<1>4. CASE Explain \/ Rebuild
  BY <1>4, CallsKept
<1>5. CASE Resolve \/ ResumeSession
  BY <1>5, ResolveKept
<1>6. CASE MakeDir
  BY <1>6, MakeDirKept
<1>7. CASE WriteVersion
  BY <1>7, WriteVersionKept
<1>8. CASE SendTo
  BY <1>8, SendToKept
<1>9. CASE Enter
  BY <1>9, EnterKept
<1>10. CASE Type
  BY <1>10, TypeWell
<1>11. CASE Leave
  BY <1>11, LeaveKept
<1>12. CASE KillCommand
  BY <1>12, KillCommandKept
<1>13. CASE KillRecorder
  BY <1>13, KillRecorderKept
<1>14. CASE Mute
  BY <1>14, MuteKept
<1>15. CASE StartFails
  BY <1>15, StartFailsKept
<1>16. CASE OtherTerminal \/ KillOther
  BY <1>16, OtherMakesKept, OtherVersionKept, OtherEntersKept, OtherLeavesKept, KillOtherKept
  DEF OtherTerminal
<1> QED
  BY <1>1, <1>2, <1>3, <1>4, <1>5, <1>6, <1>7, <1>8, <1>9, <1>10, <1>11, <1>12, <1>13, <1>14,
     <1>15, <1>16, Zenon
  DEF AishNext, Serves, CommandWorks

LEMMA AishAlways == AishSpec => []AishInv
BY AishInitially, AishStep, PTL DEF AishSpec

LEMMA LineAlways == InvocationSpec => []LineOK
<1>1. ASSUME InvocationInit PROVE LineOK
  <2>1. PICK c \in RootCalls : chain = <<Level(c.env, c.terminal, c.screen, c.args)>>
    BY <1>1 DEF InvocationInit
  <2>2. c.env.depth \in Nat \cup {None, Bad} /\ disk \in Disks
    BY <1>1, InvocationAssumption DEF InvocationAssumption, InvocationInit
  <2> QED BY <2>1, <2>2, OneLevel DEF LineOK
<1>2. LineOK /\ [InvocationNext]_invocationVars => LineOK'
  BY LineKept, LineStays DEF LineGoesOn
<1> QED BY <1>1, <1>2, PTL DEF InvocationSpec

-----------------------------------------------------------------------------
\* What holds of calls and commands

\* Whoever calls, a worker is one level below the worker that waits for it, and works for
\* the same session with the same home, limit and terminal; and the first one works for
\* the session of the shell it is typed in, unless the command line names another one.
THEOREM SessionHandedDown == AishSpec => []HandedDown
<1>1. AishInv => HandedDown
  <2> SUFFICES ASSUME AishInv PROVE HandedDown
    OBVIOUS
  <2>1. LineageHolds
    BY LineageFollows DEF AishInv
  <2>2. ASSUME cmd # None, cmd.line.s = None, cmd.line.id = None, shells # <<>>, chain # <<>>,
               chain[1].req # None
        PROVE  chain[1].req.session = PathOf(shells[Len(shells)])
    <3>1. chain[1].env.session = PathOf(shells[Len(shells)])
      BY <2>2 DEF AishInv, CallsOK, LastSession
    <3>2. LevelOK(disk, chain[1])
      BY <2>2 DEF AishInv, LineOK
    <3> QED BY <2>2, <3>1, <3>2 DEF LevelOK, AsAsked
  <2> QED BY <2>1, <2>2 DEF HandedDown
<1> QED BY <1>1, AishAlways, PTL

\* However long the line of calls, one below another that has no terminal asks nobody, and
\* runs no command that is not on the list.
THEOREM NestedDenied == InvocationSpec \/ AishSpec => []NestedIsDenied
<1>1. AishInv => LineOK
  BY DEF AishInv
<1> QED BY <1>1, DeniedFollows, AishAlways, LineAlways, PTL

\* The script that runs is the one of the task whose prompt was put together, whatever the
\* catalog holds, if the task's name has no blanks around it and no prompt of a mode or of
\* the command line took the place of the task's.
THEOREM PromptIsTheTasks == InvocationSpec \/ AishSpec => []PromptOfTheTask
<1>1. AishInv => LineOK
  BY DEF AishInv
<1> QED BY <1>1, PromptFollows, AishAlways, LineAlways, PTL

\* Whatever is typed on two terminals, a session that a shell runs in has a version, or its
\* maker is about to write it or was cut short, or the directory was found without one; and
\* a directory that was found without a version never gets one from aish.
THEOREM EnteredSessionsWork == AishSpec => []MadeSessionsWork
<1>1. AishInv => MadeSessionsWork
  <2> SUFFICES ASSUME AishInv PROVE MadeSessionsWork
    OBVIOUS
  <2>1. ASSUME NEW rec \in Recorders
        PROVE  /\ rec.session \in DOMAIN sessions
               /\ \/ sessions[rec.session].version \/ BeingMade(rec.session)
                  \/ sessions[rec.session].cut \/ sessions[rec.session].bare
    <3>1. rec.session \in DOMAIN sessions
      BY DEF AishInv, RecOK, Placed
    <3> QED BY <3>1 DEF AishInv, SessionsOK, Settled, Maker, BeingMade
  <2>2. \A p \in DOMAIN sessions : sessions[p].bare => ~sessions[p].version
    BY DEF AishInv, SessionsOK
  <2> QED BY <2>1, <2>2 DEF MadeSessionsWork
<1> QED BY <1>1, AishAlways, PTL

\* However shells are nested and whatever runs on another terminal, a signal that is sent
\* without naming a session reaches the recorder of the shell it is sent from, unless
\* another shell came to its session since it started, or went from it; and a signal goes
\* to a process that records the session, if none was killed and all shells started.
THEOREM SignalsReachTheirOwn == AishSpec => []OwnRecorderSignalled
<1>1. AishInv => OwnRecorderSignalled
  BY DEF AishInv
<1> QED BY <1>1, AishAlways, PTL

=============================================================================
