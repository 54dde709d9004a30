---------------------- MODULE ConsoleRecorder_proofs ----------------------
(***************************************************************************)
(* Proofs about ConsoleRecorder: its variables keep their kinds            *)
(* (TypeCorrect), the output of the shell is recorded whole and what waits *)
(* for Alt+S is typed no more than once for each life of aish (OutputWhole)*)
(* and the files that speak of the recorder agree when nothing is under way*)
(* (FilesAgree); and about ShellTerminal: every key arrives                *)
(* (EveryKeyArrives).                                                      *)
(*                                                                         *)
(* The output is a chain of places, from the first part to the PTY, each   *)
(* of which rises and lies below the next: a step moves what is at the     *)
(* edge of one place to the next, or loses some.  That nothing is lost     *)
(* while nobody mutes, truncates or clears needs what such commands leave  *)
(* behind (NothingLosing).  What is typed is counted by the number of the  *)
(* suggestion (Typing).  The agreement says for each step of the recorder  *)
(* and of the one command under way what the files hold (RecorderSays,     *)
(* CommandSays).                                                           *)
(***************************************************************************)
EXTENDS ConsoleRecorder, ShellTerminal, SequenceFacts, FiniteSetTheorems,
        WellFoundedInduction, TLAPS

-----------------------------------------------------------------------------
\* What the state looks like

Places ==
    {"off", "signals", "events", "write", "roll", "truncate", "poll", "load",
     "clear pending", "clear hint", "read", "done", "dead"} \cup Starts \cup Ends
Steps ==
    {"none", "begin", "read pid", "save", "load", "signal", "clear pending",
     "clear hint", "hint"}
Todos == {<<>>, <<"usr1">>, <<"usr2">>, <<"usr1", "usr2">>}
Pids == 0..bound.starts
Records == [status : {"none", "attached", "detached"}, pid : Pids, muted : BOOLEAN]
CommandStates == [at : Steps, kind : Kinds \cup {"none"}, pid : Nat, att : Records]

\* The commands and the records.
CommandShape ==
    /\ bound \in Bounds
    /\ pid \in Pids /\ pidfile \in Pids /\ att \in Records
    /\ muted \in BOOLEAN /\ seen \in BOOLEAN
    /\ cmd \in [Commanders -> CommandStates]
    /\ \A c \in Commanders : cmd[c].at = "read pid" => cmd[c].kind = "mute"

\* The recorder and its output.
OutputShape ==
    /\ rec \in Places /\ todo \in Todos
    /\ rec = "events" => todo # <<>>
    /\ {out, buffer, tty, console} \subseteq Seq(Nat)
    /\ parts \in Seq(Seq(Nat)) /\ \A i \in 1..Len(parts) : parts[i] # <<>>
    /\ {keys, commands, faults, since, pending, hint} \subseteq Nat
    /\ injected \in Seq(Nat)
    /\ emitted \in 0..bound.chunks
    /\ shell \in BOOLEAN
    /\ pid = 0 => rec = "off" /\ ~shell /\ emitted = 0

FlagShape == {usr1, usr2, key, stray, overlap} \subseteq BOOLEAN
Shape == CommandShape /\ OutputShape /\ FlagShape

-----------------------------------------------------------------------------
\* The output

Rising(s) == \A i, k \in 1..Len(s) : i < k => s[i] < s[k]
Elems(s) == {s[i] : i \in 1..Len(s)}
Below(a, b) == \A x \in Elems(a), y \in Elems(b) : x < y

\* What was printed first comes first: the parts, console.txt, what is in hand, the
\* buffer, and the PTY.
Chain(a, b, c, d, e) ==
    /\ Rising(a) /\ Rising(b) /\ Rising(c) /\ Rising(d) /\ Rising(e)
    /\ Below(a, b) /\ Below(a, c) /\ Below(a, d) /\ Below(a, e)
    /\ Below(b, c) /\ Below(b, d) /\ Below(b, e)
    /\ Below(c, d) /\ Below(c, e)
    /\ Below(d, e)
All(a, b, c, d, e) == Elems(a) \cup Elems(b) \cup Elems(c) \cup Elems(d) \cup Elems(e)

InOrder ==
    /\ Chain(FlattenSeq(parts), console, InHand, buffer, tty)
    /\ All(FlattenSeq(parts), console, InHand, buffer, tty) \subseteq 1..emitted

\* Nobody has run a command that may lose output, and nothing of one is under way.
NothingLosing ==
    since = NotYet =>
        /\ ~muted /\ ~usr2 /\ todo \in {<<>>, <<"usr1">>} /\ rec # "truncate"
        /\ \A c \in Commanders : cmd[c].kind \notin Losing

Kept ==
    since = NotYet /\ pid = 1 /\ faults = 0 =>
        1..emitted \subseteq All(FlattenSeq(parts), console, InHand, buffer, tty)

-----------------------------------------------------------------------------
\* What is typed

Times(n) == Cardinality(Typings(n))

\* The suggestion with number n was not written to pending_input.json yet.
ToCome(n) ==
    \/ n > commands
    \/ \E c \in Commanders : cmd[c].at = "begin" /\ cmd[c].pid = n

Typing ==
    /\ \A c \in Commanders : cmd[c].at = "begin" => cmd[c].pid \in 1..commands
    /\ \A c, d \in Commanders :
         cmd[c].at = "begin" /\ cmd[d].at = "begin" /\ cmd[c].pid = cmd[d].pid => c = d
    /\ pending # 0 => ~ToCome(pending)
    /\ Times(0) = 0
    /\ \A n \in Nat \ {0} :
         /\ Times(n) \in 0..(1 + faults)
         /\ ToCome(n) => Times(n) = 0
         /\ pending = n /\ rec # "clear pending" => Times(n) <= faults

-----------------------------------------------------------------------------
\* The files that speak of the recorder

Loop == {"signals", "events", "write", "roll", "truncate", "poll", "load",
         "clear pending", "clear hint", "read"}
Injects == {"load", "clear pending", "clear hint"}
Resting == {c \in Commanders : cmd[c] = NoCommand}
At(steps) == \E c \in Commanders : cmd[c].at \in steps

\* One thing is under way at a time.
Alone ==
    /\ \A c, d \in Commanders : cmd[c] # NoCommand /\ cmd[d] # NoCommand => c = d
    /\ rec \in Starts \cup Ends \cup Injects => \A c \in Commanders : cmd[c] = NoCommand

\* What the files say at each step of the recorder ...
RecorderSays ==
    /\ rec # "dead"
    /\ pidfile = IF rec \in {"off", "publish", "detach", "detached", "done"} THEN 0 ELSE pid
    /\ pid = 0 <=> rec = "off"
    /\ rec = "attached" => seen = muted
    /\ rec = "detached" => seen = muted
    /\ rec = "off" => att = NoRecord
    /\ ~At({"read pid", "load", "save"}) =>
         /\ rec \in Loop \cup {"exit", "remove pid", "detach", "detached"} =>
              att = Record("attached", pid, muted)
         /\ rec = "done" => att = Record("detached", 0, muted)
    /\ ~At({"clear hint", "hint"}) /\ rec # "clear hint" => pending = hint
    /\ At({"clear hint"}) \/ rec = "clear hint" => pending = 0

\* ... and of a command, which finds the recorder in its loop or not running.
CommandSays ==
    \A c \in Commanders :
        /\ cmd[c] # NoCommand => rec \in (Loop \ Injects) \cup {"off", "done"}
        /\ cmd[c].at = "none" => cmd[c] = NoCommand
        /\ cmd[c].at = "read pid" => muted /\ rec \in Loop
        /\ cmd[c].at = "load" => /\ ~muted
                                 /\ rec \in Loop => att.status = "attached" /\ att.pid = pid
                                 /\ rec = "done" => att.status = "detached" /\ att.pid = 0
        /\ cmd[c].at = "save" =>
             /\ rec # "off"
             /\ rec \in Loop => cmd[c].att = Record("attached", pid, muted)
             /\ rec = "done" => cmd[c].att = Record("detached", 0, muted)
        /\ cmd[c].at = "signal" => rec \in Loop /\ cmd[c].pid = pid
        /\ cmd[c].at = "hint" => pending = cmd[c].pid

Agreement ==
    ~overlap /\ faults = 0 => Alone /\ RecorderSays /\ CommandSays /\ ~stray
-----------------------------------------------------------------------------
\* Sequences that rise

\* The empty sequence.
LEMMA NothingRises == Rising(<<>>) /\ Elems(<<>>) = {}
<1>1. Len(<<>>) = 0 /\ 1..0 = {}
  OBVIOUS
<1> QED BY <1>1 DEF Rising, Elems

\* What two sequences hold, one after the other.
LEMMA ElemsConcat ==
    ASSUME NEW a \in Seq(Nat), NEW b \in Seq(Nat)
    PROVE  Elems(a \o b) = Elems(a) \cup Elems(b)
<1>1. /\ Len(a) \in Nat /\ Len(b) \in Nat /\ Len(a \o b) = Len(a) + Len(b)
      /\ \A i \in 1..Len(a) : (a \o b)[i] = a[i]
      /\ \A i \in 1..Len(b) : (a \o b)[Len(a) + i] = b[i]
  OBVIOUS
<1> DEFINE c == a \o b
           m == Len(a)
           n == Len(b)
<1>2. /\ m \in Nat /\ n \in Nat /\ Len(c) = m + n
      /\ \A i \in 1..m : c[i] = a[i]
      /\ \A i \in 1..n : c[m + i] = b[i]
  BY <1>1
<1> HIDE DEF c, m, n
<1>3. ASSUME NEW i \in 1..(m + n)
      PROVE  (\E j \in 1..m : c[i] = a[j]) \/ (\E j \in 1..n : c[i] = b[j])
  <2>1. CASE i \in 1..m
    BY <1>2, <2>1
  <2>2. CASE i \notin 1..m
    <3>1. i - m \in 1..n /\ m + (i - m) = i
      BY <1>2, <2>2
    <3> QED BY <1>2, <3>1
  <2> QED BY <2>1, <2>2
<1>4. \A i \in 1..m : \E j \in 1..(m + n) : c[j] = a[i]
  <2>1. \A i \in 1..m : i \in 1..(m + n)
    BY <1>2
  <2> QED BY <1>2, <2>1
<1>5. \A i \in 1..n : \E j \in 1..(m + n) : c[j] = b[i]
  <2>1. \A i \in 1..n : m + i \in 1..(m + n)
    BY <1>2
  <2> QED BY <1>2, <2>1
<1>6. Elems(c) = {c[i] : i \in 1..(m + n)}
  BY <1>2 DEF Elems
<1>7. Elems(a) = {a[i] : i \in 1..m} /\ Elems(b) = {b[i] : i \in 1..n}
  BY DEF Elems, m, n
<1>8. Elems(c) = Elems(a) \cup Elems(b)
  BY <1>3, <1>4, <1>5, <1>6, <1>7
<1> QED BY <1>8 DEF c

\* Two rising sequences of which one lies below the other rise together.
LEMMA RisingConcat ==
    ASSUME NEW a \in Seq(Nat), NEW b \in Seq(Nat), Rising(a), Rising(b), Below(a, b)
    PROVE  Rising(a \o b)
<1>1. /\ Len(a) \in Nat /\ Len(b) \in Nat /\ Len(a \o b) = Len(a) + Len(b)
      /\ \A i \in 1..Len(a) : (a \o b)[i] = a[i]
      /\ \A i \in 1..Len(b) : (a \o b)[Len(a) + i] = b[i]
  OBVIOUS
<1> DEFINE c == a \o b
           m == Len(a)
           n == Len(b)
<1>2. /\ m \in Nat /\ n \in Nat /\ Len(c) = m + n
      /\ \A i \in 1..m : c[i] = a[i]
      /\ \A i \in 1..n : c[m + i] = b[i]
  BY <1>1
<1>3. \A i \in 1..m : \A k \in 1..n : a[i] < b[k]
  BY DEF Below, Elems
<1>4. /\ \A i, k \in 1..m : i < k => a[i] < a[k]
      /\ \A i, k \in 1..n : i < k => b[i] < b[k]
  BY DEF Rising
<1> HIDE DEF c, m, n
<1>5. ASSUME NEW i \in 1..(m + n), NEW k \in 1..(m + n), i < k
      PROVE  c[i] < c[k]
  <2>1. CASE k \in 1..m
    <3>1. i \in 1..m
      BY <1>2, <1>5, <2>1
    <3> QED BY <1>2, <1>4, <1>5, <2>1, <3>1
  <2>2. CASE i \in 1..m /\ k \notin 1..m
    <3>1. k - m \in 1..n /\ m + (k - m) = k
      BY <1>2, <2>2
    <3>2. c[k] = b[k - m] /\ c[i] = a[i]
      BY <1>2, <2>2, <3>1
    <3> QED BY <1>3, <2>2, <3>1, <3>2
  <2>3. CASE i \notin 1..m
    <3>1. i - m \in 1..n /\ m + (i - m) = i /\ k - m \in 1..n /\ m + (k - m) = k
          /\ i - m < k - m
      BY <1>2, <1>5, <2>3
    <3>2. c[i] = b[i - m] /\ c[k] = b[k - m]
      BY <1>2, <3>1
    <3> QED BY <1>4, <3>1, <3>2
  <2> QED BY <2>1, <2>2, <2>3
<1>6. Rising(c)
  BY <1>2, <1>5 DEF Rising
<1> QED BY <1>6 DEF c

\* A piece that is read and the rest.
LEMMA RisingSplit ==
    ASSUME NEW e \in Seq(Nat), Rising(e), NEW n \in 1..Len(e)
    PROVE  LET p == SubSeq(e, 1, n)
               r == SubSeq(e, n + 1, Len(e))
           IN  /\ p \in Seq(Nat) /\ r \in Seq(Nat)
               /\ Rising(p) /\ Rising(r) /\ Below(p, r)
               /\ Elems(e) = Elems(p) \cup Elems(r)
<1> DEFINE p == SubSeq(e, 1, n)
           r == SubSeq(e, n + 1, Len(e))
           m == Len(e)
<1>1. m \in Nat /\ n \in 1..m /\ n \in Nat
  OBVIOUS
<1>2. p \in Seq(Nat) /\ Len(p) = n /\ \A i \in 1..n : p[i] = e[i]
  OBVIOUS
<1>3. /\ r \in Seq(Nat) /\ Len(r) = m - n
      /\ \A i \in 1..(m - n) : r[i] = e[n + i]
  OBVIOUS
<1>4. \A i, k \in 1..m : i < k => e[i] < e[k]
  BY DEF Rising
<1>5. Elems(e) = {e[i] : i \in 1..m}
  BY DEF Elems
<1> HIDE DEF p, r, m
<1>6. /\ \A i \in 1..n : i \in 1..m
      /\ \A i \in 1..(m - n) : n + i \in 1..m /\ n + i > n
      /\ \A i \in 1..m : i \in 1..n \/ (i - n \in 1..(m - n) /\ n + (i - n) = i)
  BY <1>1
<1>7. Rising(p)
  BY <1>1, <1>2, <1>4, <1>6 DEF Rising
<1>8. Rising(r)
  <2>1. \A i, k \in 1..(m - n) : i < k => n + i < n + k
    BY <1>1
  <2>2. \A i, k \in 1..(m - n) : i < k => e[n + i] < e[n + k]
    BY <1>4, <1>6, <2>1
  <2> QED BY <1>3, <2>2 DEF Rising
<1>9. Elems(p) = {e[i] : i \in 1..n} /\ Elems(r) = {e[n + i] : i \in 1..(m - n)}
  <2>1. Elems(p) = {p[i] : i \in 1..n} /\ Elems(r) = {r[i] : i \in 1..(m - n)}
    BY <1>2, <1>3, Zenon DEF Elems
  <2>2. {p[i] : i \in 1..n} = {e[i] : i \in 1..n}
    BY <1>2
  <2>3. {r[i] : i \in 1..(m - n)} = {e[n + i] : i \in 1..(m - n)}
    BY <1>3
  <2> QED BY <2>1, <2>2, <2>3
<1>10. Below(p, r)
  <2>1. \A i \in 1..n, k \in 1..(m - n) : i < n + k
    BY <1>1
  <2>2. \A i \in 1..n, k \in 1..(m - n) : e[i] < e[n + k]
    BY <1>4, <1>6, <2>1
  <2> QED BY <1>9, <2>2 DEF Below
<1>11. Elems(e) = Elems(p) \cup Elems(r)
  <2>1. \A i \in 1..m : (\E j \in 1..n : e[i] = e[j]) \/ (\E j \in 1..(m - n) : e[i] = e[n + j])
    BY <1>6
  <2> QED BY <1>5, <1>6, <1>9, <2>1
<1> QED BY <1>2, <1>3, <1>7, <1>8, <1>10, <1>11 DEF p, r, m

\* The next chunk.
LEMMA RisingAppend ==
    ASSUME NEW e \in Seq(Nat), Rising(e), NEW m \in Nat, Elems(e) \subseteq 1..m
    PROVE  /\ Append(e, m + 1) \in Seq(Nat)
           /\ Rising(Append(e, m + 1))
           /\ Elems(Append(e, m + 1)) = Elems(e) \cup {m + 1}
<1> DEFINE one == <<m + 1>>
<1>1. one \in Seq(Nat) /\ Len(one) = 1 /\ one[1] = m + 1
  OBVIOUS
<1>2. Append(e, m + 1) = e \o one
  OBVIOUS
<1> HIDE DEF one
<1>3. Rising(one) /\ Elems(one) = {m + 1}
  <2>1. 1..1 = {1}
    OBVIOUS
  <2>2. Rising(one)
    BY <1>1, <2>1 DEF Rising
  <2>3. Elems(one) = {m + 1}
    BY <1>1, <2>1 DEF Elems
  <2> QED BY <2>2, <2>3
<1>4. Below(e, one)
  <2>1. \A x \in 1..m : x < m + 1
    OBVIOUS
  <2> QED BY <1>3, <2>1 DEF Below
<1>5. Rising(e \o one) /\ Elems(e \o one) = Elems(e) \cup {m + 1}
  BY <1>1, <1>3, <1>4, ElemsConcat, RisingConcat
<1>6. Append(e, m + 1) \in Seq(Nat)
  OBVIOUS
<1> QED BY <1>2, <1>5, <1>6

-----------------------------------------------------------------------------
\* The record from the first part to the PTY

\* What is printed is the last.
LEMMA ChainEmit ==
    ASSUME NEW a, NEW b, NEW c, NEW d, NEW e \in Seq(Nat), NEW m \in Nat,
           Chain(a, b, c, d, e), All(a, b, c, d, e) \subseteq 1..m
    PROVE  /\ Chain(a, b, c, d, Append(e, m + 1))
           /\ All(a, b, c, d, Append(e, m + 1)) = All(a, b, c, d, e) \cup {m + 1}
<1> DEFINE f == Append(e, m + 1)
<1>1. Rising(f) /\ Elems(f) = Elems(e) \cup {m + 1}
  BY RisingAppend DEF Chain, All
<1> HIDE DEF f
<1>2. \A x \in 1..m : x < m + 1
  OBVIOUS
<1>3. Below(a, f) /\ Below(b, f) /\ Below(c, f) /\ Below(d, f)
  BY <1>1, <1>2 DEF Below, Chain, All
<1>4. Chain(a, b, c, d, f) /\ All(a, b, c, d, f) = All(a, b, c, d, e) \cup {m + 1}
  BY <1>1, <1>3 DEF Chain, All
<1> QED BY <1>4 DEF f

\* A piece is read from the PTY into the buffer.
LEMMA ChainRead ==
    ASSUME NEW a, NEW b, NEW c, NEW d \in Seq(Nat), NEW e \in Seq(Nat), NEW n \in 1..Len(e),
           Chain(a, b, c, d, e)
    PROVE  LET p == SubSeq(e, 1, n)
               r == SubSeq(e, n + 1, Len(e))
           IN  /\ Chain(a, b, c, d \o p, r)
               /\ All(a, b, c, d \o p, r) = All(a, b, c, d, e)
<1> DEFINE p == SubSeq(e, 1, n)
           r == SubSeq(e, n + 1, Len(e))
           f == d \o p
<1>1. /\ p \in Seq(Nat) /\ r \in Seq(Nat) /\ Rising(p) /\ Rising(r) /\ Below(p, r)
      /\ Elems(e) = Elems(p) \cup Elems(r)
  BY RisingSplit DEF Chain
<1> HIDE DEF p, r
<1>2. Below(d, p)
  BY <1>1 DEF Below, Chain
<1>3. Rising(f) /\ Elems(f) = Elems(d) \cup Elems(p)
  BY <1>1, <1>2, RisingConcat, ElemsConcat DEF Chain
<1> HIDE DEF f
<1>4. /\ Below(a, f) /\ Below(b, f) /\ Below(c, f) /\ Below(f, r)
      /\ Below(a, r) /\ Below(b, r) /\ Below(c, r)
  BY <1>1, <1>3 DEF Below, Chain
<1>5. Chain(a, b, c, f, r) /\ All(a, b, c, f, r) = All(a, b, c, d, e)
  BY <1>1, <1>3, <1>4 DEF Chain, All
<1> QED BY <1>5 DEF f, p, r

\* What is in the buffer is taken in hand.
LEMMA ChainTake ==
    ASSUME NEW a, NEW b, NEW d, NEW e, Chain(a, b, <<>>, d, e)
    PROVE  /\ Chain(a, b, d, <<>>, e)
           /\ All(a, b, d, <<>>, e) = All(a, b, <<>>, d, e)
  BY NothingRises DEF Chain, All, Below

\* What is in hand goes to console.txt.
LEMMA ChainWrite ==
    ASSUME NEW a, NEW b \in Seq(Nat), NEW c \in Seq(Nat), NEW d, NEW e, Chain(a, b, c, d, e)
    PROVE  /\ Chain(a, b \o c, <<>>, d, e)
           /\ All(a, b \o c, <<>>, d, e) = All(a, b, c, d, e)
<1> DEFINE f == b \o c
<1>1. Rising(f) /\ Elems(f) = Elems(b) \cup Elems(c)
  BY RisingConcat, ElemsConcat DEF Chain
<1> HIDE DEF f
<1>2. Below(a, f) /\ Below(f, d) /\ Below(f, e)
  BY <1>1 DEF Below, Chain
<1>3. Below(a, <<>>) /\ Below(f, <<>>) /\ Below(<<>>, d) /\ Below(<<>>, e)
  BY NothingRises DEF Below
<1>4. Chain(a, f, <<>>, d, e)
  BY <1>1, <1>2, <1>3, NothingRises DEF Chain
<1>5. All(a, f, <<>>, d, e) = All(a, b, c, d, e)
  BY <1>1, NothingRises DEF All
<1> QED BY <1>4, <1>5 DEF f

\* console.txt becomes a part.
LEMMA ChainRoll ==
    ASSUME NEW a \in Seq(Nat), NEW b \in Seq(Nat), NEW c, NEW d, NEW e, Chain(a, b, c, d, e)
    PROVE  /\ Chain(a \o b, <<>>, c, d, e)
           /\ All(a \o b, <<>>, c, d, e) = All(a, b, c, d, e)
<1> DEFINE f == a \o b
<1>1. Rising(f) /\ Elems(f) = Elems(a) \cup Elems(b)
  BY RisingConcat, ElemsConcat DEF Chain
<1> HIDE DEF f
<1>2. Below(f, c) /\ Below(f, d) /\ Below(f, e)
  BY <1>1 DEF Below, Chain
<1>3. Below(f, <<>>) /\ Below(<<>>, c) /\ Below(<<>>, d) /\ Below(<<>>, e)
  BY NothingRises DEF Below
<1>4. Chain(f, <<>>, c, d, e)
  BY <1>1, <1>2, <1>3, NothingRises DEF Chain
<1>5. All(f, <<>>, c, d, e) = All(a, b, c, d, e)
  BY <1>1, NothingRises DEF All
<1> QED BY <1>4, <1>5 DEF f

\* What is lost leaves the rest as it was.
LEMMA ChainLess ==
    ASSUME NEW a, NEW b, NEW c, NEW d, NEW e, Chain(a, b, c, d, e),
           NEW a2 \in {a, <<>>}, NEW b2 \in {b, <<>>}, NEW c2 \in {c, <<>>},
           NEW d2 \in {d, <<>>}, NEW e2 \in {e, <<>>}
    PROVE  /\ Chain(a2, b2, c2, d2, e2)
           /\ All(a2, b2, c2, d2, e2) \subseteq All(a, b, c, d, e)
<1>1. /\ Rising(a2) /\ Elems(a2) \subseteq Elems(a)
      /\ Rising(b2) /\ Elems(b2) \subseteq Elems(b)
      /\ Rising(c2) /\ Elems(c2) \subseteq Elems(c)
      /\ Rising(d2) /\ Elems(d2) \subseteq Elems(d)
      /\ Rising(e2) /\ Elems(e2) \subseteq Elems(e)
  BY NothingRises DEF Chain
<1>2. \A x, y, x2, y2 : Below(x, y) /\ Elems(x2) \subseteq Elems(x) /\ Elems(y2) \subseteq Elems(y)
                          => Below(x2, y2)
  BY Zenon DEF Below
<1>3. /\ Below(a2, b2) /\ Below(a2, c2) /\ Below(a2, d2) /\ Below(a2, e2)
      /\ Below(b2, c2) /\ Below(b2, d2) /\ Below(b2, e2)
      /\ Below(c2, d2) /\ Below(c2, e2) /\ Below(d2, e2)
  BY <1>1, <1>2 DEF Chain
<1> QED BY <1>1, <1>3 DEF Chain, All

\* The whole record in one sequence.
LEMMA ChainIsRising ==
    ASSUME NEW a \in Seq(Nat), NEW b \in Seq(Nat), NEW c \in Seq(Nat), NEW d \in Seq(Nat),
           NEW e \in Seq(Nat), Chain(a, b, c, d, e)
    PROVE  /\ Rising((((a \o b) \o c) \o d) \o e)
           /\ Elems((((a \o b) \o c) \o d) \o e) = All(a, b, c, d, e)
           /\ (((a \o b) \o c) \o d) \o e \in Seq(Nat)
<1>0. \A x, y : x \in Seq(Nat) /\ y \in Seq(Nat) => x \o y \in Seq(Nat)
  OBVIOUS
<1>1. PICK f : f = a \o b
  OBVIOUS
<1>2. f \in Seq(Nat) /\ Rising(f) /\ Elems(f) = Elems(a) \cup Elems(b)
  BY <1>0, <1>1, RisingConcat, ElemsConcat DEF Chain
<1>3. Below(f, c) /\ Below(f, d) /\ Below(f, e)
  BY <1>2 DEF Below, Chain
<1>4. PICK g : g = f \o c
  OBVIOUS
<1>5. g \in Seq(Nat) /\ Rising(g) /\ Elems(g) = Elems(f) \cup Elems(c)
  BY <1>0, <1>2, <1>3, <1>4, RisingConcat, ElemsConcat DEF Chain
<1>6. Below(g, d) /\ Below(g, e)
  BY <1>3, <1>5 DEF Below, Chain
<1>7. PICK h : h = g \o d
  OBVIOUS
<1>8. h \in Seq(Nat) /\ Rising(h) /\ Elems(h) = Elems(g) \cup Elems(d)
  BY <1>0, <1>5, <1>6, <1>7, RisingConcat, ElemsConcat DEF Chain
<1>9. Below(h, e)
  BY <1>6, <1>8 DEF Below, Chain
<1>10. h \o e \in Seq(Nat) /\ Rising(h \o e) /\ Elems(h \o e) = Elems(h) \cup Elems(e)
  BY <1>0, <1>8, <1>9, RisingConcat, ElemsConcat DEF Chain
<1> QED BY <1>1, <1>2, <1>4, <1>5, <1>7, <1>8, <1>10 DEF All

-----------------------------------------------------------------------------
\* Every step keeps the shape of the state

USE DEF recVars, flagVars, ttyVars, keyVars, logVars, recordVars, suggestVars, cmdVars,
        historyVars, loopVars, endVars, worldVars, commandVars

\* Nothing runs yet.
LEMMA ShapeInitially == Init => Shape
<1> SUFFICES ASSUME Init PROVE Shape
  OBVIOUS
<1>1. bound \in Bounds
  BY RecorderAssumption DEF RecorderAssumption, Init
<1>2. bound.starts \in Nat /\ bound.chunks \in Nat /\ 0 \in Pids
  BY <1>1 DEF Bounds, Pids
<1>3. NoRecord \in Records /\ NoCommand \in CommandStates
  BY <1>2, Zenon DEF NoRecord, NoCommand, Records, CommandStates, Steps
<1>4. CommandShape
  BY <1>1, <1>2, <1>3 DEF Init, CommandShape, NoCommand
<1>5. OutputShape
  <2>1. <<>> \in Seq(Nat) /\ <<>> \in Seq(Seq(Nat)) /\ Len(<<>>) = 0
    OBVIOUS
  <2>2. /\ rec = "off" /\ todo = <<>> /\ out = <<>> /\ buffer = <<>> /\ tty = <<>>
        /\ console = <<>> /\ parts = <<>> /\ injected = <<>> /\ shell = FALSE
        /\ keys = 0 /\ commands = 0 /\ faults = 0 /\ pending = 0 /\ hint = 0
        /\ emitted = 0 /\ since = bound.chunks + 1
    BY DEF Init, NotYet
  <2>3. since \in Nat /\ emitted \in 0..bound.chunks
    BY <1>2, <2>2
  <2>4. {out, buffer, tty, console} \subseteq Seq(Nat) /\ parts \in Seq(Seq(Nat))
        /\ injected \in Seq(Nat) /\ \A i \in 1..Len(parts) : parts[i] # <<>>
    BY <2>1, <2>2
  <2>5. {keys, commands, faults, since, pending, hint} \subseteq Nat
    BY <2>2, <2>3
  <2>6. rec \in Places /\ todo \in Todos /\ (rec = "events" => todo # <<>>)
    BY <2>2 DEF Places, Todos
  <2> QED BY <2>2, <2>3, <2>4, <2>5, <2>6 DEF OutputShape
<1>6. FlagShape
  BY Zenon DEF Init, FlagShape
<1> QED BY <1>4, <1>5, <1>6 DEF Shape

\* The sets that the shape speaks of do not change.
LEMMA SameSets ==
    ASSUME bound' = bound
    PROVE  Pids' = Pids /\ Records' = Records /\ CommandStates' = CommandStates
<1>1. Pids' = Pids
  BY DEF Pids
<1>2. Records' = Records
  BY <1>1 DEF Records
<1> QED BY <1>1, <1>2 DEF CommandStates

\* Process ids are numbers.
LEMMA PidsAre ==
    ASSUME CommandShape
    PROVE  bound.starts \in Nat /\ 0 \in Pids /\ Pids \subseteq Nat
<1>1. bound.starts \in Nat
  BY DEF CommandShape, Bounds
<1> QED BY <1>1 DEF Pids

\* A command goes on.
LEMMA GoesTo ==
    ASSUME cmd \in [Commanders -> CommandStates], NEW c \in Commanders, NEW a,
           cmd' = [cmd EXCEPT ![c].at = a]
    PROVE  cmd'[c].at = a /\ cmd'[c].kind = cmd[c].kind
<1>1. PICK x : x = cmd[c] /\ x \in CommandStates
  OBVIOUS
<1>2. cmd'[c] = [x EXCEPT !.at = a]
  BY <1>1
<1> QED BY <1>1, <1>2 DEF CommandStates

\* A command has made the record that it saves.
LEMMA GoesToSave ==
    ASSUME cmd \in [Commanders -> CommandStates], NEW c \in Commanders, NEW a, NEW r,
           cmd' = [cmd EXCEPT ![c].at = a, ![c].att = r]
    PROVE  cmd'[c].at = a /\ cmd'[c].att = r /\ cmd'[c].kind = cmd[c].kind
<1>1. PICK x : x = cmd[c] /\ x \in CommandStates
  OBVIOUS
<1>2. cmd'[c] = [x EXCEPT !.at = a, !.att = r]
  BY <1>1
<1> QED BY <1>1, <1>2 DEF CommandStates

\* A command has found whom it signals.
LEMMA GoesToSignal ==
    ASSUME cmd \in [Commanders -> CommandStates], NEW c \in Commanders, NEW a, NEW p,
           cmd' = [cmd EXCEPT ![c].at = a, ![c].pid = p]
    PROVE  cmd'[c].at = a /\ cmd'[c].pid = p /\ cmd'[c].kind = cmd[c].kind
<1>1. PICK x : x = cmd[c] /\ x \in CommandStates
  OBVIOUS
<1>2. cmd'[c] = [x EXCEPT !.at = a, !.pid = p]
  BY <1>1
<1> QED BY <1>1, <1>2 DEF CommandStates

\* The steps of the recorder and of the world do not touch the commands.
LEMMA OthersKeepCommands ==
    ASSUME CommandShape, Recorder \/ World, bound' = bound
    PROVE  CommandShape' /\ cmd' = cmd
<1>1. /\ bound \in Bounds /\ pid \in Pids /\ pidfile \in Pids /\ att \in Records
      /\ cmd \in [Commanders -> CommandStates] /\ 0 \in Pids
      /\ \A c \in Commanders : cmd[c].at = "read pid" => cmd[c].kind = "mute"
      /\ Pids' = Pids /\ Records' = Records /\ CommandStates' = CommandStates
  BY SameSets, PidsAre DEF CommandShape
<1>2. muted \in BOOLEAN /\ seen \in BOOLEAN /\ att.muted \in BOOLEAN
  BY DEF CommandShape, Records
<1>3. \A p \in Pids, m \in BOOLEAN : Record("attached", p, m) \in Records
                                     /\ Record("detached", p, m) \in Records
  BY DEF Record, Records
<1>4. /\ cmd' = cmd
      /\ muted' = muted /\ seen' \in {seen, muted, att.muted, FALSE}
      /\ pidfile' \in {pidfile, pid, 0}
      /\ att' \in {att, Record("attached", pid, seen), Record("detached", 0, seen)}
      /\ pid' = pid \/ (pid < bound.starts /\ pid' = pid + 1)
  <2>1. CASE Publish \/ Attach \/ Attached \/ CheckSignals \/ HandleEvent
    BY <2>1 DEF Publish, Attach, Attached, CheckSignals, HandleEvent
  <2>2. CASE WriteConsole \/ Rollover \/ Truncate \/ Poll \/ Inject
    BY <2>2 DEF WriteConsole, Rollover, Truncate, Poll, Inject
  <2>3. CASE ClearSuggestion \/ Read \/ WriteRest \/ RemovePid \/ Detach
    BY <2>3 DEF ClearSuggestion, Read, WriteRest, RemovePid, Detach
  <2>4. CASE Emit \/ Prompt \/ ShellExits \/ PressAltS \/ LogFails \/ Killed \/ StartAish
    BY <2>4 DEF Emit, Prompt, ShellExits, PressAltS, LogFails, Killed, StartAish
  <2> QED BY <2>1, <2>2, <2>3, <2>4 DEF Recorder, World
<1>5. pid' \in Pids
  <2>1. bound.starts \in Nat /\ pid \in 0..bound.starts
    BY <1>1, PidsAre DEF Pids
  <2>2. pid < bound.starts => pid + 1 \in 0..bound.starts
    BY <2>1
  <2> QED BY <1>4, <2>1, <2>2 DEF Pids
<1>6. seen' \in BOOLEAN /\ muted' \in BOOLEAN
  BY <1>2, <1>4, Zenon
<1>7. att' \in Records /\ pidfile' \in Pids
  BY <1>1, <1>2, <1>3, <1>4
<1> QED BY <1>1, <1>4, <1>5, <1>6, <1>7 DEF CommandShape

\* What the step of a command may change besides itself.
LEMMA CommandMoves ==
    ASSUME CommandShape, NEW c \in Commanders, Command(c), bound' = bound
    PROVE  /\ CommandShape'
           /\ \A d \in Commanders : d # c => cmd'[d] = cmd[d]
<1>1. /\ bound \in Bounds /\ pid \in Pids /\ pidfile \in Pids /\ att \in Records
      /\ cmd \in [Commanders -> CommandStates] /\ 0 \in Pids /\ Pids \subseteq Nat
      /\ \A d \in Commanders : cmd[d].at = "read pid" => cmd[d].kind = "mute"
      /\ Pids' = Pids /\ Records' = Records /\ CommandStates' = CommandStates
      /\ muted \in BOOLEAN /\ seen \in BOOLEAN
  BY SameSets, PidsAre DEF CommandShape
<1>2. NoCommand \in CommandStates /\ NoCommand.at = "none"
  BY <1>1 DEF NoCommand, NoRecord, CommandStates, Records, Steps
<1>3. /\ Record("attached", pidfile, TRUE) \in Records
      /\ [att EXCEPT !.muted = FALSE] \in Records
      /\ cmd[c].att \in Records /\ Attachment \in Nat
  BY <1>1 DEF Record, Records, Attachment, CommandStates
<1> DEFINE at(s) == [cmd[c] EXCEPT !.at = s]
<1>4. /\ \A s \in Steps : at(s) \in CommandStates /\ at(s).at = s /\ at(s).kind = cmd[c].kind
      /\ \A r \in Records : [cmd[c] EXCEPT !.at = "save", !.att = r] \in CommandStates
      /\ [cmd[c] EXCEPT !.at = "signal", !.pid = Attachment] \in CommandStates
      /\ \A r \in Records : [cmd[c] EXCEPT !.at = "save", !.att = r].at = "save"
      /\ [cmd[c] EXCEPT !.at = "signal", !.pid = Attachment].at = "signal"
  BY <1>1, <1>3 DEF CommandStates, Steps
<1>5. \A x \in CommandStates : x.at # "read pid" \/ x.kind = "mute" =>
        LET f == [cmd EXCEPT ![c] = x]
        IN  /\ f \in [Commanders -> CommandStates]
            /\ \A d \in Commanders : f[d].at = "read pid" => f[d].kind = "mute"
            /\ \A d \in Commanders : d # c => f[d] = cmd[d]
  BY <1>1
<1> HIDE DEF at
<1>6. \E x \in CommandStates : /\ x.at # "read pid" \/ x.kind = "mute"
                          /\ cmd' = [cmd EXCEPT ![c] = x]
  <2>1. CASE MuteFlag(c) \/ Unmute(c) \/ ClearParts(c) \/ ClearFiles(c) \/ Queue(c)
    <3>1. \/ cmd' = [cmd EXCEPT ![c] = NoCommand]
          \/ \E s \in {"load", "clear pending", "clear hint", "hint"} :
                cmd' = [cmd EXCEPT ![c].at = s]
          \/ cmd[c].kind = "mute" /\ cmd' = [cmd EXCEPT ![c].at = "read pid"]
      BY <2>1 DEF MuteFlag, Unmute, ClearParts, ClearFiles, Queue, Return, Goto
    <3>2. \A s : [cmd EXCEPT ![c].at = s] = [cmd EXCEPT ![c] = at(s)]
      BY <1>1 DEF at
    <3>3. {"load", "clear pending", "clear hint", "hint", "read pid"} \subseteq Steps
      BY DEF Steps
    <3>4. CASE cmd' = [cmd EXCEPT ![c] = NoCommand]
      BY <1>2, <3>4
    <3>5. CASE \E s \in {"load", "clear pending", "clear hint", "hint"} :
                cmd' = [cmd EXCEPT ![c].at = s]
      <4>1. PICK s \in {"load", "clear pending", "clear hint", "hint"} :
                cmd' = [cmd EXCEPT ![c] = at(s)]
        BY <3>2, <3>5
      <4>2. at(s) \in CommandStates /\ at(s).at = s /\ s # "read pid"
        BY <1>4, <3>3, <4>1
      <4> QED BY <4>1, <4>2
    <3>6. CASE cmd[c].kind = "mute" /\ cmd' = [cmd EXCEPT ![c].at = "read pid"]
      <4>1. /\ at("read pid") \in CommandStates
            /\ at("read pid").kind = "mute"
        BY <1>4, <3>3, <3>6
      <4>2. cmd' = [cmd EXCEPT ![c] = at("read pid")]
        BY <3>2, <3>6
      <4> QED BY <4>1, <4>2
    <3> QED BY <3>1, <3>4, <3>5, <3>6
  <2>2. CASE ReadPid(c) \/ LoadRecord(c) \/ SaveRecord(c)
    <3>1. \/ cmd' = [cmd EXCEPT ![c] = NoCommand]
          \/ \E r \in Records : cmd' = [cmd EXCEPT ![c].at = "save", ![c].att = r]
      BY <1>3, <2>2 DEF ReadPid, LoadRecord, SaveRecord, Return
    <3>2. \A r : [cmd EXCEPT ![c].at = "save", ![c].att = r]
                   = [cmd EXCEPT ![c] = [cmd[c] EXCEPT !.at = "save", !.att = r]]
      BY <1>1
    <3>3. CASE cmd' = [cmd EXCEPT ![c] = NoCommand]
      BY <1>2, <3>3
    <3>4. ASSUME NEW r \in Records, cmd' = [cmd EXCEPT ![c].at = "save", ![c].att = r]
          PROVE  \E x \in CommandStates : /\ x.at # "read pid" \/ x.kind = "mute"
                                     /\ cmd' = [cmd EXCEPT ![c] = x]
      <4>1. cmd' = [cmd EXCEPT ![c] = [cmd[c] EXCEPT !.at = "save", !.att = r]]
        BY <3>2, <3>4
      <4>2. /\ [cmd[c] EXCEPT !.at = "save", !.att = r] \in CommandStates
            /\ [cmd[c] EXCEPT !.at = "save", !.att = r].at # "read pid"
        BY <1>4
      <4> QED BY <4>1, <4>2
    <3> QED BY <3>1, <3>3, <3>4
  <2>3. CASE Resolve(c) \/ SendSignal(c)
    <3>1. \/ cmd' = [cmd EXCEPT ![c] = NoCommand]
          \/ cmd' = [cmd EXCEPT ![c].at = "signal", ![c].pid = Attachment]
      BY <2>3 DEF Resolve, SendSignal, Return
    <3>2. [cmd EXCEPT ![c].at = "signal", ![c].pid = Attachment]
            = [cmd EXCEPT ![c] = [cmd[c] EXCEPT !.at = "signal", !.pid = Attachment]]
      BY <1>1
    <3> QED BY <1>2, <1>4, <3>1, <3>2
  <2> QED BY <2>1, <2>2, <2>3 DEF Command
<1>7. /\ pid' = pid /\ pidfile' = pidfile /\ seen' = seen
      /\ att' \in {att, cmd[c].att} /\ muted' \in {muted, TRUE, FALSE}
  BY DEF Command, MuteFlag, ReadPid, Unmute, LoadRecord, SaveRecord, Resolve, SendSignal,
         ClearParts, ClearFiles, Queue
<1>8. muted' \in BOOLEAN
  BY <1>1, <1>7
<1> QED BY <1>1, <1>3, <1>5, <1>6, <1>7, <1>8 DEF CommandShape

\* A command begins: it is the one of an idle process.
LEMMA CommandBegins ==
    ASSUME Shape, NEW kind \in bound.kinds, BeginCommand(kind), bound' = bound
    PROVE  /\ CommandShape'
           /\ kind \in Kinds
           /\ \E c \in Commanders :
                /\ cmd[c] = NoCommand
                /\ cmd'[c] = [at |-> "begin", kind |-> kind, pid |-> commands + 1,
                              att |-> NoRecord]
                /\ \A d \in Commanders : d # c => cmd'[d] = cmd[d]
<1>1. /\ bound \in Bounds /\ cmd \in [Commanders -> CommandStates] /\ commands \in Nat
      /\ Pids' = Pids /\ Records' = Records /\ CommandStates' = CommandStates
      /\ \A d \in Commanders : cmd[d].at = "read pid" => cmd[d].kind = "mute"
  BY DEF Shape, CommandShape, OutputShape, Pids, Records, CommandStates
<1>2. PICK c : c \in Idlers /\ c = CHOOSE x \in Idlers : TRUE
  BY DEF BeginCommand
<1>3. c \in Commanders /\ cmd[c] = NoCommand
  BY <1>2 DEF Idlers
<1> DEFINE new == [at |-> "begin", kind |-> kind, pid |-> commands + 1, att |-> NoRecord]
<1>4. cmd' = [cmd EXCEPT ![c] = new]
  BY <1>2 DEF BeginCommand
<1>5. cmd'[c] = new /\ \A d \in Commanders : d # c => cmd'[d] = cmd[d]
  <2> HIDE DEF new
  <2> QED BY <1>1, <1>3, <1>4
<1>6. kind \in Kinds
  BY <1>1 DEF Bounds
<1>7. commands + 1 \in Nat
  <2>1. commands \in Nat
    BY <1>1
  <2> QED BY <2>1
<1>11. new \in CommandStates /\ new.at = "begin"
  <2>1. NoRecord \in Records
    BY PidsAre DEF NoRecord, Records, Shape
  <2> QED BY <1>6, <1>7, <2>1 DEF CommandStates, Steps
<1> HIDE DEF new
<1>8. /\ cmd' \in [Commanders -> CommandStates]
      /\ \A d \in Commanders : cmd'[d].at = "read pid" => cmd'[d].kind = "mute"
  BY <1>1, <1>4, <1>5, <1>11
<1>9. UNCHANGED <<pid, pidfile, att, muted, seen>>
  BY DEF BeginCommand
<1>10. CommandShape'
  BY <1>1, <1>8, <1>9 DEF Shape, CommandShape
<1> QED BY <1>3, <1>5, <1>6, <1>10 DEF new

\* What CheckSignals finds, and what is left of it after one signal.
LEMMA TodosAre ==
    /\ \A t \in Todos : t # <<>> => Tail(t) \in Todos
    /\ \A t \in Todos : t # <<>> => Head(t) \in {"usr1", "usr2"}
    /\ Tail(<<"usr1">>) = <<>> /\ Tail(<<"usr2">>) = <<>>
    /\ Tail(<<"usr1", "usr2">>) = <<"usr2">>
    /\ \A a, b \in BOOLEAN :
         LET t == (IF a THEN <<"usr1">> ELSE <<>>) \o (IF b THEN <<"usr2">> ELSE <<>>)
         IN  /\ t \in Todos /\ (a \/ b => t # <<>>)
             /\ ~b => t \in {<<>>, <<"usr1">>}
<1>1. /\ Tail(<<"usr1">>) = <<>> /\ Tail(<<"usr2">>) = <<>>
      /\ Tail(<<"usr1", "usr2">>) = <<"usr2">>
      /\ Head(<<"usr1">>) = "usr1" /\ Head(<<"usr2">>) = "usr2"
      /\ Head(<<"usr1", "usr2">>) = "usr1"
  OBVIOUS
<1>2. /\ \A t \in Todos : t # <<>> => Tail(t) \in Todos
      /\ \A t \in Todos : t # <<>> => Head(t) \in {"usr1", "usr2"}
  BY <1>1 DEF Todos
<1>3. /\ <<>> \o <<>> = <<>> /\ <<"usr1">> \o <<>> = <<"usr1">>
      /\ <<>> \o <<"usr2">> = <<"usr2">> /\ <<"usr1">> \o <<"usr2">> = <<"usr1", "usr2">>
      /\ <<"usr1">> # <<>> /\ <<"usr2">> # <<>> /\ <<"usr1", "usr2">> # <<>>
  <2>1. <<>> \o <<>> = <<>>
    OBVIOUS
  <2>2. <<"usr1">> \o <<>> = <<"usr1">>
    OBVIOUS
  <2>3. <<>> \o <<"usr2">> = <<"usr2">>
    OBVIOUS
  <2>4. <<"usr1">> \o <<"usr2">> = <<"usr1", "usr2">>
    <3>1. \A S : \A x \in Seq(S), y \in S : x \o <<y>> = Append(x, y)
      OBVIOUS
    <3>2. Append(<<"usr1">>, "usr2") = <<"usr1", "usr2">>
      <4> DEFINE S == {"usr1", "usr2"}
      <4>1. \A s, t \in Seq(S) :
              Len(s) = Len(t) /\ (\A i \in 1..Len(s) : s[i] = t[i]) => s = t
        OBVIOUS
      <4>2. <<"usr1", "usr2">> \in Seq(S) /\ Append(<<"usr1">>, "usr2") \in Seq(S)
        OBVIOUS
      <4>3. Len(Append(<<"usr1">>, "usr2")) = 2 /\ Len(<<"usr1", "usr2">>) = 2
        OBVIOUS
      <4>4. \A i \in 1..2 : Append(<<"usr1">>, "usr2")[i] = <<"usr1", "usr2">>[i]
        OBVIOUS
      <4> HIDE DEF S
      <4> QED BY <4>1, <4>2, <4>3, <4>4
    <3>3. <<"usr1">> \in Seq({"usr1", "usr2"})
      OBVIOUS
    <3> QED BY <3>1, <3>2, <3>3
  <2>5. <<"usr1">> # <<>> /\ <<"usr2">> # <<>> /\ <<"usr1", "usr2">> # <<>>
    OBVIOUS
  <2> QED BY <2>1, <2>2, <2>3, <2>4, <2>5
<1>4. ASSUME NEW a \in BOOLEAN, NEW b \in BOOLEAN
      PROVE  LET t == (IF a THEN <<"usr1">> ELSE <<>>) \o (IF b THEN <<"usr2">> ELSE <<>>)
             IN  /\ t \in Todos /\ (a \/ b => t # <<>>)
                 /\ ~b => t \in {<<>>, <<"usr1">>}
  <2>1. CASE a /\ b
    BY <1>3, <2>1 DEF Todos
  <2>2. CASE a /\ ~b
    BY <1>3, <2>2 DEF Todos
  <2>3. CASE ~a /\ b
    BY <1>3, <2>3 DEF Todos
  <2>4. CASE ~a /\ ~b
    BY <1>3, <2>4 DEF Todos
  <2> QED BY <2>1, <2>2, <2>3, <2>4
<1> QED BY <1>1, <1>2, <1>4

\* The output, by parts.
Streams ==
    /\ out \in Seq(Nat) /\ buffer \in Seq(Nat) /\ tty \in Seq(Nat) /\ console \in Seq(Nat)
    /\ parts \in Seq(Seq(Nat)) /\ \A i \in 1..Len(parts) : parts[i] # <<>>
Counters ==
    /\ keys \in Nat /\ commands \in Nat /\ faults \in Nat /\ since \in Nat
    /\ pending \in Nat /\ hint \in Nat /\ injected \in Seq(Nat)
Machine ==
    /\ rec \in Places /\ todo \in Todos
    /\ rec = "events" => todo # <<>>
    /\ emitted \in 0..bound.chunks
    /\ shell \in BOOLEAN
    /\ pid = 0 => rec = "off" /\ ~shell /\ emitted = 0

\* The shape of the output is that of its parts.
LEMMA OutputParts ==
    /\ OutputShape <=> Streams /\ Counters /\ Machine
    /\ OutputShape' <=> Streams' /\ Counters' /\ Machine'
  BY DEF OutputShape, Streams, Counters, Machine

\* Output stays output wherever it goes.
LEMMA StreamsKept == Shape /\ [Next]_vars => Streams'
<1> SUFFICES ASSUME Shape, [Next]_vars PROVE Streams'
  OBVIOUS
<1>0. Streams /\ Machine
  BY OutputParts DEF Shape
<1>1. CASE UNCHANGED <<out, buffer, tty, console, parts>>
  BY <1>0, <1>1 DEF Streams
<1>2. /\ <<>> \in Seq(Nat) /\ <<>> \in Seq(Seq(Nat)) /\ Len(<<>>) = 0
      /\ \A a, b : a \in Seq(Nat) /\ b \in Seq(Nat) => a \o b \in Seq(Nat)
  OBVIOUS
<1>3. CASE HandleEvent
  BY <1>0, <1>2, <1>3 DEF HandleEvent, Take, Streams
<1>4. CASE WriteConsole \/ Truncate \/ WriteRest
  BY <1>0, <1>2, <1>4 DEF WriteConsole, Truncate, WriteRest, Streams
<1>5. CASE Rollover
  <2>1. console # <<>> => /\ Append(parts, console) \in Seq(Seq(Nat))
                          /\ \A i \in 1..Len(Append(parts, console)) :
                               Append(parts, console)[i] # <<>>
    BY <1>0 DEF Streams
  <2>2. UNCHANGED <<out, buffer, tty>> /\ console' = <<>>
        /\ parts' = IF console # <<>> THEN Append(parts, console) ELSE parts
    BY <1>5 DEF Rollover
  <2> QED BY <1>0, <1>2, <2>1, <2>2 DEF Streams
<1>6. CASE Read
  <2>1. UNCHANGED <<out, console, parts>>
    BY <1>6 DEF Read
  <2>2. \A n \in 1..Len(tty) : /\ SubSeq(tty, 1, n) \in Seq(Nat)
                               /\ SubSeq(tty, n + 1, Len(tty)) \in Seq(Nat)
    <3>1. tty \in Seq(Nat)
      BY <1>0 DEF Streams
    <3> QED BY ONLY <3>1
  <2>3. buffer' \in Seq(Nat) /\ tty' \in Seq(Nat)
    BY <1>0, <1>2, <1>6, <2>2 DEF Read, Streams
  <2> QED BY <1>0, <2>1, <2>3 DEF Streams
<1>7. CASE Emit
  <2>1. Append(tty, emitted + 1) \in Seq(Nat)
    <3>1. emitted + 1 \in Nat
      BY <1>0 DEF Machine
    <3> QED BY <1>0, <3>1 DEF Streams
  <2> QED BY <1>0, <1>7, <2>1 DEF Emit, Streams
<1>8. CASE LogFails \/ Killed \/ StartAish
  BY <1>0, <1>2, <1>8 DEF LogFails, Killed, StartAish, Streams
<1>9. ASSUME NEW c \in Commanders, ClearParts(c) PROVE Streams'
  <2>1. parts' = <<>> /\ out' = out /\ buffer' = buffer /\ tty' = tty /\ console' = console
    BY <1>9 DEF ClearParts
  <2> QED BY <1>0, <1>2, <2>1 DEF Streams
<1>10. ASSUME NEW c \in Commanders, Command(c), ~ClearParts(c)
       PROVE  UNCHANGED <<out, buffer, tty, console, parts>>
  BY <1>10 DEF Command, MuteFlag, ReadPid, Unmute, LoadRecord, SaveRecord, Resolve, SendSignal,
               ClearFiles, Queue
<1>11. ASSUME NEW kind \in bound.kinds, BeginCommand(kind)
       PROVE  UNCHANGED <<out, buffer, tty, console, parts>>
  BY <1>11 DEF BeginCommand
<1>12. CASE Publish \/ Attach \/ Attached \/ CheckSignals \/ Poll \/ Inject
            \/ ClearSuggestion \/ RemovePid \/ Detach
  <2>1. UNCHANGED <<out, buffer, tty, console, parts>>
    BY <1>12 DEF Publish, Attach, Attached, CheckSignals, Poll, Inject, ClearSuggestion,
                 RemovePid, Detach
  <2> QED BY <1>1, <2>1
<1>13. CASE Prompt \/ ShellExits \/ PressAltS
  <2>1. UNCHANGED <<out, buffer, tty, console, parts>>
    BY <1>13 DEF Prompt, ShellExits, PressAltS
  <2> QED BY <1>1, <2>1
<1>14. CASE UNCHANGED vars
  BY <1>1, <1>14 DEF vars
<1> QED BY <1>1, <1>3, <1>4, <1>5, <1>6, <1>7, <1>8, <1>9, <1>10, <1>11, <1>12, <1>13, <1>14
        DEF Next, Recorder, World

\* The counters count, and only numbers of commands are suggested.
LEMMA CountersKept == Shape /\ [Next]_vars => Counters'
<1> SUFFICES ASSUME Shape, [Next]_vars PROVE Counters'
  OBVIOUS
<1>0. Counters /\ Machine /\ CommandShape
  BY OutputParts DEF Shape
<1>1. /\ keys' \in {keys, keys + 1} /\ commands' \in {commands, commands + 1}
      /\ faults' \in {faults, faults + 1} /\ since' \in {since, emitted}
      /\ injected' \in {injected, Append(injected, pending)}
      /\ pending' \in {pending, 0} \cup {cmd[c].pid : c \in Commanders}
      /\ hint' \in {hint, 0} \cup {cmd[c].pid : c \in Commanders}
  <2>1. CASE Publish \/ Attach \/ Attached \/ CheckSignals \/ HandleEvent
    BY <2>1 DEF Publish, Attach, Attached, CheckSignals, HandleEvent
  <2>2. CASE WriteConsole \/ Rollover \/ Truncate \/ Poll \/ Inject
    BY <2>2 DEF WriteConsole, Rollover, Truncate, Poll, Inject
  <2>3. CASE ClearSuggestion \/ Read \/ WriteRest \/ RemovePid \/ Detach
    BY <2>3 DEF ClearSuggestion, Read, WriteRest, RemovePid, Detach
  <2>4. CASE Emit \/ Prompt \/ ShellExits \/ PressAltS \/ LogFails \/ Killed \/ StartAish
    BY <2>4 DEF Emit, Prompt, ShellExits, PressAltS, LogFails, Killed, StartAish
  <2>5. ASSUME NEW c \in Commanders, Command(c)
        PROVE  /\ UNCHANGED <<keys, commands, faults, since, injected>>
               /\ pending' \in {pending, 0, cmd[c].pid} /\ hint' \in {hint, 0, cmd[c].pid}
    BY <2>5 DEF Command, MuteFlag, ReadPid, Unmute, LoadRecord, SaveRecord, Resolve,
                SendSignal, ClearParts, ClearFiles, Queue
  <2>6. ASSUME NEW kind \in bound.kinds, BeginCommand(kind)
        PROVE  /\ UNCHANGED <<keys, faults, injected, pending, hint>>
               /\ commands' = commands + 1 /\ since' \in {since, emitted}
    BY <2>6 DEF BeginCommand
  <2>7. CASE UNCHANGED vars
    BY <2>7 DEF vars
  <2> QED BY <2>1, <2>2, <2>3, <2>4, <2>5, <2>6, <2>7 DEF Next, Recorder, World
<1>2. \A c \in Commanders : cmd[c].pid \in Nat
  BY <1>0 DEF CommandShape, CommandStates
<1>3. keys' \in Nat /\ commands' \in Nat /\ faults' \in Nat
  BY <1>0, <1>1 DEF Counters
<1>4. since' \in Nat /\ pending' \in Nat /\ hint' \in Nat
  BY <1>0, <1>1, <1>2 DEF Counters, Machine
<1>5. injected' \in Seq(Nat)
  <2>1. Append(injected, pending) \in Seq(Nat)
    BY <1>0 DEF Counters
  <2> QED BY <1>0, <1>1, <2>1 DEF Counters
<1> QED BY <1>3, <1>4, <1>5 DEF Counters

\* The recorder goes from place to place.
LEMMA MachineKept == Shape /\ [Next]_vars => Machine'
<1> SUFFICES ASSUME Shape, [Next]_vars PROVE Machine'
  OBVIOUS
<1>0. Machine /\ CommandShape /\ FlagShape /\ (Next => bound' = bound)
  BY OutputParts DEF Shape, Next, Observe
<1>1. pid \in Nat
  BY <1>0, PidsAre DEF CommandShape
<1>2. CASE Next
  <2>0. bound' = bound
    BY <1>0, <1>2
  <2>1. CASE Publish \/ Attach \/ Attached
    BY <1>0, <2>0, <2>1 DEF Publish, Attach, Attached, Machine, Places, Starts, Ends
  <2>2. CASE CheckSignals
    <3>1. todo' \in Todos /\ (rec' = "events" => todo' # <<>>)
      BY <1>0, <2>2, TodosAre DEF CheckSignals, FlagShape
    <3> QED BY <1>0, <2>0, <2>2, <3>1 DEF CheckSignals, Machine, Places
  <2>3. CASE HandleEvent
    <3>1. todo' \in Todos /\ (rec' = "events" => todo' # <<>>)
      BY <1>0, <2>3, TodosAre DEF HandleEvent, NextEvent, Machine
    <3> QED BY <1>0, <2>0, <2>3, <3>1 DEF HandleEvent, NextEvent, Machine, Places
  <2>4. CASE WriteConsole \/ Rollover \/ Truncate
    BY <1>0, <2>0, <2>4 DEF WriteConsole, Rollover, Truncate, NextEvent, Machine, Places
  <2>5. CASE Poll \/ Inject \/ ClearSuggestion
    BY <1>0, <2>0, <2>5 DEF Poll, Inject, ClearSuggestion, Machine, Places, Ends
  <2>6. CASE Read \/ WriteRest \/ RemovePid \/ Detach
    BY <1>0, <2>0, <2>6 DEF Read, WriteRest, RemovePid, Detach, Machine, Places, Ends
  <2>7. CASE Emit
    <3>1. bound.chunks \in Nat /\ emitted \in 0..bound.chunks
      BY <1>0 DEF CommandShape, Bounds, Machine
    <3>2. emitted < bound.chunks => emitted + 1 \in 0..bound.chunks
      BY <3>1
    <3>3. UNCHANGED <<rec, todo, shell, pid>> /\ shell
      BY <2>7 DEF Emit
    <3>4. emitted' = emitted + 1 /\ emitted < bound.chunks
      BY <2>7 DEF Emit
    <3>5. emitted' \in 0..bound'.chunks
      BY <2>0, <3>2, <3>4
    <3> QED BY <1>0, <3>3, <3>5 DEF Machine
  <2>8. CASE Prompt \/ ShellExits \/ PressAltS
    BY <1>0, <2>0, <2>8 DEF Prompt, ShellExits, PressAltS, Machine
  <2>9. CASE LogFails \/ Killed
    BY <1>0, <2>0, <2>9 DEF LogFails, Killed, Machine, Places, Ends, Alive, Todos
  <2>10. CASE StartAish
    <3>1. pid' = pid + 1 /\ rec' = "publish" /\ todo' = <<>> /\ UNCHANGED <<shell, emitted>>
      BY <2>10 DEF StartAish
    <3>2. pid' # 0
      BY <1>1, <3>1
    <3> QED BY <1>0, <2>0, <3>1, <3>2 DEF Machine, Places, Starts, Todos
  <2>11. ASSUME NEW c \in Commanders, Command(c)
         PROVE  UNCHANGED <<rec, todo, emitted, shell, pid>>
    BY <2>11 DEF Command, MuteFlag, ReadPid, Unmute, LoadRecord, SaveRecord, Resolve,
                 SendSignal, ClearParts, ClearFiles, Queue
  <2>12. ASSUME NEW kind \in bound.kinds, BeginCommand(kind)
         PROVE  UNCHANGED <<rec, todo, emitted, shell, pid>>
    BY <2>12 DEF BeginCommand
  <2>13. UNCHANGED <<rec, todo, emitted, shell, pid>> => Machine'
    BY <1>0, <2>0 DEF Machine
  <2> QED BY <1>2, <2>1, <2>2, <2>3, <2>4, <2>5, <2>6, <2>7, <2>8, <2>9, <2>10, <2>11,
             <2>12, <2>13 DEF Next, Recorder, World
<1>3. CASE UNCHANGED vars
  BY <1>0, <1>3 DEF vars, Machine
<1> QED BY <1>2, <1>3

\* Flags stay flags.
LEMMA FlagsKept == Shape /\ [Next]_vars => FlagShape'
<1> SUFFICES ASSUME Shape, [Next]_vars PROVE FlagShape'
  OBVIOUS
<1>0. /\ usr1 \in BOOLEAN /\ usr2 \in BOOLEAN /\ key \in BOOLEAN
      /\ stray \in BOOLEAN /\ overlap \in BOOLEAN
  BY Zenon DEF Shape, FlagShape
<1>1. overlap' \in BOOLEAN
  <2>1. CASE UNCHANGED vars
    BY <1>0, <2>1 DEF vars
  <2>2. CASE Next
    <3>1. (overlap \/ Cardinality(Busy') > 1) \in BOOLEAN
      BY Zenon
    <3>2. overlap' = (overlap \/ Cardinality(Busy') > 1)
      BY <2>2, Zenon DEF Next, Observe
    <3> QED BY <3>1, <3>2
  <2> QED BY <2>1, <2>2
<1>2. ASSUME NEW c \in Commanders, SendSignal(c)
      PROVE  usr1' \in BOOLEAN /\ usr2' \in BOOLEAN /\ stray' \in BOOLEAN
  <2> DEFINE hit == Alive /\ cmd[c].pid = pid
  <2>1. /\ usr1' = (usr1 \/ (hit /\ cmd[c].kind = "rollout"))
        /\ usr2' = (usr2 \/ (hit /\ cmd[c].kind = "truncate"))
        /\ stray' = (stray \/ ~hit)
    BY <1>2, Zenon DEF SendSignal
  <2> HIDE DEF hit
  <2>2. \A a, b : (a \/ b) \in BOOLEAN
    BY Zenon
  <2> QED BY <2>1, <2>2, Zenon
<1>3. /\ usr1' \in BOOLEAN /\ usr2' \in BOOLEAN /\ key' \in BOOLEAN /\ stray' \in BOOLEAN
  <2>1. CASE Publish \/ Attach \/ Attached \/ CheckSignals \/ HandleEvent
    BY <1>0, <2>1 DEF Publish, Attach, Attached, CheckSignals, HandleEvent
  <2>2. CASE WriteConsole \/ Rollover \/ Truncate \/ Poll \/ Inject
    BY <1>0, <2>2 DEF WriteConsole, Rollover, Truncate, Poll, Inject
  <2>3. CASE ClearSuggestion \/ Read \/ WriteRest \/ RemovePid \/ Detach
    BY <1>0, <2>3 DEF ClearSuggestion, Read, WriteRest, RemovePid, Detach
  <2>4. CASE Emit \/ Prompt \/ ShellExits \/ PressAltS \/ LogFails \/ Killed \/ StartAish
    BY <1>0, <2>4 DEF Emit, Prompt, ShellExits, PressAltS, LogFails, Killed, StartAish
  <2>5. ASSUME NEW c \in Commanders, Command(c), ~SendSignal(c)
        PROVE  UNCHANGED <<usr1, usr2, key, stray>>
    BY <2>5 DEF Command, MuteFlag, ReadPid, Unmute, LoadRecord, SaveRecord, Resolve,
                ClearParts, ClearFiles, Queue
  <2>6. ASSUME NEW c \in Commanders, SendSignal(c) PROVE key' = key
    BY <2>6 DEF SendSignal
  <2>7. ASSUME NEW kind \in bound.kinds, BeginCommand(kind)
        PROVE  UNCHANGED <<usr1, usr2, key, stray>>
    BY <2>7 DEF BeginCommand
  <2>8. CASE UNCHANGED vars
    BY <1>0, <2>8 DEF vars
  <2> QED BY <1>0, <1>2, <2>1, <2>2, <2>3, <2>4, <2>5, <2>6, <2>7, <2>8
          DEF Next, Recorder, World
<1> QED BY <1>1, <1>3, Zenon DEF FlagShape

\* The shape of the state is inductive.
LEMMA ShapeKept == Shape /\ [Next]_vars => Shape'
<1> SUFFICES ASSUME Shape, [Next]_vars PROVE Shape'
  OBVIOUS
<1>1. OutputShape' /\ FlagShape'
  BY StreamsKept, CountersKept, MachineKept, FlagsKept, OutputParts
<1>2. CommandShape'
  <2>1. CASE UNCHANGED vars
    BY <2>1 DEF vars, Shape, CommandShape, Pids, Records, CommandStates
  <2>2. CASE Next
    <3>1. bound' = bound
      BY <2>2 DEF Next, Observe
    <3> QED BY <2>2, <3>1, OthersKeepCommands, CommandMoves, CommandBegins DEF Next, Shape
  <2> QED BY <2>1, <2>2
<1> QED BY <1>1, <1>2 DEF Shape

-----------------------------------------------------------------------------
\* What each step does to the output

Held == All(FlattenSeq(parts), console, InHand, buffer, tty)

\* Nothing is lost by a step that keeps the recorder alive, when nobody has asked for
\* anything that may lose output.
Safe == since = NotYet /\ NothingLosing /\ faults' = faults /\ pid' = pid

\* InOrder, with the prime at each variable.
LEMMA InOrderIs ==
    /\ InOrder => /\ Chain(FlattenSeq(parts), console, InHand, buffer, tty)
                  /\ All(FlattenSeq(parts), console, InHand, buffer, tty) \subseteq 1..emitted
    /\ Chain(FlattenSeq(parts'), console', InHand', buffer', tty')
       /\ All(FlattenSeq(parts'), console', InHand', buffer', tty') \subseteq 1..emitted'
         => InOrder'
    /\ Held = All(FlattenSeq(parts), console, InHand, buffer, tty)
    /\ Held' = All(FlattenSeq(parts'), console', InHand', buffer', tty')
  BY DEF InOrder, Held

\* Something is in hand only between HandleEvent and WriteConsole.
LEMMA InHandIs ==
    /\ rec = "write" => InHand = out
    /\ rec # "write" => InHand = <<>>
    /\ rec' = "write" => InHand' = out'
    /\ rec' # "write" => InHand' = <<>>
  BY DEF InHand

\* Steps that do not move output.
LEMMA OutputStays ==
    ASSUME Shape, InOrder,
           UNCHANGED <<parts, console, buffer, tty, emitted>>,
           InHand' = InHand
    PROVE  InOrder' /\ emitted' = emitted /\ Held' = Held
<1>1. FlattenSeq(parts') = FlattenSeq(parts) /\ console' = console /\ buffer' = buffer
      /\ tty' = tty /\ emitted' = emitted /\ InHand' = InHand
  OBVIOUS
<1> QED BY <1>1, InOrderIs

\* Steps that only lose some.
LEMMA OutputLost ==
    ASSUME Shape, InOrder,
           parts' \in {parts, <<>>}, console' \in {console, <<>>}, InHand' \in {InHand, <<>>},
           buffer' \in {buffer, <<>>}, tty' \in {tty, <<>>}, emitted' = emitted
    PROVE  InOrder'
<1>1. FlattenSeq(parts') \in {FlattenSeq(parts), <<>>}
  BY FlattenEmpty
<1>2. PICK a : a = FlattenSeq(parts)
  OBVIOUS
<1>3. PICK a2 : a2 = FlattenSeq(parts') /\ a2 \in {a, <<>>}
  BY <1>1, <1>2
<1>4. /\ Chain(a, console, InHand, buffer, tty)
      /\ All(a, console, InHand, buffer, tty) \subseteq 1..emitted
  BY <1>2, InOrderIs
<1>5. /\ Chain(a2, console', InHand', buffer', tty')
      /\ All(a2, console', InHand', buffer', tty') \subseteq All(a, console, InHand, buffer, tty)
  BY <1>3, <1>4, ChainLess
<1> QED BY <1>3, <1>4, <1>5, InOrderIs

\* The places of the chain are sequences of numbers.
LEMMA StreamsAre ==
    ASSUME Shape
    PROVE  /\ FlattenSeq(parts) \in Seq(Nat) /\ console \in Seq(Nat) /\ out \in Seq(Nat)
           /\ buffer \in Seq(Nat) /\ tty \in Seq(Nat) /\ emitted \in Nat
           /\ parts \in Seq(Seq(Nat)) /\ InHand \in Seq(Nat)
<1>1. Streams /\ Machine
  BY OutputParts DEF Shape
<1>2. <<>> \in Seq(Nat)
  OBVIOUS
<1>3. emitted \in Nat
  BY <1>1 DEF Machine
<1> QED BY <1>1, <1>2, <1>3, FlattenType, InHandIs DEF Streams

\* HandleEvent takes the buffer in hand, or drops it while muted or truncating.
LEMMA HandleEventMoves ==
    ASSUME Shape, InOrder, HandleEvent
    PROVE  InOrder' /\ emitted' = emitted /\ (NothingLosing /\ since = NotYet => Held' = Held)
<1>1. UNCHANGED <<parts, console, tty, emitted>> /\ InHand = <<>> /\ buffer' = <<>>
      /\ FlattenSeq(parts') = FlattenSeq(parts) /\ console' = console /\ tty' = tty
      /\ emitted' = emitted
  BY InHandIs DEF HandleEvent, Take
<1>2. CASE ~muted /\ Head(todo) = "usr1"
  <2>1. InHand' = buffer
    BY <1>2, InHandIs DEF HandleEvent, Take
  <2>2. PICK a : a = FlattenSeq(parts)
    OBVIOUS
  <2>3. /\ Chain(a, console, <<>>, buffer, tty)
        /\ All(a, console, <<>>, buffer, tty) \subseteq 1..emitted
    BY <1>1, <2>2, InOrderIs
  <2>4. /\ Chain(a, console, buffer, <<>>, tty)
        /\ All(a, console, buffer, <<>>, tty) = All(a, console, <<>>, buffer, tty)
    BY <2>3, ChainTake
  <2> QED BY <1>1, <2>1, <2>2, <2>3, <2>4, InOrderIs
<1>3. CASE ~(~muted /\ Head(todo) = "usr1")
  <2>1. rec' # "write"
    BY <1>3 DEF HandleEvent, NextEvent
  <2>2. InHand' = <<>>
    BY <2>1, InHandIs
  <2>3. InOrder'
    BY <1>1, <2>2, OutputLost
  <2>4. ~(NothingLosing /\ since = NotYet)
    <3>1. rec = "events" /\ todo # <<>>
      BY OutputParts DEF HandleEvent, Shape, Machine
    <3>2. NothingLosing /\ since = NotYet => ~muted /\ todo = <<"usr1">>
      BY <3>1 DEF NothingLosing
    <3>3. Head(<<"usr1">>) = "usr1"
      OBVIOUS
    <3> QED BY <1>3, <3>2, <3>3
  <2> QED BY <1>1, <2>3, <2>4
<1> QED BY <1>2, <1>3

\* WriteConsole moves what is in hand to console.txt.
LEMMA WriteConsoleMoves ==
    ASSUME Shape, InOrder, WriteConsole
    PROVE  InOrder' /\ emitted' = emitted /\ Held' = Held
<1>1. /\ FlattenSeq(parts') = FlattenSeq(parts) /\ console' = console \o out
      /\ tty' = tty /\ emitted' = emitted /\ buffer' = buffer
      /\ InHand = out /\ InHand' = <<>>
  BY InHandIs DEF WriteConsole
<1>2. PICK a : a = FlattenSeq(parts)
  OBVIOUS
<1>3. Chain(a, console, out, buffer, tty) /\ All(a, console, out, buffer, tty) \subseteq 1..emitted
  BY <1>1, <1>2, InOrderIs
<1>4. /\ Chain(a, console \o out, <<>>, buffer, tty)
      /\ All(a, console \o out, <<>>, buffer, tty) = All(a, console, out, buffer, tty)
  BY <1>3, ChainWrite, StreamsAre
<1> QED BY <1>1, <1>2, <1>3, <1>4, InOrderIs

\* Rollover makes console.txt a part.
LEMMA RolloverMoves ==
    ASSUME Shape, InOrder, Rollover
    PROVE  InOrder' /\ emitted' = emitted /\ Held' = Held
<1>1. tty' = tty /\ emitted' = emitted /\ buffer' = buffer /\ console' = <<>>
      /\ InHand = <<>> /\ InHand' = <<>>
      /\ parts' = IF console # <<>> THEN Append(parts, console) ELSE parts
  BY InHandIs DEF Rollover, NextEvent
<1>2. CASE console = <<>>
  BY <1>1, <1>2, OutputStays
<1>3. CASE console # <<>>
  <2>1. FlattenSeq(parts') = FlattenSeq(parts) \o console
    BY <1>1, <1>3, FlattenAppend, StreamsAre
  <2>2. PICK a : a = FlattenSeq(parts)
    OBVIOUS
  <2>3. /\ Chain(a, console, <<>>, buffer, tty)
        /\ All(a, console, <<>>, buffer, tty) \subseteq 1..emitted
    BY <1>1, <2>2, InOrderIs
  <2>4. /\ Chain(a \o console, <<>>, <<>>, buffer, tty)
        /\ All(a \o console, <<>>, <<>>, buffer, tty) = All(a, console, <<>>, buffer, tty)
    BY <2>2, <2>3, ChainRoll, StreamsAre
  <2> QED BY <1>1, <2>1, <2>2, <2>3, <2>4, InOrderIs
<1> QED BY <1>2, <1>3

\* Read moves a piece of the PTY to the buffer.
LEMMA ReadMoves ==
    ASSUME Shape, InOrder, Read
    PROVE  InOrder' /\ emitted' = emitted /\ Held' = Held
<1>1. /\ FlattenSeq(parts') = FlattenSeq(parts) /\ console' = console
      /\ emitted' = emitted /\ InHand = <<>> /\ InHand' = <<>> /\ parts' = parts
  BY InHandIs DEF Read
<1>2. CASE tty' = tty /\ buffer' = buffer
  BY <1>1, <1>2, OutputStays
<1>3. ASSUME NEW n \in 1..Len(tty), buffer' = buffer \o SubSeq(tty, 1, n),
             tty' = SubSeq(tty, n + 1, Len(tty))
      PROVE  InOrder' /\ Held' = Held
  <2>1. PICK a : a = FlattenSeq(parts)
    OBVIOUS
  <2>2. /\ Chain(a, console, <<>>, buffer, tty)
        /\ All(a, console, <<>>, buffer, tty) \subseteq 1..emitted
    BY <1>1, <2>1, InOrderIs
  <2>3. PICK p, r : p = SubSeq(tty, 1, n) /\ r = SubSeq(tty, n + 1, Len(tty))
    OBVIOUS
  <2>4. /\ Chain(a, console, <<>>, buffer \o p, r)
        /\ All(a, console, <<>>, buffer \o p, r) = All(a, console, <<>>, buffer, tty)
    BY <2>2, <2>3, ChainRead, StreamsAre
  <2> QED BY <1>1, <1>3, <2>1, <2>2, <2>3, <2>4, InOrderIs
<1> QED BY <1>1, <1>2, <1>3 DEF Read

\* WriteRest moves the buffer to console.txt, unless muted.
LEMMA WriteRestMoves ==
    ASSUME Shape, InOrder, WriteRest
    PROVE  InOrder' /\ emitted' = emitted /\ (NothingLosing /\ since = NotYet => Held' = Held)
<1>1. /\ FlattenSeq(parts') = FlattenSeq(parts) /\ parts' = parts /\ tty' = tty
      /\ emitted' = emitted /\ InHand = <<>> /\ InHand' = <<>> /\ buffer' = <<>>
      /\ console' = IF muted THEN console ELSE console \o buffer
  BY InHandIs DEF WriteRest
<1>2. CASE muted
  <2>1. InOrder'
    BY <1>1, <1>2, OutputLost
  <2> QED BY <1>1, <1>2, <2>1 DEF NothingLosing
<1>3. CASE ~muted
  <2>1. PICK a : a = FlattenSeq(parts)
    OBVIOUS
  <2>2. /\ Chain(a, console, <<>>, buffer, tty)
        /\ All(a, console, <<>>, buffer, tty) \subseteq 1..emitted
    BY <1>1, <2>1, InOrderIs
  <2>3. /\ Chain(a, console, buffer, <<>>, tty)
        /\ All(a, console, buffer, <<>>, tty) = All(a, console, <<>>, buffer, tty)
    BY <2>2, ChainTake
  <2>4. /\ Chain(a, console \o buffer, <<>>, <<>>, tty)
        /\ All(a, console \o buffer, <<>>, <<>>, tty) = All(a, console, buffer, <<>>, tty)
    BY <2>3, ChainWrite, StreamsAre
  <2> QED BY <1>1, <1>3, <2>1, <2>2, <2>3, <2>4, InOrderIs
<1> QED BY <1>2, <1>3

\* Emit adds the next chunk at the end.
LEMMA EmitMoves ==
    ASSUME Shape, InOrder, Emit
    PROVE  InOrder' /\ emitted' = emitted + 1 /\ Held' = Held \cup {emitted'}
<1>1. /\ FlattenSeq(parts') = FlattenSeq(parts) /\ console' = console /\ buffer' = buffer
      /\ emitted' = emitted + 1 /\ InHand' = InHand /\ tty' = Append(tty, emitted + 1)
  BY DEF Emit, InHand
<1>2. PICK a, h : a = FlattenSeq(parts) /\ h = InHand
  OBVIOUS
<1>3. Chain(a, console, h, buffer, tty) /\ All(a, console, h, buffer, tty) \subseteq 1..emitted
  BY <1>2, InOrderIs
<1>4. PICK m : m = emitted /\ m \in Nat
  BY StreamsAre
<1>5. /\ Chain(a, console, h, buffer, Append(tty, m + 1))
      /\ All(a, console, h, buffer, Append(tty, m + 1))
           = All(a, console, h, buffer, tty) \cup {m + 1}
  <2>1. tty \in Seq(Nat) /\ All(a, console, h, buffer, tty) \subseteq 1..m /\ m \in Nat
    BY <1>3, <1>4, StreamsAre
  <2> QED BY <1>3, <2>1, ChainEmit
<1>6. \A S : S \subseteq 1..m => S \cup {m + 1} \subseteq 1..(m + 1)
  BY <1>4
<1> QED BY <1>1, <1>2, <1>3, <1>4, <1>5, <1>6, InOrderIs

\* Every step keeps the order, and a safe one loses nothing.
LEMMA OutputMoves ==
    ASSUME Shape, InOrder, [Next]_vars
    PROVE  /\ InOrder'
           /\ Safe => \/ emitted' = emitted /\ Held' = Held
                      \/ emitted' = emitted + 1 /\ Held' = Held \cup {emitted'}
<1>1. CASE HandleEvent
  BY <1>1, HandleEventMoves DEF Safe
<1>2. CASE WriteConsole
  BY <1>2, WriteConsoleMoves
<1>3. CASE Rollover
  BY <1>3, RolloverMoves
<1>4. CASE Read
  BY <1>4, ReadMoves
<1>5. CASE WriteRest
  BY <1>5, WriteRestMoves DEF Safe
<1>6. CASE Emit
  BY <1>6, EmitMoves
<1>7. CASE Truncate
  <2>1. /\ parts' = parts /\ console' = <<>> /\ buffer' = buffer /\ tty' = tty /\ emitted' = emitted
        /\ InHand = <<>> /\ InHand' = <<>>
    BY <1>7, InHandIs DEF Truncate, NextEvent
  <2>2. InOrder'
    BY <2>1, OutputLost
  <2>3. ~Safe
    BY <1>7 DEF Truncate, Safe, NothingLosing
  <2> QED BY <2>2, <2>3
<1>8. CASE LogFails \/ Killed
  <2>1. /\ parts' = parts /\ console' = console /\ buffer' = <<>> /\ tty' = tty
        /\ emitted' = emitted /\ InHand' = <<>> /\ faults' = faults + 1
    BY <1>8, InHandIs DEF LogFails, Killed
  <2>2. InOrder'
    BY <2>1, OutputLost
  <2>3. faults \in Nat
    BY OutputParts DEF Shape, Counters
  <2>4. ~Safe
    BY <2>1, <2>3 DEF Safe
  <2> QED BY <2>2, <2>4
<1>9. CASE StartAish
  <2>1. /\ parts' = parts /\ console' = console /\ buffer' = <<>> /\ tty' = <<>>
        /\ emitted' = emitted /\ InHand' = <<>> /\ pid' = pid + 1
    BY <1>9, InHandIs DEF StartAish
  <2>2. InOrder'
    BY <2>1, OutputLost
  <2>3. pid \in Nat
    BY PidsAre DEF Shape, CommandShape
  <2>4. ~Safe
    BY <2>1, <2>3 DEF Safe
  <2> QED BY <2>2, <2>4
<1>10. ASSUME NEW c \in Commanders, ClearParts(c)
       PROVE  InOrder' /\ ~Safe
  <2>1. /\ parts' = <<>> /\ console' = console /\ buffer' = buffer /\ tty' = tty
        /\ emitted' = emitted /\ InHand' = InHand
    BY <1>10 DEF ClearParts, InHand
  <2>2. InOrder'
    BY <2>1, OutputLost
  <2>3. ~Safe
    BY <1>10 DEF ClearParts, Safe, NothingLosing, Losing
  <2> QED BY <2>2, <2>3
<1>11. CASE Publish \/ Attach \/ Attached \/ CheckSignals \/ Poll \/ Inject
            \/ ClearSuggestion \/ RemovePid \/ Detach
  <2>1. UNCHANGED <<parts, console, buffer, tty, emitted>> /\ rec # "write" /\ rec' # "write"
    BY <1>11 DEF Publish, Attach, Attached, CheckSignals, Poll, Inject, ClearSuggestion,
                 RemovePid, Detach
  <2>2. InHand' = InHand
    BY <2>1, InHandIs
  <2> QED BY <2>1, <2>2, OutputStays
<1>12. UNCHANGED <<parts, console, buffer, tty, emitted, rec, out>>
         => InOrder' /\ emitted' = emitted /\ Held' = Held
  <2>1. UNCHANGED <<rec, out>> => InHand' = InHand
    BY DEF InHand
  <2> QED BY <2>1, OutputStays
<1>13. CASE Prompt \/ ShellExits \/ PressAltS
  <2>1. UNCHANGED <<parts, console, buffer, tty, emitted, rec, out>>
    BY <1>13 DEF Prompt, ShellExits, PressAltS
  <2> QED BY <1>12, <2>1
<1>14. ASSUME NEW c \in Commanders, Command(c), ~ClearParts(c)
       PROVE  UNCHANGED <<parts, console, buffer, tty, emitted, rec, out>>
  BY <1>14 DEF Command, MuteFlag, ReadPid, Unmute, LoadRecord, SaveRecord, Resolve, SendSignal,
               ClearFiles, Queue
<1>15. ASSUME NEW kind \in bound.kinds, BeginCommand(kind)
       PROVE  UNCHANGED <<parts, console, buffer, tty, emitted, rec, out>>
  BY <1>15 DEF BeginCommand
<1>16. CASE UNCHANGED vars
  <2>1. UNCHANGED <<parts, console, buffer, tty, emitted, rec, out>>
    BY <1>16 DEF vars
  <2> QED BY <1>12, <2>1
<1> QED BY <1>1, <1>2, <1>3, <1>4, <1>5, <1>6, <1>7, <1>8, <1>9, <1>10, <1>11, <1>12, <1>13,
           <1>14, <1>15, <1>16 DEF Next, Recorder, World

\* The number of the first chunk after the end is never that of a chunk that is there.
LEMMA SinceStays ==
    ASSUME Shape, [Next]_vars, since' = NotYet'
    PROVE  /\ since = NotYet /\ bound' = bound
           /\ \A kind \in bound.kinds : BeginCommand(kind) => kind \notin Losing
<1>1. bound' = bound
  BY DEF Next, Observe, vars
<1>2. bound.chunks \in Nat /\ emitted \in 0..bound.chunks /\ since' = bound.chunks + 1
  BY <1>1, OutputParts DEF Shape, CommandShape, Bounds, Machine, NotYet
<1>3. emitted # bound.chunks + 1
  BY <1>2
<1>4. since' # emitted
  BY <1>2, <1>3
<1>5. \/ since' = since
      \/ \E kind \in bound.kinds : BeginCommand(kind)
  <2>1. CASE Publish \/ Attach \/ Attached \/ CheckSignals \/ HandleEvent
    BY <2>1 DEF Publish, Attach, Attached, CheckSignals, HandleEvent
  <2>2. CASE WriteConsole \/ Rollover \/ Truncate \/ Poll \/ Inject
    BY <2>2 DEF WriteConsole, Rollover, Truncate, Poll, Inject
  <2>3. CASE ClearSuggestion \/ Read \/ WriteRest \/ RemovePid \/ Detach
    BY <2>3 DEF ClearSuggestion, Read, WriteRest, RemovePid, Detach
  <2>4. CASE Emit \/ Prompt \/ ShellExits \/ PressAltS \/ LogFails \/ Killed \/ StartAish
    BY <2>4 DEF Emit, Prompt, ShellExits, PressAltS, LogFails, Killed, StartAish
  <2>5. ASSUME NEW c \in Commanders, Command(c) PROVE since' = since
    BY <2>5 DEF Command, MuteFlag, ReadPid, Unmute, LoadRecord, SaveRecord, Resolve,
                SendSignal, ClearParts, ClearFiles, Queue
  <2>6. CASE UNCHANGED vars
    BY <2>6 DEF vars
  <2> QED BY <2>1, <2>2, <2>3, <2>4, <2>5, <2>6 DEF Next, Recorder, World
<1>6. ASSUME NEW kind \in bound.kinds, BeginCommand(kind)
      PROVE  since' = since /\ (since = NotYet => kind \notin Losing)
  BY <1>4, <1>6 DEF BeginCommand
<1> QED BY <1>1, <1>2, <1>5, <1>6 DEF NotYet

\* Before the first command that may lose output nothing of one is under way.
LEMMA NothingLosingKept == Shape /\ NothingLosing /\ [Next]_vars => NothingLosing'
<1> SUFFICES ASSUME Shape, NothingLosing, [Next]_vars, since' = NotYet'
             PROVE  /\ ~muted' /\ ~usr2' /\ todo' \in {<<>>, <<"usr1">>} /\ rec' # "truncate"
                    /\ \A c \in Commanders : cmd'[c].kind \notin Losing
  BY DEF NothingLosing
<1>1. /\ ~muted /\ ~usr2 /\ todo \in {<<>>, <<"usr1">>} /\ rec # "truncate"
      /\ \A c \in Commanders : cmd[c].kind \notin Losing
      /\ \A kind \in bound.kinds : BeginCommand(kind) => kind \notin Losing
      /\ bound' = bound
  BY SinceStays DEF NothingLosing
<1>2. ASSUME NEW c \in Commanders, Command(c)
      PROVE  /\ ~muted' /\ ~usr2' /\ UNCHANGED <<todo, rec>>
             /\ \A d \in Commanders : cmd'[d].kind \notin Losing
  <2>1. cmd[c].kind \notin Losing
    BY <1>1
  <2>2. ~MuteFlag(c) /\ ~ClearParts(c) /\ cmd[c].kind # "truncate"
    BY <2>1 DEF MuteFlag, ClearParts, Losing
  <2>3. ~muted' /\ ~usr2' /\ UNCHANGED <<todo, rec>>
    <3>1. CASE ReadPid(c) \/ Unmute(c) \/ LoadRecord(c) \/ SaveRecord(c) \/ Resolve(c)
      <4>1. UNCHANGED <<usr2, todo, rec>> /\ (muted' = muted \/ muted' = FALSE)
        BY <3>1 DEF ReadPid, Unmute, LoadRecord, SaveRecord, Resolve
      <4> QED BY <1>1, <4>1
    <3>2. CASE SendSignal(c)
      BY <1>1, <2>2, <3>2 DEF SendSignal
    <3>3. CASE ClearFiles(c) \/ Queue(c)
      <4>1. UNCHANGED <<muted, usr2, todo, rec>>
        BY <3>3 DEF ClearFiles, Queue
      <4> QED BY <1>1, <4>1
    <3> QED BY <1>2, <2>2, <3>1, <3>2, <3>3 DEF Command
  <2>4. cmd'[c].kind \notin Losing
    <3>1. cmd \in [Commanders -> CommandStates] /\ cmd[c] \in CommandStates
      BY DEF Shape, CommandShape
    <3>2. cmd'[c].kind \in {cmd[c].kind, "none"}
      <4>1. NoCommand.kind = "none"
        BY DEF NoCommand
      <4>2. \/ cmd' = [cmd EXCEPT ![c] = NoCommand]
            \/ \E a : cmd' = [cmd EXCEPT ![c].at = a]
            \/ \E a, r : cmd' = [cmd EXCEPT ![c].at = a, ![c].att = r]
            \/ \E a, r : cmd' = [cmd EXCEPT ![c].at = a, ![c].pid = r]
        <5>1. CASE ReadPid(c) \/ LoadRecord(c)
          BY <5>1 DEF ReadPid, LoadRecord
        <5>2. CASE Unmute(c) \/ SaveRecord(c) \/ SendSignal(c)
          BY <5>2 DEF Unmute, SaveRecord, SendSignal, Goto, Return
        <5>3. CASE Resolve(c)
          BY <5>3 DEF Resolve
        <5>4. CASE ClearFiles(c) \/ Queue(c)
          BY <5>4 DEF ClearFiles, Queue, Goto, Return
        <5> QED BY <1>2, <2>2, <5>1, <5>2, <5>3, <5>4 DEF Command
      <4>3. CASE cmd' = [cmd EXCEPT ![c] = NoCommand]
        BY <3>1, <4>1, <4>3
      <4>4. CASE cmd' # [cmd EXCEPT ![c] = NoCommand]
        <5>1. ASSUME NEW a, cmd' = [cmd EXCEPT ![c].at = a]
              PROVE  cmd'[c].kind = cmd[c].kind
          BY <3>1, <5>1, GoesTo
        <5>2. ASSUME NEW a, NEW r, cmd' = [cmd EXCEPT ![c].at = a, ![c].att = r]
              PROVE  cmd'[c].kind = cmd[c].kind
          BY <3>1, <5>2, GoesToSave
        <5>3. ASSUME NEW a, NEW r, cmd' = [cmd EXCEPT ![c].at = a, ![c].pid = r]
              PROVE  cmd'[c].kind = cmd[c].kind
          BY <3>1, <5>3, GoesToSignal
        <5> QED BY <4>2, <4>4, <5>1, <5>2, <5>3, Zenon
      <4> QED BY <4>3, <4>4
    <3> QED BY <2>1, <3>2 DEF Losing
  <2>5. \A d \in Commanders : d # c => cmd'[d] = cmd[d]
    BY <1>1, <1>2, CommandMoves DEF Shape
  <2> QED BY <1>1, <2>3, <2>4, <2>5
<1>3. ASSUME NEW kind \in bound.kinds, BeginCommand(kind)
      PROVE  /\ ~muted' /\ ~usr2' /\ UNCHANGED <<todo, rec>>
             /\ \A d \in Commanders : cmd'[d].kind \notin Losing
  <2>1. UNCHANGED <<muted, usr2, todo, rec>>
    BY <1>3 DEF BeginCommand
  <2>2. PICK c \in Commanders :
           /\ cmd'[c] = [at |-> "begin", kind |-> kind, pid |-> commands + 1, att |-> NoRecord]
           /\ \A d \in Commanders : d # c => cmd'[d] = cmd[d]
    BY <1>1, <1>3, CommandBegins
  <2>3. cmd'[c].kind = kind
    BY <2>2
  <2> QED BY <1>1, <1>3, <2>1, <2>2, <2>3
<1>4. CASE Recorder \/ World
  <2>1. cmd' = cmd
    BY <1>1, <1>4, OthersKeepCommands DEF Shape
  <2>2. ~muted'
    <3>1. muted' = muted
      <4>1. CASE Publish \/ Attach \/ Attached \/ CheckSignals \/ HandleEvent
        BY <4>1 DEF Publish, Attach, Attached, CheckSignals, HandleEvent
      <4>2. CASE WriteConsole \/ Rollover \/ Truncate \/ Poll \/ Inject
        BY <4>2 DEF WriteConsole, Rollover, Truncate, Poll, Inject
      <4>3. CASE ClearSuggestion \/ Read \/ WriteRest \/ RemovePid \/ Detach
        BY <4>3 DEF ClearSuggestion, Read, WriteRest, RemovePid, Detach
      <4>4. CASE Emit \/ Prompt \/ ShellExits \/ PressAltS \/ LogFails \/ Killed \/ StartAish
        BY <4>4 DEF Emit, Prompt, ShellExits, PressAltS, LogFails, Killed, StartAish
      <4> QED BY <1>4, <4>1, <4>2, <4>3, <4>4 DEF Recorder, World
    <3> QED BY <1>1, <3>1
  <2>3. ~usr2' /\ todo' \in {<<>>, <<"usr1">>} /\ rec' # "truncate"
    <3>1. CASE CheckSignals
      <4>1. usr1 \in BOOLEAN /\ usr2 \in BOOLEAN
        BY Zenon DEF Shape, FlagShape
      <4>2. todo' \in {<<>>, <<"usr1">>}
        BY <1>1, <3>1, <4>1, TodosAre DEF CheckSignals
      <4>3. usr2' = FALSE /\ rec' # "truncate"
        BY <3>1 DEF CheckSignals
      <4> QED BY <4>2, <4>3
    <3>2. CASE HandleEvent
      <4>1. rec = "events" /\ todo # <<>>
        BY <3>2, OutputParts DEF HandleEvent, Shape, Machine
      <4>2. todo = <<"usr1">>
        BY <1>1, <4>1
      <4>3. Tail(todo) = <<>> /\ Head(todo) = "usr1"
        BY <4>2
      <4> QED BY <1>1, <3>2, <4>3 DEF HandleEvent, NextEvent
    <3>3. CASE Publish \/ Attach \/ Attached \/ WriteConsole \/ Rollover
      BY <1>1, <3>3 DEF Publish, Attach, Attached, WriteConsole, Rollover, NextEvent
    <3>4. CASE Truncate \/ Poll \/ Inject \/ ClearSuggestion
      <4>1. UNCHANGED <<usr2, todo>> /\ rec' # "truncate"
        BY <3>4 DEF Truncate, Poll, Inject, ClearSuggestion, NextEvent
      <4> QED BY <1>1, <4>1
    <3>5. CASE Read \/ WriteRest \/ RemovePid \/ Detach
      <4>1. UNCHANGED <<usr2, todo>> /\ rec' # "truncate"
        BY <3>5 DEF Read, WriteRest, RemovePid, Detach
      <4> QED BY <1>1, <4>1
    <3>6. CASE Emit \/ Prompt \/ ShellExits \/ PressAltS
      BY <1>1, <3>6 DEF Emit, Prompt, ShellExits, PressAltS
    <3>7. CASE LogFails \/ Killed \/ StartAish
      BY <1>1, <3>7 DEF LogFails, Killed, StartAish
    <3> QED BY <1>4, <3>1, <3>2, <3>3, <3>4, <3>5, <3>6, <3>7 DEF Recorder, World
  <2> QED BY <1>1, <2>1, <2>2, <2>3
<1>5. CASE UNCHANGED vars
  BY <1>1, <1>5 DEF vars
<1> QED BY <1>1, <1>2, <1>3, <1>4, <1>5 DEF Next

\* What was printed stays in one of the places.
LEMMA KeptKept ==
    ASSUME Shape, InOrder, NothingLosing, Kept, [Next]_vars
    PROVE  Kept'
<1> SUFFICES ASSUME since' = NotYet', pid' = 1, faults' = 0
             PROVE  1..emitted' \subseteq Held'
  BY DEF Kept, Held
<1>1. since = NotYet
  BY SinceStays
<1>2. faults \in Nat /\ pid \in Nat /\ emitted \in Nat
  BY OutputParts, PidsAre, StreamsAre DEF Shape, CommandShape, Counters
<1>3. faults' \in {faults, faults + 1} /\ (pid' = pid \/ (pid' = pid + 1 /\ emitted' = emitted))
  <2>1. CASE Publish \/ Attach \/ Attached \/ CheckSignals \/ HandleEvent
    BY <2>1 DEF Publish, Attach, Attached, CheckSignals, HandleEvent
  <2>2. CASE WriteConsole \/ Rollover \/ Truncate \/ Poll \/ Inject
    BY <2>2 DEF WriteConsole, Rollover, Truncate, Poll, Inject
  <2>3. CASE ClearSuggestion \/ Read \/ WriteRest \/ RemovePid \/ Detach
    BY <2>3 DEF ClearSuggestion, Read, WriteRest, RemovePid, Detach
  <2>4. CASE Emit \/ Prompt \/ ShellExits \/ PressAltS \/ LogFails \/ Killed \/ StartAish
    BY <2>4 DEF Emit, Prompt, ShellExits, PressAltS, LogFails, Killed, StartAish
  <2>5. ASSUME NEW c \in Commanders, Command(c) PROVE UNCHANGED <<faults, pid>>
    BY <2>5 DEF Command, MuteFlag, ReadPid, Unmute, LoadRecord, SaveRecord, Resolve,
                SendSignal, ClearParts, ClearFiles, Queue
  <2>6. ASSUME NEW kind \in bound.kinds, BeginCommand(kind) PROVE UNCHANGED <<faults, pid>>
    BY <2>6 DEF BeginCommand
  <2>7. CASE UNCHANGED vars
    BY <2>7 DEF vars
  <2> QED BY <2>1, <2>2, <2>3, <2>4, <2>5, <2>6, <2>7 DEF Next, Recorder, World
<1>4. faults = 0 /\ faults' = faults
  BY <1>2, <1>3
<1>5. CASE pid' = pid
  <2>1. Safe
    BY <1>1, <1>4, <1>5 DEF Safe
  <2>2. 1..emitted \subseteq Held
    BY <1>1, <1>4, <1>5 DEF Kept, Held
  <2>3. \/ emitted' = emitted /\ Held' = Held
        \/ emitted' = emitted + 1 /\ Held' = Held \cup {emitted'}
    BY <2>1, OutputMoves
  <2>4. 1..(emitted + 1) \subseteq 1..emitted \cup {emitted + 1}
    BY <1>2
  <2> QED BY <2>2, <2>3, <2>4
<1>6. CASE pid' = pid + 1 /\ emitted' = emitted
  <2>1. pid = 0
    BY <1>2, <1>6
  <2>2. emitted = 0
    BY <2>1, OutputParts DEF Shape, Machine
  <2> QED BY <1>6, <2>2
<1> QED BY <1>3, <1>5, <1>6

-----------------------------------------------------------------------------
\* What is typed into the shell

\* What is typed is a sequence: one more of the last, the others as before.
LEMMA TimesAppend ==
    ASSUME injected \in Seq(Nat), NEW p \in Nat, injected' = Append(injected, p)
    PROVE  \A n \in Nat : Times(n)' = IF n = p THEN Times(n) + 1 ELSE Times(n)
<1> SUFFICES ASSUME NEW n \in Nat PROVE Times(n)' = IF n = p THEN Times(n) + 1 ELSE Times(n)
  OBVIOUS
<1>1. PICK m : m = Len(injected) /\ m \in Nat
  OBVIOUS
<1>2. /\ Len(injected') = m + 1 /\ injected'[m + 1] = p
      /\ \A i \in 1..m : injected'[i] = injected[i]
  BY <1>1
<1> DEFINE S == {i \in 1..m : injected[i] = n}
           T == {i \in 1..(m + 1) : injected'[i] = n}
<1>3. Times(n) = Cardinality(S) /\ Times(n)' = Cardinality(T)
  BY <1>1, <1>2 DEF Times, Typings
<1>4. 1..(m + 1) = 1..m \cup {m + 1} /\ m + 1 \notin 1..m
  BY <1>1
<1>5. T = IF n = p THEN S \cup {m + 1} ELSE S
  BY <1>2, <1>4
<1>6. IsFiniteSet(S) /\ m + 1 \notin S
  <2>1. IsFiniteSet(1..m)
    BY <1>1, FS_Interval
  <2> QED BY <1>4, <2>1, FS_Subset
<1> HIDE DEF S, T
<1>7. Cardinality(S \cup {m + 1}) = Cardinality(S) + 1
  BY <1>6, FS_AddElement
<1> QED BY <1>3, <1>5, <1>7

\* Nothing is typed.
LEMMA TimesSame ==
    ASSUME injected' = injected
    PROVE  \A n \in Nat : Times(n)' = Times(n)
  BY DEF Times, Typings

\* ToCome, with the prime at each variable.
LEMMA ToComeIs ==
    /\ \A n : ToCome(n) <=> \/ n > commands
                            \/ \E c \in Commanders : cmd[c].at = "begin" /\ cmd[c].pid = n
    /\ \A n : ToCome(n)' <=> \/ n > commands'
                             \/ \E c \in Commanders : cmd'[c].at = "begin" /\ cmd'[c].pid = n
  BY DEF ToCome

\* The commands that begin have numbers of their own.
BeginnersDiffer ==
    /\ \A c \in Commanders : cmd[c].at = "begin" => cmd[c].pid \in 1..commands
    /\ \A c, d \in Commanders :
         cmd[c].at = "begin" /\ cmd[d].at = "begin" /\ cmd[c].pid = cmd[d].pid => c = d

\* Typing, for each number.
LEMMA TypingTells ==
    ASSUME Typing
    PROVE  /\ BeginnersDiffer /\ Times(0) = 0
           /\ \A n \in Nat \ {0} :
                /\ pending = n => ~ToCome(n)
                /\ Times(n) \in 0..(1 + faults)
                /\ ToCome(n) => Times(n) = 0
                /\ pending = n /\ rec # "clear pending" => Times(n) <= faults
  BY DEF Typing, BeginnersDiffer

\* What makes Typing true after a step.
LEMMA TypingIf ==
    ASSUME BeginnersDiffer', pending' \in Nat, Times(0)' = 0,
           \A n \in Nat \ {0} :
             /\ pending' = n => ~ToCome(n)'
             /\ Times(n)' \in 0..(1 + faults')
             /\ ToCome(n)' => Times(n)' = 0
             /\ pending' = n /\ rec' # "clear pending" => Times(n)' <= faults'
    PROVE  Typing'
<1>1. \A n : pending' = n => (ToCome(pending)' <=> ToCome(n)')
  BY DEF ToCome
<1> QED BY <1>1 DEF Typing, BeginnersDiffer

\* One more fault allows one more.
LEMMA OneMore ==
    \A f \in Nat : \A t \in 0..(1 + f) : t \in Nat /\ t \in 0..(1 + (f + 1)) /\ t <= f + 1
  OBVIOUS

\* A step that types nothing and suggests nothing.
LEMMA TypingStays ==
    ASSUME Shape, Typing, Shape',
           injected' = injected,
           \/ faults' = faults /\ (rec' # "clear pending" => rec # "clear pending" \/ pending' = 0)
           \/ faults' = faults + 1,
           pending' \in {pending, 0},
           BeginnersDiffer',
           \A n \in Nat \ {0} : ToCome(n)' => ToCome(n)
    PROVE  Typing'
<1>1. \A n \in Nat : Times(n)' = Times(n)
  BY TimesSame
<1>2. faults \in Nat /\ pending' \in Nat
  BY OutputParts DEF Shape, Counters
<1>3. ASSUME NEW n \in Nat \ {0}
      PROVE  /\ pending' = n => ~ToCome(n)'
             /\ Times(n)' \in 0..(1 + faults')
             /\ ToCome(n)' => Times(n)' = 0
             /\ pending' = n /\ rec' # "clear pending" => Times(n)' <= faults'
  <2>1. /\ Times(n)' = Times(n) /\ Times(n) \in 0..(1 + faults) /\ (ToCome(n) => Times(n) = 0)
        /\ pending = n /\ rec # "clear pending" => Times(n) <= faults
        /\ pending = n => ~ToCome(n)
        /\ ToCome(n)' => ToCome(n)
    <3>1. Times(n)' = Times(n)
      BY <1>1
    <3>2. ToCome(n)' => ToCome(n)
      OBVIOUS
    <3>3. /\ Times(n) \in 0..(1 + faults) /\ (ToCome(n) => Times(n) = 0)
          /\ pending = n /\ rec # "clear pending" => Times(n) <= faults
          /\ pending = n => ~ToCome(n)
      BY TypingTells
    <3> QED BY <3>1, <3>2, <3>3
  <2>2. \A f \in Nat : \A t \in 0..(1 + f) : t \in Nat /\ t \in 0..(1 + (f + 1)) /\ t <= f + 1
    BY OneMore
  <2>3. Times(n) \in Nat
    BY <1>2, <2>1, <2>2
  <2>4. CASE faults' = faults /\ (rec' # "clear pending" => rec # "clear pending" \/ pending' = 0)
    BY <2>1, <2>4
  <2>5. CASE faults' = faults + 1
    BY <1>2, <2>1, <2>2, <2>3, <2>5
  <2> QED BY <2>4, <2>5
<1>4. Times(0)' = 0
  BY <1>1, TypingTells
<1> QED BY <1>2, <1>3, <1>4, TypingIf

\* Inject types what is pending: it was typed at most as often as aish was killed.
LEMMA InjectTypes ==
    ASSUME Shape, Typing, Shape', Inject, cmd' = cmd
    PROVE  Typing'
<1>0. /\ faults' = faults /\ commands' = commands /\ cmd' = cmd /\ pending' = pending
      /\ rec = "load"
  BY DEF Inject
<1>1. (\A n : ToCome(n)' <=> ToCome(n)) /\ (BeginnersDiffer' <=> BeginnersDiffer)
  BY <1>0 DEF ToCome, BeginnersDiffer
<1>2. CASE pending = 0
  <2>1. injected' = injected
    BY <1>2 DEF Inject
  <2>2. BeginnersDiffer'
    BY <1>1, TypingTells
  <2> QED BY <1>0, <1>1, <1>2, <2>1, <2>2, TypingStays
<1>3. CASE pending # 0
  <2>1. injected' = Append(injected, pending) /\ rec' = "clear pending"
    BY <1>3 DEF Inject
  <2>2. injected \in Seq(Nat) /\ pending \in Nat /\ faults \in Nat
    BY OutputParts DEF Shape, Counters
  <2>3. PICK p \in Nat : p = pending /\ p # 0
    BY <1>3, <2>2
  <2>4. \A n \in Nat : Times(n)' = IF n = p THEN Times(n) + 1 ELSE Times(n)
    BY <2>1, <2>2, <2>3, TimesAppend
  <2>5. ASSUME NEW n \in Nat \ {0}
        PROVE  /\ pending' = n => ~ToCome(n)'
               /\ Times(n)' \in 0..(1 + faults')
               /\ ToCome(n)' => Times(n)' = 0
    <3>1. /\ Times(n) \in 0..(1 + faults) /\ (ToCome(n) => Times(n) = 0)
          /\ pending = n => Times(n) <= faults
          /\ pending = n => ~ToCome(n)
      BY <1>0, TypingTells
    <3>2. Times(n)' = IF n = p THEN Times(n) + 1 ELSE Times(n)
      BY <2>4
    <3>3. \A f \in Nat : \A t \in 0..(1 + f) : t \in Nat /\ (t <= f => t + 1 \in 0..(1 + f))
      OBVIOUS
    <3>4. Times(n) \in Nat /\ faults' = faults
      BY <1>0, <2>2, <3>1, <3>3
    <3>5. Times(n)' \in 0..(1 + faults')
      BY <2>2, <2>3, <3>1, <3>2, <3>3, <3>4
    <3> QED BY <1>0, <1>1, <2>3, <3>1, <3>2, <3>5
  <2>6. pending' \in Nat /\ rec' = "clear pending"
    BY <1>0, <2>1, <2>2
  <2>7. BeginnersDiffer'
    BY <1>1, TypingTells
  <2>8. Times(0)' = 0
    BY <2>3, <2>4, TypingTells
  <2> QED BY <2>5, <2>6, <2>7, <2>8, TypingIf
<1> QED BY <1>2, <1>3

\* Once it is under way, no command is at its beginning any more.
LEMMA CommandLeaves ==
    ASSUME Shape, NEW c \in Commanders, Command(c), bound' = bound
    PROVE  cmd'[c].at # "begin"
<1>1. cmd \in [Commanders -> CommandStates] /\ cmd[c] \in CommandStates /\ NoCommand.at = "none"
  BY DEF Shape, CommandShape, NoCommand
<1>2. CASE MuteFlag(c) \/ ReadPid(c) \/ Unmute(c) \/ LoadRecord(c) \/ SaveRecord(c)
  BY <1>1, <1>2 DEF MuteFlag, ReadPid, Unmute, LoadRecord, SaveRecord, Goto, Return, CommandStates
<1>3. CASE Resolve(c) \/ SendSignal(c) \/ ClearParts(c) \/ ClearFiles(c) \/ Queue(c)
  BY <1>1, <1>3 DEF Resolve, SendSignal, ClearParts, ClearFiles, Queue, Goto, Return, CommandStates
<1> QED BY <1>2, <1>3 DEF Command

\* Queue suggests a number that was never typed.
LEMMA QueueTypes ==
    ASSUME Shape, Typing, Shape', NEW c \in Commanders, Command(c), bound' = bound,
           cmd[c].at = "begin", pending' = cmd[c].pid, injected' = injected,
           UNCHANGED <<faults, commands, rec>>
    PROVE  Typing'
<1>1. /\ cmd'[c].at # "begin"
      /\ \A d \in Commanders : d # c => cmd'[d] = cmd[d]
  BY CommandLeaves, CommandMoves DEF Shape
<1>2. \A d \in Commanders : cmd'[d].at = "begin" => d # c /\ cmd'[d] = cmd[d]
  BY <1>1
<1>0. commands' = commands /\ faults' = faults
  OBVIOUS
<1>3. \A n : ToCome(n)' => ToCome(n)
  BY <1>0, <1>2 DEF ToCome
<1>4. PICK m : m = cmd[c].pid
  OBVIOUS
<1>12. BeginnersDiffer
  BY TypingTells
<1>5. m \in 1..commands /\ commands \in Nat /\ faults \in Nat
  BY <1>4, <1>12, OutputParts DEF Shape, Counters, BeginnersDiffer
<1>6. ToCome(m) /\ ~ToCome(m)'
  <2>1. ~(m > commands')
    BY <1>0, <1>5
  <2>2. ToCome(m)
    BY <1>4 DEF ToCome
  <2>3. \A d \in Commanders : d # c /\ cmd[d].at = "begin" => cmd[d].pid # m
    BY <1>4, <1>12 DEF BeginnersDiffer
  <2>4. ~\E d \in Commanders : cmd'[d].at = "begin" /\ cmd'[d].pid = m
    BY <1>2, <2>3
  <2> QED BY <2>1, <2>2, <2>4, ToComeIs
<1>7. \A n \in Nat : Times(n)' = Times(n)
  BY TimesSame
<1>8. ASSUME NEW n \in Nat \ {0}
      PROVE  /\ pending' = n => ~ToCome(n)'
             /\ Times(n)' \in 0..(1 + faults')
             /\ ToCome(n)' => Times(n)' = 0
             /\ pending' = n /\ rec' # "clear pending" => Times(n)' <= faults'
  <2>1. Times(n)' = Times(n) /\ Times(n) \in 0..(1 + faults) /\ (ToCome(n) => Times(n) = 0)
    BY <1>7, TypingTells
  <2>2. pending' = n => n = m
    BY <1>4
  <2>3. 0 <= faults
    BY <1>5
  <2>4. ToCome(n)' => ToCome(n)
    BY <1>3
  <2>5. n = m => ~ToCome(n)' /\ ToCome(n)
    BY <1>6
  <2> QED BY <1>0, <2>1, <2>2, <2>3, <2>4, <2>5
<1>9. BeginnersDiffer'
  BY <1>0, <1>2, <1>12 DEF BeginnersDiffer
<1>11. pending' \in Nat
  BY <1>4, <1>5
<1>13. Times(0)' = 0
  BY <1>7, TypingTells
<1> QED BY <1>8, <1>9, <1>11, <1>13, TypingIf

\* The counts of what is typed are inductive.
LEMMA TypingKept == Shape /\ Typing /\ [Next]_vars => Typing'
<1> SUFFICES ASSUME Shape, Typing, [Next]_vars PROVE Typing'
  OBVIOUS
<1>0. Shape' /\ bound' = bound
  BY ShapeKept DEF Next, Observe, vars
<1>1. cmd' = cmd /\ commands' = commands => \A n : ToCome(n)' <=> ToCome(n)
  BY DEF ToCome
<1>8. BeginnersDiffer
  BY TypingTells
<1>2. cmd' = cmd /\ commands' = commands => BeginnersDiffer'
  BY <1>8 DEF BeginnersDiffer
<1>3. CASE UNCHANGED <<cmd, commands, injected>> /\ pending' \in {pending, 0}
           /\ \/ /\ faults' = faults
                 /\ rec' # "clear pending" => rec # "clear pending" \/ pending' = 0
              \/ faults' = faults + 1
  BY <1>0, <1>1, <1>2, <1>3, TypingStays
<1>4. CASE Recorder \/ World
  <2>1. cmd' = cmd
    BY <1>0, <1>4, OthersKeepCommands DEF Shape
  <2>2. CASE Inject
    BY <1>0, <2>1, <2>2, InjectTypes
  <2>3. CASE ~Inject
    <3>1. CASE Publish \/ Attach \/ Attached \/ CheckSignals \/ HandleEvent
      <4>1. UNCHANGED <<commands, injected, pending, faults>> /\ rec # "clear pending"
        BY <3>1 DEF Publish, Attach, Attached, CheckSignals, HandleEvent
      <4> QED BY <1>3, <2>1, <4>1
    <3>2. CASE WriteConsole \/ Rollover \/ Truncate \/ Poll
      <4>1. UNCHANGED <<commands, injected, pending, faults>> /\ rec # "clear pending"
        BY <3>2 DEF WriteConsole, Rollover, Truncate, Poll
      <4> QED BY <1>3, <2>1, <4>1
    <3>3. CASE ClearSuggestion
      <4>1. /\ UNCHANGED <<commands, injected, faults>>
            /\ \/ pending' = 0
               \/ pending' = pending /\ rec # "clear pending"
        BY <3>3 DEF ClearSuggestion
      <4> QED BY <1>3, <2>1, <4>1
    <3>4. CASE Read \/ WriteRest \/ RemovePid \/ Detach
      <4>1. UNCHANGED <<commands, injected, pending, faults>> /\ rec # "clear pending"
        BY <3>4 DEF Read, WriteRest, RemovePid, Detach
      <4> QED BY <1>3, <2>1, <4>1
    <3>5. CASE Emit \/ Prompt \/ ShellExits \/ PressAltS
      <4>1. UNCHANGED <<commands, injected, pending, faults, rec>>
        BY <3>5 DEF Emit, Prompt, ShellExits, PressAltS
      <4> QED BY <1>3, <2>1, <4>1
    <3>6. CASE LogFails \/ Killed
      <4>1. UNCHANGED <<commands, injected, pending>> /\ faults' = faults + 1
        BY <3>6 DEF LogFails, Killed
      <4> QED BY <1>3, <2>1, <4>1
    <3>7. CASE StartAish
      <4>1. UNCHANGED <<commands, injected, pending, faults>> /\ rec # "clear pending"
        BY <3>7 DEF StartAish, Alive
      <4> QED BY <1>3, <2>1, <4>1
    <3> QED BY <1>4, <2>3, <3>1, <3>2, <3>3, <3>4, <3>5, <3>6, <3>7 DEF Recorder, World
  <2> QED BY <2>2, <2>3
<1>5. ASSUME NEW c \in Commanders, Command(c)
      PROVE  Typing'
  <2>1. /\ cmd'[c].at # "begin"
        /\ \A d \in Commanders : d # c => cmd'[d] = cmd[d]
    BY <1>0, <1>5, CommandLeaves, CommandMoves DEF Shape
  <2>2. \A d \in Commanders : cmd'[d].at = "begin" => d # c /\ cmd'[d] = cmd[d]
    BY <2>1
  <2>3. UNCHANGED <<commands, injected, faults, rec>>
    BY <1>5 DEF Command, MuteFlag, ReadPid, Unmute, LoadRecord, SaveRecord, Resolve,
                SendSignal, ClearParts, ClearFiles, Queue
  <2>4. \/ pending' \in {pending, 0}
        \/ cmd[c].at = "begin" /\ pending' = cmd[c].pid
    BY <1>5 DEF Command, MuteFlag, ReadPid, Unmute, LoadRecord, SaveRecord, Resolve,
                SendSignal, ClearParts, ClearFiles, Queue
  <2>5. CASE cmd[c].at = "begin" /\ pending' = cmd[c].pid
    BY <1>0, <1>5, <2>3, <2>5, QueueTypes
  <2>6. CASE pending' \in {pending, 0}
    <3>1. \A n : ToCome(n)' => ToCome(n)
      BY <2>2, <2>3 DEF ToCome
    <3>2. BeginnersDiffer'
      BY <1>8, <2>2, <2>3 DEF BeginnersDiffer
    <3> QED BY <1>0, <2>3, <2>6, <3>1, <3>2, TypingStays
  <2> QED BY <2>4, <2>5, <2>6
<1>6. ASSUME NEW kind \in bound.kinds, BeginCommand(kind)
      PROVE  Typing'
  <2>1. UNCHANGED <<injected, faults, rec, pending>> /\ commands' = commands + 1
    BY <1>6 DEF BeginCommand
  <2>2. PICK c \in Commanders :
           /\ cmd'[c] = [at |-> "begin", kind |-> kind, pid |-> commands + 1, att |-> NoRecord]
           /\ \A d \in Commanders : d # c => cmd'[d] = cmd[d]
    BY <1>0, <1>6, CommandBegins
  <2>3. cmd'[c].pid = commands + 1
    BY <2>2
  <2>4. commands \in Nat
    BY OutputParts DEF Shape, Counters
  <2>5. /\ commands + 1 \in 1..(commands + 1) /\ commands + 1 > commands
        /\ \A n \in 1..commands : n \in 1..(commands + 1) /\ n # commands + 1
        /\ \A n \in Nat : n > commands + 1 => n > commands
    BY <2>4
  <2>6. \A n \in Nat \ {0} : ToCome(n)' => ToCome(n)
    <3>1. SUFFICES ASSUME NEW n \in Nat \ {0}, ToCome(n)' PROVE ToCome(n)
      OBVIOUS
    <3>2. CASE n > commands'
      BY <2>1, <2>5, <3>2 DEF ToCome
    <3>3. ASSUME NEW d \in Commanders, cmd'[d].at = "begin", cmd'[d].pid = n
          PROVE  ToCome(n)
      <4>1. CASE d = c
        BY <2>3, <2>5, <3>3, <4>1 DEF ToCome
      <4>2. CASE d # c
        BY <2>2, <3>3, <4>2 DEF ToCome
      <4> QED BY <4>1, <4>2
    <3> QED BY <3>1, <3>2, <3>3, ToComeIs
  <2>7. \A d \in Commanders : d # c /\ cmd'[d].at = "begin" =>
          /\ cmd'[d] = cmd[d] /\ cmd[d].at = "begin" /\ cmd[d].pid \in 1..commands
    BY <1>8, <2>2 DEF BeginnersDiffer
  <2>8. \A d \in Commanders : d # c /\ cmd'[d].at = "begin" =>
          cmd'[d].pid \in 1..(commands + 1) /\ cmd'[d].pid # commands + 1
    BY <2>5, <2>7
  <2>9. \A d \in Commanders : cmd'[d].at = "begin" => cmd'[d].pid \in 1..commands'
    BY <2>1, <2>3, <2>5, <2>8
  <2>10. \A d, e \in Commanders :
           cmd'[d].at = "begin" /\ cmd'[e].at = "begin" /\ cmd'[d].pid = cmd'[e].pid => d = e
    <3>1. SUFFICES ASSUME NEW d \in Commanders, NEW e \in Commanders, cmd'[d].at = "begin",
                          cmd'[e].at = "begin", cmd'[d].pid = cmd'[e].pid, d # e
                   PROVE  FALSE
      OBVIOUS
    <3>2. CASE d = c \/ e = c
      BY <2>3, <2>8, <3>1, <3>2
    <3>3. CASE d # c /\ e # c
      BY <1>8, <2>7, <3>1, <3>3 DEF BeginnersDiffer
    <3> QED BY <3>2, <3>3
  <2>11. BeginnersDiffer'
    BY <2>9, <2>10 DEF BeginnersDiffer
  <2> QED BY <1>0, <2>1, <2>6, <2>11, TypingStays
<1>7. CASE UNCHANGED vars
  <2>1. UNCHANGED <<cmd, commands, injected, pending, faults, rec>>
    BY <1>7 DEF vars
  <2> QED BY <1>3, <2>1
<1> QED BY <1>4, <1>5, <1>6, <1>7 DEF Next

-----------------------------------------------------------------------------
\* What the shell printed and what was typed into it

OutputInv == Shape /\ InOrder /\ NothingLosing /\ Kept /\ Typing

\* Nothing was printed or typed yet.
LEMMA OutputInitially == Init => OutputInv
<1> SUFFICES ASSUME Init PROVE OutputInv
  OBVIOUS
<1>0. Shape
  BY ShapeInitially
<1>1. InOrder
  <2>1. FlattenSeq(parts) = <<>> /\ console = <<>> /\ InHand = <<>> /\ buffer = <<>> /\ tty = <<>>
    BY FlattenEmpty DEF Init, InHand
  <2>2. Chain(<<>>, <<>>, <<>>, <<>>, <<>>) /\ All(<<>>, <<>>, <<>>, <<>>, <<>>) = {}
    BY NothingRises DEF Chain, All, Below
  <2> QED BY <2>1, <2>2, Zenon DEF InOrder
<1>2. NothingLosing
  <2>1. ~muted /\ ~usr2 /\ todo = <<>> /\ rec = "off"
    BY Zenon DEF Init
  <2>2. \A c \in Commanders : cmd[c].kind \notin Losing
    BY DEF Init, NoCommand, Losing
  <2> QED BY <2>1, <2>2 DEF NothingLosing
<1>3. Kept
  BY DEF Init, Kept
<1>4. Typing
  <2>1. injected = <<>> /\ pending = 0 /\ faults = 0
    BY DEF Init
  <2>2. \A c \in Commanders : cmd[c].at = "none"
    BY DEF Init, NoCommand
  <2>3. \A n : Typings(n) = {}
    <3>1. Len(injected) = 0 /\ 1..0 = {}
      BY <2>1
    <3> QED BY <3>1 DEF Typings
  <2>4. \A n : Times(n) = 0
    BY <2>3, FS_EmptySet DEF Times
  <2>5. \A n : Times(n) \in 0..(1 + faults) /\ Times(n) <= faults
    BY <2>1, <2>4
  <2>6. \A c \in Commanders : cmd[c].at # "begin"
    BY <2>2
  <2> QED BY <2>1, <2>4, <2>5, <2>6, Zenon DEF Typing
<1> QED BY <1>0, <1>1, <1>2, <1>3, <1>4 DEF OutputInv

\* The inductive invariant of the output.
LEMMA OutputInvariant == Spec => []OutputInv
<1>1. Init => OutputInv
  BY OutputInitially
<1>2. OutputInv /\ [Next]_vars => OutputInv'
  <2> SUFFICES ASSUME OutputInv, [Next]_vars PROVE OutputInv'
    OBVIOUS
  <2>1. Shape /\ InOrder /\ NothingLosing /\ Kept /\ Typing
    BY DEF OutputInv
  <2>2. Shape' /\ NothingLosing' /\ Typing'
    BY <2>1, ShapeKept, NothingLosingKept, TypingKept
  <2>3. InOrder'
    BY <2>1, OutputMoves
  <2>4. Kept'
    BY <2>1, KeptKept
  <2> QED BY <2>2, <2>3, <2>4 DEF OutputInv
<1> QED BY <1>1, <1>2, PTL DEF Spec

\* The places of the chain in one sequence.
LEMMA EverythingIs ==
    ASSUME Shape, InOrder
    PROVE  /\ Everything \in Seq(Nat) /\ Rising(Everything)
           /\ Elems(Everything) = Held
<1>1. Everything = (((FlattenSeq(parts) \o console) \o InHand) \o buffer) \o tty
  BY DEF Everything, Recorded
<1>2. PICK a, h : a = FlattenSeq(parts) /\ h = InHand
  OBVIOUS
<1>3. Chain(a, console, h, buffer, tty)
  BY <1>2, InOrderIs
<1>4. a \in Seq(Nat) /\ console \in Seq(Nat) /\ h \in Seq(Nat) /\ buffer \in Seq(Nat)
      /\ tty \in Seq(Nat)
  BY <1>2, StreamsAre
<1>5. /\ Rising((((a \o console) \o h) \o buffer) \o tty)
      /\ Elems((((a \o console) \o h) \o buffer) \o tty) = All(a, console, h, buffer, tty)
      /\ (((a \o console) \o h) \o buffer) \o tty \in Seq(Nat)
  BY <1>3, <1>4, ChainIsRising
<1> QED BY <1>1, <1>2, <1>5, InOrderIs

\* What is in the parts was printed.
PartsHold == \A i \in 1..Len(parts) : ToSet(parts[i]) \subseteq Chunks

\* What is recorded was printed.
LEMMA HeldIsPrinted ==
    ASSUME Shape, InOrder
    PROVE  /\ ToSet(console) \subseteq Chunks /\ ToSet(buffer) \subseteq Chunks
           /\ ToSet(tty) \subseteq Chunks
<1>1. emitted \in 0..bound.chunks /\ bound.chunks \in Nat
  BY OutputParts DEF Shape, CommandShape, Bounds, Machine
<1>2. 1..emitted \subseteq Chunks
  BY <1>1 DEF Chunks
<1>3. Elems(console) \subseteq 1..emitted /\ Elems(buffer) \subseteq 1..emitted
      /\ Elems(tty) \subseteq 1..emitted
  BY InOrderIs DEF All
<1>4. \A s \in Seq(Nat) : ToSet(s) = Elems(s)
  BY DEF ToSet, Elems
<1>5. console \in Seq(Nat) /\ buffer \in Seq(Nat) /\ tty \in Seq(Nat)
  BY StreamsAre
<1> QED BY <1>2, <1>3, <1>4, <1>5

\* A part holds what console.txt held.
LEMMA PartsHoldKept ==
    ASSUME Shape, InOrder, PartsHold, [Next]_vars
    PROVE  PartsHold'
<1>1. bound' = bound /\ Chunks' = Chunks
  <2>1. bound' = bound
    BY DEF Next, Observe, vars
  <2> QED BY <2>1 DEF Chunks
<1>2. parts' \in {parts, <<>>, Append(parts, console)}
  <2>1. CASE Publish \/ Attach \/ Attached \/ CheckSignals \/ HandleEvent
    BY <2>1 DEF Publish, Attach, Attached, CheckSignals, HandleEvent
  <2>2. CASE WriteConsole \/ Rollover \/ Truncate \/ Poll \/ Inject
    BY <2>2 DEF WriteConsole, Rollover, Truncate, Poll, Inject
  <2>3. CASE ClearSuggestion \/ Read \/ WriteRest \/ RemovePid \/ Detach
    BY <2>3 DEF ClearSuggestion, Read, WriteRest, RemovePid, Detach
  <2>4. CASE Emit \/ Prompt \/ ShellExits \/ PressAltS \/ LogFails \/ Killed \/ StartAish
    BY <2>4 DEF Emit, Prompt, ShellExits, PressAltS, LogFails, Killed, StartAish
  <2>5. ASSUME NEW c \in Commanders, Command(c) PROVE parts' \in {parts, <<>>}
    BY <2>5 DEF Command, MuteFlag, ReadPid, Unmute, LoadRecord, SaveRecord, Resolve,
                SendSignal, ClearParts, ClearFiles, Queue
  <2>6. ASSUME NEW kind \in bound.kinds, BeginCommand(kind) PROVE parts' = parts
    BY <2>6 DEF BeginCommand
  <2>7. CASE UNCHANGED vars
    BY <2>7 DEF vars
  <2> QED BY <2>1, <2>2, <2>3, <2>4, <2>5, <2>6, <2>7 DEF Next, Recorder, World
<1>3. parts \in Seq(Seq(Nat)) /\ console \in Seq(Nat) /\ Len(<<>>) = 0
  BY StreamsAre
<1>4. \A i \in 1..Len(Append(parts, console)) :
         ToSet(Append(parts, console)[i]) \subseteq Chunks
  <2>1. \A i \in 1..Len(Append(parts, console)) :
           \/ i \in 1..Len(parts) /\ Append(parts, console)[i] = parts[i]
           \/ Append(parts, console)[i] = console
    BY <1>3
  <2> QED BY <2>1, HeldIsPrinted DEF PartsHold
<1>5. CASE parts' = Append(parts, console)
  BY <1>1, <1>4, <1>5 DEF PartsHold
<1>6. CASE parts' = <<>>
  BY <1>3, <1>6 DEF PartsHold
<1>7. CASE parts' = parts
  BY <1>1, <1>7 DEF PartsHold
<1> QED BY <1>2, <1>5, <1>6, <1>7

\* Each variable of the recorder holds values of its kind: a part is never empty, and
\* all that is recorded was printed.
THEOREM TypeCorrect == Spec => []TypeOK
<1>1. Init => PartsHold
  <2>1. Init => Len(parts) = 0
    BY DEF Init
  <2> QED BY <2>1 DEF PartsHold
<1>2. OutputInv /\ PartsHold /\ [Next]_vars => PartsHold'
  BY PartsHoldKept DEF OutputInv
<1>3. OutputInv /\ PartsHold => TypeOK
  <2> SUFFICES ASSUME OutputInv, PartsHold PROVE TypeOK
    OBVIOUS
  <2>1. Shape /\ InOrder
    BY DEF OutputInv
  <2>2. Streams /\ Counters /\ Machine /\ CommandShape /\ FlagShape
    BY <2>1, OutputParts DEF Shape
  <2>3. rec \in {"off", "signals", "events", "write", "roll", "truncate", "poll",
                "load", "clear pending", "clear hint", "read", "done", "dead"}
              \cup Starts \cup Ends
    BY <2>2 DEF Machine, Places
  <2>4. {pid, pidfile, pending, hint, keys, commands, faults, emitted, since} \subseteq Nat
    BY <2>1, <2>2, PidsAre, StreamsAre DEF Counters, CommandShape
  <2>5. {usr1, usr2, seen, shell, key, muted, stray, overlap} \subseteq BOOLEAN
    <3>1. {usr1, usr2, key, stray, overlap} \subseteq BOOLEAN
      BY <2>2 DEF FlagShape
    <3>2. seen \in BOOLEAN /\ shell \in BOOLEAN /\ muted \in BOOLEAN
      BY <2>2 DEF CommandShape, Machine
    <3> QED BY <3>1, <3>2, Zenon
  <2>6. ToSet(todo) \subseteq {"usr1", "usr2"}
    <3>1. todo \in Todos
      BY <2>2 DEF Machine
    <3>2. todo \in Seq({"usr1", "usr2"})
      <4>1. <<>> \in Seq({"usr1", "usr2"})
        OBVIOUS
      <4>2. <<"usr1">> \in Seq({"usr1", "usr2"}) /\ <<"usr2">> \in Seq({"usr1", "usr2"})
        OBVIOUS
      <4>3. <<"usr1", "usr2">> \in Seq({"usr1", "usr2"})
        OBVIOUS
      <4> QED BY <3>1, <4>1, <4>2, <4>3 DEF Todos
    <3> QED BY <3>2 DEF ToSet
  <2>7. ToSet(buffer) \cup ToSet(tty) \cup ToSet(console) \subseteq Chunks
    BY <2>1, HeldIsPrinted
  <2>8. \A i \in 1..Len(parts) : ToSet(parts[i]) \subseteq Chunks /\ parts[i] # <<>>
    BY <2>2 DEF Streams, PartsHold
  <2>9. att \in [status : {"none", "attached", "detached"}, pid : 0..bound.starts,
                muted : BOOLEAN]
    BY <2>2 DEF CommandShape, Records, Pids
  <2>10. \A c \in Commanders : cmd[c].kind \in Kinds \cup {"none"}
    BY <2>2 DEF CommandShape, CommandStates
  <2> QED BY <2>3, <2>4, <2>5, <2>6, <2>7, <2>8, <2>9, <2>10 DEF TypeOK
<1> QED BY <1>1, <1>2, <1>3, OutputInvariant, PTL DEF Spec

\* What the shell prints is kept, in its order and each chunk once, as long as nobody
\* asks for anything that may lose output; and no suggestion is typed more often than
\* aish was killed and once more.
THEOREM OutputWhole == Spec => []OutputIsWhole
<1>1. OutputInv => OutputIsWhole
  <2> SUFFICES ASSUME OutputInv PROVE OutputIsWhole
    OBVIOUS
  <2>1. Shape /\ InOrder /\ Kept /\ Typing
    BY DEF OutputInv
  <2>2. /\ Everything \in Seq(Nat) /\ Rising(Everything)
        /\ Elems(Everything) = Held
    BY <2>1, EverythingIs
  <2>3. ToSet(Everything) = Elems(Everything)
    BY <2>2 DEF ToSet, Elems
  <2>4. OutputIsKept
    BY <2>1, <2>2, <2>3 DEF OutputIsKept, Kept, Held
  <2>5. OutputInOrder
    BY <2>2 DEF OutputInOrder, Rising
  <2>6. InjectedOnce
    <3>1. injected \in Seq(Nat) /\ faults \in Nat
      BY <2>1, OutputParts DEF Shape, Counters
    <3>2. ToSet(injected) \subseteq Nat
      BY <3>1 DEF ToSet
    <3>3. \A n \in Nat : Times(n) <= 1 + faults
      <4>1. \A n \in Nat \ {0} : Times(n) \in 0..(1 + faults)
        BY <2>1, TypingTells
      <4>2. Times(0) = 0
        BY <2>1, TypingTells
      <4> QED BY <3>1, <4>1, <4>2
    <3> QED BY <3>2, <3>3 DEF InjectedOnce, Times
  <2> QED BY <2>4, <2>5, <2>6 DEF OutputIsWhole
<1> QED BY <1>1, OutputInvariant, PTL

-----------------------------------------------------------------------------
\* The files that speak of the recorder

\* What is under way is counted: two things at once would be an overlap.
LEMMA NoOverlap ==
    ASSUME Shape, Agreement, [Next]_vars, ~overlap', faults' = 0
    PROVE  /\ ~overlap /\ faults = 0 /\ bound' = bound
           /\ Alone /\ RecorderSays /\ CommandSays /\ ~stray
           /\ Alone'
           /\ ~LogFails /\ ~Killed
<1>6. faults' = faults \/ faults' = faults + 1
  <2>1. CASE Publish \/ Attach \/ Attached \/ CheckSignals \/ HandleEvent
    BY <2>1 DEF Publish, Attach, Attached, CheckSignals, HandleEvent
  <2>2. CASE WriteConsole \/ Rollover \/ Truncate \/ Poll \/ Inject
    BY <2>2 DEF WriteConsole, Rollover, Truncate, Poll, Inject
  <2>3. CASE ClearSuggestion \/ Read \/ WriteRest \/ RemovePid \/ Detach
    BY <2>3 DEF ClearSuggestion, Read, WriteRest, RemovePid, Detach
  <2>4. CASE Emit \/ Prompt \/ ShellExits \/ PressAltS \/ LogFails \/ Killed \/ StartAish
    BY <2>4 DEF Emit, Prompt, ShellExits, PressAltS, LogFails, Killed, StartAish
  <2>5. ASSUME NEW c \in Commanders, Command(c) PROVE faults' = faults
    BY <2>5 DEF Command, MuteFlag, ReadPid, Unmute, LoadRecord, SaveRecord, Resolve,
                SendSignal, ClearParts, ClearFiles, Queue
  <2>6. ASSUME NEW kind \in bound.kinds, BeginCommand(kind) PROVE faults' = faults
    BY <2>6 DEF BeginCommand
  <2>7. CASE UNCHANGED vars
    BY <2>7 DEF vars
  <2> QED BY <2>1, <2>2, <2>3, <2>4, <2>5, <2>6, <2>7 DEF Next, Recorder, World
<1>1. faults \in Nat /\ (LogFails \/ Killed => faults' = faults + 1)
  BY OutputParts DEF Shape, Counters, LogFails, Killed
<1>2. faults = 0 /\ ~LogFails /\ ~Killed
  BY <1>1, <1>6
<1>3. ~overlap /\ bound' = bound
  <2>1. CASE UNCHANGED vars
    BY <2>1 DEF vars
  <2>2. CASE Next
    BY <2>2 DEF Next, Observe
  <2> QED BY <2>1, <2>2
<1>4. Alone /\ RecorderSays /\ CommandSays /\ ~stray
  BY <1>2, <1>3 DEF Agreement
<1>5. Alone'
  <2>1. CASE UNCHANGED vars
    BY <1>4, <2>1 DEF vars, Alone
  <2>2. CASE Next
    <3>1. ~(Cardinality(Busy') > 1)
      BY <2>2 DEF Next, Observe
    <3> DEFINE B == Busy'
    <3>2. /\ B \subseteq Commanders \cup {"aish"}
          /\ \A c \in Commanders : cmd'[c] # NoCommand => c \in B
          /\ rec' \in Starts \cup Ends \cup Injects => "aish" \in B
      BY DEF Busy, Idlers, Injects
    <3>3. IsFiniteSet(B)
      <4>1. IsFiniteSet(Commanders \cup {"aish"})
        BY RecorderAssumption, FS_AddElement DEF RecorderAssumption
      <4> QED BY <3>2, <4>1, FS_Subset
    <3>4. ~(Cardinality(B) > 1)
      BY <3>1
    <3> HIDE DEF B
    <3>5. ASSUME NEW x \in B, NEW y \in B, x # y PROVE FALSE
      <4>1. IsFiniteSet({x}) /\ Cardinality({x}) = 1
        BY FS_Singleton
      <4>2. Cardinality({x} \cup {y}) = Cardinality({x}) + 1
        BY <3>5, <4>1, FS_AddElement
      <4>3. {x} \cup {y} \subseteq B
        OBVIOUS
      <4>4. /\ Cardinality({x} \cup {y}) <= Cardinality(B)
            /\ Cardinality(B) \in Nat
        BY <3>3, <4>3, FS_Subset, FS_CardinalityType
      <4> QED BY <3>4, <4>1, <4>2, <4>4
    <3>6. "aish" \notin Commanders
      BY RecorderAssumption DEF RecorderAssumption
    <3> QED BY <3>2, <3>5, <3>6 DEF Alone
  <2> QED BY <2>1, <2>2
<1> QED BY <1>2, <1>3, <1>4, <1>5

\* At, with the prime at each variable.
LEMMA AtIs ==
    /\ \A S : At(S) <=> \E c \in Commanders : cmd[c].at \in S
    /\ \A S : At(S)' <=> \E c \in Commanders : cmd'[c].at \in S
  BY DEF At

\* What the files say, with what the commands do not touch.
LEMMA SaysIs ==
    /\ RecorderSays <=>
         /\ rec # "dead"
         /\ pidfile = IF rec \in {"off", "publish", "detach", "detached", "done"} THEN 0 ELSE pid
         /\ pid = 0 <=> rec = "off"
         /\ rec = "attached" => seen = muted
         /\ rec = "detached" => seen = muted
         /\ rec = "off" => att = NoRecord
         /\ ~At({"read pid", "load", "save"}) =>
              /\ rec \in Loop \cup {"exit", "remove pid", "detach", "detached"} =>
                   att = Record("attached", pid, muted)
              /\ rec = "done" => att = Record("detached", 0, muted)
         /\ ~At({"clear hint", "hint"}) /\ rec # "clear hint" => pending = hint
         /\ At({"clear hint"}) \/ rec = "clear hint" => pending = 0
    /\ RecorderSays' <=>
         /\ rec' # "dead"
         /\ pidfile' = IF rec' \in {"off", "publish", "detach", "detached", "done"} THEN 0 ELSE pid'
         /\ pid' = 0 <=> rec' = "off"
         /\ rec' = "attached" => seen' = muted'
         /\ rec' = "detached" => seen' = muted'
         /\ rec' = "off" => att' = NoRecord
         /\ ~At({"read pid", "load", "save"})' =>
              /\ rec' \in Loop \cup {"exit", "remove pid", "detach", "detached"} =>
                   att' = Record("attached", pid', muted')
              /\ rec' = "done" => att' = Record("detached", 0, muted')
         /\ ~At({"clear hint", "hint"})' /\ rec' # "clear hint" => pending' = hint'
         /\ At({"clear hint"})' \/ rec' = "clear hint" => pending' = 0
  BY DEF RecorderSays

\* When no command is under way, and none at the end of the step, the files say of
\* the recorder what its place tells.
NobodyBusy == \A c \in Commanders : cmd[c] = NoCommand

\* When nobody runs a command, nobody is at a step of one.
LEMMA NobodyAt ==
    /\ NobodyBusy => CommandSays /\ \A S : "none" \notin S => ~At(S)
    /\ NobodyBusy' => CommandSays' /\ \A S : "none" \notin S => ~At(S)'
<1>1. NoCommand.at = "none"
  BY DEF NoCommand
<1> QED BY <1>1 DEF NobodyBusy, CommandSays, At

\* CommandSays, of one command.
CommandIs(c) ==
    /\ cmd[c] # NoCommand => rec \in (Loop \ Injects) \cup {"off", "done"}
    /\ cmd[c].at = "none" => cmd[c] = NoCommand
    /\ cmd[c].at = "read pid" => muted /\ rec \in Loop
    /\ cmd[c].at = "load" => /\ ~muted
                             /\ rec \in Loop => att.status = "attached" /\ att.pid = pid
                             /\ rec = "done" => att.status = "detached" /\ att.pid = 0
    /\ cmd[c].at = "save" =>
         /\ rec # "off"
         /\ rec \in Loop => cmd[c].att = Record("attached", pid, muted)
         /\ rec = "done" => cmd[c].att = Record("detached", 0, muted)
    /\ cmd[c].at = "signal" => rec \in Loop /\ cmd[c].pid = pid
    /\ cmd[c].at = "hint" => pending = cmd[c].pid

\* CommandSays speaks of each command.
LEMMA CommandSaysIs ==
    /\ CommandSays <=> \A c \in Commanders : CommandIs(c)
    /\ (\A c \in Commanders : CommandIs(c)') => CommandSays'
  BY DEF CommandSays, CommandIs

\* A step of the recorder, while it starts, injects or ends, or that takes it to one
\* of these.
LEMMA AishAlone ==
    ASSUME Shape, Alone, RecorderSays, Alone', cmd' = cmd,
           rec \in Starts \cup Ends \cup Injects \/ rec' \in Starts \cup Ends \cup Injects
    PROVE  /\ CommandSays' /\ NobodyBusy
           /\ \A S : "none" \notin S => ~At(S) /\ ~At(S)'
<1>1. NobodyBusy /\ NobodyBusy'
  BY DEF Alone, NobodyBusy
<1> QED BY <1>1, NobodyAt

\* A step of the loop that stays in the loop.
LEMMA LoopAgrees ==
    ASSUME Shape, Alone, RecorderSays, CommandSays, Alone', cmd' = cmd,
           UNCHANGED <<pid, pidfile, att, muted, pending, hint>>,
           rec \in Loop \ {"clear pending", "clear hint"},
           rec' \in Loop \ {"clear hint"}
    PROVE  RecorderSays' /\ CommandSays'
<1>1. /\ pid' = pid /\ pidfile' = pidfile /\ att' = att /\ muted' = muted
      /\ pending' = pending /\ hint' = hint
  OBVIOUS
<1>2. \A S : At(S)' <=> At(S)
  BY AtIs
<1>3. RecorderSays'
  BY <1>1, <1>2, SaysIs DEF Loop
<1>4. CASE rec' \in Injects
  BY <1>3, <1>4, AishAlone
<1>5. CASE rec' \notin Injects
  <2>1. rec' \in Loop \ Injects /\ rec \in Loop /\ rec' \in Loop /\ rec' # "off" /\ rec' # "done"
    BY <1>5 DEF Loop, Injects
  <2>2. \A c \in Commanders : cmd'[c] = cmd[c] /\ CommandIs(c)
    BY CommandSaysIs
  <2>3. ASSUME NEW c \in Commanders PROVE CommandIs(c)'
    <3>1. cmd'[c] = cmd[c] /\ CommandIs(c)
      BY <2>2
    <3>2. rec' \in (Loop \ Injects) \cup {"off", "done"}
      BY <2>1
    <3>3. /\ cmd'[c].at = "none" => cmd'[c] = NoCommand
          /\ cmd'[c].at = "read pid" => muted'
          /\ cmd'[c].at = "load" => ~muted' /\ att'.status = "attached" /\ att'.pid = pid'
          /\ cmd'[c].at = "save" => cmd'[c].att = Record("attached", pid', muted')
          /\ cmd'[c].at = "signal" => cmd'[c].pid = pid'
          /\ cmd'[c].at = "hint" => pending' = cmd'[c].pid
      <4>1. muted' = muted /\ muted \in BOOLEAN
        BY <1>1 DEF Shape, CommandShape
      <4>2. PICK x : x = cmd[c] /\ x = cmd'[c]
        BY <3>1
      <4>3. /\ x.at = "none" => x = NoCommand
            /\ x.at = "read pid" => muted
            /\ x.at = "load" => ~muted /\ att.status = "attached" /\ att.pid = pid
            /\ x.at = "save" => x.att = Record("attached", pid, muted)
            /\ x.at = "signal" => x.pid = pid
            /\ x.at = "hint" => pending = x.pid
        BY <2>1, <3>1, <4>2 DEF CommandIs
      <4>4. att' = att /\ pid' = pid /\ pending' = pending
        BY <1>1
      <4>5. Record("attached", pid', muted') = Record("attached", pid, muted)
        BY <4>1, <4>4, Zenon
      <4>6. (muted => muted') /\ (~muted => ~muted')
        <5>1. muted = TRUE \/ muted = FALSE
          BY <4>1
        <5>2. CASE muted = TRUE
          <6>1. muted' = TRUE
            BY <4>1, <5>2
          <6> QED BY <5>2, <6>1
        <5>3. CASE muted = FALSE
          <6>1. muted' = FALSE
            BY <4>1, <5>3
          <6> QED BY <5>3, <6>1
        <5> QED BY <5>1, <5>2, <5>3
      <4>7. cmd'[c] = x
        BY <4>2
      <4>8. x.at = "load" => ~muted' /\ att'.status = "attached" /\ att'.pid = pid'
        BY <4>3, <4>4, <4>6, Zenon
      <4>9. /\ x.at = "save" => x.att = Record("attached", pid', muted')
            /\ x.at = "read pid" => muted'
        BY <4>3, <4>5, <4>6, Zenon
      <4>10. /\ x.at = "signal" => x.pid = pid'
             /\ x.at = "hint" => pending' = x.pid
        BY <4>3, <4>4, Zenon
      <4> QED BY <4>3, <4>7, <4>8, <4>9, <4>10, Zenon
    <3> QED BY <2>1, <3>2, <3>3, Zenon DEF CommandIs
  <2> QED BY <1>3, <2>3, CommandSaysIs
<1> QED BY <1>4, <1>5

\* The steps of the recorder, and the start of aish.
LEMMA RecorderAgrees ==
    ASSUME Shape, Alone, RecorderSays, CommandSays, Alone', Recorder \/ StartAish, cmd' = cmd
    PROVE  RecorderSays' /\ CommandSays'
<1>0. muted \in BOOLEAN /\ seen \in BOOLEAN /\ pid \in Nat
  BY PidsAre DEF Shape, CommandShape
<1>1. CASE Publish
  <2>1. UNCHANGED <<pid, att, muted, pending, hint, seen>> /\ pidfile' = pid /\ rec = "publish"
        /\ rec' = "attach"
    BY <1>1 DEF Publish
  <2>2. CommandSays' /\ \A S : "none" \notin S => ~At(S) /\ ~At(S)'
    BY <2>1, AishAlone DEF Starts
  <2> QED BY <2>1, <2>2, SaysIs DEF Loop
<1>2. CASE Attach
  <2>1. UNCHANGED <<pid, pidfile, att, muted, pending, hint>> /\ seen' = muted /\ rec = "attach"
        /\ rec' = "attached"
    BY <1>2 DEF Attach
  <2>2. CommandSays' /\ \A S : "none" \notin S => ~At(S) /\ ~At(S)'
    BY <2>1, AishAlone DEF Starts
  <2> QED BY <2>1, <2>2, SaysIs DEF Loop
<1>3. CASE Attached
  <2>1. UNCHANGED <<pid, pidfile, muted, pending, hint, seen>> /\ rec = "attached"
        /\ rec' = "signals" /\ att' = Record("attached", pid, seen)
    BY <1>3 DEF Attached
  <2>2. CommandSays' /\ \A S : "none" \notin S => ~At(S) /\ ~At(S)'
    BY <2>1, AishAlone DEF Starts
  <2>3. att' = Record("attached", pid', muted')
    BY <2>1, SaysIs
  <2> QED BY <2>1, <2>2, <2>3, SaysIs DEF Loop
<1>4. CASE CheckSignals \/ HandleEvent \/ WriteConsole \/ Rollover \/ Truncate
  <2>1. /\ UNCHANGED <<pid, pidfile, att, muted, pending, hint>>
        /\ rec \in Loop \ {"clear pending", "clear hint"} /\ rec' \in Loop \ {"clear hint"}
    BY <1>4 DEF CheckSignals, HandleEvent, WriteConsole, Rollover, Truncate, NextEvent, Loop
  <2> QED BY <2>1, LoopAgrees
<1>5. CASE Inject
  <2>1. /\ UNCHANGED <<pid, pidfile, att, muted, pending, hint>>
        /\ rec \in Loop \ {"clear pending", "clear hint"} /\ rec' \in Loop \ {"clear hint"}
    BY <1>5 DEF Inject, Loop
  <2> QED BY <2>1, LoopAgrees
<1>6. CASE (Poll /\ rec' # "exit") \/ (Read /\ rec' # "exit")
  <2>1. /\ UNCHANGED <<pid, pidfile, att, muted, pending, hint>>
        /\ rec \in Loop \ {"clear pending", "clear hint"} /\ rec' \in Loop \ {"clear hint"}
    BY <1>6 DEF Poll, Read, Loop
  <2> QED BY <2>1, LoopAgrees
<1>7. CASE (Poll \/ Read) /\ rec' = "exit"
  <2>1. UNCHANGED <<pid, pidfile, att, muted, pending, hint, seen>> /\ rec \in {"poll", "read"}
    BY <1>7 DEF Poll, Read
  <2>2. CommandSays' /\ \A S : "none" \notin S => ~At(S) /\ ~At(S)'
    BY <1>7, AishAlone DEF Ends
  <2> QED BY <1>7, <2>1, <2>2, SaysIs DEF Loop
<1>8. CASE ClearSuggestion
  <2>1. /\ UNCHANGED <<pid, pidfile, att, muted, seen>>
        /\ \/ rec = "clear pending" /\ pending' = 0 /\ rec' = "clear hint" /\ hint' = hint
           \/ rec = "clear hint" /\ hint' = 0 /\ rec' = "read" /\ pending' = pending
    BY <1>8 DEF ClearSuggestion
  <2>2. CommandSays' /\ \A S : "none" \notin S => ~At(S) /\ ~At(S)'
    BY <2>1, AishAlone DEF Injects
  <2>3. CASE rec = "clear pending"
    BY <2>1, <2>2, <2>3, SaysIs DEF Loop
  <2>4. CASE rec = "clear hint"
    BY <2>1, <2>2, <2>4, SaysIs DEF Loop
  <2> QED BY <2>1, <2>3, <2>4
<1>9. CASE WriteRest
  <2>1. UNCHANGED <<pid, pidfile, att, muted, pending, hint, seen>> /\ rec = "exit"
        /\ rec' = "remove pid"
    BY <1>9 DEF WriteRest
  <2>2. CommandSays' /\ \A S : "none" \notin S => ~At(S) /\ ~At(S)'
    BY <2>1, AishAlone DEF Ends
  <2> QED BY <2>1, <2>2, SaysIs DEF Loop
<1>10. CASE RemovePid
  <2>1. UNCHANGED <<pid, att, muted, pending, hint, seen>> /\ pidfile' = 0 /\ rec = "remove pid"
        /\ rec' = "detach"
    BY <1>10 DEF RemovePid
  <2>2. CommandSays' /\ \A S : "none" \notin S => ~At(S) /\ ~At(S)'
    BY <2>1, AishAlone DEF Ends
  <2> QED BY <2>1, <2>2, SaysIs DEF Loop
<1>11. CASE Detach
  <2>1. UNCHANGED <<pid, pidfile, muted, pending, hint>> /\ rec \in {"detach", "detached"}
    BY <1>11 DEF Detach
  <2>2. CommandSays' /\ \A S : "none" \notin S => ~At(S) /\ ~At(S)'
    BY <2>1, AishAlone DEF Ends
  <2>3. CASE rec = "detach"
    <3>1. seen' = att.muted /\ rec' = "detached" /\ att' = att
      BY <1>11, <2>3 DEF Detach
    <3>2. att = Record("attached", pid, muted)
      BY <2>2, <2>3, SaysIs
    <3>3. seen' = muted
      BY <3>1, <3>2 DEF Record
    <3> QED BY <2>1, <2>2, <2>3, <3>1, <3>2, <3>3, SaysIs DEF Loop
  <2>4. CASE rec = "detached"
    <3>1. att' = Record("detached", 0, seen) /\ rec' = "done"
      BY <1>11, <2>4 DEF Detach
    <3>2. seen = muted
      BY <2>4, SaysIs
    <3>3. att' = Record("detached", 0, muted')
      BY <2>1, <3>1, <3>2
    <3> QED BY <2>1, <2>2, <2>4, <3>1, <3>3, SaysIs DEF Loop
  <2> QED BY <2>1, <2>3, <2>4
<1>12. CASE StartAish
  <2>1. UNCHANGED <<pidfile, att, muted, pending, hint>> /\ rec' = "publish"
        /\ rec \in {"off", "done", "dead"} /\ pid' = pid + 1
    BY <1>12 DEF StartAish, Alive
  <2>2. CommandSays' /\ \A S : "none" \notin S => ~At(S) /\ ~At(S)'
    BY <2>1, AishAlone DEF Starts
  <2>3. pid' # 0
    BY <1>0, <2>1
  <2> QED BY <2>1, <2>2, <2>3, SaysIs DEF Loop
<1> QED BY <1>1, <1>2, <1>3, <1>4, <1>5, <1>6, <1>7, <1>8, <1>9, <1>10, <1>11, <1>12
        DEF Recorder

\* The step of the one command that is under way.
LEMMA CommandAgrees ==
    ASSUME Shape, NEW c \in Commanders, RecorderSays,
           rec \in (Loop \ Injects) \cup {"off", "done"},
           rec' = rec, pid' = pid, pidfile' = pidfile,
           \A d \in Commanders : d # c => cmd'[d] = NoCommand,
           CommandIs(c)',
           cmd'[c].at \notin {"read pid", "load", "save"} =>
             /\ rec \in Loop => att' = Record("attached", pid, muted')
             /\ rec = "done" => att' = Record("detached", 0, muted'),
           rec = "off" => att' = NoRecord,
           cmd'[c].at \notin {"clear hint", "hint"} => pending' = hint',
           cmd'[c].at = "clear hint" => pending' = 0
    PROVE  RecorderSays' /\ CommandSays'
<1>1. NoCommand.at = "none"
  BY DEF NoCommand
<1>2. \A S : "none" \notin S => (At(S)' <=> cmd'[c].at \in S)
  BY <1>1, AtIs
<1>3. CommandSays'
  <2>1. \A d \in Commanders : d # c => CommandIs(d)'
    BY <1>1 DEF CommandIs
  <2> QED BY <2>1, CommandSaysIs
<1>4. /\ At({"read pid", "load", "save"})' <=> cmd'[c].at \in {"read pid", "load", "save"}
      /\ At({"clear hint", "hint"})' <=> cmd'[c].at \in {"clear hint", "hint"}
      /\ At({"clear hint"})' <=> cmd'[c].at = "clear hint"
  <2>1. /\ "none" \notin {"read pid", "load", "save"} /\ "none" \notin {"clear hint", "hint"}
        /\ "none" \notin {"clear hint"}
    OBVIOUS
  <2>2. At({"read pid", "load", "save"})' <=> cmd'[c].at \in {"read pid", "load", "save"}
    BY <1>2, <2>1
  <2>3. At({"clear hint", "hint"})' <=> cmd'[c].at \in {"clear hint", "hint"}
    BY <1>2, <2>1
  <2>4. At({"clear hint"})' <=> cmd'[c].at \in {"clear hint"}
    BY <1>2, <2>1
  <2> QED BY <2>2, <2>3, <2>4
<1>5. /\ rec \notin {"dead", "attached", "detached", "clear hint"}
      /\ rec \in Loop \cup {"exit", "remove pid", "detach", "detached"} => rec \in Loop
  BY DEF Loop, Injects
<1>6. /\ pid = 0 <=> rec = "off"
      /\ pidfile = IF rec \in {"off", "publish", "detach", "detached", "done"} THEN 0 ELSE pid
  BY SaysIs
<1> QED BY <1>3, <1>4, <1>5, <1>6, SaysIs

\* What is known while one command is under way.
LEMMA CommandKnows ==
    ASSUME Shape, Alone, RecorderSays, CommandSays, NEW c \in Commanders, cmd[c] # NoCommand
    PROVE  /\ rec \in (Loop \ Injects) \cup {"off", "done"} /\ CommandIs(c)
           /\ \A d \in Commanders : d # c => cmd[d] = NoCommand
           /\ pid \in Nat /\ cmd[c] \in CommandStates
           /\ rec \in Loop => pidfile = pid /\ pid # 0
           /\ rec \notin Loop => pidfile = 0
           /\ cmd[c].at \notin {"read pid", "load", "save"} =>
                /\ rec \in Loop => att = Record("attached", pid, muted)
                /\ rec = "done" => att = Record("detached", 0, muted)
           /\ rec = "off" => att = NoRecord
           /\ cmd[c].at \notin {"clear hint", "hint"} => pending = hint
           /\ cmd[c].at = "clear hint" => pending = 0
           /\ cmd \in [Commanders -> CommandStates]
<1>1. NoCommand.at = "none"
  BY DEF NoCommand
<1>2. \A d \in Commanders : d # c => cmd[d] = NoCommand
  BY DEF Alone
<1>3. \A S : "none" \notin S => (At(S) <=> cmd[c].at \in S)
  BY <1>1, <1>2, AtIs
<1>4. /\ At({"read pid", "load", "save"}) <=> cmd[c].at \in {"read pid", "load", "save"}
      /\ At({"clear hint", "hint"}) <=> cmd[c].at \in {"clear hint", "hint"}
      /\ At({"clear hint"}) <=> cmd[c].at = "clear hint"
  <2>1. /\ "none" \notin {"read pid", "load", "save"} /\ "none" \notin {"clear hint", "hint"}
        /\ "none" \notin {"clear hint"}
    OBVIOUS
  <2>2. At({"read pid", "load", "save"}) <=> cmd[c].at \in {"read pid", "load", "save"}
    BY <1>3, <2>1
  <2>3. At({"clear hint", "hint"}) <=> cmd[c].at \in {"clear hint", "hint"}
    BY <1>3, <2>1
  <2>4. At({"clear hint"}) <=> cmd[c].at \in {"clear hint"}
    BY <1>3, <2>1
  <2> QED BY <2>2, <2>3, <2>4
<1>5. CommandIs(c)
  BY CommandSaysIs
<1>6. rec \in (Loop \ Injects) \cup {"off", "done"}
  BY <1>5 DEF CommandIs
<1>7. pid \in Nat /\ cmd[c] \in CommandStates /\ cmd \in [Commanders -> CommandStates]
  BY PidsAre DEF Shape, CommandShape
<1>8. /\ rec \in Loop => rec \notin {"off", "publish", "detach", "detached", "done"}
      /\ rec \in Loop => rec # "clear hint"
      /\ rec \notin Loop => rec \in {"off", "done"}
  BY <1>6 DEF Loop, Injects
<1>9. /\ rec \in Loop => pidfile = pid /\ pid # 0
      /\ rec \notin Loop => pidfile = 0
  BY <1>8, SaysIs
<1>10. /\ cmd[c].at \notin {"clear hint", "hint"} => pending = hint
       /\ cmd[c].at = "clear hint" => pending = 0
  BY <1>4, <1>8, SaysIs
<1> QED BY <1>2, <1>4, <1>5, <1>6, <1>7, <1>9, <1>10, SaysIs

\* Records by their fields.
LEMMA RecordIs ==
    /\ \A s, p, m : /\ Record(s, p, m).status = s /\ Record(s, p, m).pid = p
                    /\ Record(s, p, m).muted = m
    /\ NoRecord.status = "none"
    /\ \A p, m : Record("attached", p, m) # NoRecord /\ Record("detached", p, m) # NoRecord
<1>1. \A s, p, m : /\ Record(s, p, m).status = s /\ Record(s, p, m).pid = p
                   /\ Record(s, p, m).muted = m
  BY DEF Record
<1>2. NoRecord.status = "none"
  BY DEF NoRecord
<1>3. ASSUME NEW p, NEW m
      PROVE  Record("attached", p, m) # NoRecord /\ Record("detached", p, m) # NoRecord
  <2>1. Record("attached", p, m).status = "attached" /\ Record("detached", p, m).status = "detached"
    BY <1>1
  <2> QED BY <1>2, <2>1
<1> QED BY <1>1, <1>2, <1>3

\* A command that has ended.
LEMMA ReturnIs ==
    ASSUME NEW c \in Commanders, cmd'[c] = NoCommand
    PROVE  CommandIs(c)' /\ cmd'[c].at = "none"
  BY DEF CommandIs, NoCommand

\* mute, and the beginning of unmute.
LEMMA MuteAgrees ==
    ASSUME Shape, Alone, RecorderSays, CommandSays, NEW c \in Commanders, cmd[c] # NoCommand,
           \A d \in Commanders : d # c => cmd'[d] = cmd[d],
           MuteFlag(c) \/ ReadPid(c) \/ Unmute(c)
    PROVE  RecorderSays' /\ CommandSays'
<1>0. /\ rec \in (Loop \ Injects) \cup {"off", "done"} /\ CommandIs(c)
      /\ \A d \in Commanders : d # c => cmd'[d] = NoCommand
      /\ rec \in Loop => pidfile = pid /\ pid # 0
      /\ rec \notin Loop => pidfile = 0
      /\ cmd[c].at \notin {"read pid", "load", "save"} =>
           /\ rec \in Loop => att = Record("attached", pid, muted)
           /\ rec = "done" => att = Record("detached", 0, muted)
      /\ rec = "off" => att = NoRecord
      /\ cmd[c].at \notin {"clear hint", "hint"} => pending = hint
      /\ cmd \in [Commanders -> CommandStates]
  BY CommandKnows
<1>1. /\ rec' = rec /\ pid' = pid /\ pidfile' = pidfile /\ att' = att /\ pending' = pending
      /\ hint' = hint
  BY DEF MuteFlag, ReadPid, Unmute
<1>2. CASE MuteFlag(c)
  <2>1. cmd[c].at = "begin"
    BY <1>2 DEF MuteFlag
  <2>2. CASE pidfile = 0
    <3>1. cmd'[c] = NoCommand /\ muted' = muted
      BY <1>0, <1>2, <2>2 DEF MuteFlag, Return
    <3> QED BY <1>0, <1>1, <2>1, <3>1, ReturnIs, CommandAgrees
  <2>3. CASE pidfile # 0
    <3>1. cmd'[c].at = "read pid" /\ muted' = TRUE
      BY <1>0, <1>2, <2>3 DEF MuteFlag, Goto, CommandStates
    <3>2. rec' \in Loop \ Injects
      BY <1>0, <1>1, <2>3 DEF Loop
    <3>3. CommandIs(c)'
      BY <3>1, <3>2 DEF CommandIs
    <3> QED BY <1>0, <1>1, <2>1, <3>1, <3>3, CommandAgrees
  <2> QED BY <2>2, <2>3
<1>3. CASE ReadPid(c)
  <2>1. cmd[c].at = "read pid" /\ muted' = muted
    BY <1>3 DEF ReadPid
  <2>2. muted /\ muted \in BOOLEAN /\ rec \in Loop /\ pidfile = pid /\ pid # 0
    BY <1>0, <2>1 DEF CommandIs, Shape, CommandShape
  <2>3. cmd' = [cmd EXCEPT ![c].at = "save", ![c].att = Record("attached", pid, TRUE)]
    BY <1>3, <2>2 DEF ReadPid
  <2>4. cmd'[c].at = "save" /\ cmd'[c].att = Record("attached", pid, TRUE)
    <3>1. cmd \in [Commanders -> CommandStates]
      BY <1>0
    <3>2. PICK x : x = cmd[c] /\ x \in CommandStates
      BY <3>1
    <3>3. cmd'[c] = [x EXCEPT !.at = "save", !.att = Record("attached", pid, TRUE)]
      BY <2>3, <3>1, <3>2
    <3> QED BY <3>2, <3>3 DEF CommandStates
  <2>5. muted' = TRUE
    BY <2>1, <2>2
  <2>6. cmd'[c].att = Record("attached", pid', muted')
    BY <1>1, <2>4, <2>5
  <2>7. rec' \in Loop \ Injects /\ rec' # "off" /\ rec' # "done"
    BY <1>0, <1>1, <2>2 DEF Loop
  <2>8. CommandIs(c)'
    BY <2>4, <2>6, <2>7 DEF CommandIs
  <2> QED BY <1>0, <1>1, <2>1, <2>4, <2>7, <2>8, CommandAgrees
<1>4. CASE Unmute(c)
  <2>1. cmd[c].at = "begin" /\ muted' = FALSE /\ cmd'[c].at = "load"
    BY <1>0, <1>4 DEF Unmute, Goto, CommandStates
  <2>2. /\ rec' \in Loop => att'.status = "attached" /\ att'.pid = pid'
        /\ rec' = "done" => att'.status = "detached" /\ att'.pid = 0
    BY <1>0, <1>1, <2>1, RecordIs
  <2>3. rec' \in (Loop \ Injects) \cup {"off", "done"}
    BY <1>0, <1>1
  <2>4. CommandIs(c)'
    BY <2>1, <2>2, <2>3 DEF CommandIs
  <2> QED BY <1>0, <1>1, <2>1, <2>4, CommandAgrees
<1> QED BY <1>2, <1>3, <1>4

\* The rest of unmute, and the save of both.
LEMMA SaveAgrees ==
    ASSUME Shape, Alone, RecorderSays, CommandSays, NEW c \in Commanders, cmd[c] # NoCommand,
           \A d \in Commanders : d # c => cmd'[d] = cmd[d],
           LoadRecord(c) \/ SaveRecord(c)
    PROVE  RecorderSays' /\ CommandSays'
<1>0. /\ rec \in (Loop \ Injects) \cup {"off", "done"} /\ CommandIs(c)
      /\ \A d \in Commanders : d # c => cmd'[d] = NoCommand
      /\ rec = "off" => att = NoRecord
      /\ cmd[c].at \notin {"clear hint", "hint"} => pending = hint
      /\ cmd \in [Commanders -> CommandStates]
  BY CommandKnows
<1>1. /\ rec' = rec /\ pid' = pid /\ pidfile' = pidfile /\ muted' = muted /\ pending' = pending
      /\ hint' = hint
  BY DEF LoadRecord, SaveRecord
<1>5. muted \in BOOLEAN /\ att \in Records
  BY DEF Shape, CommandShape
<1>6. \A s, p : Record(s, p, muted') = Record(s, p, muted)
  BY <1>1, Zenon
<1>2. CASE LoadRecord(c)
  <2>1. cmd[c].at = "load" /\ att' = att
    BY <1>2 DEF LoadRecord
  <2>2. /\ ~muted
        /\ rec \in Loop => att.status = "attached" /\ att.pid = pid
        /\ rec = "done" => att.status = "detached" /\ att.pid = 0
    BY <1>0, <2>1 DEF CommandIs
  <2>3. CASE att = NoRecord
    <3>1. cmd'[c] = NoCommand
      BY <1>0, <1>2, <2>3 DEF LoadRecord
    <3>2. rec \notin Loop /\ rec # "done"
      BY <2>2, <2>3, RecordIs
    <3> QED BY <1>0, <1>1, <2>1, <2>3, <3>1, <3>2, ReturnIs, CommandAgrees
  <2>4. CASE att # NoRecord
    <3>1. cmd'[c].at = "save" /\ cmd'[c].att = [att EXCEPT !.muted = FALSE]
      <4> DEFINE r == [att EXCEPT !.muted = FALSE]
      <4>1. cmd' = [cmd EXCEPT ![c].at = "save", ![c].att = r]
        BY <1>2, <2>4 DEF LoadRecord
      <4> HIDE DEF r
      <4>2. cmd \in [Commanders -> CommandStates]
        BY <1>0
      <4>3. PICK x : x = cmd[c] /\ x \in CommandStates
        BY <4>2
      <4>4. cmd'[c] = [x EXCEPT !.at = "save", !.att = r]
        BY <4>1, <4>2, <4>3
      <4>5. cmd'[c].at = "save" /\ cmd'[c].att = r
        BY <4>3, <4>4 DEF CommandStates
      <4> QED BY <4>5 DEF r
    <3>2. [att EXCEPT !.muted = FALSE] = Record(att.status, att.pid, FALSE)
      <4> DEFINE r == [att EXCEPT !.muted = FALSE]
                 q == [status |-> att.status, pid |-> att.pid, muted |-> FALSE]
      <4>1. r \in Records /\ r.status = att.status /\ r.pid = att.pid /\ r.muted = FALSE
        BY <1>5 DEF Records
      <4>2. q \in Records /\ q.status = att.status /\ q.pid = att.pid /\ q.muted = FALSE
        BY <1>5 DEF Records
      <4> HIDE DEF r, q
      <4>3. r = q
        BY <4>1, <4>2 DEF Records
      <4> QED BY <4>3 DEF r, q, Record
    <3>3. muted = FALSE
      BY <1>5, <2>2
    <3>4. cmd'[c].att = Record(att.status, att.pid, muted')
      BY <1>1, <3>1, <3>2, <3>3
    <3>5. /\ rec' # "off"
          /\ rec' \in Loop => cmd'[c].att = Record("attached", pid', muted')
          /\ rec' = "done" => cmd'[c].att = Record("detached", 0, muted')
      BY <1>0, <1>1, <2>2, <2>4, <3>4
    <3>6. rec' \in (Loop \ Injects) \cup {"off", "done"}
      BY <1>0, <1>1
    <3>7. CommandIs(c)'
      BY <3>1, <3>5, <3>6 DEF CommandIs
    <3> QED BY <1>0, <1>1, <2>1, <2>4, <3>1, <3>7, CommandAgrees
  <2> QED BY <2>3, <2>4
<1>3. CASE SaveRecord(c)
  <2>1. cmd[c].at = "save" /\ att' = cmd[c].att /\ cmd'[c] = NoCommand
    BY <1>0, <1>3 DEF SaveRecord, Return
  <2>2. /\ rec # "off"
        /\ rec \in Loop => att' = Record("attached", pid, muted)
        /\ rec = "done" => att' = Record("detached", 0, muted)
    BY <1>0, <2>1 DEF CommandIs
  <2>3. /\ rec \in Loop => att' = Record("attached", pid, muted')
        /\ rec = "done" => att' = Record("detached", 0, muted')
    BY <1>6, <2>2
  <2> QED BY <1>0, <1>1, <2>1, <2>2, <2>3, ReturnIs, CommandAgrees
<1> QED BY <1>2, <1>3

\* rollout and truncate_console_log: the signal goes to the recorder that runs.
LEMMA SignalAgrees ==
    ASSUME Shape, Alone, RecorderSays, CommandSays, ~stray,
           NEW c \in Commanders, cmd[c] # NoCommand,
           \A d \in Commanders : d # c => cmd'[d] = cmd[d],
           Resolve(c) \/ SendSignal(c)
    PROVE  RecorderSays' /\ CommandSays' /\ ~stray'
<1>0. /\ rec \in (Loop \ Injects) \cup {"off", "done"} /\ CommandIs(c)
      /\ \A d \in Commanders : d # c => cmd'[d] = NoCommand
      /\ rec \in Loop => pidfile = pid /\ pid # 0
      /\ rec \notin Loop => pidfile = 0
      /\ cmd[c].at \notin {"read pid", "load", "save"} =>
           /\ rec \in Loop => att = Record("attached", pid, muted)
           /\ rec = "done" => att = Record("detached", 0, muted)
      /\ rec = "off" => att = NoRecord
      /\ cmd[c].at \notin {"clear hint", "hint"} => pending = hint
      /\ cmd \in [Commanders -> CommandStates]
  BY CommandKnows
<1>1. /\ rec' = rec /\ pid' = pid /\ pidfile' = pidfile /\ att' = att /\ pending' = pending
      /\ hint' = hint /\ muted' = muted
  BY DEF Resolve, SendSignal
<1>6. \A s, p : Record(s, p, muted') = Record(s, p, muted)
  BY <1>1, Zenon
<1>2. CASE Resolve(c)
  <2>1. cmd[c].at = "begin" /\ stray' = stray
    BY <1>2 DEF Resolve
  <2>2. /\ rec \in Loop => Attachment = pid
        /\ rec \notin Loop => Attachment = 0
    BY <1>0, <2>1, RecordIs DEF Attachment
  <2>3. ~stray'
    BY <2>1
  <2>4. CASE Attachment = 0
    <3>1. cmd'[c] = NoCommand
      BY <1>0, <1>2, <2>4 DEF Resolve
    <3>2. /\ rec \in Loop => att' = Record("attached", pid, muted')
          /\ rec = "done" => att' = Record("detached", 0, muted')
      BY <1>0, <1>1, <1>6, <2>1
    <3> QED BY <1>0, <1>1, <2>1, <2>3, <3>1, <3>2, ReturnIs, CommandAgrees
  <2>5. CASE Attachment # 0
    <3>1. cmd'[c].at = "signal" /\ cmd'[c].pid = Attachment
      <4>1. cmd' = [cmd EXCEPT ![c].at = "signal", ![c].pid = Attachment]
        BY <1>2, <2>5 DEF Resolve
      <4>2. cmd \in [Commanders -> CommandStates]
        BY <1>0
      <4>3. PICK x : x = cmd[c] /\ x \in CommandStates
        BY <4>2
      <4>4. cmd'[c] = [x EXCEPT !.at = "signal", !.pid = Attachment]
        BY <4>1, <4>2, <4>3
      <4> QED BY <4>3, <4>4 DEF CommandStates
    <3>2. rec' \in Loop \ Injects /\ cmd'[c].pid = pid'
      BY <1>0, <1>1, <2>2, <2>5, <3>1 DEF Loop
    <3>3. CommandIs(c)'
      BY <3>1, <3>2 DEF CommandIs
    <3>4. /\ rec \in Loop => att' = Record("attached", pid, muted')
          /\ rec = "done" => att' = Record("detached", 0, muted')
      BY <1>0, <1>1, <1>6, <2>1
    <3> QED BY <1>0, <1>1, <2>1, <2>3, <3>1, <3>3, <3>4, CommandAgrees
  <2> QED BY <2>4, <2>5
<1>3. CASE SendSignal(c)
  <2>1. cmd[c].at = "signal" /\ cmd'[c] = NoCommand
    BY <1>0, <1>3 DEF SendSignal, Return
  <2>2. rec \in Loop /\ cmd[c].pid = pid
    BY <1>0, <2>1 DEF CommandIs
  <2>3. Alive
    BY <2>2 DEF Loop, Alive
  <2>4. ~stray'
    BY <1>3, <2>2, <2>3 DEF SendSignal
  <2>5. /\ rec \in Loop => att' = Record("attached", pid, muted')
        /\ rec = "done" => att' = Record("detached", 0, muted')
    BY <1>0, <1>1, <1>6, <2>1
  <2> QED BY <1>0, <1>1, <2>1, <2>4, <2>5, ReturnIs, CommandAgrees
<1> QED BY <1>2, <1>3

\* clear, and the tool that queues a suggestion.
LEMMA SuggestAgrees ==
    ASSUME Shape, Alone, RecorderSays, CommandSays, NEW c \in Commanders, cmd[c] # NoCommand,
           \A d \in Commanders : d # c => cmd'[d] = cmd[d],
           ClearParts(c) \/ ClearFiles(c) \/ Queue(c)
    PROVE  RecorderSays' /\ CommandSays'
<1>0. /\ rec \in (Loop \ Injects) \cup {"off", "done"} /\ CommandIs(c)
      /\ \A d \in Commanders : d # c => cmd'[d] = NoCommand
      /\ cmd[c].at \notin {"read pid", "load", "save"} =>
           /\ rec \in Loop => att = Record("attached", pid, muted)
           /\ rec = "done" => att = Record("detached", 0, muted)
      /\ rec = "off" => att = NoRecord
      /\ cmd[c].at \notin {"clear hint", "hint"} => pending = hint
      /\ cmd[c].at = "clear hint" => pending = 0
      /\ cmd \in [Commanders -> CommandStates]
  BY CommandKnows
<1>1. /\ rec' = rec /\ pid' = pid /\ pidfile' = pidfile /\ att' = att /\ muted' = muted
  BY DEF ClearParts, ClearFiles, Queue
<1>2. cmd[c].at \in {"begin", "clear pending", "clear hint", "hint"}
  BY DEF ClearParts, ClearFiles, Queue
<1>3. /\ rec \in Loop => att' = Record("attached", pid, muted')
      /\ rec = "done" => att' = Record("detached", 0, muted')
      /\ rec = "off" => att' = NoRecord
  <2>1. \A s, p : Record(s, p, muted') = Record(s, p, muted)
    BY <1>1, Zenon
  <2> QED BY <1>0, <1>1, <1>2, <2>1
<1>4. \/ cmd'[c] = NoCommand /\ pending' = hint'
      \/ cmd'[c].at = "clear pending" /\ pending' = hint'
      \/ cmd'[c].at = "clear hint" /\ pending' = 0
      \/ cmd'[c].at = "hint" /\ pending' = cmd'[c].pid
  <2>1. CASE ClearParts(c)
    BY <1>0, <2>1 DEF ClearParts, Goto, CommandStates
  <2>2. CASE ClearFiles(c)
    BY <1>0, <2>2, ZenonT(40) DEF ClearFiles, Goto, Return, CommandStates
  <2>3. CASE Queue(c)
    <3>1. cmd[c].at = "hint" => pending = cmd[c].pid
      BY <1>0 DEF CommandIs
    <3> QED BY <1>0, <2>3, <3>1 DEF Queue, Goto, Return, CommandStates
  <2> QED BY <2>1, <2>2, <2>3
<1>5. CASE cmd'[c] = NoCommand /\ pending' = hint'
  BY <1>0, <1>1, <1>3, <1>5, ReturnIs, CommandAgrees
<1>6. CASE \/ cmd'[c].at = "clear pending" /\ pending' = hint'
           \/ cmd'[c].at = "clear hint" /\ pending' = 0
           \/ cmd'[c].at = "hint" /\ pending' = cmd'[c].pid
  <2>1. rec' \in (Loop \ Injects) \cup {"off", "done"}
    BY <1>0, <1>1
  <2>2. CommandIs(c)'
    BY <1>6, <2>1 DEF CommandIs
  <2> QED BY <1>0, <1>1, <1>3, <1>6, <2>2, CommandAgrees
<1> QED BY <1>4, <1>5, <1>6

\* A command begins when nothing else is under way.
LEMMA BeginAgrees ==
    ASSUME Shape, RecorderSays, Alone', NEW kind \in bound.kinds, BeginCommand(kind),
           bound' = bound
    PROVE  RecorderSays' /\ CommandSays'
<1>1. PICK c \in Commanders :
        /\ cmd[c] = NoCommand
        /\ cmd'[c] = [at |-> "begin", kind |-> kind, pid |-> commands + 1, att |-> NoRecord]
        /\ \A d \in Commanders : d # c => cmd'[d] = cmd[d]
  BY CommandBegins
<1>2. cmd'[c].at = "begin" /\ NoCommand.at = "none"
  BY <1>1 DEF NoCommand
<1>3. /\ rec' \notin Starts \cup Ends \cup Injects
      /\ \A d \in Commanders : d # c => cmd'[d] = NoCommand /\ cmd[d] = NoCommand
  BY <1>1, <1>2 DEF Alone
<1>4. NobodyBusy
  BY <1>1, <1>3 DEF NobodyBusy
<1>5. \A S : "none" \notin S => ~At(S)
  BY <1>4, NobodyAt
<1>6. /\ rec' = rec /\ pid' = pid /\ pidfile' = pidfile /\ att' = att /\ muted' = muted
      /\ pending' = pending /\ hint' = hint
  BY DEF BeginCommand
<1>7. rec \in (Loop \ Injects) \cup {"off", "done"}
  <2>1. rec \in Places /\ rec # "dead"
    BY OutputParts, SaysIs DEF Shape, Machine
  <2> QED BY <1>3, <1>6, <2>1 DEF Places, Loop, Injects, Starts, Ends
<1>8. CommandIs(c)'
  BY <1>2, <1>6, <1>7 DEF CommandIs
<1>9. /\ rec \in Loop => att = Record("attached", pid, muted)
      /\ rec = "done" => att = Record("detached", 0, muted)
      /\ rec = "off" => att = NoRecord
      /\ pending = hint
  <2>1. ~At({"read pid", "load", "save"}) /\ ~At({"clear hint", "hint"})
    <3>1. "none" \notin {"read pid", "load", "save"} /\ "none" \notin {"clear hint", "hint"}
      OBVIOUS
    <3> QED BY <1>5, <3>1
  <2>2. rec # "clear hint"
    BY <1>7 DEF Loop, Injects
  <2> QED BY <2>1, <2>2, SaysIs
<1>10. \A s, p : Record(s, p, muted') = Record(s, p, muted)
  BY <1>6, Zenon
<1>11. /\ rec \in Loop => att' = Record("attached", pid, muted')
       /\ rec = "done" => att' = Record("detached", 0, muted')
       /\ rec = "off" => att' = NoRecord
       /\ pending' = hint'
  BY <1>6, <1>9, <1>10
<1> QED BY <1>2, <1>3, <1>6, <1>7, <1>8, <1>11, CommandAgrees

\* What the agreement does not speak of may change.
LEMMA NothingSaid ==
    ASSUME Shape, RecorderSays, CommandSays,
           UNCHANGED <<rec, pid, pidfile, att, muted, seen, pending, hint, cmd>>
    PROVE  RecorderSays' /\ CommandSays'
<1>1. RecorderSays'
  BY DEF RecorderSays, At
<1>2. CommandSays'
  BY DEF CommandSays
<1> QED BY <1>1, <1>2

\* The agreement is inductive.
LEMMA AgreementKept == Shape /\ Agreement /\ [Next]_vars => Agreement'
<1> SUFFICES ASSUME Shape, Agreement, [Next]_vars, ~overlap', faults' = 0
             PROVE  Alone' /\ RecorderSays' /\ CommandSays' /\ ~stray'
  BY DEF Agreement
<1>1. /\ bound' = bound
      /\ Alone /\ RecorderSays /\ CommandSays /\ ~stray
      /\ Alone'
      /\ ~LogFails /\ ~Killed
  BY NoOverlap
<1>2. CASE Recorder \/ StartAish
  <2>1. cmd' = cmd
    BY <1>1, <1>2, OthersKeepCommands DEF Shape, World
  <2>2. RecorderSays' /\ CommandSays'
    BY <1>1, <1>2, <2>1, RecorderAgrees
  <2>3. stray' = stray
    <3>1. CASE Publish \/ Attach \/ Attached \/ CheckSignals \/ HandleEvent
      BY <3>1 DEF Publish, Attach, Attached, CheckSignals, HandleEvent
    <3>2. CASE WriteConsole \/ Rollover \/ Truncate \/ Poll \/ Inject
      BY <3>2 DEF WriteConsole, Rollover, Truncate, Poll, Inject
    <3>3. CASE ClearSuggestion \/ Read \/ WriteRest \/ RemovePid \/ Detach \/ StartAish
      BY <3>3 DEF ClearSuggestion, Read, WriteRest, RemovePid, Detach, StartAish
    <3> QED BY <1>2, <3>1, <3>2, <3>3 DEF Recorder
  <2> QED BY <1>1, <2>2, <2>3
<1>3. CASE Emit \/ Prompt \/ ShellExits \/ PressAltS
  <2>1. UNCHANGED <<rec, pid, pidfile, att, muted, seen, pending, hint, cmd>> /\ stray' = stray
    BY <1>3 DEF Emit, Prompt, ShellExits, PressAltS
  <2> QED BY <1>1, <2>1, NothingSaid
<1>4. ASSUME NEW c \in Commanders, Command(c)
      PROVE  RecorderSays' /\ CommandSays' /\ ~stray'
  <2>1. cmd[c] # NoCommand
    <3>1. cmd[c].at \in {"begin", "read pid", "load", "save", "signal", "clear pending",
                         "clear hint", "hint"}
      BY <1>4 DEF Command, MuteFlag, ReadPid, Unmute, LoadRecord, SaveRecord, Resolve,
                  SendSignal, ClearParts, ClearFiles, Queue
    <3>2. NoCommand.at = "none"
      BY DEF NoCommand
    <3> QED BY <3>1, <3>2
  <2>2. \A d \in Commanders : d # c => cmd'[d] = cmd[d]
    BY <1>1, <1>4, CommandMoves DEF Shape
  <2>3. CASE MuteFlag(c) \/ ReadPid(c) \/ Unmute(c)
    <3>1. stray' = stray
      BY <2>3 DEF MuteFlag, ReadPid, Unmute
    <3> QED BY <1>1, <2>1, <2>2, <2>3, <3>1, MuteAgrees
  <2>4. CASE LoadRecord(c) \/ SaveRecord(c)
    <3>1. stray' = stray
      BY <2>4 DEF LoadRecord, SaveRecord
    <3> QED BY <1>1, <2>1, <2>2, <2>4, <3>1, SaveAgrees
  <2>5. CASE Resolve(c) \/ SendSignal(c)
    BY <1>1, <2>1, <2>2, <2>5, SignalAgrees
  <2>6. CASE ClearParts(c) \/ ClearFiles(c) \/ Queue(c)
    <3>1. stray' = stray
      BY <2>6 DEF ClearParts, ClearFiles, Queue
    <3> QED BY <1>1, <2>1, <2>2, <2>6, <3>1, SuggestAgrees
  <2> QED BY <1>4, <2>3, <2>4, <2>5, <2>6 DEF Command
<1>5. ASSUME NEW kind \in bound.kinds, BeginCommand(kind)
      PROVE  RecorderSays' /\ CommandSays' /\ ~stray'
  <2>1. stray' = stray
    BY <1>5 DEF BeginCommand
  <2> QED BY <1>1, <1>5, <2>1, BeginAgrees
<1>6. CASE UNCHANGED vars
  <2>1. UNCHANGED <<rec, pid, pidfile, att, muted, seen, pending, hint, cmd>> /\ stray' = stray
    BY <1>6 DEF vars
  <2> QED BY <1>1, <2>1, NothingSaid
<1> QED BY <1>1, <1>2, <1>3, <1>4, <1>5, <1>6 DEF Next, World

\* No recorder runs and there is no record.
LEMMA AgreementInitially == Init => Agreement
<1> SUFFICES ASSUME Init PROVE Alone /\ RecorderSays /\ CommandSays /\ ~stray
  BY DEF Agreement
<1>1. NobodyBusy
  BY DEF Init, NobodyBusy
<1>2. CommandSays /\ \A S : "none" \notin S => ~At(S)
  BY <1>1, NobodyAt
<1>3. ~At({"clear hint"})
  BY <1>2
<1>4. /\ rec = "off" /\ pid = 0 /\ pidfile = 0 /\ att = NoRecord /\ pending = 0 /\ hint = 0
      /\ ~stray
  BY Zenon DEF Init
<1>5. RecorderSays
  BY <1>3, <1>4, SaysIs DEF Loop
<1>6. Alone
  BY <1>1 DEF Alone, NobodyBusy
<1> QED BY <1>2, <1>4, <1>5, <1>6

\* When nothing is under way, and nothing has overlapped, the files that speak of the
\* same thing agree, and no signal went to another process.
THEOREM FilesAgree == Spec => []RecordsAgree
<1>1. Init => Shape /\ Agreement
  BY ShapeInitially, AgreementInitially
<1>2. Shape /\ Agreement /\ [Next]_vars => (Shape /\ Agreement)'
  BY ShapeKept, AgreementKept
<1>3. Shape /\ Agreement => RecordsAgree
  <2> SUFFICES ASSUME Shape, Agreement, Busy = {}, ~overlap, faults = 0
               PROVE  /\ Alive => pidfile = pid /\ att = Record("attached", pid, muted)
                      /\ rec = "done" => pidfile = 0 /\ att = Record("detached", 0, muted)
                      /\ pending = hint
                      /\ ~stray
    BY DEF RecordsAgree
  <2>1. RecorderSays /\ CommandSays /\ ~stray
    BY DEF Agreement
  <2>2. rec \notin Starts \cup Ends \cup Injects /\ NobodyBusy
    BY DEF Busy, Idlers, Injects, NobodyBusy
  <2>3. \A S : "none" \notin S => ~At(S)
    BY <2>2, NobodyAt
  <2>4. ~At({"read pid", "load", "save"}) /\ ~At({"clear hint", "hint"})
    <3>1. "none" \notin {"read pid", "load", "save"} /\ "none" \notin {"clear hint", "hint"}
      OBVIOUS
    <3> QED BY <2>3, <3>1
  <2>5. rec \in Places
    BY OutputParts DEF Shape, Machine
  <2>6. rec # "clear hint" /\ (Alive => rec \in Loop)
    BY <2>2, <2>5 DEF Places, Loop, Injects, Starts, Ends, Alive
  <2>7. rec \in Loop => rec \notin {"off", "publish", "detach", "detached", "done"}
    BY DEF Loop
  <2> QED BY <2>1, <2>4, <2>6, <2>7, SaysIs
<1> QED BY <1>1, <1>2, <1>3, PTL DEF Spec

-----------------------------------------------------------------------------
\* The keys at the front that are Alt+S

Pairs(chunk) ==
    {k \in 1..Len(chunk) : \A j \in 1..k : 2*j - 1 < Len(chunk) /\ AltSAt(chunk, 2*j - 1)}

\* They are an even number, and each is the first or the second of an Alt+S.
LEMMA FrontAre ==
    ASSUME NEW S, NEW chunk \in Seq(S)
    PROVE  /\ FrontKeys(chunk) \in 0..Len(chunk)
           /\ \A k \in 1..FrontKeys(chunk) :
                 \E j \in {k - 1, k} : j \in 1..(FrontKeys(chunk) - 1) /\ AltSAt(chunk, j)
<1>1. PICK L : L = Len(chunk) /\ L \in Nat
  OBVIOUS
<1>2. PICK P : P = Pairs(chunk)
  OBVIOUS
<1>3. P \in SUBSET (1..L)
  BY <1>1, <1>2 DEF Pairs
<1>4. PICK m \in 0..L : P = 1..m
  <2>1. CASE P = {}
    BY <1>1, <2>1
  <2>2. CASE P # {}
    <3>1. PICK m \in P : \A k \in P : k <= m
      BY ONLY <1>1, <1>3, <2>2, LastExists
    <3>2. m \in 1..L /\ \A j \in 1..m : 2*j - 1 < L /\ AltSAt(chunk, 2*j - 1)
      BY <1>1, <1>2, <1>3 DEF Pairs
    <3>3. ASSUME NEW k \in 1..m PROVE k \in P
      <4>1. k \in 1..L /\ \A j \in 1..k : j \in 1..m
        BY <1>1, <3>2
      <4> QED BY <1>1, <1>2, <3>2, <4>1 DEF Pairs
    <3>4. P \subseteq 1..m
      <4>1. \A k \in P : k \in 1..L /\ k <= m
        BY <1>3, <3>1
      <4> QED BY <1>1, <3>2, <4>1
    <3>5. P = 1..m
      BY <3>3, <3>4
    <3> QED BY <1>1, <3>2, <3>5
  <2> QED BY <2>1, <2>2
<1>5. Cardinality(1..m) = m
  BY <1>1, FS_Interval
<1>6. FrontKeys(chunk) = 2 * m
  BY <1>2, <1>4, <1>5 DEF FrontKeys, Pairs
<1>7. \A j \in 1..m : 2*j - 1 < L /\ AltSAt(chunk, 2*j - 1)
  <2>1. CASE m = 0
    BY <2>1
  <2>2. CASE m # 0
    <3>1. m \in P
      BY <1>1, <1>4, <2>2
    <3> QED BY <1>1, <1>2, <3>1 DEF Pairs
  <2> QED BY <2>1, <2>2
<1>8. 2 * m \in 0..L
  <2>1. m = 0 \/ (m \in 1..m /\ m \in Nat)
    BY <1>1
  <2> QED BY <1>1, <1>7, <2>1
<1>9. ASSUME NEW k \in 1..(2 * m)
      PROVE  \E j \in {k - 1, k} : j \in 1..(2 * m - 1) /\ AltSAt(chunk, j)
  <2>1. PICK i \in Int : k = 2 * i - 1 \/ k = 2 * i
    <3>1. (k + 1) \div 2 \in Int /\ (k = 2 * ((k + 1) \div 2) - 1 \/ k = 2 * ((k + 1) \div 2))
      BY <1>1
    <3> QED BY <3>1
  <2>2. i \in 1..m /\ 2 * i - 1 \in {k - 1, k} /\ 2 * i - 1 \in 1..(2 * m - 1)
    BY <1>1, <2>1
  <2> QED BY <1>7, <2>2
<1> QED BY <1>1, <1>6, <1>8, <1>9

-----------------------------------------------------------------------------
\* What has been typed stands, in order, in what is forwarded, in hand and unread, but for
\* keys that are taken

Keys == [n : Nat, is : KeyKinds]
\* So many keys have been decided about.
Decided == Len(typed) - Len(held) - Len(unread)

\* Each key has its number, and what is in hand and unread are the last keys typed.
TypedInv ==
    /\ typed \in Seq(Keys) /\ held \in Seq(Keys) /\ unread \in Seq(Keys)
    /\ \A k \in 1..Len(typed) : typed[k].n = k
    /\ Decided \in Nat
    /\ \A k \in 1..Len(held) : held[k] = typed[Decided + k]
    /\ \A k \in 1..Len(unread) : unread[k] = typed[Decided + Len(held) + k]

\* The others were forwarded or taken.
Arrived(n) == \E k \in 1..Len(forwarded) : forwarded[k].n = n
ForwardedInv ==
    /\ forwarded \in Seq(Keys)
    /\ \A j, k \in 1..Len(forwarded) : j < k => forwarded[j].n < forwarded[k].n
    /\ \A k \in 1..Len(forwarded) : forwarded[k].n \in 1..Decided
    /\ taken \subseteq 1..Decided
    /\ \A n \in 1..Decided : n \in taken \/ Arrived(n)

\* Those taken are half of an Alt+S, and an escape came after one that was forwarded as well.
OfAltS(n) == \E k \in {n - 1, n} : k > 0 /\ AltSAt(typed, k)
EscapeAfter(n) == \E k \in (n + 1)..Len(typed) : typed[k].is = "esc"
TakenInv == \A n \in taken : OfAltS(n) /\ (Arrived(n) => EscapeAfter(n))

KeysInv == TypedInv /\ ForwardedInv /\ TakenInv

\* Of two lists whose numbers rise, the second with higher ones, the join rises.
ByNumber(s) == \A j, k \in 1..Len(s) : j < k => s[j].n < s[k].n
NoneAfter(s, d) == \A k \in 1..Len(s) : s[k].n <= d
AllAfter(s, d) == \A k \in 1..Len(s) : s[k].n > d

LEMMA JoinedByNumber ==
    ASSUME NEW s \in Seq(Keys), NEW t \in Seq(Keys), NEW r, r = s \o t, NEW d \in Nat,
           ByNumber(s), ByNumber(t), NoneAfter(s, d), AllAfter(t, d)
    PROVE  r \in Seq(Keys) /\ ByNumber(r)
<1>1. /\ r \in Seq(Keys) /\ Len(r) = Len(s) + Len(t)
      /\ Len(s) \in Nat /\ Len(t) \in Nat
      /\ \A i \in 1..Len(s) : r[i] = s[i]
      /\ \A i \in 1..Len(t) : r[Len(s) + i] = t[i]
  BY Joined
<1>2. \A i \in 1..Len(s) : s[i].n \in Nat
  <2>1. \A i \in 1..Len(s) : s[i] \in Keys
    OBVIOUS
  <2> QED BY <2>1 DEF Keys
<1>3. \A i \in 1..Len(t) : t[i].n \in Nat
  <2>1. \A i \in 1..Len(t) : t[i] \in Keys
    OBVIOUS
  <2> QED BY <2>1 DEF Keys
<1>4. ASSUME NEW j \in 1..Len(r), NEW k \in 1..Len(r), j < k
      PROVE  r[j].n < r[k].n
  <2>1. CASE k <= Len(s)
    <3>1. j \in 1..Len(s) /\ k \in 1..Len(s)
      BY <1>1, <1>4, <2>1
    <3> QED BY <1>1, <1>4, <3>1 DEF ByNumber
  <2>2. CASE j <= Len(s) /\ k > Len(s)
    <3>1. j \in 1..Len(s) /\ k - Len(s) \in 1..Len(t) /\ k = Len(s) + (k - Len(s))
      BY <1>1, <2>2
    <3>2. r[j] = s[j] /\ r[k] = t[k - Len(s)]
      BY <1>1, <3>1
    <3>3. s[j].n <= d /\ t[k - Len(s)].n > d
      BY <3>1 DEF NoneAfter, AllAfter
    <3>4. PICK x, y : x = s[j].n /\ y = t[k - Len(s)].n
      OBVIOUS
    <3>5. x \in Nat /\ y \in Nat
      BY <1>2, <1>3, <3>1, <3>4
    <3>6. x < y
      BY <3>3, <3>4, <3>5
    <3> QED BY <3>2, <3>4, <3>6
  <2>3. CASE j > Len(s)
    <3>1. /\ j - Len(s) \in 1..Len(t) /\ j = Len(s) + (j - Len(s))
          /\ k - Len(s) \in 1..Len(t) /\ k = Len(s) + (k - Len(s)) /\ j - Len(s) < k - Len(s)
      BY <1>1, <1>4, <2>3
    <3>2. r[j] = t[j - Len(s)] /\ r[k] = t[k - Len(s)]
      BY <1>1, <3>1
    <3>3. t[j - Len(s)].n < t[k - Len(s)].n
      BY <3>1 DEF ByNumber
    <3> QED BY <3>2, <3>3
  <2> QED BY <1>1, <2>1, <2>2, <2>3
<1> QED BY <1>1, <1>4 DEF ByNumber

\* Of the keys from Decided on the first f are taken, and those after the first `lo` are
\* forwarded: all but the taken ones, or the taken ones with an escape to come.
LEMMA PassedOn ==
    ASSUME KeysInv, TypedInv', typed' = typed,
           NEW f \in Nat, NEW lo \in Nat, NEW piece \in Seq(Keys),
           \A k \in 1..Len(piece) : piece[k].n = Decided + lo + k,
           forwarded' = forwarded \o piece,
           taken' = taken \cup ((Decided + 1)..(Decided + f)),
           \A i \in 1..f : OfAltS(Decided + i),
           \/ lo = f /\ Decided' = Decided + f + Len(piece)
           \/ lo = 0 /\ f = Len(piece) /\ Decided' = Decided + f /\ EscapeAfter(Decided + f)
    PROVE  ForwardedInv' /\ TakenInv'
<1>1. PICK d, e, m : d = Decided /\ e = Decided' /\ m = Len(piece)
  OBVIOUS
<1>2. d \in Nat /\ e \in Nat /\ m \in Nat /\ f \in Nat /\ lo \in Nat
  BY <1>1 DEF KeysInv, TypedInv
<1>3. (lo = f /\ e = d + f + m) \/ (lo = 0 /\ f = m /\ e = d + f)
  BY <1>1
<1>4. \A k \in 1..m : piece[k].n = d + lo + k
  BY <1>1
<1>5. PICK l : l = Len(forwarded) /\ l \in Nat
  BY DEF KeysInv, ForwardedInv
<1>6. \A k \in 1..l : forwarded[k].n \in 1..d
  BY <1>1, <1>5 DEF KeysInv, ForwardedInv
<1>7. PICK r : r = forwarded \o piece /\ r = forwarded'
  OBVIOUS
<1>8. /\ r \in Seq(Keys) /\ Len(r) = l + m
      /\ \A k \in 1..l : r[k] = forwarded[k]
      /\ \A k \in 1..m : r[l + k] = piece[k]
  <2>1. forwarded \in Seq(Keys) /\ piece \in Seq(Keys) /\ r = forwarded \o piece
    BY <1>7 DEF KeysInv, ForwardedInv
  <2>2. /\ r \in Seq(Keys) /\ Len(r) = Len(forwarded) + Len(piece)
        /\ \A k \in 1..Len(forwarded) : r[k] = forwarded[k]
        /\ \A k \in 1..Len(piece) : r[Len(forwarded) + k] = piece[k]
    BY ONLY <2>1, Joined
  <2> QED BY <1>1, <1>5, <2>2
<1>9. ByNumber(r)
  <2>1. forwarded \in Seq(Keys) /\ ByNumber(forwarded)
    BY DEF KeysInv, ForwardedInv, ByNumber
  <2>2. ByNumber(piece)
    BY <1>1, <1>2, <1>4 DEF ByNumber
  <2>3. NoneAfter(forwarded, d)
    BY <1>2, <1>5, <1>6 DEF NoneAfter
  <2>4. AllAfter(piece, d)
    BY <1>1, <1>2, <1>4 DEF AllAfter
  <2>5. d \in Nat /\ r = forwarded \o piece /\ piece \in Seq(Keys)
    BY <1>2, <1>7
  <2> QED BY ONLY <2>1, <2>2, <2>3, <2>4, <2>5, JoinedByNumber
<1>10. \A k \in 1..(l + m) : k \in 1..l \/ (k - l \in 1..m /\ k = l + (k - l))
  BY <1>2, <1>5
<1>11. ASSUME NEW k \in 1..(l + m)
       PROVE  \/ k \in 1..l /\ r[k].n = forwarded[k].n /\ r[k].n \in 1..d
              \/ r[k].n \in (d + lo + 1)..(d + lo + m)
  <2>1. CASE k \in 1..l
    BY <1>6, <1>8, <2>1
  <2>2. CASE k - l \in 1..m /\ k = l + (k - l)
    <3>1. r[k].n = d + lo + (k - l)
      BY <1>4, <1>8, <2>2
    <3> QED BY <1>2, <1>5, <2>2, <3>1
  <2> QED BY <1>10, <2>1, <2>2
<1>12. ASSUME NEW n \in (d + lo + 1)..(d + lo + m)
       PROVE  \E k \in 1..(l + m) : r[k].n = n
  <2>1. n - (d + lo) \in 1..m /\ l + (n - (d + lo)) \in 1..(l + m)
    BY <1>2, <1>5
  <2>2. r[l + (n - (d + lo))].n = d + lo + (n - (d + lo))
    BY <1>4, <1>8, <2>1
  <2> QED BY <1>2, <2>1, <2>2
<1>13. taken \subseteq 1..d /\ \A n \in 1..d : n \in taken \/ Arrived(n)
  BY <1>1 DEF KeysInv, ForwardedInv
<1>14. taken' = taken \cup ((d + 1)..(d + f))
  BY <1>1
<1>15. ForwardedInv'
  <2>1. \A k \in 1..Len(r) : r[k].n \in 1..e
    <3>1. 1..d \subseteq 1..e /\ (d + lo + 1)..(d + lo + m) \subseteq 1..e
      <4>1. PICK x, y : x = d + lo + 1 /\ y = d + lo + m
        OBVIOUS
      <4>2. x \in Nat /\ y \in Int /\ x >= 1 /\ y <= e /\ d <= e
        BY <1>2, <1>3, <4>1
      <4>3. 1..d \subseteq 1..e /\ x..y \subseteq 1..e
        BY ONLY <1>2, <4>2
      <4> QED BY <4>1, <4>3
    <3>2. \A k \in 1..(l + m) : r[k].n \in 1..d \/ r[k].n \in (d + lo + 1)..(d + lo + m)
      BY <1>11
    <3> QED BY <1>8, <3>1, <3>2
  <2>2. taken' \subseteq 1..e
    <3>1. 1..d \subseteq 1..e /\ (d + 1)..(d + f) \subseteq 1..e
      <4>1. PICK x, y : x = d + 1 /\ y = d + f
        OBVIOUS
      <4>2. x \in Nat /\ y \in Nat /\ x >= 1 /\ y <= e /\ d <= e
        BY <1>2, <1>3, <4>1
      <4>3. 1..d \subseteq 1..e /\ x..y \subseteq 1..e
        BY ONLY <1>2, <4>2
      <4> QED BY <4>1, <4>3
    <3> QED BY <1>13, <1>14, <3>1
  <2>3. ASSUME NEW n \in 1..e
        PROVE  n \in taken' \/ \E k \in 1..Len(r) : r[k].n = n
    <3>1. CASE n <= d
      <4>1. n \in taken \/ Arrived(n)
        BY <1>2, <1>13, <3>1
      <4>2. ASSUME Arrived(n) PROVE \E k \in 1..Len(r) : r[k].n = n
        BY <1>2, <1>5, <1>8, <4>2 DEF Arrived
      <4> QED BY <1>14, <4>1, <4>2
    <3>2. CASE n > d /\ n <= d + f
      BY <1>2, <1>14, <3>2
    <3>3. CASE n > d + f
      <4>1. n \in (d + lo + 1)..(d + lo + m)
        BY <1>2, <1>3, <3>3
      <4> QED BY <1>8, <1>12, <4>1
    <3> QED BY <1>2, <3>1, <3>2, <3>3
  <2>4. \A j, k \in 1..Len(r) : j < k => r[j].n < r[k].n
    BY <1>9 DEF ByNumber
  <2> QED BY <1>1, <1>7, <1>8, <2>1, <2>2, <2>3, <2>4 DEF ForwardedInv, Arrived
<1>16. ASSUME NEW n \in taken'
       PROVE  OfAltS(n)' /\ (Arrived(n)' => EscapeAfter(n)')
  <2>1. (OfAltS(n)' <=> OfAltS(n)) /\ (EscapeAfter(n)' <=> EscapeAfter(n))
    BY DEF OfAltS, EscapeAfter, AltSAt
  <2>2. Arrived(n)' <=> \E k \in 1..(l + m) : r[k].n = n
    BY <1>7, <1>8 DEF Arrived
  <2>3. CASE n \in taken
    <3>1. OfAltS(n) /\ (Arrived(n) => EscapeAfter(n)) /\ n \in 1..d
      BY <1>13, <2>3 DEF KeysInv, TakenInv
    <3>2. (\E k \in 1..(l + m) : r[k].n = n) => Arrived(n)
      <4>1. ASSUME NEW k \in 1..(l + m), r[k].n = n PROVE Arrived(n)
        <5>1. ~(n \in (d + lo + 1)..(d + lo + m))
          BY <1>2, <3>1
        <5>2. k \in 1..l /\ forwarded[k].n = n
          BY <1>11, <4>1, <5>1
        <5> QED BY <1>5, <5>2 DEF Arrived
      <4> QED BY <4>1
    <3> QED BY <2>1, <2>2, <3>1, <3>2
  <2>4. CASE n \in (d + 1)..(d + f)
    <3>1. OfAltS(n)
      <4>1. n - d \in 1..f /\ d + (n - d) = n
        BY <1>2, <2>4
      <4>2. OfAltS(d + (n - d))
        BY <1>1, <4>1
      <4> QED BY <4>1, <4>2
    <3>2. CASE lo = f /\ e = d + f + m
      <4>1. ASSUME NEW k \in 1..(l + m), r[k].n = n PROVE FALSE
        <5>1. ~(n \in 1..d) /\ ~(n \in (d + lo + 1)..(d + lo + m))
          BY <1>2, <2>4, <3>2
        <5> QED BY <1>11, <4>1, <5>1
      <4> QED BY <2>1, <2>2, <3>1, <4>1
    <3>3. CASE EscapeAfter(d + f)
      <4>1. PICK k \in (d + f + 1)..Len(typed) : typed[k].is = "esc"
        BY <3>3 DEF EscapeAfter
      <4>2. k \in (n + 1)..Len(typed)
        BY <1>2, <2>4
      <4>3. EscapeAfter(n)
        BY <4>1, <4>2 DEF EscapeAfter
      <4> QED BY <2>1, <3>1, <4>3
    <3> QED BY <1>1, <3>2, <3>3
  <2> QED BY <1>14, <2>3, <2>4
<1> QED BY <1>15, <1>16 DEF TakenInv

LEMMA TypeKeyKeeps ==
    ASSUME KeysInv, NEW which \in KeyKinds, TypeKey(which)
    PROVE  KeysInv'
<1>1. PICK newest : newest = [n |-> Len(typed) + 1, is |-> which]
  OBVIOUS
<1>2. /\ typed' = Append(typed, newest) /\ unread' = Append(unread, newest)
      /\ held' = held /\ forwarded' = forwarded /\ taken' = taken
  BY <1>1 DEF TypeKey, outputVars
<1>3. /\ typed \in Seq(Keys) /\ held \in Seq(Keys) /\ unread \in Seq(Keys)
      /\ \A k \in 1..Len(typed) : typed[k].n = k
      /\ Decided \in Nat
      /\ \A k \in 1..Len(held) : held[k] = typed[Decided + k]
      /\ \A k \in 1..Len(unread) : unread[k] = typed[Decided + Len(held) + k]
  BY DEF KeysInv, TypedInv
<1>4. PICK l, h, u, d : l = Len(typed) /\ h = Len(held) /\ u = Len(unread) /\ d = Decided
  OBVIOUS
<1>5. l \in Nat /\ h \in Nat /\ u \in Nat /\ d \in Nat /\ l = d + h + u
  BY <1>3, <1>4 DEF Decided
<1>6. newest \in Keys /\ newest.n = l + 1
  BY <1>1, <1>4, <1>5 DEF Keys
<1>7. /\ typed' \in Seq(Keys) /\ Len(typed') = l + 1 /\ typed'[l + 1] = newest
      /\ \A k \in 1..l : typed'[k] = typed[k]
  BY <1>2, <1>3, <1>4, <1>6
<1>8. /\ unread' \in Seq(Keys) /\ Len(unread') = u + 1 /\ unread'[u + 1] = newest
      /\ \A k \in 1..u : unread'[k] = unread[k]
  BY <1>2, <1>3, <1>4, <1>6
<1>9. Decided' = d
  BY <1>2, <1>4, <1>5, <1>7, <1>8 DEF Decided
<1>10. TypedInv'
  <2>1. ASSUME NEW k \in 1..(l + 1) PROVE typed'[k].n = k
    <3>1. k \in 1..l \/ k = l + 1
      BY <1>5
    <3> QED BY <1>3, <1>4, <1>6, <1>7, <3>1
  <2>2. \A k \in 1..h : held'[k] = typed'[d + k]
    BY <1>2, <1>3, <1>4, <1>5, <1>7
  <2>3. \A k \in 1..(u + 1) : unread'[k] = typed'[d + h + k]
    <3>1. \A k \in 1..u : d + h + k \in 1..l
      BY <1>5
    <3>2. \A k \in 1..u : unread'[k] = typed'[d + h + k]
      BY <1>3, <1>4, <1>7, <1>8, <3>1
    <3>3. unread'[u + 1] = typed'[d + h + (u + 1)]
      BY <1>5, <1>7, <1>8
    <3> QED BY <1>5, <3>2, <3>3
  <2> QED BY <1>2, <1>3, <1>4, <1>5, <1>7, <1>8, <1>9, <2>1, <2>2, <2>3 DEF TypedInv
<1>11. ForwardedInv'
  BY <1>2, <1>4, <1>9 DEF KeysInv, ForwardedInv, Arrived
<1>12. ASSUME NEW n \in taken'
       PROVE  OfAltS(n)' /\ (Arrived(n)' => EscapeAfter(n)')
  <2>1. OfAltS(n) /\ (Arrived(n) => EscapeAfter(n)) /\ n \in Nat
    BY <1>2, <1>4, <1>5, <1>12 DEF KeysInv, TakenInv, ForwardedInv
  <2>2. ASSUME NEW k \in {n - 1, n}, k > 0, AltSAt(typed, k) PROVE AltSAt(typed, k)'
    <3>1. k \in 1..l /\ k + 1 \in 1..l /\ typed[k].is = "esc" /\ typed[k + 1].is = "s"
      BY <1>4, <1>5, <2>1, <2>2 DEF AltSAt
    <3> QED BY <1>5, <1>7, <3>1 DEF AltSAt
  <2>3. OfAltS(n)'
    BY <2>1, <2>2 DEF OfAltS
  <2>4. Arrived(n)' => Arrived(n)
    BY <1>2 DEF Arrived
  <2>5. ASSUME EscapeAfter(n) PROVE EscapeAfter(n)'
    <3>1. PICK k \in (n + 1)..l : typed[k].is = "esc"
      BY <1>4, <2>5 DEF EscapeAfter
    <3>2. k \in (n + 1)..(l + 1) /\ k \in 1..l
      BY <1>5, <2>1
    <3> QED BY <1>7, <3>1, <3>2 DEF EscapeAfter
  <2> QED BY <2>1, <2>3, <2>4, <2>5
<1> QED BY <1>10, <1>11, <1>12 DEF KeysInv, TakenInv

\* However many keys a read takes.
LEMMA ReadKeysKeeps ==
    ASSUME KeysInv, NEW n \in 1..Len(unread), ReadKeys(n)
    PROVE  KeysInv'
<1>1. /\ typed \in Seq(Keys) /\ held \in Seq(Keys) /\ unread \in Seq(Keys)
      /\ \A k \in 1..Len(typed) : typed[k].n = k
      /\ Decided \in Nat
      /\ \A k \in 1..Len(held) : held[k] = typed[Decided + k]
      /\ \A k \in 1..Len(unread) : unread[k] = typed[Decided + Len(held) + k]
  BY DEF KeysInv, TypedInv
<1>2. PICK l, h, u, d : l = Len(typed) /\ h = Len(held) /\ u = Len(unread) /\ d = Decided
  OBVIOUS
<1>3. l \in Nat /\ h \in Nat /\ u \in Nat /\ d \in Nat /\ l = d + h + u /\ n \in 1..u
  BY <1>1, <1>2 DEF Decided
<1>4. PICK read : read = SubSeq(unread, 1, n)
  OBVIOUS
<1>5. read \in Seq(Keys) /\ Len(read) = n /\ \A k \in 1..n : read[k] = unread[k]
  BY <1>1, <1>2, <1>3, <1>4
<1>6. PICK chunk : chunk = held \o read
  OBVIOUS
<1>7. /\ chunk \in Seq(Keys) /\ Len(chunk) = h + n
      /\ \A k \in 1..h : chunk[k] = held[k]
      /\ \A k \in 1..n : chunk[h + k] = read[k]
  <2>1. held \in Seq(Keys) /\ read \in Seq(Keys) /\ chunk = held \o read
    BY <1>1, <1>5, <1>6
  <2>2. /\ chunk \in Seq(Keys) /\ Len(chunk) = Len(held) + Len(read)
        /\ \A k \in 1..Len(held) : chunk[k] = held[k]
        /\ \A k \in 1..Len(read) : chunk[Len(held) + k] = read[k]
    BY ONLY <2>1, Joined
  <2> QED BY <1>2, <1>5, <2>2
<1>8. ASSUME NEW k \in 1..(h + n)
      PROVE  chunk[k] = typed[d + k] /\ d + k \in 1..l /\ chunk[k].n = d + k
  <2>1. d + k \in 1..l
    BY <1>3
  <2>2. CASE k <= h
    <3>1. k \in 1..h
      BY <1>3, <2>2
    <3> QED BY <1>1, <1>2, <1>7, <2>1, <3>1
  <2>3. CASE k > h
    <3>1. k - h \in 1..n /\ k - h \in 1..u /\ h + (k - h) = k /\ d + h + (k - h) = d + k
      BY <1>3, <2>3
    <3>2. chunk[k] = read[k - h] /\ read[k - h] = unread[k - h]
      BY <1>5, <1>7, <3>1
    <3>3. unread[k - h] = typed[d + k]
      BY <1>1, <1>2, <3>1
    <3> QED BY <1>1, <1>2, <2>1, <3>2, <3>3
  <2> QED BY <1>3, <2>2, <2>3
<1>9. PICK f : f = FrontKeys(chunk)
  OBVIOUS
<1>10. /\ f \in 0..(h + n)
       /\ \A k \in 1..f : \E j \in {k - 1, k} : j \in 1..(f - 1) /\ AltSAt(chunk, j)
  BY <1>7, <1>9, FrontAre
<1>11. /\ unread' = SubSeq(unread, n + 1, Len(unread)) /\ typed' = typed
       /\ taken' = taken \cup {chunk[k].n : k \in 1..f}
       /\ LET waits == Len(chunk) = f + 1 /\ chunk[f + 1].is = "esc"
          IN  /\ held' = IF waits THEN <<chunk[f + 1]>> ELSE <<>>
              /\ forwarded' = forwarded \o IF waits THEN SubSeq(chunk, 1, f)
                                           ELSE SubSeq(chunk, f + 1, Len(chunk))
  BY <1>4, <1>6, <1>9 DEF ReadKeys
<1>12. typed' \in Seq(Keys) /\ \A k \in 1..Len(typed') : typed'[k].n = k
  <2>1. typed' = typed
    BY <1>11
  <2> QED BY <1>1, <2>1
<1>13. /\ unread' \in Seq(Keys) /\ Len(unread') = u - n
       /\ \A k \in 1..(u - n) : unread'[k] = typed[d + h + n + k]
  <2>1. /\ unread' \in Seq(Keys) /\ Len(unread') = u - n
        /\ \A k \in 1..(u - n) : unread'[k] = unread[n + k]
    <3>1. unread' = SubSeq(unread, n + 1, u) /\ unread \in Seq(Keys) /\ Len(unread) = u
      BY <1>1, <1>2, <1>11
    <3> QED BY ONLY <1>3, <3>1
  <2>2. \A k \in 1..(u - n) : n + k \in 1..u /\ d + h + (n + k) = d + h + n + k
    BY <1>3
  <2> QED BY <1>1, <1>2, <2>1, <2>2
<1>14. taken' = taken \cup ((d + 1)..(d + f))
  <2>1. \A k \in 1..f : chunk[k].n = d + k
    BY <1>3, <1>8, <1>10
  <2>2. {chunk[k].n : k \in 1..f} = (d + 1)..(d + f)
    <3>1. \A k \in 1..f : d + k \in (d + 1)..(d + f)
      BY <1>3, <1>10
    <3>2. \A i \in (d + 1)..(d + f) : i - d \in 1..f /\ d + (i - d) = i
      BY <1>3, <1>10
    <3> QED BY <2>1, <3>1, <3>2
  <2> QED BY <1>11, <2>2
<1>15. ASSUME NEW i \in 1..f PROVE OfAltS(d + i)
  <2>1. PICK j \in {i - 1, i} : j \in 1..(f - 1) /\ AltSAt(chunk, j)
    BY <1>10
  <2>2. j \in 1..(h + n) /\ j + 1 \in 1..(h + n) /\ d + (j + 1) = (d + j) + 1
    BY <1>3, <1>10, <2>1
  <2>3. chunk[j] = typed[d + j] /\ chunk[j + 1] = typed[(d + j) + 1] /\ (d + j) + 1 \in 1..l
    BY <1>8, <2>2
  <2>4. AltSAt(typed, d + j)
    BY <1>2, <1>3, <2>1, <2>2, <2>3 DEF AltSAt
  <2>5. PICK x, y : x = d + i /\ y = d + j
    OBVIOUS
  <2>6. y \in {x - 1, x} /\ y > 0
    BY <1>3, <2>1, <2>2, <2>5
  <2>7. OfAltS(x)
    BY <2>4, <2>5, <2>6 DEF OfAltS
  <2> QED BY <2>5, <2>7
<1>16. CASE Len(chunk) = f + 1 /\ chunk[f + 1].is = "esc"
  <2>1. PICK piece : piece = SubSeq(chunk, 1, f)
    OBVIOUS
  <2>2. piece \in Seq(Keys) /\ Len(piece) = f /\ \A k \in 1..f : piece[k] = chunk[k]
    BY <1>3, <1>7, <1>10, <2>1
  <2>3. f \in Nat /\ h + n = f + 1 /\ f + 1 \in 1..(h + n)
    BY <1>3, <1>7, <1>10, <1>16
  <2>4. held' = <<chunk[f + 1]>> /\ forwarded' = forwarded \o piece
    BY <1>11, <1>16, <2>1
  <2>5. held' \in Seq(Keys) /\ Len(held') = 1 /\ held'[1] = typed[d + f + 1]
    <3>1. chunk[f + 1] \in Keys /\ chunk[f + 1] = typed[d + (f + 1)]
      BY <1>7, <1>8, <2>3
    <3>2. d + (f + 1) = d + f + 1
      BY <1>3, <2>3
    <3> QED BY <2>4, <3>1, <3>2
  <2>6. Decided' = d + f
    <3>1. Len(typed') = l /\ Len(held') = 1 /\ Len(unread') = u - n
      BY <1>2, <1>11, <1>13, <2>5
    <3>2. l - 1 - (u - n) = d + f
      BY <1>3, <2>3
    <3> QED BY <3>1, <3>2 DEF Decided
  <2>7. TypedInv'
    <3>1. \A k \in 1..1 : held'[k] = typed[d + f + k]
      BY <2>5
    <3>2. \A k \in 1..(u - n) : unread'[k] = typed[d + f + 1 + k]
      <4>1. \A k \in 1..(u - n) : d + h + n + k = d + f + 1 + k
        BY <1>3, <2>3
      <4> QED BY <1>13, <4>1
    <3>3. d + f \in Nat
      BY <1>3, <2>3
    <3>4. \A k \in 1..Len(held') : held'[k] = typed'[d + f + k]
      BY <1>11, <2>5, <3>1
    <3>5. \A k \in 1..Len(unread') : unread'[k] = typed'[d + f + Len(held') + k]
      BY <1>11, <1>13, <2>5, <3>2
    <3> QED BY <1>13, <1>12, <2>5, <2>6, <3>3, <3>4, <3>5, Zenon DEF TypedInv
  <2>8. EscapeAfter(d + f)
    <3>1. d + f + 1 \in (d + f + 1)..l
      BY <1>3, <2>3
    <3>2. typed[d + f + 1].is = "esc"
      BY <1>16, <2>4, <2>5
    <3> QED BY <1>2, <3>1, <3>2 DEF EscapeAfter
  <2>9. ASSUME NEW k \in 1..Len(piece) PROVE piece[k].n = Decided + 0 + k
    <3>1. k \in 1..f /\ k \in 1..(h + n) /\ d + 0 + k = d + k
      BY <1>3, <2>2, <2>3
    <3> QED BY <1>2, <1>8, <2>2, <3>1
  <2>10. ForwardedInv' /\ TakenInv'
    BY <1>2, <1>11, <1>14, <1>15, <2>2, <2>3, <2>4, <2>6, <2>7, <2>8, <2>9, PassedOn
  <2> QED BY <2>7, <2>10 DEF KeysInv
<1>17. CASE ~(Len(chunk) = f + 1 /\ chunk[f + 1].is = "esc")
  <2>1. PICK piece : piece = SubSeq(chunk, f + 1, Len(chunk))
    OBVIOUS
  <2>2. /\ piece \in Seq(Keys) /\ Len(piece) = h + n - f /\ f \in Nat
        /\ \A k \in 1..(h + n - f) : piece[k] = chunk[f + k]
    <3>1. PICK m : m = h + n
      OBVIOUS
    <3>2. m \in Nat /\ f \in 0..m /\ chunk \in Seq(Keys) /\ Len(chunk) = m
      BY <1>3, <1>7, <1>10, <3>1
    <3>3. piece = SubSeq(chunk, f + 1, m)
      BY <2>1, <3>2
    <3>4. /\ piece \in Seq(Keys) /\ Len(piece) = m - f /\ f \in Nat
          /\ \A k \in 1..(m - f) : piece[k] = chunk[f + k]
      BY ONLY <3>2, <3>3
    <3>5. h + n - f = m - f
      BY <1>3, <3>1, <3>2
    <3> QED BY <3>4, <3>5, Zenon
  <2>3. held' = <<>> /\ forwarded' = forwarded \o piece
    BY <1>11, <1>17, <2>1
  <2>4. held' \in Seq(Keys) /\ Len(held') = 0
    BY <2>3
  <2>5. Decided' = d + h + n
    <3>1. Len(typed') = l /\ Len(held') = 0 /\ Len(unread') = u - n
      BY <1>2, <1>11, <1>13, <2>4
    <3>2. l - 0 - (u - n) = d + h + n
      BY <1>3
    <3> QED BY <3>1, <3>2 DEF Decided
  <2>6. TypedInv'
    <3>1. \A k \in 1..(u - n) : unread'[k] = typed[d + h + n + 0 + k]
      BY <1>3, <1>13
    <3>2. d + h + n \in Nat
      BY <1>3
    <3>3. \A k \in 1..Len(held') : held'[k] = typed'[d + h + n + k]
      BY <2>4
    <3>4. \A k \in 1..Len(unread') : unread'[k] = typed'[d + h + n + Len(held') + k]
      BY <1>11, <1>13, <2>4, <3>1
    <3> QED BY <1>13, <1>12, <2>4, <2>5, <3>2, <3>3, <3>4, Zenon DEF TypedInv
  <2>7. ASSUME NEW k \in 1..Len(piece) PROVE piece[k].n = Decided + f + k
    <3>1. f + k \in 1..(h + n) /\ d + (f + k) = d + f + k
      <4>1. k \in 1..(h + n - f)
        BY <2>2
      <4> QED BY <1>3, <1>10, <4>1
    <3> QED BY <1>2, <1>8, <2>2, <3>1
  <2>8. Decided' = Decided + f + Len(piece)
    <3>1. d + h + n = d + f + (h + n - f)
      BY <1>3, <2>2
    <3> QED BY <1>2, <2>2, <2>5, <3>1
  <2>9. ForwardedInv' /\ TakenInv'
    BY <1>2, <1>11, <1>14, <1>15, <2>2, <2>3, <2>6, <2>7, <2>8, PassedOn
  <2> QED BY <2>6, <2>9 DEF KeysInv
<1> QED BY <1>16, <1>17

\* What the invariant says of the keys is what KeysArrive asks for.
LEMMA KeysDoArrive ==
    ASSUME KeysInv PROVE KeysArrive
<1> DEFINE a == forwarded \o held \o unread
           Ns == {a[k].n : k \in DOMAIN a}
<1>1. /\ typed \in Seq(Keys) /\ held \in Seq(Keys) /\ unread \in Seq(Keys)
      /\ \A k \in 1..Len(typed) : typed[k].n = k
      /\ Decided \in Nat
      /\ \A k \in 1..Len(held) : held[k] = typed[Decided + k]
      /\ \A k \in 1..Len(unread) : unread[k] = typed[Decided + Len(held) + k]
  BY DEF KeysInv, TypedInv
<1>2. PICK l, h, u, d : l = Len(typed) /\ h = Len(held) /\ u = Len(unread) /\ d = Decided
  OBVIOUS
<1>3. l \in Nat /\ h \in Nat /\ u \in Nat /\ d \in Nat /\ l = d + h + u
  BY <1>1, <1>2 DEF Decided
<1>4. ASSUME NEW k \in 1..h PROVE held[k].n = d + k
  <2>1. d + k \in 1..l
    BY <1>3
  <2> QED BY <1>1, <1>2, <2>1
<1>5. ASSUME NEW k \in 1..u PROVE unread[k].n = d + h + k
  <2>1. d + h + k \in 1..l
    BY <1>3
  <2> QED BY <1>1, <1>2, <2>1
<1>6. PICK x, m : x = forwarded \o held /\ m = Len(forwarded)
  OBVIOUS
<1>7. /\ forwarded \in Seq(Keys) /\ ByNumber(forwarded) /\ m \in Nat
      /\ \A k \in 1..m : forwarded[k].n \in 1..d
      /\ taken \subseteq 1..d
      /\ \A n \in 1..d : n \in taken \/ Arrived(n)
  BY <1>2, <1>6 DEF KeysInv, ForwardedInv, ByNumber
<1>8. x \in Seq(Keys) /\ ByNumber(x)
  <2>1. ByNumber(held)
    BY <1>2, <1>3, <1>4 DEF ByNumber
  <2>2. NoneAfter(forwarded, d)
    BY <1>3, <1>6, <1>7 DEF NoneAfter
  <2>3. AllAfter(held, d)
    BY <1>2, <1>3, <1>4 DEF AllAfter
  <2> QED BY ONLY <1>1, <1>3, <1>6, <1>7, <2>1, <2>2, <2>3, JoinedByNumber
<1>9. /\ Len(x) = m + h
      /\ \A k \in 1..m : x[k] = forwarded[k]
      /\ \A k \in 1..h : x[m + k] = held[k]
  <2>1. /\ Len(x) = Len(forwarded) + Len(held)
        /\ \A k \in 1..Len(forwarded) : x[k] = forwarded[k]
        /\ \A k \in 1..Len(held) : x[Len(forwarded) + k] = held[k]
    BY ONLY <1>1, <1>6, <1>7, Joined
  <2> QED BY <1>2, <1>6, <2>1
<1>10. ASSUME NEW k \in 1..(m + h)
       PROVE  \/ k \in 1..m /\ x[k] = forwarded[k]
              \/ k - m \in 1..h /\ x[k] = held[k - m] /\ x[k].n = d + (k - m)
  <2>1. k \in 1..m \/ (k - m \in 1..h /\ m + (k - m) = k)
    BY <1>3, <1>7
  <2> QED BY <1>4, <1>9, <2>1
<1>11. PICK y : y = x \o unread
  OBVIOUS
<1>12. y \in Seq(Keys) /\ ByNumber(y)
  <2>1. ByNumber(unread)
    BY <1>2, <1>3, <1>5 DEF ByNumber
  <2>2. ASSUME NEW k \in 1..Len(x) PROVE x[k].n <= d + h
    <3>1. k \in 1..(m + h)
      BY <1>9
    <3>2. CASE k \in 1..m /\ x[k] = forwarded[k]
      BY <1>3, <1>7, <3>2
    <3>3. CASE k - m \in 1..h /\ x[k].n = d + (k - m)
      BY <1>3, <3>3
    <3> QED BY <1>10, <3>1, <3>2, <3>3
  <2>3. AllAfter(unread, d + h)
    BY <1>2, <1>3, <1>5 DEF AllAfter
  <2>4. d + h \in Nat /\ NoneAfter(x, d + h)
    BY <1>3, <2>2 DEF NoneAfter
  <2> QED BY ONLY <1>1, <1>8, <1>11, <2>1, <2>3, <2>4, JoinedByNumber
<1>13. /\ Len(y) = m + h + u
       /\ \A k \in 1..(m + h) : y[k] = x[k]
       /\ \A k \in 1..u : y[m + h + k] = unread[k]
  <2>1. /\ Len(y) = Len(x) + Len(unread)
        /\ \A k \in 1..Len(x) : y[k] = x[k]
        /\ \A k \in 1..Len(unread) : y[Len(x) + k] = unread[k]
    BY ONLY <1>1, <1>8, <1>11, Joined
  <2> QED BY <1>2, <1>9, <2>1
<1>14. y = a
  BY <1>6, <1>11
<1> HIDE DEF a
<1>15. Len(y) \in Nat /\ DOMAIN a = 1..Len(y)
  BY <1>3, <1>7, <1>12, <1>13, <1>14
<1>16. ASSUME NEW k \in 1..Len(y)
       PROVE  \/ k \in 1..m /\ y[k].n = forwarded[k].n /\ y[k].n \in 1..d
              \/ y[k].n \in (d + 1)..l
  <2>1. k \in 1..(m + h) \/ (k - (m + h) \in 1..u /\ m + h + (k - (m + h)) = k)
    BY <1>3, <1>7, <1>13
  <2>2. CASE k \in 1..(m + h)
    <3>1. y[k] = x[k]
      BY <1>13, <2>2
    <3>2. CASE k \in 1..m /\ x[k] = forwarded[k]
      BY <1>7, <3>1, <3>2
    <3>3. CASE k - m \in 1..h /\ x[k].n = d + (k - m)
      BY <1>3, <3>1, <3>3
    <3> QED BY <1>10, <2>2, <3>2, <3>3
  <2>3. CASE k - (m + h) \in 1..u /\ m + h + (k - (m + h)) = k
    <3>1. y[k].n = d + h + (k - (m + h))
      BY <1>5, <1>13, <2>3
    <3> QED BY <1>3, <1>7, <2>3, <3>1
  <2> QED BY <2>1, <2>2, <2>3
<1>17. ASSUME NEW n \in 1..l
       PROVE  n \in taken \/ \E k \in 1..Len(y) : y[k].n = n
  <2>1. CASE n <= d
    <3>1. n \in taken \/ Arrived(n)
      BY <1>3, <1>7, <2>1
    <3>2. ASSUME NEW k \in 1..m, forwarded[k].n = n PROVE \E i \in 1..Len(y) : y[i].n = n
      <4>1. k \in 1..(m + h) /\ k \in 1..Len(y)
        BY <1>3, <1>7, <1>13
      <4>2. y[k] = forwarded[k]
        BY <1>9, <1>13, <4>1
      <4> QED BY <3>2, <4>1, <4>2
    <3> QED BY <1>6, <3>1, <3>2 DEF Arrived
  <2>2. CASE n > d /\ n <= d + h
    <3>1. n - d \in 1..h /\ d + (n - d) = n /\ m + (n - d) \in 1..(m + h)
          /\ m + (n - d) \in 1..Len(y)
      BY <1>3, <1>7, <1>13, <2>2
    <3>2. y[m + (n - d)] = held[n - d]
      BY <1>9, <1>13, <3>1
    <3> QED BY <1>4, <3>1, <3>2
  <2>3. CASE n > d + h
    <3>1. n - (d + h) \in 1..u /\ d + h + (n - (d + h)) = n
          /\ m + h + (n - (d + h)) \in 1..Len(y)
      BY <1>3, <1>7, <1>13, <2>3
    <3>2. y[m + h + (n - (d + h))] = unread[n - (d + h)]
      BY <1>13, <3>1
    <3> QED BY <1>5, <3>1, <3>2
  <2> QED BY <1>3, <2>1, <2>2, <2>3
<1>18. \A j, k \in DOMAIN a : j < k => a[j].n < a[k].n
  BY <1>12, <1>14, <1>15 DEF ByNumber
<1>19. Ns \cup taken = 1..Len(typed)
  <2>1. \A k \in 1..Len(y) : y[k].n \in 1..l
    <3>1. 1..d \subseteq 1..l /\ (d + 1)..l \subseteq 1..l
      BY <1>3
    <3> QED BY <1>16, <3>1
  <2>2. Ns \subseteq 1..l
    BY <1>14, <1>15, <2>1
  <2>3. taken \subseteq 1..l
    BY <1>3, <1>7
  <2>4. \A n \in 1..l : n \in Ns \cup taken
    BY <1>14, <1>15, <1>17
  <2> QED BY <1>2, <2>2, <2>3, <2>4
<1>20. \A n \in taken : \E k \in {n - 1, n} : k > 0 /\ AltSAt(typed, k)
  BY DEF KeysInv, TakenInv, OfAltS
<1>21. ASSUME NEW n \in taken \cap Ns
       PROVE  \E k \in (n + 1)..Len(typed) : typed[k].is = "esc"
  <2>1. PICK k \in 1..Len(y) : y[k].n = n
    BY <1>14, <1>15, <1>21
  <2>2. n \in 1..d /\ ~(n \in (d + 1)..l)
    BY <1>3, <1>7
  <2>3. k \in 1..m /\ forwarded[k].n = n
    BY <1>16, <2>1, <2>2
  <2>4. Arrived(n)
    BY <1>6, <2>3 DEF Arrived
  <2> QED BY <1>21, <2>4 DEF KeysInv, TakenInv, EscapeAfter
<1> HIDE DEF Ns
<1>22. /\ \A j, k \in DOMAIN a : j < k => a[j].n < a[k].n
       /\ Ns \cup taken = 1..Len(typed)
       /\ \A n \in taken : \E k \in {n - 1, n} : k > 0 /\ AltSAt(typed, k)
       /\ \A n \in taken \cap Ns : \E k \in (n + 1)..Len(typed) : typed[k].is = "esc"
  BY <1>18, <1>19, <1>20, <1>21
<1> QED BY <1>22 DEF KeysArrive, a, Ns

\* However the keyboard is read and the output is: every key reaches the shell once and in
\* order, but for those that are half of an Alt+S, of which one that an escape was read
\* with reaches it as well (run_shell).
THEOREM EveryKeyArrives ==
    TerminalSpec => []KeysArrive
<1>1. TerminalInit => KeysInv
  <2> SUFFICES ASSUME TerminalInit PROVE KeysInv
    OBVIOUS
  <2>1. /\ typed = <<>> /\ unread = <<>> /\ held = <<>> /\ forwarded = <<>> /\ taken = {}
    BY DEF TerminalInit, TypingInit
  <2>2. /\ Len(typed) = 0 /\ Len(unread) = 0 /\ Len(held) = 0 /\ Len(forwarded) = 0
        /\ typed \in Seq(Keys) /\ unread \in Seq(Keys) /\ held \in Seq(Keys)
        /\ forwarded \in Seq(Keys)
    BY <2>1
  <2>3. Decided = 0
    BY <2>2 DEF Decided
  <2> QED BY <2>1, <2>2, <2>3 DEF KeysInv, TypedInv, ForwardedInv, TakenInv
<1>2. ASSUME KeysInv, [TerminalNext]_terminalVars PROVE KeysInv'
  <2>1. ASSUME NEW which \in KeyKinds, TypeKey(which) PROVE KeysInv'
    BY <1>2, <2>1, TypeKeyKeeps
  <2>2. ASSUME NEW n \in 1..Len(unread), ReadKeys(n) PROVE KeysInv'
    BY <1>2, <2>2, ReadKeysKeeps
  <2>3. ASSUME UNCHANGED <<typed, unread, held, forwarded, taken>> PROVE KeysInv'
    <3>1. /\ typed' = typed /\ unread' = unread /\ held' = held
          /\ forwarded' = forwarded /\ taken' = taken
      BY <2>3
    <3>2. Decided' = Decided
      BY <3>1 DEF Decided
    <3>3. TypedInv'
      BY <1>2, <3>1, <3>2 DEF KeysInv, TypedInv
    <3>4. ForwardedInv'
      BY <1>2, <3>1, <3>2 DEF KeysInv, ForwardedInv, Arrived
    <3>5. TakenInv'
      BY <1>2, <3>1 DEF KeysInv, TakenInv, Arrived, OfAltS, EscapeAfter, AltSAt
    <3> QED BY <3>3, <3>4, <3>5 DEF KeysInv
  <2>4. ASSUME NEW token \in Tokens, PrintToken(token) PROVE KeysInv'
    BY <2>3, <2>4 DEF PrintToken, typingVars
  <2>5. ASSUME NEW n \in 0..Len(printing), NEW m \in 0..4, ReadChunk(n, m) PROVE KeysInv'
    BY <2>3, <2>5 DEF ReadChunk, typingVars
  <2>6. ASSUME ClearBuffer PROVE KeysInv'
    BY <2>3, <2>6 DEF ClearBuffer, typingVars
  <2>7. ASSUME CloseKeyboard PROVE KeysInv'
    BY <2>3, <2>7 DEF CloseKeyboard
  <2>8. ASSUME UNCHANGED terminalVars PROVE KeysInv'
    BY <2>3, <2>8 DEF terminalVars, typingVars
  <2> QED BY <1>2, <2>1, <2>2, <2>4, <2>5, <2>6, <2>7, <2>8 DEF TerminalNext
<1>3. KeysInv => KeysArrive
  BY KeysDoArrive
<1> QED BY <1>1, <1>2, <1>3, PTL DEF TerminalSpec

=============================================================================
