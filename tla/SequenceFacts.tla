--------------------------- MODULE SequenceFacts ---------------------------
(***************************************************************************)
(* What the proofs keep needing: induction over numbers, said of a set     *)
(* instead of a predicate; that some positions have a first and a last;    *)
(* and what FlattenSeq makes of a sequence with one element more, of two   *)
(* sequences joined, and of shorter elements.                              *)
(***************************************************************************)
EXTENDS Integers, Sequences, SequencesExt, SequenceTheorems, WellFoundedInduction, TLAPS

\* A set that has 0, and with each number below n the next one, has all up to n.
LEMMA SetInduction ==
    ASSUME NEW n \in Nat, NEW T, 0 \in T, \A k \in 0..(n - 1) : k \in T => k + 1 \in T
    PROVE  \A k \in 0..n : k \in T
<1> DEFINE Missing == {k \in 0..n : k \notin T}
<1> SUFFICES ASSUME Missing # {} PROVE FALSE
  OBVIOUS
<1>1. Missing \subseteq Nat
  OBVIOUS
<1> HIDE DEF Missing
<1>2. PICK x \in Missing : \A y \in Missing : ~(<<y, x>> \in OpToRel(<, Nat))
  BY <1>1, WFMin, NatLessThanWellFounded
<1>3. \A y \in Missing : ~(y < x)
  BY <1>1, <1>2 DEF OpToRel
<1> USE DEF Missing
<1>4. x \in 0..n /\ x # 0 /\ x \notin T
  OBVIOUS
<1>5. x - 1 \in 0..(n - 1) /\ x - 1 \in 0..n /\ x - 1 < x /\ (x - 1) + 1 = x
  BY <1>4
<1>6. x - 1 \in T
  BY <1>3, <1>5
<1> QED BY <1>4, <1>5, <1>6

\* Of a nonempty set of positions one is the first.
LEMMA FirstExists ==
    ASSUME NEW n \in Nat, NEW S \in SUBSET (1..n), S # {}
    PROVE  LET f == CHOOSE i \in S : \A k \in S : i <= k
           IN  f \in S /\ \A k \in S : f <= k
<1> DEFINE less == OpToRel(<, Nat)
<1>1. \E i \in S : \A k \in S : <<k, i>> \notin less
  <2>1. S \subseteq Nat
    OBVIOUS
  <2>2. IsWellFoundedOn(less, Nat)
    BY NatLessThanWellFounded
  <2> HIDE DEF less
  <2> QED BY <2>1, <2>2, WFMin
<1>2. \A i, k \in S : <<k, i>> \in less <=> k < i
  BY DEF OpToRel
<1> HIDE DEF less
<1>3. \E i \in S : \A k \in S : i <= k
  <2>1. PICK i \in S : \A k \in S : <<k, i>> \notin less
    BY <1>1
  <2>2. \A k \in S : ~(k < i)
    BY <1>2, <2>1
  <2>3. \A k \in S : k \in Nat /\ i \in Nat
    OBVIOUS
  <2>4. \A k \in S : i <= k
    BY <2>2, <2>3
  <2> QED BY <2>4
<1> QED BY <1>3

\* And one is the last.
LEMMA LastExists ==
    ASSUME NEW n \in Nat, NEW S \in SUBSET (1..n), S # {}
    PROVE  LET f == CHOOSE i \in S : \A k \in S : k <= i
           IN  f \in S /\ \A k \in S : k <= f
<1> DEFINE M == {n + 1 - i : i \in S}
<1>1. M \in SUBSET (1..n) /\ M # {}
  <2>1. \A i \in S : i \in Nat /\ n + 1 - i \in 1..n
    OBVIOUS
  <2>2. PICK i : i \in S
    OBVIOUS
  <2>3. n + 1 - i \in M
    BY <2>2
  <2>4. \A j \in M : j \in 1..n
    BY <2>1
  <2> HIDE DEF M
  <2> QED BY <2>3, <2>4
<1> HIDE DEF M
<1>2. PICK j \in M : \A k \in M : j <= k
  BY <1>1, FirstExists
<1> USE DEF M
<1>3. PICK i \in S : j = n + 1 - i
  OBVIOUS
<1>4. \A k \in S : n + 1 - k \in M /\ k \in Nat
  OBVIOUS
<1>5. \A k \in S : n + 1 - i <= n + 1 - k
  BY <1>2, <1>3, <1>4
<1> HIDE DEF M
<1>6. \A k \in S : k <= i
  BY <1>4, <1>5
<1> QED BY <1>6

\* g is what the sequences of s make, one after the other, up to each of the first n.
Flattens(s, n, g) ==
    g = [i \in 1..n |-> IF i = 1 THEN s[i] ELSE g[i - 1] \o s[i]]

\* g is defined step by step.
LEMMA FlattensIs ==
    ASSUME NEW s, NEW n \in Nat, NEW g, Flattens(s, n, g)
    PROVE  \A i \in 1..n : g[i] = IF i = 1 THEN s[i] ELSE g[i - 1] \o s[i]
  BY Zenon DEF Flattens

\* Two sequences that begin alike make the same of their beginnings.
LEMMA FlattenSame ==
    ASSUME NEW s, NEW t, NEW n \in Nat, NEW m \in Nat, n <= m,
           \A i \in 1..n : t[i] = s[i],
           NEW g, Flattens(s, n, g), NEW k, Flattens(t, m, k)
    PROVE  \A i \in 1..n : k[i] = g[i]
<1> DEFINE T == {i \in 0..n : i = 0 \/ k[i] = g[i]}
<1>1. 0 \in T
  OBVIOUS
<1>2. ASSUME NEW i \in 0..(n - 1), i \in T PROVE i + 1 \in T
  <2>1. i + 1 \in 1..n /\ i + 1 \in 1..m /\ (i + 1) - 1 = i /\ (i # 0 => i + 1 # 1)
    OBVIOUS
  <2>2. /\ g[i + 1] = IF i + 1 = 1 THEN s[i + 1] ELSE g[(i + 1) - 1] \o s[i + 1]
        /\ k[i + 1] = IF i + 1 = 1 THEN t[i + 1] ELSE k[(i + 1) - 1] \o t[i + 1]
    BY <2>1, FlattensIs
  <2>3. t[i + 1] = s[i + 1]
    BY <2>1
  <2>4. i = 0 \/ k[i] = g[i]
    BY <1>2
  <2>5. k[i + 1] = g[i + 1]
    BY <2>1, <2>2, <2>3, <2>4
  <2> QED BY <2>1, <2>5
<1> HIDE DEF T
<1>3. \A i \in 0..n : i \in T
  BY <1>1, <1>2, SetInduction
<1> QED BY <1>3 DEF T

\* There is such a g.
LEMMA FlattensExists ==
    ASSUME NEW s, NEW n \in Nat
    PROVE  \E g : Flattens(s, n, g)
<1> DEFINE T == {m \in 0..n : \E g : Flattens(s, m, g)}
<1>1. 0 \in T
  <2>1. Flattens(s, 0, [i \in 1..0 |-> <<>>])
    BY DEF Flattens
  <2> QED BY <2>1
<1>2. ASSUME NEW m \in 0..(n - 1), m \in T PROVE m + 1 \in T
  <2>1. PICK g : Flattens(s, m, g)
    BY <1>2
  <2>2. \A i \in 1..m : g[i] = IF i = 1 THEN s[i] ELSE g[i - 1] \o s[i]
    BY <2>1, FlattensIs
  <2> DEFINE x == m + 1
             last == IF x = 1 THEN s[x] ELSE g[m] \o s[x]
             k == [i \in 1..x |-> IF i = x THEN last ELSE g[i]]
  <2> HIDE DEF last
  <2>3. \A i \in 1..x : k[i] = IF i = 1 THEN s[i] ELSE k[i - 1] \o s[i]
    <3> SUFFICES ASSUME NEW i \in 1..x
                 PROVE  k[i] = IF i = 1 THEN s[i] ELSE k[i - 1] \o s[i]
      OBVIOUS
    <3>1. CASE i = x
      <4>1. k[x] = last /\ (x # 1 => k[x - 1] = g[m])
        OBVIOUS
      <4> QED BY <3>1, <4>1 DEF last
    <3>2. CASE i # x
      <4>1. i \in 1..m
        BY <3>2
      <4>2. k[i] = g[i] /\ (i # 1 => k[i - 1] = g[i - 1])
        BY <3>2
      <4> QED BY <2>2, <4>1, <4>2
    <3> QED BY <3>1, <3>2
  <2>4. Flattens(s, x, k)
    <3>1. k = [i \in 1..x |-> k[i]]
      OBVIOUS
    <3> HIDE DEF k
    <3> QED BY <2>3, <3>1, Zenon DEF Flattens
  <2>5. x \in 0..n
    OBVIOUS
  <2> HIDE DEF k
  <2> QED BY <2>4, <2>5
<1> HIDE DEF T
<1>3. n \in T
  BY <1>1, <1>2, SetInduction
<1> QED BY <1>3 DEF T

\* FlattenSeq takes the last of what g makes.
LEMMA FlattenTells ==
    ASSUME NEW s, Len(s) \in Nat, Len(s) # 0
    PROVE  \E g : Flattens(s, Len(s), g) /\ FlattenSeq(s) = g[Len(s)]
<1> DEFINE c == CHOOSE g : Flattens(s, Len(s), g)
<1>1. Flattens(s, Len(s), c)
  BY FlattensExists
<1>2. FlattenSeq(s) = c[Len(s)]
  BY DEF FlattenSeq, Flattens
<1> QED BY <1>1, <1>2

\* Nothing makes nothing.
LEMMA FlattenEmpty == FlattenSeq(<<>>) = <<>>
  BY DEF FlattenSeq

\* Sequences of elements of S make a sequence of elements of S.
LEMMA FlattenType ==
    ASSUME NEW S, NEW s \in Seq(Seq(S))
    PROVE  FlattenSeq(s) \in Seq(S)
<1>1. CASE s = <<>>
  <2>1. <<>> \in Seq(S)
    OBVIOUS
  <2> QED BY <1>1, <2>1, FlattenEmpty
<1>2. CASE s # <<>>
  <2> DEFINE n == Len(s)
  <2>1. n \in Nat /\ n # 0 /\ \A i \in 1..n : s[i] \in Seq(S)
    BY <1>2
  <2>2. PICK g : Flattens(s, n, g) /\ FlattenSeq(s) = g[n]
    BY <2>1, FlattenTells
  <2> HIDE DEF n
  <2>3. \A i \in 1..n : g[i] = IF i = 1 THEN s[i] ELSE g[i - 1] \o s[i]
    BY <2>1, <2>2, FlattensIs
  <2> DEFINE T == {i \in 0..n : i = 0 \/ g[i] \in Seq(S)}
  <2>4. 0 \in T
    BY <2>1
  <2>5. ASSUME NEW i \in 0..(n - 1), i \in T PROVE i + 1 \in T
    <3>1. i + 1 \in 1..n /\ (i + 1) - 1 = i /\ (i # 0 => i + 1 # 1)
      BY <2>1
    <3>2. g[i + 1] = IF i + 1 = 1 THEN s[i + 1] ELSE g[(i + 1) - 1] \o s[i + 1]
      BY <2>3, <3>1
    <3>3. s[i + 1] \in Seq(S) /\ (i = 0 \/ g[i] \in Seq(S))
      BY <2>1, <2>5, <3>1
    <3>4. g[i + 1] \in Seq(S)
      BY <3>1, <3>2, <3>3
    <3> QED BY <2>1, <3>1, <3>4
  <2> HIDE DEF T
  <2>6. \A i \in 0..n : i \in T
    BY <2>1, <2>4, <2>5, SetInduction
  <2> QED BY <2>1, <2>2, <2>6 DEF T
<1> QED BY <1>1, <1>2

\* What t has more than s comes at the end.
LEMMA FlattenLonger ==
    ASSUME NEW s, NEW t, NEW n \in Nat, n # 0, Len(s) = n, Len(t) = n + 1,
           \A i \in 1..n : t[i] = s[i]
    PROVE  FlattenSeq(t) = FlattenSeq(s) \o t[n + 1]
<1>1. PICK g : Flattens(s, n, g) /\ FlattenSeq(s) = g[n]
  BY FlattenTells
<1>2. PICK m : m = n + 1
  OBVIOUS
<1>3. m \in Nat /\ m # 1 /\ m - 1 = n /\ n <= m /\ n \in 1..n /\ m \in 1..m
  BY <1>2
<1>4. PICK k : Flattens(t, m, k) /\ FlattenSeq(t) = k[m]
  BY <1>2, <1>3, FlattenTells
<1>5. k[m] = k[n] \o t[m]
  <2>1. k[m] = IF m = 1 THEN t[m] ELSE k[m - 1] \o t[m]
    <3>1. m \in Nat /\ Flattens(t, m, k) /\ m \in 1..m
      BY <1>3, <1>4
    <3> QED BY ONLY <3>1, FlattensIs
  <2> QED BY <1>3, <2>1
<1>6. k[n] = g[n]
  <2>1. Flattens(s, n, g) /\ Flattens(t, m, k)
    BY <1>1, <1>4
  <2>2. \A i \in 1..n : t[i] = s[i]
    OBVIOUS
  <2>3. \A i \in 1..n : k[i] = g[i]
    BY ONLY n \in Nat, <1>3, <2>1, <2>2, FlattenSame
  <2> QED BY <1>3, <2>3
<1> QED BY <1>1, <1>2, <1>4, <1>5, <1>6

\* A sequence that is added comes at the end.
LEMMA FlattenAppend ==
    ASSUME NEW S, NEW s \in Seq(Seq(S)), NEW x \in Seq(S)
    PROVE  FlattenSeq(Append(s, x)) = FlattenSeq(s) \o x
<1>1. PICK t : t = Append(s, x)
  OBVIOUS
<1>2. /\ Len(s) \in Nat /\ Len(t) = Len(s) + 1 /\ t[Len(s) + 1] = x
      /\ \A i \in 1..Len(s) : t[i] = s[i]
  BY <1>1
<1>3. CASE s = <<>>
  <2>0. Len(t) = 1
    BY <1>2, <1>3
  <2>1. PICK k : Flattens(t, 1, k) /\ FlattenSeq(t) = k[1]
    <3>1. 1 \in Nat /\ 1 # 0
      OBVIOUS
    <3> QED BY <2>0, <3>1, FlattenTells, Zenon
  <2>2. k[1] = t[1]
    BY <2>1, FlattensIs
  <2>3. <<>> \o x = x
    OBVIOUS
  <2> QED BY <1>1, <1>2, <1>3, <2>1, <2>2, <2>3, FlattenEmpty
<1>4. CASE s # <<>>
  <2>1. Len(s) # 0
    BY <1>4
  <2> QED BY <1>1, <1>2, <2>1, FlattenLonger
<1> QED BY <1>3, <1>4

\* The first n of the elements of s.
FirstOf(s, n) == [i \in 1..n |-> s[i]]

\* One more of them.
LEMMA FlattenOneMore ==
    ASSUME NEW S, NEW s \in Seq(Seq(S)), NEW n \in 0..(Len(s) - 1)
    PROVE  /\ FlattenSeq(FirstOf(s, n)) \in Seq(S)
           /\ FlattenSeq(FirstOf(s, n + 1)) = FlattenSeq(FirstOf(s, n)) \o s[n + 1]
<1>1. FirstOf(s, n) \in Seq(Seq(S)) /\ s[n + 1] \in Seq(S)
  BY DEF FirstOf
<1>2. FirstOf(s, n + 1) = Append(FirstOf(s, n), s[n + 1])
  BY DEF FirstOf
<1> HIDE DEF FirstOf
<1> QED BY <1>1, <1>2, FlattenAppend, FlattenType

\* None and all of them.
LEMMA FirstAndAll ==
    ASSUME NEW S, NEW s \in Seq(S)
    PROVE  FirstOf(s, 0) = <<>> /\ FirstOf(s, Len(s)) = s
  BY DEF FirstOf

\* Three sequences are the same however they are joined.
LEMMA Regroup ==
    ASSUME NEW S, NEW s \in Seq(S), NEW t \in Seq(S), NEW u \in Seq(S),
           NEW x, NEW y, x = s \o t, y = t \o u
    PROVE  x \o u = s \o y
BY ConcatAssociative

\* What two lists make together is what each makes, joined.
LEMMA FlattenConcat ==
    ASSUME NEW S, NEW s \in Seq(Seq(S)), NEW t \in Seq(Seq(S))
    PROVE  FlattenSeq(s \o t) = FlattenSeq(s) \o FlattenSeq(t)
<1> DEFINE T == {n \in 0..Len(t) :
                   FlattenSeq(s \o FirstOf(t, n)) = FlattenSeq(s) \o FlattenSeq(FirstOf(t, n))}
<1>1. FirstOf(t, 0) = <<>> /\ FirstOf(t, Len(t)) = t /\ Len(t) \in Nat
  BY FirstAndAll
<1>2. FlattenSeq(s) \in Seq(S)
  BY FlattenType
<1>3. 0 \in T
  <2>1. s \o <<>> = s /\ FlattenSeq(s) \o <<>> = FlattenSeq(s)
    BY <1>2
  <2>2. FlattenSeq(s \o FirstOf(t, 0)) = FlattenSeq(s) \o FlattenSeq(FirstOf(t, 0))
    BY <1>1, <2>1, FlattenEmpty
  <2> QED BY <1>1, <2>2
<1>4. ASSUME NEW n \in 0..(Len(t) - 1), n \in T
      PROVE  n + 1 \in T
  <2>1. PICK f : f = FirstOf(t, n)
    OBVIOUS
  <2>2. f \in Seq(Seq(S)) /\ t[n + 1] \in Seq(S) /\ FirstOf(t, n + 1) = Append(f, t[n + 1])
    BY <2>1 DEF FirstOf
  <2>3. s \o f \in Seq(Seq(S)) /\ s \o Append(f, t[n + 1]) = Append(s \o f, t[n + 1])
    <3>1. PICK e, Q : e = t[n + 1] /\ Q = Seq(S)
      OBVIOUS
    <3>2. e \in Q /\ s \in Seq(Q) /\ f \in Seq(Q)
      BY <2>2, <3>1
    <3>3. s \o f \in Seq(Q) /\ s \o Append(f, e) = Append(s \o f, e)
      BY ONLY <3>2
    <3> QED BY <3>1, <3>3
  <2>4. /\ FlattenSeq(Append(s \o f, t[n + 1])) = FlattenSeq(s \o f) \o t[n + 1]
        /\ FlattenSeq(Append(f, t[n + 1])) = FlattenSeq(f) \o t[n + 1]
        /\ FlattenSeq(f) \in Seq(S)
    BY <2>2, <2>3, FlattenAppend, FlattenType
  <2>5. FlattenSeq(s \o f) = FlattenSeq(s) \o FlattenSeq(f)
    BY <1>4, <2>1
  <2>6. PICK u, v, z : u = FlattenSeq(s) /\ v = FlattenSeq(f) /\ z = t[n + 1]
    OBVIOUS
  <2>7. u \in Seq(S) /\ v \in Seq(S) /\ z \in Seq(S)
    BY <1>2, <2>2, <2>4, <2>6
  <2>8. (u \o v) \o z = u \o (v \o z)
    BY ONLY <2>7, SMTT(40)
  <2>9. FlattenSeq(s \o FirstOf(t, n + 1)) = FlattenSeq(s) \o FlattenSeq(FirstOf(t, n + 1))
    BY <2>2, <2>3, <2>4, <2>5, <2>6, <2>8
  <2> QED BY <2>9
<1> HIDE DEF T
<1>5. PICK m : m = Len(t)
  OBVIOUS
<1>6. m \in Nat /\ \A k \in 0..(m - 1) : k \in T => k + 1 \in T
  BY <1>1, <1>4, <1>5
<1>7. \A k \in 0..m : k \in T
  BY ONLY <1>3, <1>6, SetInduction
<1>8. m \in T
  BY <1>6, <1>7
<1> QED BY <1>1, <1>5, <1>8 DEF T

\* A list of shorter sequences makes a shorter one.
LEMMA FlattenShorter ==
    ASSUME NEW S, NEW s \in Seq(Seq(S)), NEW t \in Seq(Seq(S)), Len(s) = Len(t),
           \A i \in 1..Len(s) : Len(s[i]) <= Len(t[i])
    PROVE  Len(FlattenSeq(s)) <= Len(FlattenSeq(t))
<1> DEFINE T == {n \in 0..Len(t) :
                   Len(FlattenSeq(FirstOf(s, n))) <= Len(FlattenSeq(FirstOf(t, n)))}
<1>1. /\ FirstOf(t, 0) = <<>> /\ FirstOf(t, Len(t)) = t /\ Len(t) \in Nat
      /\ FirstOf(s, 0) = <<>> /\ FirstOf(s, Len(t)) = s
  BY FirstAndAll
<1>2. 0 \in T
  BY <1>1, FlattenEmpty
<1>3. ASSUME NEW n \in 0..(Len(t) - 1), n \in T
      PROVE  n + 1 \in T
  <2>1. /\ FlattenSeq(FirstOf(s, n)) \in Seq(S) /\ FlattenSeq(FirstOf(t, n)) \in Seq(S)
        /\ FlattenSeq(FirstOf(s, n + 1)) = FlattenSeq(FirstOf(s, n)) \o s[n + 1]
        /\ FlattenSeq(FirstOf(t, n + 1)) = FlattenSeq(FirstOf(t, n)) \o t[n + 1]
    BY FlattenOneMore
  <2>2. PICK u, v : u = FlattenSeq(FirstOf(s, n)) /\ v = FlattenSeq(FirstOf(t, n))
    OBVIOUS
  <2>3. s[n + 1] \in Seq(S) /\ t[n + 1] \in Seq(S) /\ Len(s[n + 1]) <= Len(t[n + 1])
    BY <1>1
  <2>4. u \in Seq(S) /\ v \in Seq(S) /\ Len(u) <= Len(v)
    BY <1>3, <2>1, <2>2
  <2>5. Len(u \o s[n + 1]) <= Len(v \o t[n + 1])
    BY <2>3, <2>4
  <2>6. Len(FlattenSeq(FirstOf(s, n + 1))) <= Len(FlattenSeq(FirstOf(t, n + 1)))
    BY <2>1, <2>2, <2>5, Zenon
  <2>7. n + 1 \in 0..Len(t)
    BY <1>1
  <2> QED BY <2>6, <2>7
<1> HIDE DEF T
<1>4. PICK m : m = Len(t)
  OBVIOUS
<1>5. m \in Nat /\ \A k \in 0..(m - 1) : k \in T => k + 1 \in T
  BY <1>1, <1>3, <1>4
<1>6. \A k \in 0..m : k \in T
  BY ONLY <1>2, <1>5, SetInduction
<1>7. m \in T
  BY <1>5, <1>6
<1> QED BY <1>1, <1>4, <1>7 DEF T

\* What is joined, element by element.
LEMMA Joined ==
    ASSUME NEW S, NEW s \in Seq(S), NEW t \in Seq(S), NEW r, r = s \o t
    PROVE  /\ r \in Seq(S) /\ Len(r) = Len(s) + Len(t)
           /\ Len(s) \in Nat /\ Len(t) \in Nat
           /\ \A i \in 1..Len(s) : r[i] = s[i]
           /\ \A i \in 1..Len(t) : r[Len(s) + i] = t[i]
<1>1. r \in Seq(S) /\ Len(r) = Len(s) + Len(t) /\ Len(s) \in Nat /\ Len(t) \in Nat
  OBVIOUS
<1>2. ASSUME NEW i \in 1..Len(s) PROVE r[i] = s[i]
  OBVIOUS
<1>3. ASSUME NEW i \in 1..Len(t) PROVE r[Len(s) + i] = t[i]
  OBVIOUS
<1> QED BY <1>1, <1>2, <1>3

=============================================================================
