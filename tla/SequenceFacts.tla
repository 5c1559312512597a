--------------------------- MODULE SequenceFacts ---------------------------
(***************************************************************************)
(* Facts about sequences that the proofs of the models rest on.  The two   *)
(* recursive definitions, FlattenSeq of the community modules and Selected *)
(* built from it, are reduced once and for all to facts without recursion. *)
(* Induction is over sets of numbers: a set that holds 0 and, with each    *)
(* number, the next, holds them all.                                       *)
(***************************************************************************)
EXTENDS Selection, SequenceTheorems, WellFoundedInduction, TLAPS

\* Induction, stated of a set.
LEMMA SetInduction ==
    ASSUME NEW T \in SUBSET Nat, 0 \in T, \A n \in T : n + 1 \in T
    PROVE  T = Nat
<1> DEFINE U == Nat \ T
<1>1. SUFFICES ASSUME U # {} PROVE FALSE
  OBVIOUS
<1>2. PICK x \in U : \A y \in U : ~(<<y, x>> \in OpToRel(<, Nat))
  BY <1>1, NatLessThanWellFounded, WFMin
<1>3. \A y \in U : ~(y < x)
  BY <1>2 DEF OpToRel
<1>4. x \in Nat /\ x # 0
  BY <1>2
<1>5. x - 1 \in Nat /\ x - 1 < x
  BY <1>4
<1>6. x - 1 \in T
  BY <1>3, <1>5
<1>7. (x - 1) + 1 = x
  BY <1>4
<1> QED BY <1>2, <1>6, <1>7

\* f has a value for each number up to n, each made of the one before.
Follows(f, n, S, a, step) ==
    f \in [0 .. n -> S] /\ f[0] = a /\ \A k \in 1 .. n : f[k] = step[k][f[k - 1]]

\* A recursion over numbers has a solution.
LEMMA StepsExist ==
    ASSUME NEW n \in Nat, NEW S, NEW a \in S, NEW step \in [1 .. n -> [S -> S]]
    PROVE  \E f : Follows(f, n, S, a, step)
<1> DEFINE Upto(m, f) == /\ f \in [0 .. m -> S] /\ f[0] = a
                         /\ \A k \in 1 .. m : f[k] = step[k][f[k - 1]]
           T == {m \in Nat : m <= n => \E f : Upto(m, f)}
<1>1. 0 \in T
  <2> DEFINE g == [i \in 0 .. 0 |-> a]
  <2>1. g \in [0 .. 0 -> S] /\ g[0] = a /\ 1 .. 0 = {}
    OBVIOUS
  <2> HIDE DEF g
  <2>2. Upto(0, g)
    BY <2>1
  <2> QED BY <2>2
<1>2. ASSUME NEW m \in T PROVE m + 1 \in T
  <2> HIDE DEF Upto
  <2>1. SUFFICES ASSUME m + 1 <= n PROVE \E f : Upto(m + 1, f)
    <3>1. m + 1 \in Nat
      OBVIOUS
    <3> QED BY <3>1
  <2> USE DEF Upto
  <2>2. m \in Nat /\ m <= n /\ m + 1 \in 1 .. n
    BY <2>1
  <2>3. PICK f : Upto(m, f)
    BY <2>2
  <2> DEFINE b == step[m + 1][f[m]]
             g == [i \in 0 .. m + 1 |-> IF i <= m THEN f[i] ELSE b]
  <2>4. f[m] \in S /\ b \in S
    BY <2>2, <2>3
  <2> HIDE DEF b
  <2>5. g \in [0 .. m + 1 -> S]
    BY <2>2, <2>3, <2>4
  <2>6. g[0] = a
    BY <2>2, <2>3
  <2>7. ASSUME NEW i \in 1 .. m + 1 PROVE g[i] = step[i][g[i - 1]]
    <3>1. CASE i <= m
      <4>1. i \in 1 .. m /\ i - 1 \in 0 .. m /\ i \in 0 .. m + 1 /\ i - 1 \in 0 .. m + 1
        BY <2>2, <3>1
      <4>2. g[i] = f[i] /\ g[i - 1] = f[i - 1]
        BY <4>1, <3>1
      <4> QED BY <2>3, <4>1, <4>2
    <3>2. CASE i = m + 1
      <4>1. i - 1 = m /\ ~(m + 1 <= m) /\ m + 1 \in 0 .. m + 1 /\ m \in 0 .. m + 1 /\ m <= m
        BY <2>2, <3>2
      <4>2. g[m] = f[m] /\ g[m + 1] = b
        BY <4>1
      <4> QED BY <4>1, <4>2, <3>2 DEF b
    <3>3. i <= m \/ i = m + 1
      BY <2>2
    <3> HIDE DEF g
    <3> QED BY <3>1, <3>2, <3>3
  <2> HIDE DEF g
  <2> QED BY <2>5, <2>6, <2>7
<1> HIDE DEF T
<1>3. T = Nat
  <2>1. T \in SUBSET Nat
    BY DEF T
  <2> QED BY <1>1, <1>2, <2>1, SetInduction
<1>4. n \in T /\ n <= n
  BY <1>3
<1> QED BY <1>4 DEF T, Follows

\* The least of some numbers.
LEMMA MinFacts ==
    ASSUME NEW T \in SUBSET Nat, T # {}
    PROVE  Min(T) \in T /\ \A y \in T : Min(T) <= y
<1>1. PICK x \in T : \A y \in T : ~(<<y, x>> \in OpToRel(<, Nat))
  BY NatLessThanWellFounded, WFMin
<1>2. \A y \in T : ~(y < x)
  BY <1>1 DEF OpToRel
<1>3. \A y \in T : x <= y
  BY <1>2
<1> QED BY <1>3 DEF Min

\* Concatenation is associative, read from right to left.
LEMMA ConcatRegroup ==
    ASSUME NEW S, NEW a \in Seq(S), NEW b \in Seq(S), NEW c \in Seq(S)
    PROVE  a \o (b \o c) = (a \o b) \o c
  BY ConcatAssociative, SMT

----------------------------------------------------------------------------
(***************************************************************************)
(* FlattenSeq.                                                             *)
(***************************************************************************)

\* f[i] is the first i sequences of ss, one after the other.
Joins(f, ss, S) ==
    /\ f \in [0 .. Len(ss) -> Seq(S)]
    /\ f[0] = <<>>
    /\ \A i \in 1 .. Len(ss) : f[i] = f[i - 1] \o ss[i]

LEMMA JoinsExists ==
    ASSUME NEW S, NEW ss \in Seq(Seq(S))
    PROVE  \E f : Joins(f, ss, S)
<1> DEFINE Upto(m, f) == /\ f \in [0 .. m -> Seq(S)]
                         /\ f[0] = <<>>
                         /\ \A i \in 1 .. m : f[i] = f[i - 1] \o ss[i]
           T == {m \in Nat : m <= Len(ss) => \E f : Upto(m, f)}
<1>1. 0 \in T
  <2>0. <<>> \in Seq(S)
    OBVIOUS
  <2>1. Upto(0, [i \in 0 .. 0 |-> <<>>])
    <3> DEFINE g == [i \in 0 .. 0 |-> <<>>]
    <3>1. g \in [0 .. 0 -> Seq(S)] /\ g[0] = <<>> /\ 1 .. 0 = {}
      BY <2>0
    <3> HIDE DEF g
    <3> QED BY <3>1
  <2> QED BY <2>1
<1>2. ASSUME NEW m \in T PROVE m + 1 \in T
  <2> HIDE DEF Upto
  <2>1. SUFFICES ASSUME m + 1 <= Len(ss) PROVE \E f : Upto(m + 1, f)
    <3>1. m + 1 \in Nat
      OBVIOUS
    <3> QED BY <3>1
  <2> USE DEF Upto
  <2>2. m \in Nat /\ Len(ss) \in Nat /\ m <= Len(ss) /\ m + 1 \in 1 .. Len(ss)
    BY <2>1
  <2>3. PICK f : Upto(m, f)
    BY <2>2
  <2> DEFINE g == [i \in 0 .. m + 1 |-> IF i <= m THEN f[i] ELSE f[m] \o ss[m + 1]]
  <2>4. f[m] \in Seq(S) /\ ss[m + 1] \in Seq(S)
    BY <2>2, <2>3
  <2>5. f[m] \o ss[m + 1] \in Seq(S)
    BY <2>4, ConcatProperties
  <2>6. g \in [0 .. m + 1 -> Seq(S)]
    BY <2>2, <2>3, <2>5
  <2>7. g[0] = <<>>
    BY <2>2, <2>3
  <2>8. ASSUME NEW i \in 1 .. m + 1 PROVE g[i] = g[i - 1] \o ss[i]
    <3>1. CASE i <= m
      <4>1. i \in 1 .. m /\ i - 1 \in 0 .. m /\ i \in 0 .. m + 1 /\ i - 1 \in 0 .. m + 1
        BY <2>2, <3>1
      <4>2. g[i] = f[i] /\ g[i - 1] = f[i - 1]
        BY <4>1, <3>1
      <4> QED BY <2>3, <4>1, <4>2
    <3>2. CASE i = m + 1
      <4>1. i - 1 = m /\ ~(m + 1 <= m) /\ m + 1 \in 0 .. m + 1 /\ m \in 0 .. m + 1 /\ m <= m
        BY <2>2, <3>2
      <4>2. g[m] = f[m] /\ g[m + 1] = f[m] \o ss[m + 1]
        BY <4>1
      <4> QED BY <4>1, <4>2, <3>2
    <3>3. i <= m \/ i = m + 1
      BY <2>2
    <3> HIDE DEF g
    <3> QED BY <3>1, <3>2, <3>3
  <2> HIDE DEF g
  <2> QED BY <2>6, <2>7, <2>8
<1> HIDE DEF T
<1>3. T = Nat
  <2>1. T \in SUBSET Nat
    BY DEF T
  <2> QED BY <1>1, <1>2, <2>1, SetInduction
<1>4. Len(ss) \in T /\ Len(ss) <= Len(ss)
  BY <1>3, LenProperties
<1>5. PICK f : Upto(Len(ss), f)
  BY <1>4 DEF T
<1> QED BY <1>5 DEF Joins

\* Two sequences that agree on their first k members are joined alike up to there.
LEMMA JoinsAgree ==
    ASSUME NEW S, NEW ss \in Seq(Seq(S)), NEW tt \in Seq(Seq(S)),
           NEW f, Joins(f, ss, S), NEW g, Joins(g, tt, S),
           NEW k \in Nat, k <= Len(ss), k <= Len(tt),
           \A i \in 1 .. k : ss[i] = tt[i]
    PROVE  f[k] = g[k]
<1> DEFINE T == {m \in Nat : m <= k => f[m] = g[m]}
<1>1. 0 \in T
  BY DEF Joins
<1>2. ASSUME NEW m \in T PROVE m + 1 \in T
  <2>1. SUFFICES ASSUME m + 1 <= k PROVE f[m + 1] = g[m + 1]
    OBVIOUS
  <2>2. /\ m \in Nat /\ m <= k /\ m + 1 \in 1 .. k
        /\ m + 1 \in 1 .. Len(ss) /\ m + 1 \in 1 .. Len(tt) /\ (m + 1) - 1 = m
    BY <2>1
  <2>3. f[m] = g[m]
    BY <2>2
  <2> QED BY <2>2, <2>3 DEF Joins
<1> HIDE DEF T
<1>3. T = Nat
  <2>1. T \in SUBSET Nat
    BY DEF T
  <2> QED BY <1>1, <1>2, <2>1, SetInduction
<1> QED BY <1>3 DEF T

LEMMA FlattenJoins ==
    ASSUME NEW S, NEW ss \in Seq(Seq(S)), NEW f, Joins(f, ss, S)
    PROVE  FlattenSeq(ss) = f[Len(ss)]
<1>1. CASE Len(ss) = 0
  <2>1. ss = <<>>
    BY <1>1
  <2>2. FlattenSeq(ss) = ss
    BY <1>1 DEF FlattenSeq
  <2> QED BY <1>1, <2>1, <2>2 DEF Joins
<1>2. CASE Len(ss) # 0
  <2> DEFINE n == Len(ss)
             Rec(F) == F = [i \in 1 .. n |-> IF i = 1 THEN ss[i] ELSE F[i - 1] \o ss[i]]
             F == CHOOSE F : Rec(F)
  <2>1. n \in Nat \ {0}
    BY <1>2
  <2>2. FlattenSeq(ss) = F[n]
    BY <1>2 DEF FlattenSeq
  <2>3. Rec([i \in 1 .. n |-> f[i]])
    <3> DEFINE h == [i \in 1 .. n |-> f[i]]
    <3>1. ASSUME NEW i \in 1 .. n
          PROVE  h[i] = IF i = 1 THEN ss[i] ELSE h[i - 1] \o ss[i]
      <4>1. f[i] = f[i - 1] \o ss[i] /\ ss[i] \in Seq(S)
        BY DEF Joins
      <4>2. CASE i = 1
        <5>1. f[i - 1] = <<>>
          BY <4>2 DEF Joins
        <5> QED BY <4>1, <4>2, <5>1, ConcatEmptySeq
      <4>3. CASE i # 1
        <5>1. i - 1 \in 1 .. n
          BY <4>3
        <5> QED BY <4>1, <4>3, <5>1
      <4> QED BY <4>2, <4>3
    <3>2. h = [i \in 1 .. n |-> IF i = 1 THEN ss[i] ELSE h[i - 1] \o ss[i]]
      BY <3>1
    <3> QED BY <3>2
  <2>4. Rec(F)
    BY <2>3
  <2> HIDE DEF F
  <2> DEFINE T == {m \in Nat : m + 1 <= n => F[m + 1] = f[m + 1]}
  <2>5. ASSUME NEW i \in 1 .. n PROVE F[i] = IF i = 1 THEN ss[i] ELSE F[i - 1] \o ss[i]
    BY <2>4
  <2> HIDE DEF Rec
  <2>6. 0 \in T
    <3>1. 1 \in 1 .. n /\ F[1] = ss[1] /\ ss[1] \in Seq(S)
      BY <2>1, <2>5
    <3>2. f[1] = f[0] \o ss[1] /\ f[0] = <<>>
      <4>1. 1 - 1 = 0
        OBVIOUS
      <4> QED BY <3>1, <4>1 DEF Joins
    <3> QED BY <3>1, <3>2, ConcatEmptySeq
  <2>7. ASSUME NEW m \in T PROVE m + 1 \in T
    <3>1. SUFFICES ASSUME m + 2 <= n PROVE F[m + 2] = f[m + 2]
      OBVIOUS
    <3>2. m \in Nat /\ m + 1 <= n /\ m + 2 \in 1 .. n /\ (m + 2) - 1 = m + 1 /\ m + 2 # 1
      BY <2>1, <3>1
    <3>3. F[m + 1] = f[m + 1]
      BY <3>2
    <3>4. F[m + 2] = F[m + 1] \o ss[m + 2]
      BY <2>5, <3>2
    <3> QED BY <3>2, <3>3, <3>4 DEF Joins
  <2> HIDE DEF T
  <2>8. T = Nat
    <3>1. T \in SUBSET Nat
      BY DEF T
    <3> QED BY <2>6, <2>7, <3>1, SetInduction
  <2>9. n - 1 \in T /\ (n - 1) + 1 = n
    BY <2>1, <2>8
  <2> QED BY <2>2, <2>9, <2>1 DEF T
<1> QED BY <1>1, <1>2

\* Nothing flattens to nothing.
LEMMA FlattenEmpty == FlattenSeq(<<>>) = <<>>
  BY DEF FlattenSeq

LEMMA FlattenType ==
    ASSUME NEW S, NEW ss \in Seq(Seq(S))
    PROVE  FlattenSeq(ss) \in Seq(S)
<1>1. PICK f : Joins(f, ss, S)
  BY JoinsExists
<1>2. FlattenSeq(ss) = f[Len(ss)]
  BY <1>1, FlattenJoins
<1> QED BY <1>1, <1>2 DEF Joins

\* A sequence appended comes at the end.
LEMMA FlattenAppend ==
    ASSUME NEW S, NEW ss \in Seq(Seq(S)), NEW s \in Seq(S)
    PROVE  FlattenSeq(Append(ss, s)) = FlattenSeq(ss) \o s
<1> DEFINE tt == Append(ss, s)
           n == Len(ss)
<1>1. /\ tt \in Seq(Seq(S)) /\ Len(tt) = n + 1 /\ n \in Nat
      /\ \A i \in 1 .. n : ss[i] = tt[i]
      /\ tt[n + 1] = s
  BY AppendProperties
<1>2. PICK f : Joins(f, ss, S)
  BY JoinsExists
<1>3. PICK g : Joins(g, tt, S)
  BY <1>1, JoinsExists
<1> HIDE DEF tt
<1>4. f[n] = g[n]
  <2>1. n <= n /\ n <= Len(tt) /\ n \in Nat
    BY <1>1
  <2>2. tt \in Seq(Seq(S)) /\ \A i \in 1 .. n : ss[i] = tt[i]
    BY <1>1
  <2> HIDE DEF n
  <2>3. n <= Len(ss)
    BY <2>1 DEF n
  <2> QED BY <2>1, <2>2, <2>3, <1>2, <1>3, JoinsAgree
<1>5. g[n + 1] = g[n] \o s
  <2>1. n + 1 \in 1 .. Len(tt) /\ (n + 1) - 1 = n
    BY <1>1
  <2> QED BY <1>1, <1>3, <2>1 DEF Joins
<1>6. FlattenSeq(ss) = f[n]
  BY <1>2, FlattenJoins
<1>7. FlattenSeq(tt) = g[n + 1]
  BY <1>1, <1>3, FlattenJoins
<1> QED BY <1>4, <1>5, <1>6, <1>7 DEF tt

\* The head comes first.
LEMMA FlattenTail ==
    ASSUME NEW S, NEW ss \in Seq(Seq(S)), ss # <<>>
    PROVE  FlattenSeq(ss) = Head(ss) \o FlattenSeq(Tail(ss))
<1> DEFINE tt == Tail(ss)
           n == Len(tt)
           h == Head(ss)
<1>1. /\ tt \in Seq(Seq(S)) /\ h \in Seq(S) /\ n \in Nat /\ Len(ss) = n + 1
      /\ h = ss[1] /\ \A i \in 1 .. n : tt[i] = ss[i + 1]
  BY HeadTailProperties
<1>2. PICK g : Joins(g, tt, S)
  BY <1>1, JoinsExists
<1> HIDE DEF tt, h
<1> DEFINE f == [i \in 0 .. n + 1 |-> IF i = 0 THEN <<>> ELSE h \o g[i - 1]]
<1>3. \A i \in 0 .. n : g[i] \in Seq(S) /\ h \o g[i] \in Seq(S)
  BY <1>1, <1>2, ConcatProperties DEF Joins
<1>4. f \in [0 .. Len(ss) -> Seq(S)]
  <2>1. ASSUME NEW i \in 0 .. n + 1 PROVE f[i] \in Seq(S)
    <3>1. CASE i = 0
      BY <3>1
    <3>2. CASE i # 0
      <4>1. i - 1 \in 0 .. n
        BY <1>1, <3>2
      <4> QED BY <1>3, <3>2, <4>1
    <3> QED BY <3>1, <3>2
  <2> QED BY <1>1, <2>1
<1>5. f[0] = <<>>
  BY <1>1
<1>6. ASSUME NEW i \in 1 .. Len(ss) PROVE f[i] = f[i - 1] \o ss[i]
  <2>1. CASE i = 1
    <3>0. 1 \in 0 .. n + 1 /\ 0 \in 0 .. n + 1 /\ 1 - 1 = 0
      BY <1>1
    <3>1. f[1] = h \o g[0] /\ g[0] = <<>> /\ f[0] = <<>>
      <4>1. g[0] = <<>> /\ 1 # 0
        BY <1>2 DEF Joins
      <4>2. f[0] = <<>>
        BY <3>0
      <4>3. f[1] = h \o g[1 - 1]
        BY <3>0
      <4> QED BY <3>0, <4>1, <4>2, <4>3
    <3>2. h \o <<>> = h /\ <<>> \o h = h
      BY <1>1, ConcatEmptySeq
    <3> QED BY <1>1, <2>1, <3>1, <3>2
  <2>2. CASE i # 1
    <3>1. /\ i - 1 \in 1 .. n /\ i - 2 \in 0 .. n /\ i - 1 \in 0 .. n /\ i \in 0 .. n + 1
          /\ i # 0 /\ i - 1 # 0 /\ i - 1 \in 0 .. n + 1
          /\ (i - 1) - 1 = i - 2 /\ (i - 1) + 1 = i
      BY <1>1, <2>2
    <3>2. f[i] = h \o g[i - 1] /\ f[i - 1] = h \o g[i - 2]
      BY <3>1
    <3>3. g[i - 1] = g[i - 2] \o tt[i - 1]
      BY <1>2, <3>1 DEF Joins
    <3>4. tt[i - 1] = ss[i]
      BY <1>1, <3>1
    <3>5. g[i - 2] \in Seq(S) /\ ss[i] \in Seq(S)
      BY <1>3, <3>1
    <3>6. h \o (g[i - 2] \o ss[i]) = (h \o g[i - 2]) \o ss[i]
      <4>1. h \in Seq(S)
        BY <1>1
      <4>2. \A a, b \in Seq(S) : h \o (a \o b) = (h \o a) \o b
        BY ONLY <4>1, ConcatRegroup
      <4> QED BY <3>5, <4>2
    <3> QED BY <3>2, <3>3, <3>4, <3>6
  <2> QED BY <2>1, <2>2
<1> HIDE DEF f
<1>7. Joins(f, ss, S)
  BY <1>4, <1>5, <1>6 DEF Joins
<1>8. FlattenSeq(ss) = f[n + 1]
  BY <1>1, <1>7, FlattenJoins
<1>9. f[n + 1] = h \o g[n]
  <2>1. n + 1 \in 0 .. n + 1 /\ n + 1 # 0 /\ (n + 1) - 1 = n
    BY <1>1
  <2> QED BY <2>1 DEF f
<1>10. FlattenSeq(tt) = g[n]
  BY <1>1, <1>2, FlattenJoins
<1> QED BY <1>8, <1>9, <1>10 DEF h, tt

----------------------------------------------------------------------------
(***************************************************************************)
(* Selected.                                                               *)
(***************************************************************************)

\* h tells where in s each element of t was: at increasing indexes, all in I.
Picks(h, t, s, I) ==
    /\ h \in [1 .. Len(t) -> I]
    /\ \A i, j \in 1 .. Len(t) : i < j => h[i] < h[j]
    /\ \A i \in 1 .. Len(t) : t[i] = s[h[i]]

\* What is selected are the elements at the indexes of I, in their order; none of
\* these indexes is left out.
LEMMA SelectedPicks ==
    ASSUME NEW S, NEW s \in Seq(S), NEW I \in SUBSET DOMAIN s
    PROVE  /\ Selected(s, I) \in Seq(S)
           /\ \E h : /\ Picks(h, Selected(s, I), s, I)
                     /\ \A i \in I : \E k \in 1 .. Len(Selected(s, I)) : h[k] = i
<1> DEFINE n == Len(s)
           Part(i) == IF i \in I THEN <<s[i]>> ELSE <<>>
           ss == [i \in DOMAIN s |-> Part(i)]
<1>1. n \in Nat /\ DOMAIN s = 1 .. n /\ \A i \in 1 .. n : s[i] \in S
  BY LenProperties, ElementOfSeq
<1>2. \A i \in 1 .. n : Part(i) \in Seq(S)
  BY <1>1
<1>3. ss \in Seq(Seq(S)) /\ Len(ss) = n /\ \A i \in 1 .. n : ss[i] = Part(i)
  <2>1. ss \in [1 .. n -> Seq(S)]
    BY <1>1, <1>2
  <2> HIDE DEF Part
  <2>2. ss \in Seq(Seq(S)) /\ Len(ss) = n
    BY <1>1, <2>1, IsASeq
  <2> QED BY <1>1, <2>2
<1>4. Selected(s, I) = FlattenSeq(ss)
  BY DEF Selected
<1> HIDE DEF ss, Part
<1>5. PICK f : Joins(f, ss, S)
  BY <1>3, JoinsExists
<1>6. FlattenSeq(ss) = f[n]
  BY <1>3, <1>5, FlattenJoins
<1>7. /\ \A m \in 0 .. n : f[m] \in Seq(S)
      /\ f[0] = <<>>
      /\ \A m \in 1 .. n : f[m] = f[m - 1] \o Part(m)
  BY <1>3, <1>5 DEF Joins
<1> DEFINE J(m) == I \cap 1 .. m
           Good(m, h) == /\ Picks(h, f[m], s, J(m))
                         /\ \A i \in J(m) : \E k \in 1 .. Len(f[m]) : h[k] = i
           T == {m \in Nat : m <= n => \E h : Good(m, h)}
<1>8. 0 \in T
  <2> DEFINE h == [i \in {} |-> 0]
  <2>1. Len(f[0]) = 0 /\ 1 .. 0 = {}
    BY <1>7
  <2>2. h \in [{} -> J(0)] /\ J(0) = {}
    BY <2>1
  <2> HIDE DEF h
  <2>3. Good(0, h)
    BY <2>1, <2>2 DEF Picks
  <2> QED BY <2>3
<1>9. ASSUME NEW m \in T PROVE m + 1 \in T
  <2> HIDE DEF Good
  <2>1. SUFFICES ASSUME m + 1 <= n PROVE \E h : Good(m + 1, h)
    <3>1. m + 1 \in Nat
      OBVIOUS
    <3> QED BY <3>1
  <2>2. m \in Nat /\ m <= n /\ m + 1 \in 1 .. n /\ (m + 1) - 1 = m /\ m \in 0 .. n
    BY <1>1, <2>1
  <2>3. PICK h : Good(m, h)
    BY <2>2
  <2> DEFINE t == f[m]
             u == f[m + 1]
             k == Len(t)
  <2>4. u = t \o Part(m + 1) /\ t \in Seq(S) /\ k \in Nat
    BY <1>7, <2>2, LenProperties
  <2>5. /\ h \in [1 .. k -> J(m)]
        /\ \A i, j \in 1 .. k : i < j => h[i] < h[j]
        /\ \A i \in 1 .. k : t[i] = s[h[i]]
        /\ \A i \in J(m) : \E x \in 1 .. k : h[x] = i
    BY <2>3 DEF Good, Picks
  <2> HIDE DEF t
  <2>6. CASE m + 1 \notin I
    <3>1. u = t /\ J(m + 1) = J(m)
      <4>1. u = t
        BY <2>4, <2>6, ConcatEmptySeq DEF Part
      <4>2. J(m + 1) = J(m)
        BY <2>2, <2>6
      <4> QED BY <4>1, <4>2
    <3>2. f[m + 1] = f[m]
      BY <3>1 DEF t
    <3> HIDE DEF J
    <3> QED BY <2>3, <3>1, <3>2 DEF Good
  <2>7. CASE m + 1 \in I
    <3>1. /\ u \in Seq(S) /\ Len(u) = k + 1
          /\ \A i \in 1 .. k : u[i] = t[i]
          /\ u[k + 1] = s[m + 1]
      <4>1. u = t \o <<s[m + 1]>> /\ s[m + 1] \in S
        BY <1>1, <2>2, <2>4, <2>7 DEF Part
      <4>2. u = Append(t, s[m + 1])
        BY <2>4, <4>1, AppendIsConcat
      <4>3. t \in Seq(S) /\ s[m + 1] \in S
        BY <2>4, <4>1
      <4> HIDE DEF k, u
      <4>4. /\ Append(t, s[m + 1]) \in Seq(S)
            /\ Len(Append(t, s[m + 1])) = Len(t) + 1
            /\ \A i \in 1 .. Len(t) : Append(t, s[m + 1])[i] = t[i]
            /\ Append(t, s[m + 1])[Len(t) + 1] = s[m + 1]
        BY ONLY <4>3, AppendProperties
      <4> QED BY <4>2, <4>4 DEF k
    <3>2. J(m + 1) = J(m) \cup {m + 1} /\ \A i \in J(m) : i \in 1 .. m
      BY <2>2, <2>7
    <3> HIDE DEF J, u
    <3> DEFINE g == [i \in 1 .. k + 1 |-> IF i = k + 1 THEN m + 1 ELSE h[i]]
    <3>3. \A i \in 1 .. k : g[i] = h[i] /\ h[i] \in J(m)
      <4>1. k \in Nat
        BY <2>4
      <4>2. \A i \in 1 .. k : h[i] \in J(m)
        BY <2>5 DEF k
      <4> HIDE DEF k
      <4>3. \A i \in 1 .. k : i # k + 1 /\ i \in 1 .. k + 1
        BY <4>1
      <4>4. \A i \in 1 .. k : g[i] = h[i]
        BY <4>3
      <4> QED BY <4>2, <4>4
    <3>4. g[k + 1] = m + 1
      BY <2>4
    <3>5. g \in [1 .. k + 1 -> J(m + 1)]
      BY <2>4, <2>5, <3>2
    <3> HIDE DEF g, k
    <3>6. \A i \in 1 .. k + 1 : i \in 1 .. k \/ i = k + 1
      BY <2>4
    <3>7. ASSUME NEW i \in 1 .. k + 1, NEW j \in 1 .. k + 1, i < j PROVE g[i] < g[j]
      <4>1. i \in 1 .. k
        BY <2>4, <3>7
      <4>2. CASE j \in 1 .. k
        BY <2>5, <3>3, <3>7, <4>1, <4>2 DEF k
      <4>3. CASE j = k + 1
        <5>1. h[i] \in 1 .. m
          BY <3>2, <3>3, <4>1
        <5> QED BY <2>2, <3>3, <3>4, <4>1, <4>3, <5>1
      <4> QED BY <3>6, <4>2, <4>3
    <3>8. ASSUME NEW i \in 1 .. k + 1 PROVE u[i] = s[g[i]]
      <4>1. CASE i \in 1 .. k
        BY <2>5, <3>1, <3>3, <4>1 DEF k
      <4>2. CASE i = k + 1
        BY <3>1, <3>4, <4>2
      <4> QED BY <3>6, <4>1, <4>2
    <3>9. ASSUME NEW i \in J(m + 1) PROVE \E x \in 1 .. k + 1 : g[x] = i
      <4>1. CASE i \in J(m)
        <5>1. PICK x \in 1 .. k : h[x] = i
          BY <2>5, <4>1 DEF k
        <5>2. x \in 1 .. k + 1
          BY <2>4
        <5> QED BY <3>3, <5>1, <5>2
      <4>2. CASE i = m + 1
        BY <2>4, <3>4, <4>2
      <4> QED BY <3>2, <4>1, <4>2
    <3>10. Len(u) = k + 1
      BY <3>1
    <3> QED BY <3>5, <3>7, <3>8, <3>9, <3>10 DEF Good, Picks, u
  <2> QED BY <2>6, <2>7
<1> HIDE DEF T
<1>10. T = Nat
  <2>1. T \in SUBSET Nat
    BY DEF T
  <2> QED BY <1>8, <1>9, <2>1, SetInduction
<1>11. PICK h : Good(n, h)
  <2>1. n \in T /\ n <= n
    BY <1>1, <1>10
  <2> HIDE DEF Good
  <2> QED BY <2>1 DEF T
<1>12. J(n) = I
  BY <1>1
<1>13. f[n] \in Seq(S)
  BY <1>1, <1>7
<1> HIDE DEF J
<1> QED BY <1>4, <1>6, <1>11, <1>12, <1>13
============================================================================
