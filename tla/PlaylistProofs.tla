--------------------------- MODULE PlaylistProofs ---------------------------
(***************************************************************************)
(* Proofs about one playlist: its two orders reach just what the filter    *)
(* lets pass, the active index follows its item, a sort upwards is a       *)
(* stable sort, removing duplicates leaves one of each, and the list names *)
(* destroyed entries only in the ways that are known.                      *)
(***************************************************************************)
EXTENDS Playlist, SequenceFacts, FiniteSetTheorems

(***************************************************************************)
(* Selections of indexes, and orders.                                      *)
(***************************************************************************)

Increasing(t) == \A j, k \in 1 .. Len(t) : j < k => t[j] < t[k]
Distinctly(t) == \A j, k \in 1 .. Len(t) : j # k => t[j] # t[k]

\* The indexes in I, in their order.
LEMMA IndexesSelected ==
    ASSUME NEW S, NEW s \in Seq(S), NEW I \in SUBSET DOMAIN s
    PROVE  LET t == Selected(AllIndexes(s), I) IN
           /\ t \in Seq(I) /\ Increasing(t) /\ Distinctly(t) /\ ToSet(t) = I
<1> DEFINE n == Len(s)
           a == AllIndexes(s)
           t == Selected(a, I)
<1>1. n \in Nat /\ DOMAIN s = 1 .. n
  BY LenProperties
<1>2. a \in Seq(Nat) /\ DOMAIN a = DOMAIN s /\ \A i \in DOMAIN s : a[i] = i
  <2>1. a \in [1 .. n -> Nat] /\ \A i \in DOMAIN s : a[i] = i
    BY <1>1 DEF AllIndexes
  <2>2. a \in Seq(Nat)
    BY <1>1, <2>1
  <2> QED BY <1>1, <2>1, <2>2
<1> HIDE DEF a
<1>3. t \in Seq(Nat)
  BY <1>2, SelectedPicks
<1>4. PICK h : Picks(h, t, a, I) /\ \A i \in I : \E k \in 1 .. Len(t) : h[k] = i
  BY <1>2, SelectedPicks
<1> HIDE DEF t
<1>5. Len(t) \in Nat /\ DOMAIN t = 1 .. Len(t)
  BY <1>3, LenProperties
<1>6. /\ h \in [1 .. Len(t) -> I]
      /\ \A i, j \in 1 .. Len(t) : i < j => h[i] < h[j]
      /\ \A i \in 1 .. Len(t) : t[i] = h[i]
  BY <1>2, <1>4 DEF Picks
<1>7. Increasing(t)
  BY <1>6 DEF Increasing
<1>8. \A k \in 1 .. Len(t) : t[k] \in I
  BY <1>6
<1>9. t \in Seq(I)
  <2>1. t = [k \in 1 .. Len(t) |-> t[k]]
    BY <1>3, <1>5, LenProperties
  <2>2. [k \in 1 .. Len(t) |-> t[k]] \in Seq(I)
    BY <1>5, <1>8, IsASeq
  <2> QED BY <2>1, <2>2
<1>10. ToSet(t) = I
  <2>1. \A i \in I : \E k \in DOMAIN t : t[k] = i
    BY <1>4, <1>5, <1>6
  <2> QED BY <1>5, <1>8, <2>1 DEF ToSet
<1>11. Distinctly(t)
  <2>1. SUFFICES ASSUME NEW j \in 1 .. Len(t), NEW k \in 1 .. Len(t), j # k PROVE t[j] # t[k]
    BY DEF Distinctly
  <2>2. t[j] \in Nat /\ t[k] \in Nat
    BY <1>3, ElementOfSeq
  <2>3. CASE j < k
    BY <1>7, <2>2, <2>3 DEF Increasing
  <2>4. CASE k < j
    BY <1>7, <2>2, <2>4 DEF Increasing
  <2> QED BY <1>5, <2>1, <2>3, <2>4
<1> QED BY <1>7, <1>9, <1>10, <1>11 DEF t, a

\* A sequence with no element twice is as long as its elements are many.
LEMMA DistinctLength ==
    ASSUME NEW S, NEW t \in Seq(S), Distinctly(t)
    PROVE  IsFiniteSet(ToSet(t)) /\ Cardinality(ToSet(t)) = Len(t)
<1> DEFINE n == Len(t)
<1>1. n \in Nat /\ DOMAIN t = 1 .. n /\ t = [i \in 1 .. n |-> t[i]]
  BY LenProperties
<1>2. t \in [1 .. n -> ToSet(t)]
  BY <1>1 DEF ToSet
<1>3. t \in Surjection(1 .. n, ToSet(t))
  BY <1>1, <1>2 DEF Surjection, ToSet
<1>4. t \in Injection(1 .. n, ToSet(t))
  BY <1>2 DEF Injection, IsInjective, Distinctly
<1>5. IsFiniteSet(1 .. n) /\ Cardinality(1 .. n) = n
  <2> HIDE DEF n
  <2>1. 1 \in Int /\ n \in Int
    BY <1>1
  <2>2. IsFiniteSet(1 .. n) /\ Cardinality(1 .. n) = IF 1 > n THEN 0 ELSE n - 1 + 1
    BY ONLY <2>1, FS_Interval
  <2> QED BY <1>1, <2>2
<1> HIDE DEF n
<1>6. IsFiniteSet(ToSet(t)) /\ Cardinality(ToSet(t)) = Cardinality(1 .. n)
  BY <1>3, <1>4, <1>5, FS_Surjection
<1> QED BY <1>5, <1>6 DEF n

\* What passes the filter is reached in the order of the list, and the shuffled
\* order holds the same, the active item first.
LEMMA ShuffledFacts ==
    ASSUME NEW S, NEW n \in Seq(S), Distinctly(n), NEW a, NEW p \in Shuffles(n, a)
    PROVE  /\ p \in Seq(S) /\ Distinctly(p) /\ ToSet(p) = ToSet(n) /\ Len(p) = Len(n)
           /\ a \in ToSet(n) => Len(p) # 0 /\ p[1] = a
<1> DEFINE T == ToSet(n)
           c == Cardinality(T)
<1>1. IsFiniteSet(T) /\ c = Len(n)
  BY DistinctLength
<1>2. Len(n) \in Nat /\ DOMAIN n = 1 .. Len(n)
  BY LenProperties
<1>3. /\ p \in [1 .. c -> T] /\ \A i, j \in 1 .. c : i # j => p[i] # p[j]
      /\ a \in T => p[1] = a
  BY DEF Shuffles, SetToSeqs
<1>4. T \subseteq S
  <2>1. \A i \in DOMAIN n : n[i] \in S
    BY <1>2, ElementOfSeq
  <2> QED BY <2>1 DEF ToSet
<1> HIDE DEF T, c
<1>5. c \in Nat
  BY <1>1, <1>2
<1>6. p \in Seq(T)
  BY <1>3, <1>5
<1>7. Len(p) = c /\ DOMAIN p = 1 .. c
  BY <1>3, <1>5, <1>6, LenProperties
<1>8. p \in Seq(S)
  BY <1>4, <1>6, SeqMonotonic
<1>9. Distinctly(p)
  BY <1>3, <1>7 DEF Distinctly
<1>10. ToSet(p) = T
  <2>1. ToSet(p) \in SUBSET T
    BY <1>3, <1>7 DEF ToSet
  <2>2. Cardinality(ToSet(p)) = Cardinality(T)
    BY <1>6, <1>7, <1>9, DistinctLength DEF c
  <2> QED BY <1>1, <2>1, <2>2, FS_Subset
<1>11. a \in T => c # 0
  BY <1>1, FS_EmptySet DEF c
<1> QED BY <1>1, <1>3, <1>7, <1>8, <1>9, <1>10, <1>11 DEF T

----------------------------------------------------------------------------
(***************************************************************************)
(* The list: its items, and what is written over them.                     *)
(***************************************************************************)

Arrays   == {c \in Seq(Item) : Len(c) <= MaxItems}
Listings == {l \in [cells : Arrays, count : Nat, active : Nat] :
                l.count <= Len(l.cells) /\ l.active <= Len(l.cells)}

\* Every item of l is judged by the filter that lets pass through.
Judged(l, pass) ==
    \A i \in 1 .. l.count : l.cells[i].out = (l.cells[i].id \notin pass)

LEMMA ListingFields ==
    ASSUME NEW l \in Listings
    PROVE  /\ l.cells \in Seq(Item) /\ Len(l.cells) \in Nat /\ Len(l.cells) <= MaxItems
           /\ l.count \in Nat /\ l.count <= Len(l.cells)
           /\ l.active \in Nat /\ l.active <= Len(l.cells)
           /\ DOMAIN l.cells = 1 .. Len(l.cells)
<1>1. l.cells \in Arrays /\ l.count \in Nat /\ l.active \in Nat
  BY DEF Listings
<1>2. l.cells \in Seq(Item) /\ Len(l.cells) <= MaxItems
  BY <1>1 DEF Arrays
<1>3. Len(l.cells) \in Nat /\ DOMAIN l.cells = 1 .. Len(l.cells)
  BY <1>2, LenProperties
<1> QED BY <1>1, <1>2, <1>3 DEF Listings

LEMMA ItemsFacts ==
    ASSUME NEW l \in Listings
    PROVE  /\ ItemsOf(l) \in Seq(Item) /\ Len(ItemsOf(l)) = l.count
           /\ DOMAIN ItemsOf(l) = 1 .. l.count
           /\ \A i \in 1 .. l.count : ItemsOf(l)[i] = l.cells[i] /\ l.cells[i] \in Item
<1> DEFINE c == l.cells
           n == l.count
           t == SubSeq(c, 1, n)
<1>1. c \in Seq(Item) /\ Len(c) \in Nat /\ n \in Nat /\ n <= Len(c)
  BY ListingFields
<1>2. ItemsOf(l) = t
  BY DEF ItemsOf
<1> HIDE DEF c, n
<1>3. \A i \in 1 .. n : c[i] \in Item
  BY <1>1, ElementOfSeq
<1>4. 1 \in Int /\ n \in Int
  BY <1>1
<1>5. /\ t \in Seq(Item) /\ Len(t) = IF 1 <= n THEN n - 1 + 1 ELSE 0
      /\ \A i \in 1 .. n - 1 + 1 : t[i] = c[1 + i - 1]
  BY ONLY <1>3, <1>4, SubSeqProperties
<1> HIDE DEF t
<1>6. Len(t) = n /\ \A i \in 1 .. n : t[i] = c[i]
  BY <1>1, <1>5
<1>7. DOMAIN t = 1 .. n
  BY <1>5, <1>6, LenProperties
<1> QED BY <1>2, <1>3, <1>5, <1>6, <1>7 DEF c, n

\* Writing s over l's items leaves what lies beyond.
LEMMA WriteFacts ==
    ASSUME NEW l \in Listings, NEW s \in Seq(Item), Len(s) <= MaxItems
    PROVE  /\ Write(l, s) \in Listings
           /\ Write(l, s).count = Len(s) /\ Write(l, s).active = l.active
           /\ Len(l.cells) <= Len(Write(l, s).cells)
           /\ \A i \in 1 .. Len(s) : Write(l, s).cells[i] = s[i]
           /\ \A i \in Len(s) + 1 .. Len(l.cells) : Write(l, s).cells[i] = l.cells[i]
<1> DEFINE c == l.cells
           k == Len(s)
           n == Len(c)
           r == SubSeq(c, k + 1, n)
           d == s \o r
<1>1. c \in Seq(Item) /\ n \in Nat /\ n <= MaxItems /\ l.active \in Nat /\ l.active <= n
  BY ListingFields
<1>2. k \in Nat
  BY LenProperties
<1>3. /\ Write(l, s) = [l EXCEPT !.cells = d, !.count = k]
      /\ l \in [cells : Arrays, count : Nat, active : Nat]
  BY DEF Write, Listings
<1> HIDE DEF c
<1>4. /\ r \in Seq(Item) /\ Len(r) = IF k < n THEN n - k ELSE 0
      /\ \A i \in 1 .. n - k : r[i] = c[k + i]
  <2>1. \A i \in k + 1 .. n : c[i] \in Item
    BY <1>1, <1>2, ElementOfSeq
  <2>2. k + 1 \in Int /\ n \in Int
    BY <1>1, <1>2
  <2> HIDE DEF k, n
  <2>3. /\ r \in Seq(Item) /\ Len(r) = IF k + 1 <= n THEN n - (k + 1) + 1 ELSE 0
        /\ \A i \in 1 .. n - (k + 1) + 1 : r[i] = c[k + 1 + i - 1]
    BY ONLY <2>1, <2>2, SubSeqProperties
  <2> HIDE DEF r
  <2> QED BY <1>1, <1>2, <2>3
<1> HIDE DEF r
<1>5. /\ d \in Seq(Item) /\ Len(d) = k + Len(r)
      /\ \A i \in 1 .. k : d[i] = s[i]
      /\ \A i \in k + 1 .. n : d[i] = c[i]
  <2>1. /\ d \in Seq(Item) /\ Len(d) = k + Len(r)
        /\ \A i \in 1 .. k + Len(r) : d[i] = IF i <= k THEN s[i] ELSE r[i - k]
    BY <1>4, ConcatProperties
  <2>2. Len(r) \in Nat
    BY <1>4, LenProperties
  <2> HIDE DEF d, k, n
  <2>3. \A i \in 1 .. k : d[i] = s[i]
    BY <1>2, <2>1, <2>2
  <2>4. ASSUME NEW i \in k + 1 .. n PROVE d[i] = c[i]
    <3>1. i - k \in 1 .. n - k /\ i \in 1 .. k + Len(r) /\ ~(i <= k) /\ k + (i - k) = i
      BY <1>1, <1>2, <1>4
    <3>2. d[i] = r[i - k] /\ r[i - k] = c[k + (i - k)]
      BY <1>4, <2>1, <3>1
    <3> QED BY <3>1, <3>2
  <2> QED BY <2>1, <2>3, <2>4
<1> HIDE DEF d, n, k
<1>6. n <= Len(d) /\ k <= Len(d) /\ Len(d) <= MaxItems /\ Len(d) \in Nat
  <2>1. k <= MaxItems
    BY DEF k
  <2> QED BY <1>1, <1>2, <1>4, <1>5, <2>1
<1>7. /\ Write(l, s).cells = d /\ Write(l, s).count = k /\ Write(l, s).active = l.active
      /\ Write(l, s) \in [cells : Arrays, count : Nat, active : Nat]
  <2>1. d \in Arrays
    BY <1>5, <1>6 DEF Arrays
  <2> QED BY <1>2, <1>3, <2>1
<1>8. Write(l, s) \in Listings
  BY <1>1, <1>6, <1>7 DEF Listings
<1> QED BY <1>5, <1>6, <1>7, <1>8 DEF n, c, k

----------------------------------------------------------------------------
(***************************************************************************)
(* Rebuilding the orders.                                                  *)
(***************************************************************************)

PassingOf(l) == {i \in 1 .. l.count : ~l.cells[i].out}

\* n and r are the two orders of some of l's indexes.
OrdersOf(l, n, r) ==
    /\ n \in Seq(DOMAIN l.cells) /\ Increasing(n) /\ Distinctly(n)
    /\ r \in Seq(DOMAIN l.cells) /\ Distinctly(r)
    /\ ToSet(r) = ToSet(n) /\ Len(r) = Len(n)

LEMMA PassingFacts ==
    ASSUME NEW l \in Listings
    PROVE  LET n == PassingIndexes(ItemsOf(l)) IN
           /\ n \in Seq(DOMAIN l.cells) /\ Increasing(n) /\ Distinctly(n)
           /\ ToSet(n) = PassingOf(l)
<1> DEFINE s == ItemsOf(l)
           I == {i \in DOMAIN s : ~s[i].out}
           n == PassingIndexes(s)
<1>1. /\ s \in Seq(Item) /\ DOMAIN s = 1 .. l.count
      /\ \A i \in 1 .. l.count : s[i] = l.cells[i]
  BY ItemsFacts
<1> HIDE DEF s
<1>2. n = Selected(AllIndexes(s), I)
  BY DEF PassingIndexes
<1>3. I = PassingOf(l)
  BY <1>1 DEF PassingOf
<1>4. I \in SUBSET DOMAIN s
  OBVIOUS
<1> HIDE DEF I, n
<1>5. n \in Seq(I) /\ Increasing(n) /\ Distinctly(n) /\ ToSet(n) = I
  BY ONLY <1>1, <1>2, <1>4, IndexesSelected
<1>6. I \in SUBSET DOMAIN l.cells
  <2>1. l.count \in Nat /\ l.count <= Len(l.cells) /\ Len(l.cells) \in Nat
        /\ DOMAIN l.cells = 1 .. Len(l.cells)
    BY ListingFields
  <2> QED BY <1>1, <1>4, <2>1
<1>7. n \in Seq(DOMAIN l.cells)
  BY <1>5, <1>6, SeqMonotonic
<1> QED BY <1>3, <1>5, <1>7 DEF n, s

\* What a rebuild makes, for the list that is l afterwards.
Rebuilt(l) ==
    /\ OrdersOf(l, normal', random') /\ ToSet(normal') = PassingOf(l)
    /\ fresh' = TRUE
    /\ IF l.active \in ToSet(normal')
       THEN Len(random') # 0 /\ random'[1] = l.active /\ heard' = {l.cells[l.active].id}
       ELSE heard' = {}

LEMMA RebuildFacts ==
    ASSUME NEW l \in Listings, Rebuild(l)
    PROVE  Rebuilt(l)
<1> DEFINE C == DOMAIN l.cells
           n == PassingIndexes(ItemsOf(l))
<1>1. /\ normal' = n /\ random' \in Shuffles(n, l.active) /\ fresh' = TRUE
      /\ heard' = IF l.active \in ToSet(n) THEN {l.cells[l.active].id} ELSE {}
  BY DEF Rebuild
<1>2. n \in Seq(C) /\ Increasing(n) /\ Distinctly(n) /\ ToSet(n) = PassingOf(l)
  BY PassingFacts
<1> HIDE DEF n, C
<1>3. /\ random' \in Seq(C) /\ Distinctly(random')
      /\ ToSet(random') = ToSet(n) /\ Len(random') = Len(n)
      /\ l.active \in ToSet(n) => Len(random') # 0 /\ random'[1] = l.active
  BY ONLY <1>1, <1>2, ShuffledFacts
<1>4. OrdersOf(l, normal', random')
  BY <1>1, <1>2, <1>3 DEF OrdersOf, C
<1> QED BY <1>1, <1>2, <1>3, <1>4 DEF Rebuilt

\* What applying a filter leaves: the list is m afterwards, and was l before.
Applied(l, m, pass) ==
    /\ m \in Listings /\ m.count = l.count /\ m.active = l.active
    /\ Len(l.cells) <= Len(m.cells)
    /\ Judged(m, pass)
    /\ \A i \in 1 .. Len(l.cells) : m.cells[i].id = l.cells[i].id
    /\ Becomes(m) /\ Rebuilt(m)

LEMMA ApplyFilterFacts ==
    ASSUME NEW l \in Listings, NEW pass, ApplyFilter(l, pass)
    PROVE  \E m : Applied(l, m, pass)
<1> DEFINE s == ItemsOf(l)
           j == [i \in DOMAIN s |-> [s[i] EXCEPT !.out = s[i].id \notin pass]]
           m == Write(l, j)
<1>1. /\ s \in Seq(Item) /\ DOMAIN s = 1 .. l.count /\ Len(s) = l.count
      /\ \A i \in 1 .. l.count : s[i] = l.cells[i] /\ l.cells[i] \in Item
  BY ItemsFacts
<1>2. l.count \in Nat /\ l.count <= Len(l.cells) /\ Len(l.cells) <= MaxItems
      /\ Len(l.cells) \in Nat
  BY ListingFields
<1>3. Becomes(m) /\ Rebuild(m)
  BY DEF ApplyFilter
<1> HIDE DEF s
<1>4. ASSUME NEW i \in 1 .. l.count
      PROVE  /\ [s[i] EXCEPT !.out = s[i].id \notin pass] \in Item
             /\ [s[i] EXCEPT !.out = s[i].id \notin pass].id = s[i].id
             /\ [s[i] EXCEPT !.out = s[i].id \notin pass].out = (s[i].id \notin pass)
  <2>1. s[i] \in [id : Entries, out : BOOLEAN]
    BY <1>1 DEF Item
  <2>2. (s[i].id \notin pass) \in BOOLEAN
    OBVIOUS
  <2> DEFINE o == s[i].id \notin pass
  <2> HIDE DEF o
  <2>3. /\ [s[i] EXCEPT !.out = o] \in [id : Entries, out : BOOLEAN]
        /\ [s[i] EXCEPT !.out = o].id = s[i].id
        /\ [s[i] EXCEPT !.out = o].out = o
    <3>1. o \in BOOLEAN
      BY <2>2 DEF o
    <3> QED BY <2>1, <3>1
  <2> QED BY <2>3 DEF Item, o
<1>5. /\ j \in Seq(Item) /\ Len(j) = l.count
      /\ \A i \in 1 .. l.count : j[i].id = s[i].id /\ j[i].out = (j[i].id \notin pass)
  <2>1. j = [i \in 1 .. l.count |-> [s[i] EXCEPT !.out = s[i].id \notin pass]]
    BY <1>1
  <2>2. j \in [1 .. l.count -> Item]
    BY <1>4, <2>1
  <2>3. \A i \in 1 .. l.count : j[i] = [s[i] EXCEPT !.out = s[i].id \notin pass]
    BY <2>1
  <2>4. \A i \in 1 .. l.count : j[i].id = s[i].id /\ j[i].out = (j[i].id \notin pass)
    <3> HIDE DEF j
    <3> SUFFICES ASSUME NEW i \in 1 .. l.count
                 PROVE  j[i].id = s[i].id /\ j[i].out = (j[i].id \notin pass)
      OBVIOUS
    <3> DEFINE x == [s[i] EXCEPT !.out = s[i].id \notin pass]
    <3>1. x.id = s[i].id /\ x.out = (s[i].id \notin pass)
      BY <1>4
    <3>2. j[i] = x
      BY <2>3
    <3> HIDE DEF x
    <3> QED BY <3>1, <3>2
  <2> HIDE DEF j
  <2>5. j \in Seq(Item)
    BY <1>2, <2>2
  <2>6. Len(j) = l.count
    BY <1>2, <2>2, <2>5, LenProperties
  <2> QED BY <2>4, <2>5, <2>6
<1> HIDE DEF j
<1>6. /\ m \in Listings /\ m.count = Len(j) /\ m.active = l.active
      /\ Len(l.cells) <= Len(m.cells)
      /\ \A i \in 1 .. Len(j) : m.cells[i] = j[i]
      /\ \A i \in Len(j) + 1 .. Len(l.cells) : m.cells[i] = l.cells[i]
  <2>1. Len(j) <= MaxItems
    BY <1>2, <1>5, PlaylistAssumption
  <2> QED BY ONLY <1>5, <2>1, WriteFacts
<1> HIDE DEF m
<1>7. Rebuilt(m)
  BY <1>3, <1>6, RebuildFacts
<1>8. Judged(m, pass) /\ \A i \in 1 .. Len(l.cells) : m.cells[i].id = l.cells[i].id
  <2>1. Judged(m, pass) /\ \A i \in 1 .. l.count : m.cells[i].id = l.cells[i].id
    BY <1>1, <1>5, <1>6 DEF Judged
  <2>2. \A i \in 1 .. Len(l.cells) : i \in 1 .. l.count \/ i \in l.count + 1 .. Len(l.cells)
    BY <1>2
  <2> QED BY <1>5, <1>6, <2>1, <2>2
<1>9. Applied(l, m, pass)
  BY <1>3, <1>5, <1>6, <1>7, <1>8 DEF Applied
<1> QED BY <1>9

----------------------------------------------------------------------------
(***************************************************************************)
(* Searches, from the first position on.                                   *)
(***************************************************************************)

Least(T) == IF T # {} THEN Min(T) ELSE 0

LEMMA LeastFacts ==
    ASSUME NEW n \in Nat, NEW T \in SUBSET (1 .. n)
    PROVE  /\ Least(T) \in 0 .. n
           /\ Least(T) = 0 <=> T = {}
           /\ Least(T) # 0 => Least(T) \in T
           /\ \A y \in T : Least(T) <= y
<1>1. CASE T = {}
  BY <1>1 DEF Least
<1>2. CASE T # {}
  <2>1. Least(T) = Min(T)
    BY <1>2 DEF Least
  <2>2. Min(T) \in T /\ \A y \in T : Min(T) <= y
    <3>1. T \in SUBSET Nat
      OBVIOUS
    <3> QED BY <1>2, <3>1, MinFacts
  <2> DEFINE m == Min(T)
  <2>3. m \in 1 .. n /\ m \in T /\ \A y \in T : m <= y
    BY <2>2
  <2>4. Least(T) = m
    BY <2>1
  <2> HIDE DEF m
  <2>5. Least(T) \in 0 .. n /\ Least(T) # 0
    BY <2>3, <2>4
  <2> QED BY <1>2, <2>3, <2>4, <2>5
<1> QED BY <1>1, <1>2

LEMMA RealIndexFacts ==
    ASSUME NEW s \in Seq(Item), NEW e
    PROVE  /\ RealIndexOf(s, e) \in 0 .. Len(s)
           /\ RealIndexOf(s, e) # 0 => s[RealIndexOf(s, e)].id = e
           /\ RealIndexOf(s, e) = 0 => \A i \in 1 .. Len(s) : s[i].id # e
<1> DEFINE T == {i \in 1 .. Len(s) : s[i].id = e}
<1>1. Len(s) \in Nat
  BY LenProperties
<1>2. RealIndexOf(s, e) = Least(T)
  BY DEF RealIndexOf, FirstOf, Least
<1>3. Least(T) \in 0 .. Len(s) /\ (Least(T) # 0 => Least(T) \in T) /\ (Least(T) = 0 => T = {})
  BY <1>1, LeastFacts
<1> QED BY <1>2, <1>3

\* The place of the active item in the order r.
PlaceIn(r, a) == Least({i \in 1 .. Len(r) : r[i] = a})

LEMMA ActivePlaceFacts ==
    ASSUME TRUE
    PROVE  /\ ActivePlace = PlaceIn(PlayOrder, active)
           /\ ActivePlace' = PlaceIn(PlayOrder', active')
  BY DEF ActivePlace, FirstOf, PlaceIn, Least

LEMMA PlaceFacts ==
    ASSUME NEW S, NEW r \in Seq(S), NEW a
    PROVE  /\ PlaceIn(r, a) \in 0 .. Len(r)
           /\ PlaceIn(r, a) # 0 => r[PlaceIn(r, a)] = a
           /\ PlaceIn(r, a) = 0 <=> a \notin ToSet(r)
           /\ \A i \in 1 .. Len(r) : r[i] = a => PlaceIn(r, a) <= i
<1> DEFINE T == {i \in 1 .. Len(r) : r[i] = a}
<1>1. Len(r) \in Nat /\ DOMAIN r = 1 .. Len(r)
  BY LenProperties
<1>2. PlaceIn(r, a) = Least(T)
  BY DEF PlaceIn
<1>3. /\ Least(T) \in 0 .. Len(r) /\ (Least(T) # 0 => Least(T) \in T)
      /\ Least(T) = 0 <=> T = {}
      /\ \A y \in T : Least(T) <= y
  BY <1>1, LeastFacts
<1>4. T = {} <=> a \notin ToSet(r)
  BY <1>1 DEF ToSet
<1> QED BY <1>2, <1>3, <1>4

\* An order in which a comes first.
LEMMA FirstPlace ==
    ASSUME NEW S, NEW r \in Seq(S), NEW a, Len(r) # 0, r[1] = a
    PROVE  PlaceIn(r, a) = 1
<1>1. Len(r) \in Nat /\ 1 \in 1 .. Len(r) /\ DOMAIN r = 1 .. Len(r)
  BY LenProperties
<1>2. a \in ToSet(r)
  BY <1>1 DEF ToSet
<1>3. PlaceIn(r, a) \in 0 .. Len(r) /\ PlaceIn(r, a) # 0 /\ PlaceIn(r, a) <= 1
  BY <1>1, <1>2, PlaceFacts
<1> QED BY <1>1, <1>3

\* Where an order that has nothing twice has what it has.
LEMMA DistinctPlace ==
    ASSUME NEW S, NEW r \in Seq(S), Distinctly(r), NEW p \in 1 .. Len(r)
    PROVE  PlaceIn(r, r[p]) = p
<1> DEFINE q == PlaceIn(r, r[p])
<1>1. Len(r) \in Nat /\ DOMAIN r = 1 .. Len(r)
  BY LenProperties
<1>2. r[p] \in ToSet(r)
  BY <1>1 DEF ToSet
<1>3. q \in 0 .. Len(r) /\ q # 0 /\ r[q] = r[p]
  BY <1>2, PlaceFacts
<1> HIDE DEF q
<1>4. q \in 1 .. Len(r)
  BY <1>1, <1>3
<1>5. q = p
  BY <1>3, <1>4 DEF Distinctly
<1> QED BY <1>5 DEF q

----------------------------------------------------------------------------
(***************************************************************************)
(* The inductive invariant.                                                *)
(***************************************************************************)

SettingsOK ==
    /\ filter \in Filters \cup {Entries} /\ library \subseteq Entries
    /\ sortBy \in Fields \cup {"none"}
    /\ sortType \in {"ASCENDING", "DESCENDING", "UNSORTED"}
    /\ saved \in Seq(Entries) /\ Len(saved) <= MaxItems
    /\ shuffle \in BOOLEAN

\* In a shuffled list with no duplicates, what has been played or passed over
\* since the order was made reaches up to the active item.
OrderPlayed ==
    (shuffle /\ fresh /\ Distinct) =>
        \A k \in 1 .. PlaceIn(random, active) : cells[random[k]].id \in heard

\* Every item is always judged by the filter, and what is in the orders is in
\* the order of the list: the commands that work on them rely on it, even when
\* the orders are those of an older list.
PlaylistInv ==
    /\ SettingsOK
    /\ Listing \in Listings /\ Judged(Listing, filter)
    /\ OrdersOf(Listing, normal, random)
    /\ fresh => ToSet(normal) = PassingOf(Listing)
    /\ fresh \in BOOLEAN /\ heard \subseteq Entries
    /\ OrderPlayed

LEMMA ListingIs ==
    ASSUME TRUE
    PROVE  /\ Listing.cells = cells /\ Listing.count = count /\ Listing.active = active
           /\ Listing'.cells = cells' /\ Listing'.count = count'
           /\ Listing'.active = active'
  BY DEF Listing

LEMMA ListingBecomes ==
    ASSUME NEW l \in Listings, Becomes(l)
    PROVE  Listing' = l
<1>1. l \in [cells : Arrays, count : Nat, active : Nat]
  BY DEF Listings
<1> QED BY <1>1 DEF Listing, Becomes

LEMMA InvTypes ==
    ASSUME PlaylistInv
    PROVE  TypeOK
<1>1. /\ cells \in Seq(Item) /\ Len(cells) \in Nat /\ Len(cells) <= MaxItems
      /\ count \in Nat /\ count <= Len(cells)
      /\ active \in Nat /\ active <= Len(cells)
  BY ListingFields, ListingIs DEF PlaylistInv
<1>2. normal \in Seq(DOMAIN cells) /\ random \in Seq(DOMAIN cells)
  BY ListingIs DEF PlaylistInv, OrdersOf
<1>3. count \in 0 .. Len(cells) /\ active \in 0 .. Len(cells)
  BY <1>1
<1> QED BY <1>1, <1>2, <1>3 DEF TypeOK, PlaylistInv, SettingsOK

LEMMA InvIndexes ==
    ASSUME PlaylistInv
    PROVE  IndexesExact
<1>1. /\ Increasing(normal) /\ normal \in Seq(DOMAIN cells)
      /\ ToSet(random) = ToSet(normal) /\ Len(random) = Len(normal)
  BY ListingIs DEF PlaylistInv, OrdersOf
<1>2. DOMAIN normal = 1 .. Len(normal)
  BY <1>1, LenProperties
<1>3. fresh => ToSet(normal) = {i \in 1 .. count : ~cells[i].out}
  BY ListingIs DEF PlaylistInv, PassingOf
<1>4. \A i \in 1 .. count : cells[i].out = (cells[i].id \notin filter)
  BY ListingIs DEF PlaylistInv, Judged
<1>5. {i \in 1 .. count : ~cells[i].out} = {i \in 1 .. count : cells[i].id \in filter}
  BY <1>4
<1> QED BY <1>1, <1>2, <1>3, <1>5 DEF IndexesExact, Increasing

\* The orders are made anew for the list that m is.
LEMMA RebuildStep ==
    ASSUME SettingsOK', NEW m \in Listings, Becomes(m), Judged(m, filter'), Rebuilt(m)
    PROVE  PlaylistInv'
<1>1. Listing' = m
  BY ListingBecomes
<1>2. /\ OrdersOf(m, normal', random') /\ ToSet(normal') = PassingOf(m)
      /\ fresh' = TRUE
      /\ m.active \in ToSet(normal') =>
            Len(random') # 0 /\ random'[1] = m.active /\ heard' = {m.cells[m.active].id}
      /\ m.active \notin ToSet(normal') => heard' = {}
  BY DEF Rebuilt
<1>3. random' \in Seq(DOMAIN m.cells) /\ normal' \in Seq(DOMAIN m.cells)
      /\ ToSet(random') = ToSet(normal')
  BY <1>2 DEF OrdersOf
<1>4. cells' = m.cells /\ active' = m.active
  BY DEF Becomes
<1>5. heard' \subseteq Entries
  <2>1. CASE m.active \in ToSet(normal')
    <3>1. m.active \in DOMAIN m.cells
      <4>1. PICK k \in DOMAIN normal' : normal'[k] = m.active
        BY <2>1 DEF ToSet
      <4>2. DOMAIN normal' = 1 .. Len(normal')
        BY <1>3, LenProperties
      <4>3. normal'[k] \in DOMAIN m.cells
        BY <1>3, <4>1, <4>2, ElementOfSeq
      <4> QED BY <4>1, <4>3
    <3>2. m.cells[m.active] \in Item
      BY <3>1, ListingFields, ElementOfSeq
    <3> QED BY <1>2, <2>1, <3>2 DEF Item
  <2>2. CASE m.active \notin ToSet(normal')
    BY <1>2, <2>2
  <2> QED BY <2>1, <2>2
<1>6. \A k \in 1 .. PlaceIn(random', active') : cells'[random'[k]].id \in heard'
  <2>1. CASE m.active \in ToSet(normal')
    <3>1. PlaceIn(random', active') = 1
      BY <1>2, <1>3, <1>4, <2>1, FirstPlace
    <3>2. m.cells[random'[1]].id \in heard'
      BY <1>2, <2>1
    <3> QED BY <1>4, <3>1, <3>2
  <2>2. CASE m.active \notin ToSet(normal')
    <3>1. PlaceIn(random', active') = 0
      BY <1>3, <1>4, <2>2, PlaceFacts
    <3> QED BY <3>1
  <2> QED BY <2>1, <2>2
<1>7. OrderPlayed'
  BY <1>6 DEF OrderPlayed
<1> QED BY <1>1, <1>2, <1>5, <1>7 DEF PlaylistInv

\* A filter is applied to what a command made of the list.
LEMMA ApplyStep ==
    ASSUME SettingsOK', NEW l \in Listings, ApplyFilter(l, filter')
    PROVE  PlaylistInv'
<1>1. PICK m : Applied(l, m, filter')
  BY ApplyFilterFacts
<1> QED BY <1>1, RebuildStep DEF Applied

\* A command that leaves the list, its orders and the player alone.
LEMMA IdleStep ==
    ASSUME PlaylistInv, SettingsOK',
           UNCHANGED <<cells, count, active, orders, filter>>, shuffle' => shuffle
    PROVE  PlaylistInv'
<1>1. Listing' = Listing
  BY DEF Listing
<1>2. UNCHANGED <<normal, random, fresh, heard, cells, active>>
  BY DEF orders
<1>3. OrderPlayed'
  <2>1. Passing' = Passing /\ Distinct' = Distinct
    BY <1>2 DEF Passing, Distinct
  <2> QED BY <1>2, <2>1 DEF PlaylistInv, OrderPlayed
<1> QED BY <1>1, <1>2, <1>3 DEF PlaylistInv

----------------------------------------------------------------------------
(***************************************************************************)
(* The commands.                                                           *)
(***************************************************************************)

LEMMA IdsFacts ==
    ASSUME PlaylistInv
    PROVE  Ids \in Seq(Entries) /\ Len(Ids) <= MaxItems
<1>1. Listing \in Listings
  BY DEF PlaylistInv
<1>2. /\ Items \in Seq(Item) /\ DOMAIN Items = 1 .. count /\ Len(Items) = count
      /\ count \in Nat /\ count <= Len(cells) /\ Len(cells) <= MaxItems
      /\ Len(cells) \in Nat
  BY <1>1, ItemsFacts, ListingFields, ListingIs DEF Items
<1>3. \A k \in 1 .. count : Items[k].id \in Entries
  <2>1. \A k \in 1 .. count : Items[k] \in Item
    BY <1>2, ElementOfSeq
  <2> QED BY <2>1 DEF Item
<1>4. Ids = [k \in 1 .. count |-> Items[k].id]
  BY <1>2 DEF Ids
<1>5. Ids \in [1 .. count -> Entries]
  BY <1>3, <1>4
<1>6. Ids \in Seq(Entries)
  BY <1>2, <1>5
<1>7. Len(Ids) = count
  BY <1>2, <1>5, <1>6, LenProperties
<1> QED BY <1>2, <1>6, <1>7, PlaylistAssumption

LEMMA SaveOrderStep ==
    ASSUME PlaylistInv, SaveOrder
    PROVE  PlaylistInv'
<1>1. saved' = Ids /\ UNCHANGED <<cells, count, active, orders, filter, shuffle, library, sortVars>>
  BY DEF SaveOrder, SavedAnew
<1>2. SettingsOK'
  BY <1>1, IdsFacts DEF PlaylistInv, SettingsOK, sortVars
<1> QED BY <1>1, <1>2, IdleStep

LEMMA SetFilterStep ==
    ASSUME PlaylistInv, NEW pass \in Filters, SetFilter(pass)
    PROVE  PlaylistInv'
<1>1. /\ filter' = pass /\ ApplyFilter(Listing, pass)
      /\ UNCHANGED <<saved, shuffle, library, sortVars>>
  BY DEF SetFilter
<1>2. SettingsOK'
  BY <1>1 DEF PlaylistInv, SettingsOK, sortVars
<1> QED BY <1>1, <1>2, ApplyStep DEF PlaylistInv

LEMMA ToggleShuffleStep ==
    ASSUME PlaylistInv, ToggleShuffle
    PROVE  PlaylistInv'
<1>1. /\ shuffle' = ~shuffle
      /\ IF shuffle THEN UNCHANGED orders ELSE Rebuild(Listing)
      /\ UNCHANGED <<cells, count, active, filter, saved, library, sortVars>>
  BY DEF ToggleShuffle
<1>2. SettingsOK'
  BY <1>1 DEF PlaylistInv, SettingsOK, sortVars
<1>3. CASE shuffle
  BY <1>1, <1>2, <1>3, IdleStep
<1>4. CASE ~shuffle
  <2>1. Listing \in Listings /\ Judged(Listing, filter')
    BY <1>1 DEF PlaylistInv
  <2>2. Becomes(Listing)
    BY <1>1, ListingIs DEF Becomes
  <2>3. Rebuilt(Listing)
    BY <1>1, <1>4, <2>1, RebuildFacts
  <2> QED BY <1>2, <2>1, <2>2, <2>3, RebuildStep
<1> QED BY <1>3, <1>4

\* Commands that change the list alone keep the settings.
LEMMA SettingsKept ==
    ASSUME PlaylistInv, UNCHANGED <<sortVars, otherVars>>
    PROVE  SettingsOK' /\ filter' = filter
  BY DEF PlaylistInv, SettingsOK, sortVars, otherVars

\* The list with an item of e at its end, to which the filter is applied.
Added(l, e) ==
    /\ l \in Listings /\ l.count = count + 1 /\ l.active = active
    /\ \A k \in 1 .. count : l.cells[k] = cells[k]
    /\ l.cells[count + 1].id = e
    /\ ApplyFilter(l, filter)

LEMMA AddFacts ==
    ASSUME PlaylistInv, NEW e \in Entries, Add(e)
    PROVE  \E l : Added(l, e)
<1> DEFINE i == [id |-> e, out |-> FALSE]
           s == Append(Items, i)
           l == Write(Listing, s)
<1>1. /\ count < MaxItems /\ ApplyFilter(l, filter)
  BY DEF Add
<1>2. Listing \in Listings /\ Listing.active = active
  BY ListingIs DEF PlaylistInv
<1>3. /\ Items \in Seq(Item) /\ Len(Items) = count /\ count \in Nat
      /\ \A k \in 1 .. count : Items[k] = cells[k]
  BY <1>2, ItemsFacts, ListingFields, ListingIs DEF Items
<1>4. i \in Item /\ i.id = e
  BY DEF Item
<1> HIDE DEF i
<1>5. /\ s \in Seq(Item) /\ Len(s) = count + 1
      /\ \A k \in 1 .. count : s[k] = Items[k]
      /\ s[count + 1] = i
  BY <1>3, <1>4, AppendProperties
<1> HIDE DEF s
<1>6. Len(s) <= MaxItems
  BY <1>1, <1>3, <1>5, PlaylistAssumption
<1>7. /\ l \in Listings /\ l.count = Len(s) /\ l.active = Listing.active
      /\ \A k \in 1 .. Len(s) : l.cells[k] = s[k]
  BY <1>2, <1>5, <1>6, WriteFacts
<1> HIDE DEF l
<1>8. \A k \in 1 .. count : k \in 1 .. Len(s)
  BY <1>3, <1>5
<1>9. count + 1 \in 1 .. Len(s)
  BY <1>3, <1>5
<1>10. \A k \in 1 .. count : l.cells[k] = cells[k]
  BY <1>3, <1>5, <1>7, <1>8
<1>11. l.cells[count + 1].id = e
  BY <1>4, <1>5, <1>7, <1>9
<1> QED BY <1>1, <1>2, <1>5, <1>7, <1>10, <1>11 DEF Added

LEMMA AddStep ==
    ASSUME PlaylistInv, NEW e \in Entries, Add(e)
    PROVE  PlaylistInv'
<1>1. UNCHANGED <<sortVars, otherVars>>
  BY DEF Add
<1>2. SettingsOK' /\ filter' = filter
  BY <1>1, SettingsKept
<1>3. PICK l : Added(l, e)
  BY AddFacts
<1> QED BY <1>2, <1>3, ApplyStep DEF Added

LEMMA RestoreOrderStep ==
    ASSUME PlaylistInv, RestoreOrder
    PROVE  PlaylistInv'
<1> DEFINE s == [k \in DOMAIN saved |-> [id |-> saved[k], out |-> FALSE]]
           l == Write(Listing, s)
<1>1. ApplyFilter(l, filter) /\ UNCHANGED <<sortVars, otherVars>>
  BY DEF RestoreOrder
<1>2. SettingsOK' /\ filter' = filter
  BY <1>1, SettingsKept
<1>3. Listing \in Listings /\ saved \in Seq(Entries) /\ Len(saved) <= MaxItems
  BY DEF PlaylistInv, SettingsOK
<1>4. DOMAIN saved = 1 .. Len(saved) /\ Len(saved) \in Nat
  BY <1>3, LenProperties
<1>5. \A k \in 1 .. Len(saved) : [id |-> saved[k], out |-> FALSE] \in Item
  BY <1>3, ElementOfSeq DEF Item
<1>6. s \in [1 .. Len(saved) -> Item]
  BY <1>4, <1>5
<1> HIDE DEF s
<1>7. s \in Seq(Item)
  BY <1>4, <1>6
<1>8. Len(s) = Len(saved)
  BY <1>4, <1>6, <1>7, LenProperties
<1>9. l \in Listings
  BY <1>3, <1>7, <1>8, WriteFacts
<1> HIDE DEF l
<1> QED BY <1>1, <1>2, <1>9, ApplyStep

----------------------------------------------------------------------------
(***************************************************************************)
(* Deleting.                                                               *)
(***************************************************************************)

\* What is left of l without one item: its items are among l's.
LEMMA DeleteFacts ==
    ASSUME NEW l \in Listings, NEW i \in Nat, l.count # 0
    PROVE  LET d == DeleteRealIndex(l, i) IN
           /\ d \in Listings /\ d.count = l.count - 1
           /\ Len(d.cells) = Len(l.cells)
           /\ d.active = ActiveAfter(l.active, i) /\ d.active <= l.active
           /\ \A k \in 1 .. Len(l.cells) :
                 d.cells[k] = l.cells[IF k \in i .. l.count - 1 THEN k + 1 ELSE k]
<1> DEFINE at(k) == IF k \in i .. l.count - 1 THEN k + 1 ELSE k
           c == [k \in DOMAIN l.cells |-> l.cells[at(k)]]
           a == ActiveAfter(l.active, i)
           d == DeleteRealIndex(l, i)
           n == Len(l.cells)
<1>1. /\ l.cells \in Seq(Item) /\ n \in Nat /\ n <= MaxItems
      /\ l.count \in Nat /\ l.count <= n
      /\ l.active \in Nat /\ l.active <= n
      /\ DOMAIN l.cells = 1 .. n
  BY ListingFields
<1>2. d = [cells |-> c, count |-> l.count - 1, active |-> a]
  BY DEF DeleteRealIndex
<1>3. \A k \in 1 .. n : at(k) \in 1 .. n
  BY <1>1
<1>4. c \in [1 .. n -> Item]
  <2>1. \A k \in 1 .. n : l.cells[at(k)] \in Item
    <3> HIDE DEF at, n
    <3> QED BY <1>1, <1>3, ElementOfSeq DEF n
  <2> HIDE DEF at, n
  <2> QED BY <1>1, <2>1
<1>5. c \in Seq(Item) /\ Len(c) = n
  <2> HIDE DEF c, n
  <2>1. c \in Seq(Item)
    BY <1>1, <1>4
  <2> QED BY <1>1, <1>4, <2>1, LenProperties
<1>6. a \in Nat /\ a <= n /\ a <= l.active
  <2>1. a = IF l.active = i THEN 0 ELSE IF l.active > i THEN l.active - 1 ELSE l.active
    BY <1>1 DEF ActiveAfter
  <2> HIDE DEF a, n
  <2> QED BY <1>1, <2>1
<1>7. \A k \in 1 .. n : c[k] = l.cells[at(k)]
  BY <1>1
<1> HIDE DEF c, a, n
<1>8. /\ d.cells = c /\ d.count = l.count - 1 /\ d.active = a
      /\ d \in [cells : Arrays, count : Nat, active : Nat]
  <2>1. c \in Arrays
    BY <1>1, <1>5 DEF Arrays
  <2>2. l.count - 1 \in Nat
    BY <1>1
  <2> QED BY <1>2, <1>6, <2>1, <2>2
<1> HIDE DEF d
<1>9. d \in Listings
  <2>1. d.count <= Len(d.cells) /\ d.active <= Len(d.cells)
    BY <1>1, <1>5, <1>6, <1>8
  <2> QED BY <1>8, <2>1 DEF Listings
<1> QED BY <1>5, <1>6, <1>7, <1>8, <1>9 DEF a, d, n

\* What is left of l after some deletions, in the memory of l's items.
LeftOf(l, d) ==
    /\ d \in Listings /\ d.count <= l.count /\ Len(d.cells) = Len(l.cells)
    /\ d.active <= l.active
    /\ \A k \in 1 .. l.count : \E j \in 1 .. l.count : d.cells[k] = l.cells[j]

LEMMA LeftAfterDelete ==
    ASSUME NEW l \in Listings, NEW d, LeftOf(l, d), NEW i \in Nat, d.count # 0
    PROVE  LeftOf(l, DeleteRealIndex(d, i)) /\ DeleteRealIndex(d, i).count = d.count - 1
<1> DEFINE e == DeleteRealIndex(d, i)
           at(k) == IF k \in i .. d.count - 1 THEN k + 1 ELSE k
<1>1. /\ d \in Listings /\ d.count <= l.count /\ Len(d.cells) = Len(l.cells)
      /\ d.active <= l.active
      /\ \A k \in 1 .. l.count : \E j \in 1 .. l.count : d.cells[k] = l.cells[j]
  BY DEF LeftOf
<1>2. /\ e \in Listings /\ e.count = d.count - 1
      /\ Len(e.cells) = Len(d.cells) /\ e.active <= d.active
      /\ \A k \in 1 .. Len(d.cells) : e.cells[k] = d.cells[at(k)]
  BY <1>1, DeleteFacts
<1> HIDE DEF e
<1>3. /\ d.count \in Nat /\ l.count \in Nat /\ l.count <= Len(l.cells) /\ Len(l.cells) \in Nat
      /\ e.active \in Nat /\ d.active \in Nat /\ l.active \in Nat
  BY <1>1, <1>2, ListingFields
<1>4. ASSUME NEW k \in 1 .. l.count PROVE k \in 1 .. Len(d.cells) /\ at(k) \in 1 .. l.count
  <2>1. k \in i .. d.count - 1 => k + 1 \in 1 .. l.count
    BY <1>1, <1>3
  <2>2. at(k) = k \/ (at(k) = k + 1 /\ k \in i .. d.count - 1)
    OBVIOUS
  <2> HIDE DEF at
  <2>3. k \in 1 .. Len(d.cells)
    BY <1>1, <1>3
  <2>4. at(k) \in 1 .. l.count
    BY <2>1, <2>2
  <2> QED BY <2>3, <2>4
<1> HIDE DEF at
<1>5. \A k \in 1 .. l.count : \E j \in 1 .. l.count : e.cells[k] = l.cells[j]
  <2>1. SUFFICES ASSUME NEW k \in 1 .. l.count
                 PROVE  \E j \in 1 .. l.count : e.cells[k] = l.cells[j]
    OBVIOUS
  <2>2. e.cells[k] = d.cells[at(k)] /\ at(k) \in 1 .. l.count
    BY <1>2, <1>4
  <2>3. PICK j \in 1 .. l.count : d.cells[at(k)] = l.cells[j]
    BY <1>1, <2>2
  <2> QED BY <2>2, <2>3
<1>6. e.count <= l.count /\ e.active <= l.active
  BY <1>1, <1>2, <1>3
<1> QED BY <1>1, <1>2, <1>5, <1>6 DEF e, LeftOf

\* The items left are judged if they were.
LEMMA LeftJudged ==
    ASSUME NEW l \in Listings, NEW d, LeftOf(l, d), NEW pass, Judged(l, pass)
    PROVE  Judged(d, pass)
<1>1. SUFFICES ASSUME NEW k \in 1 .. d.count
               PROVE  d.cells[k].out = (d.cells[k].id \notin pass)
  BY DEF Judged
<1>2. k \in 1 .. l.count
  <2>1. d \in Listings /\ d.count <= l.count
    BY DEF LeftOf
  <2> QED BY <2>1, ListingFields
<1>3. PICK j \in 1 .. l.count : d.cells[k] = l.cells[j]
  BY <1>2 DEF LeftOf
<1> QED BY <1>3 DEF Judged

\* How often entry e is in l.
Occ(l, e) == Cardinality({k \in 1 .. l.count : l.cells[k].id = e})

LEMMA OccFacts ==
    ASSUME NEW l \in Listings, NEW e
    PROVE  /\ IsFiniteSet({k \in 1 .. l.count : l.cells[k].id = e})
           /\ Occ(l, e) \in Nat
<1> DEFINE T == {k \in 1 .. l.count : l.cells[k].id = e}
<1>1. 1 \in Int /\ l.count \in Int
  BY ListingFields
<1>2. IsFiniteSet(1 .. l.count)
  BY ONLY <1>1, FS_Interval
<1>3. T \in SUBSET (1 .. l.count)
  OBVIOUS
<1> HIDE DEF T
<1>4. IsFiniteSet(T)
  BY ONLY <1>2, <1>3, FS_Subset
<1>5. Cardinality(T) \in Nat
  BY ONLY <1>4, FS_CardinalityType
<1> QED BY <1>4, <1>5 DEF T, Occ

\* An item that is deleted is one less of its entry, and no other entry loses any.
LEMMA DeleteOccurs ==
    ASSUME NEW l \in Listings, NEW i \in 1 .. l.count, NEW e
    PROVE  Occ(DeleteRealIndex(l, i), e) =
               IF l.cells[i].id = e THEN Occ(l, e) - 1 ELSE Occ(l, e)
<1> DEFINE d == DeleteRealIndex(l, i)
           A == {k \in 1 .. l.count : l.cells[k].id = e}
           B == {k \in 1 .. l.count - 1 : d.cells[k].id = e}
           at(k) == IF k \in i .. l.count - 1 THEN k + 1 ELSE k
           f == [k \in B |-> at(k)]
<1>1. /\ l.count \in Nat /\ l.count <= Len(l.cells) /\ Len(l.cells) \in Nat
      /\ i \in Nat /\ l.count # 0
  BY ListingFields
<1>2. /\ d \in Listings /\ d.count = l.count - 1
      /\ \A k \in 1 .. Len(l.cells) : d.cells[k] = l.cells[at(k)]
  BY <1>1, DeleteFacts
<1> HIDE DEF d
<1>3. \A k \in 1 .. l.count - 1 : /\ k \in 1 .. Len(l.cells)
                                  /\ at(k) \in 1 .. l.count /\ at(k) # i
  BY <1>1
<1>4. \A j, k \in 1 .. l.count - 1 : at(j) = at(k) => j = k
  BY <1>1
<1>5. \A k \in 1 .. l.count : k # i => \E j \in 1 .. l.count - 1 : at(j) = k
  <2>1. SUFFICES ASSUME NEW k \in 1 .. l.count, k # i
                 PROVE  \E j \in 1 .. l.count - 1 : at(j) = k
    OBVIOUS
  <2>2. CASE k < i
    <3>1. k \in 1 .. l.count - 1 /\ at(k) = k
      BY <1>1, <2>2
    <3> QED BY <3>1
  <2>3. CASE ~(k < i)
    <3>1. k - 1 \in 1 .. l.count - 1 /\ at(k - 1) = k
      BY <1>1, <2>1, <2>3
    <3> QED BY <3>1
  <2> QED BY <2>2, <2>3
<1> HIDE DEF at
<1>6. f \in [B -> A \ {i}] /\ \A k \in B : f[k] = at(k)
  BY <1>2, <1>3
<1> HIDE DEF f
<1>7. f \in Injection(B, A \ {i})
  BY <1>4, <1>6 DEF Injection, IsInjective
<1>8. f \in Surjection(B, A \ {i})
  <2>1. \A k \in A \ {i} : \E j \in B : f[j] = k
    <3>1. SUFFICES ASSUME NEW k \in A \ {i} PROVE \E j \in B : f[j] = k
      OBVIOUS
    <3>2. PICK j \in 1 .. l.count - 1 : at(j) = k
      BY <1>5
    <3>3. j \in B
      BY <1>2, <1>3, <3>2
    <3> QED BY <1>6, <3>2, <3>3
  <2> QED BY <1>6, <2>1 DEF Surjection
<1>9. IsFiniteSet(A) /\ Occ(l, e) = Cardinality(A) /\ Occ(d, e) = Cardinality(B)
  BY <1>2, OccFacts DEF Occ
<1>10. i \in A <=> l.cells[i].id = e
  OBVIOUS
<1> HIDE DEF A, B
<1>11. /\ IsFiniteSet(A \ {i})
       /\ Cardinality(A \ {i}) = IF i \in A THEN Cardinality(A) - 1 ELSE Cardinality(A)
  BY <1>9, FS_RemoveElement
<1>12. Cardinality(B) = Cardinality(A \ {i})
  BY <1>7, <1>8, <1>11, FS_Injection
<1> QED BY <1>9, <1>10, <1>11, <1>12 DEF d

\* The active item of l is still active in d, wherever it went, or there is one
\* less of its entry.
Followed(l, d) ==
    /\ l.active = 0 => d.active = 0
    /\ l.active # 0 =>
          \/ d.active # 0 /\ d.cells[d.active].id = l.cells[l.active].id
          \/ d.active = 0 /\ Occ(d, l.cells[l.active].id) < Occ(l, l.cells[l.active].id)

Survives(l, d) ==
    /\ Followed(l, d) /\ d.active <= d.count
    /\ \A e : Occ(d, e) <= Occ(l, e)

LEMMA SurvivesDelete ==
    ASSUME NEW l \in Listings, NEW d \in Listings, Survives(l, d), NEW i \in 1 .. d.count
    PROVE  Survives(l, DeleteRealIndex(d, i))
<1> DEFINE m == DeleteRealIndex(d, i)
           at(k) == IF k \in i .. d.count - 1 THEN k + 1 ELSE k
           x == l.cells[l.active].id
<1>1. /\ d.count \in Nat /\ d.count <= Len(d.cells) /\ Len(d.cells) \in Nat
      /\ i \in Nat /\ d.count # 0 /\ d.active \in Nat /\ d.active <= d.count
  BY ListingFields DEF Survives
<1>2. /\ m \in Listings /\ m.count = d.count - 1 /\ m.active = ActiveAfter(d.active, i)
      /\ \A k \in 1 .. Len(d.cells) : m.cells[k] = d.cells[at(k)]
  BY <1>1, DeleteFacts
<1>3. \A e : /\ Occ(m, e) = IF d.cells[i].id = e THEN Occ(d, e) - 1 ELSE Occ(d, e)
             /\ Occ(d, e) \in Nat /\ Occ(l, e) \in Nat /\ Occ(d, e) <= Occ(l, e)
  BY DeleteOccurs, OccFacts DEF Survives
<1> HIDE DEF m
<1>4. m.active = IF d.active = i THEN 0 ELSE IF d.active > i THEN d.active - 1 ELSE d.active
  BY <1>1, <1>2 DEF ActiveAfter
<1>5. \A e : Occ(m, e) <= Occ(l, e)
  BY <1>3
<1>6. m.active <= m.count
  BY <1>1, <1>2, <1>4
<1>7. d.active # 0 /\ d.active # i =>
          m.active # 0 /\ m.active \in 1 .. Len(d.cells) /\ at(m.active) = d.active
  BY <1>1, <1>4
<1> HIDE DEF at
<1>8. /\ l.active = 0 => d.active = 0
      /\ l.active # 0 => \/ d.active # 0 /\ d.cells[d.active].id = x
                         \/ d.active = 0 /\ Occ(d, x) < Occ(l, x)
  BY DEF Survives, Followed
<1>9. d.active = 0 => m.active = 0
  BY <1>1, <1>4
<1>10. d.active # 0 /\ d.cells[d.active].id = x =>
          \/ m.active # 0 /\ m.cells[m.active].id = x
          \/ m.active = 0 /\ Occ(m, x) < Occ(l, x)
  <2>1. CASE d.active = i
    <3>1. d.active # 0 /\ d.cells[d.active].id = x => Occ(m, x) = Occ(d, x) - 1
      BY <1>3, <2>1
    <3>2. m.active = 0
      BY <1>4, <2>1
    <3>3. Occ(d, x) \in Nat /\ Occ(l, x) \in Nat /\ Occ(d, x) <= Occ(l, x)
      BY <1>3
    <3>4. Occ(m, x) = Occ(d, x) - 1 => Occ(m, x) < Occ(l, x)
      BY <3>3
    <3> QED BY <3>1, <3>2, <3>4
  <2>2. CASE d.active # i
    BY <1>2, <1>7, <2>2
  <2> QED BY <2>1, <2>2
<1>11. Occ(d, x) < Occ(l, x) => Occ(m, x) < Occ(l, x)
  <2>1. /\ Occ(m, x) = Occ(d, x) - 1 \/ Occ(m, x) = Occ(d, x)
        /\ Occ(d, x) \in Nat /\ Occ(l, x) \in Nat
    BY <1>3
  <2> QED BY <2>1
<1> HIDE DEF x
<1>12. Followed(l, m)
  BY <1>8, <1>9, <1>10, <1>11 DEF Followed, x
<1> QED BY <1>5, <1>6, <1>12 DEF Survives, m

\* One round of DeleteRealIndexArray, the n indexes in "left".
Deletions(n) == [list : Listings, left : [1 .. n -> Nat]]
DeleteRound(n, d, i) ==
    [list |-> DeleteRealIndex(d.list, i),
     left |-> [j \in 1 .. n |-> IF i < d.left[j] THEN d.left[j] - 1 ELSE d.left[j]]]

\* What holds after k rounds, if it holds at first and every round leads from
\* there to what holds after it, holds of what DeleteRealIndexArray returns.
LEMMA DeleteRounds ==
    ASSUME NEW l \in Listings, NEW x \in Seq(Nat),
           NEW G \in [0 .. Len(x) -> SUBSET Deletions(Len(x))],
           [list |-> l, left |-> x] \in G[0],
           \A k \in 1 .. Len(x) : \A d \in G[k - 1] :
               DeleteRound(Len(x), d, d.left[k]) \in G[k]
    PROVE  \E d \in G[Len(x)] : DeleteRealIndexArray(l, x) = d.list
<1> DEFINE n == Len(x)
           S == Deletions(n)
           Round(d, i) == [list |-> DeleteRealIndex(d.list, i),
                           left |-> [j \in DOMAIN x |-> IF i < d.left[j] THEN d.left[j] - 1
                                                                         ELSE d.left[j]]]
           init == [list |-> l, left |-> x]
           Body(g, k) == IF k = 0 THEN init ELSE Round(g[k - 1], g[k - 1].left[k])
           Rec(g) == g = [k \in 0 .. n |-> Body(g, k)]
           done == CHOOSE g : Rec(g)
<1>1. n \in Nat /\ DOMAIN x = 1 .. n
  BY LenProperties
<1>2. DeleteRealIndexArray(l, x) = done[n].list
  BY DEF DeleteRealIndexArray
<1>3. \A d, i : Round(d, i) = DeleteRound(n, d, i)
  BY <1>1 DEF DeleteRound
<1>4. /\ G \in [0 .. n -> SUBSET S] /\ init \in G[0]
      /\ \A k \in 1 .. n : \A d \in G[k - 1] : DeleteRound(n, d, d.left[k]) \in G[k]
  OBVIOUS
<1>5. \A k \in 0 .. n : \A d \in G[k] : d \in S
  BY <1>4
<1> HIDE DEF n, S, init, Round
<1>7. \A k \in 1 .. n : \A d \in G[k - 1] : Round(d, d.left[k]) \in G[k]
  BY <1>3, <1>4
<1>8. \E g : Rec(g)
  <2> DEFINE step == [k \in 1 .. n |-> [d \in S |->
                        IF d \in G[k - 1] THEN Round(d, d.left[k]) ELSE d]]
  <2>1. \A k \in 1 .. n : \A d \in S :
            step[k][d] = IF d \in G[k - 1] THEN Round(d, d.left[k]) ELSE d
    BY Zenon
  <2>2. step \in [1 .. n -> [S -> S]]
    <3>1. \A k \in 1 .. n : \A d \in S :
              (IF d \in G[k - 1] THEN Round(d, d.left[k]) ELSE d) \in S
      <4>1. \A k \in 1 .. n : k \in 0 .. n
        BY <1>1
      <4> QED BY <1>5, <1>7, <4>1
    <3> QED BY <3>1
  <2> HIDE DEF step
  <2>3. PICK g : Follows(g, n, S, init, step)
    <3>1. init \in S
      <4>1. 0 \in 0 .. n
        BY <1>1
      <4> QED BY <1>4, <1>5, <4>1
    <3> QED BY ONLY <1>1, <2>2, <3>1, StepsExist
  <2>4. /\ g \in [0 .. n -> S] /\ g[0] = init
        /\ \A k \in 1 .. n : g[k] = step[k][g[k - 1]]
    BY <2>3 DEF Follows
  <2> DEFINE T == {k \in Nat : k <= n => g[k] \in G[k]}
  <2>5. 0 \in T
    BY <1>4, <2>4
  <2>6. ASSUME NEW k \in T PROVE k + 1 \in T
    <3>1. k \in Nat /\ k + 1 \in Nat /\ (k <= n => g[k] \in G[k])
      BY DEF T
    <3> SUFFICES ASSUME k + 1 <= n PROVE g[k + 1] \in G[k + 1]
      BY <3>1 DEF T
    <3>2. k + 1 \in 1 .. n /\ k \in 0 .. n /\ k + 1 - 1 = k /\ k <= n
      BY <1>1, <3>1
    <3>3. g[k] \in G[k] /\ g[k] \in S
      BY <1>5, <3>1, <3>2
    <3>4. g[k + 1] = Round(g[k], g[k].left[k + 1])
      BY <2>1, <2>4, <3>2, <3>3
    <3> QED BY <1>7, <3>2, <3>3, <3>4
  <2>7. T = Nat
    <3>1. T \in SUBSET Nat
      BY DEF T
    <3> HIDE DEF T
    <3> QED BY <2>5, <2>6, <3>1, SetInduction
  <2>8. \A k \in 0 .. n : g[k] \in G[k]
    <3>1. \A k \in 0 .. n : k \in T /\ k <= n
      BY <1>1, <2>7
    <3> QED BY <3>1
  <2>9. ASSUME NEW k \in 0 .. n PROVE g[k] = Body(g, k)
    <3>1. CASE k = 0
      BY <2>4, <3>1
    <3>2. CASE k # 0
      <4>1. k \in 1 .. n /\ k - 1 \in 0 .. n
        BY <1>1, <3>2
      <4>2. g[k - 1] \in G[k - 1] /\ g[k - 1] \in S
        BY <1>5, <2>8, <4>1
      <4>3. g[k] = Round(g[k - 1], g[k - 1].left[k])
        BY <2>1, <2>4, <4>1, <4>2
      <4> QED BY <3>2, <4>3
    <3> QED BY <3>1, <3>2
  <2>10. g = [k \in 0 .. n |-> g[k]]
    BY <2>4
  <2> HIDE DEF Body
  <2>11. g = [k \in 0 .. n |-> Body(g, k)]
    BY <2>9, <2>10, Zenon
  <2> QED BY <2>11
<1>9. Rec(done)
  BY <1>8
<1> HIDE DEF done
<1>10. \A k \in 0 .. n : done[k] = Body(done, k)
  <2> HIDE DEF Body
  <2> QED BY <1>9, Zenon
<1> DEFINE T == {k \in Nat : k <= n => done[k] \in G[k]}
<1>11. 0 \in T
  <2>1. 0 \in 0 .. n
    BY <1>1
  <2>2. done[0] = init
    BY <1>10, <2>1
  <2> QED BY <1>4, <2>2
<1>12. ASSUME NEW k \in T PROVE k + 1 \in T
  <2>1. k \in Nat /\ k + 1 \in Nat /\ (k <= n => done[k] \in G[k])
    BY DEF T
  <2> SUFFICES ASSUME k + 1 <= n PROVE done[k + 1] \in G[k + 1]
    BY <2>1 DEF T
  <2>2. k + 1 \in 1 .. n /\ k + 1 \in 0 .. n /\ k + 1 - 1 = k /\ k <= n /\ k + 1 # 0
    BY <1>1, <2>1
  <2>3. done[k + 1] = Round(done[k], done[k].left[k + 1])
    BY <1>10, <2>2
  <2> QED BY <1>7, <2>1, <2>2, <2>3
<1>13. n \in T
  <2>1. T \in SUBSET Nat
    BY DEF T
  <2> HIDE DEF T
  <2>2. T = Nat
    BY <1>11, <1>12, <2>1, SetInduction
  <2> QED BY <1>1, <2>2
<1>14. done[n] \in G[n]
  BY <1>1, <1>13
<1> QED BY <1>2, <1>14 DEF n

\* The indexes that are still to be deleted after k rounds fit into m items: so
\* many of them at least v are at most as many as there are items from there on.
Fits(n, left, k, m) ==
    \A v \in 1 .. m + 1 : Cardinality({j \in k + 1 .. n : left[j] >= v}) <= m - v + 1

Tops(n, left, k, v) == {j \in k + 1 .. n : left[j] >= v}

LEMMA TopsFinite ==
    ASSUME NEW n \in Nat, NEW left, NEW k \in Nat, NEW v
    PROVE  IsFiniteSet(Tops(n, left, k, v)) /\ Cardinality(Tops(n, left, k, v)) \in Nat
<1>1. k + 1 \in Int /\ n \in Int
  OBVIOUS
<1>2. IsFiniteSet(k + 1 .. n)
  BY ONLY <1>1, FS_Interval
<1>3. Tops(n, left, k, v) \in SUBSET (k + 1 .. n)
  BY DEF Tops
<1>4. IsFiniteSet(Tops(n, left, k, v))
  BY ONLY <1>2, <1>3, FS_Subset
<1> QED BY ONLY <1>4, FS_CardinalityType

\* The next one is the index of an item, and the others still fit when it is gone.
LEMMA FitsOn ==
    ASSUME NEW n \in Nat, NEW left \in [1 .. n -> Nat], NEW k \in 1 .. n, NEW m \in Nat,
           Fits(n, left, k - 1, m)
    PROVE  /\ left[k] <= m
           /\ left[k] # 0 =>
                 Fits(n, [j \in 1 .. n |-> IF left[k] < left[j] THEN left[j] - 1 ELSE left[j]],
                      k, m - 1)
<1> DEFINE i == left[k]
           w == [j \in 1 .. n |-> IF i < left[j] THEN left[j] - 1 ELSE left[j]]
<1>1. /\ k - 1 \in Nat /\ k \in Nat /\ k - 1 + 1 = k /\ i \in Nat
      /\ \A j \in 1 .. n : left[j] \in Nat
  OBVIOUS
<1>2. \A v \in 1 .. m + 1 : Cardinality(Tops(n, left, k - 1, v)) <= m - v + 1
  BY DEF Fits, Tops
<1>3. \A v : /\ IsFiniteSet(Tops(n, left, k - 1, v))
             /\ Cardinality(Tops(n, left, k - 1, v)) \in Nat
  BY <1>1, TopsFinite
<1>4. \A v : \A j : j \in Tops(n, left, k - 1, v) <=> j \in k .. n /\ left[j] >= v
  BY <1>1 DEF Tops
<1>5. i <= m
  <2>1. SUFFICES ASSUME i >= m + 1 PROVE FALSE
    BY <1>1
  <2> DEFINE A == Tops(n, left, k - 1, m + 1)
  <2>2. m + 1 \in 1 .. m + 1 /\ m - (m + 1) + 1 = 0
    OBVIOUS
  <2>3. Cardinality(A) <= 0 /\ Cardinality(A) \in Nat /\ IsFiniteSet(A)
    BY <1>2, <1>3, <2>2
  <2>4. k \in A
    BY <1>4, <2>1
  <2> HIDE DEF A
  <2>5. Cardinality(A) = 0
    BY <2>3
  <2>6. A = {}
    BY ONLY <2>3, <2>5, FS_EmptySet
  <2> QED BY <2>4, <2>6
<1>6. \A j \in 1 .. n : w[j] = IF i < left[j] THEN left[j] - 1 ELSE left[j]
  OBVIOUS
<1> HIDE DEF w, i
<1>7. ASSUME i # 0, NEW v \in 1 .. m
      PROVE  Cardinality({j \in k + 1 .. n : w[j] >= v}) <= (m - 1) - v + 1
  <2> DEFINE B == {j \in k + 1 .. n : w[j] >= v}
             u == IF v <= i THEN v ELSE v + 1
             A == Tops(n, left, k - 1, u)
  <2>1. u \in 1 .. m + 1
    OBVIOUS
  <2>2. \A j \in k + 1 .. n : j \in 1 .. n /\ j # k /\ j \in k .. n
    BY <1>1
  <2>3. \A j \in k + 1 .. n : w[j] >= v <=> left[j] >= u
    BY <1>1, <1>6, <1>7, <2>2
  <2>4. k \in A <=> v <= i
    <3>1. k \in A <=> i >= u
      BY <1>4 DEF i
    <3> QED BY <1>1, <3>1
  <2> HIDE DEF u
  <2>5. \A j : j \in A <=> j \in k .. n /\ left[j] >= u
    BY <1>4
  <2>6. Cardinality(A) <= m - u + 1 /\ Cardinality(A) \in Nat /\ IsFiniteSet(A)
    BY <1>2, <1>3, <2>1
  <2> HIDE DEF A
  <2>7. B = A \ {k}
    <3>1. \A j \in k .. n : j # k => j \in k + 1 .. n
      BY <1>1
    <3> QED BY <2>2, <2>3, <2>5, <3>1
  <2> HIDE DEF B
  <2>8. Cardinality(B) = IF k \in A THEN Cardinality(A) - 1 ELSE Cardinality(A)
    BY <2>6, <2>7, FS_RemoveElement
  <2>9. Cardinality(B) <= (m - 1) - v + 1
    <3>1. CASE v <= i
      BY <2>4, <2>6, <2>8, <3>1 DEF u
    <3>2. CASE ~(v <= i)
      BY <2>4, <2>6, <2>8, <3>2 DEF u
    <3> QED BY <3>1, <3>2
  <2> QED BY <2>9 DEF B
<1>8. i # 0 => Fits(n, w, k, m - 1)
  <2>1. 1 .. (m - 1) + 1 = 1 .. m
    OBVIOUS
  <2> QED BY <1>7, <2>1 DEF Fits
<1> QED BY <1>5, <1>8 DEF i, w

\* Deleting indexes that fit leaves the other items, and the active one.
LEMMA DeleteArrayFacts ==
    ASSUME NEW l \in Listings, NEW x \in Seq(Nat),
           \A j \in 1 .. Len(x) : x[j] # 0, Fits(Len(x), x, 0, l.count)
    PROVE  LET d == DeleteRealIndexArray(l, x) IN
           LeftOf(l, d) /\ (l.active <= l.count => Survives(l, d))
<1> DEFINE n == Len(x)
           S == Deletions(n)
           init == [list |-> l, left |-> x]
           Good(k, d) == /\ LeftOf(l, d.list) /\ Fits(n, d.left, k, d.list.count)
                         /\ \A j \in 1 .. n : d.left[j] # 0
                         /\ l.active <= l.count => Survives(l, d.list)
           G == [k \in 0 .. n |-> {d \in S : Good(k, d)}]
<1>1. n \in Nat /\ DOMAIN x = 1 .. n /\ x \in [1 .. n -> Nat]
  <2>1. DOMAIN x = 1 .. n /\ n \in Nat /\ \A i \in 1 .. n : x[i] \in Nat
    BY LenProperties, ElementOfSeq
  <2>2. x = [i \in 1 .. n |-> x[i]]
    BY LenProperties
  <2> HIDE DEF n
  <2> QED BY <2>1, <2>2
<1>2. /\ \A j \in 1 .. n : x[j] # 0
      /\ Fits(n, x, 0, l.count)
  OBVIOUS
<1> HIDE DEF n
<1>3. l.count \in Nat /\ l.active \in Nat
  BY ListingFields
<1>4. init \in S /\ init.list = l /\ init.left = x
  BY <1>1 DEF Deletions
<1>5. LeftOf(l, l)
  BY <1>3 DEF LeftOf
<1>6. l.active <= l.count => Survives(l, l)
  <2>1. ASSUME NEW e PROVE Occ(l, e) <= Occ(l, e)
    <3>1. Occ(l, e) \in Nat
      BY OccFacts
    <3> QED BY <3>1
  <2> QED BY <2>1 DEF Survives, Followed
<1> HIDE DEF init
<1>7. Good(0, init)
  BY <1>2, <1>4, <1>5, <1>6
<1>8. ASSUME NEW k \in 1 .. n, NEW d \in S, Good(k - 1, d)
      PROVE  DeleteRound(n, d, d.left[k]) \in S /\ Good(k, DeleteRound(n, d, d.left[k]))
  <2> DEFINE i == d.left[k]
             v == [j \in 1 .. n |-> IF i < d.left[j] THEN d.left[j] - 1 ELSE d.left[j]]
             m == DeleteRealIndex(d.list, i)
  <2>1. /\ d.left \in [1 .. n -> Nat] /\ d.list \in Listings
        /\ LeftOf(l, d.list) /\ Fits(n, d.left, k - 1, d.list.count)
        /\ \A j \in 1 .. n : d.left[j] # 0
        /\ l.active <= l.count => Survives(l, d.list)
    BY <1>8 DEF Deletions
  <2>2. d.list.count \in Nat
    BY <2>1, ListingFields
  <2>3. i \in Nat /\ i # 0 /\ i <= d.list.count /\ Fits(n, v, k, d.list.count - 1)
    BY <1>1, <2>1, <2>2, FitsOn
  <2>4. v \in [1 .. n -> Nat] /\ \A j \in 1 .. n : v[j] # 0
    <3>1. \A j \in 1 .. n : d.left[j] \in Nat /\ d.left[j] # 0
      BY <2>1
    <3>2. \A j \in 1 .. n : LET y == IF i < d.left[j] THEN d.left[j] - 1 ELSE d.left[j]
                            IN  y \in Nat /\ y # 0
      <4> HIDE DEF i
      <4> QED BY <2>3, <3>1
    <3> QED BY <3>2
  <2>5. DeleteRound(n, d, i) = [list |-> m, left |-> v]
    BY DEF DeleteRound
  <2> HIDE DEF i, v
  <2>6. i \in 1 .. d.list.count /\ d.list.count # 0
    BY <2>2, <2>3
  <2>7. LeftOf(l, m) /\ m.count = d.list.count - 1
    BY <2>1, <2>3, <2>6, LeftAfterDelete
  <2>8. m \in Listings
    BY <2>7 DEF LeftOf
  <2>9. l.active <= l.count => Survives(l, m)
    BY <2>1, <2>6, SurvivesDelete
  <2> HIDE DEF m
  <2> DEFINE r == [list |-> m, left |-> v]
  <2>10. r \in S /\ r.list = m /\ r.left = v
    BY <2>4, <2>8 DEF Deletions
  <2> HIDE DEF r
  <2>11. r \in S /\ Good(k, r)
    BY <2>3, <2>4, <2>7, <2>9, <2>10
  <2> QED BY <2>5, <2>11 DEF r, i
<1>9. /\ G \in [0 .. n -> SUBSET S]
      /\ \A k \in 0 .. n : G[k] = {d \in S : Good(k, d)}
  <2> HIDE DEF S, Good
  <2> QED OBVIOUS
<1> HIDE DEF G, Good, S
<1>10. init \in G[0]
  <2>1. 0 \in 0 .. n
    BY <1>1
  <2> QED BY <1>4, <1>7, <1>9, <2>1
<1>11. \A k \in 1 .. n : \A d \in G[k - 1] : DeleteRound(n, d, d.left[k]) \in G[k]
  <2>1. SUFFICES ASSUME NEW k \in 1 .. n, NEW d \in G[k - 1]
                 PROVE  DeleteRound(n, d, d.left[k]) \in G[k]
    OBVIOUS
  <2>2. k \in 0 .. n /\ k - 1 \in 0 .. n
    BY <1>1
  <2>3. d \in S /\ Good(k - 1, d)
    BY <1>9, <2>1, <2>2
  <2> QED BY <1>8, <1>9, <2>2, <2>3
<1>12. \E d \in G[n] : DeleteRealIndexArray(l, x) = d.list
  BY <1>9, <1>10, <1>11, DeleteRounds DEF n, init, S
<1>13. PICK d \in G[n] : DeleteRealIndexArray(l, x) = d.list
  BY <1>12
<1>14. Good(n, d)
  BY <1>1, <1>9, <1>13
<1> QED BY <1>13, <1>14 DEF Good

\* Indexes fit that lie each at or before one of as many different items.
LEMMA CoveredFits ==
    ASSUME NEW m \in Nat, NEW x \in Seq(Nat), NEW S, NEW t \in Seq(S),
           Len(t) = Len(x), Distinctly(t),
           \A j \in 1 .. Len(x) : t[j] \in 1 .. m /\ x[j] <= t[j]
    PROVE  Fits(Len(x), x, 0, m)
<1> DEFINE n == Len(x)
<1>1. n \in Nat /\ \A j \in 1 .. n : x[j] \in Nat /\ t[j] \in 1 .. m /\ x[j] <= t[j]
  BY LenProperties, ElementOfSeq
<1>2. \A j, k \in 1 .. n : j # k => t[j] # t[k]
  BY DEF Distinctly
<1> HIDE DEF n
<1>3. SUFFICES ASSUME NEW v \in 1 .. m + 1
               PROVE  Cardinality({j \in 0 + 1 .. n : x[j] >= v}) <= m - v + 1
  BY DEF Fits, n
<1> DEFINE A == {j \in 0 + 1 .. n : x[j] >= v}
           B == v .. m
           f == [j \in A |-> t[j]]
<1>4. v \in Int /\ m \in Int
  OBVIOUS
<1>5. IsFiniteSet(B) /\ Cardinality(B) = IF v > m THEN 0 ELSE m - v + 1
  BY ONLY <1>4, FS_Interval
<1>6. \A j \in A : j \in 1 .. n /\ t[j] \in B
  BY <1>1
<1>7. Cardinality(B) = m - v + 1
  <2> HIDE DEF B
  <2> QED BY <1>5
<1> HIDE DEF A, B
<1>8. f \in [A -> B] /\ \A j \in A : f[j] = t[j]
  BY <1>6
<1> HIDE DEF f
<1>9. f \in Injection(A, B)
  BY <1>2, <1>6, <1>8 DEF Injection, IsInjective
<1>10. Cardinality(A) <= Cardinality(B)
  BY <1>5, <1>9, FS_Injection
<1> QED BY <1>7, <1>10 DEF A

\* Different numbers up to m are at most m.
LEMMA DistinctBound ==
    ASSUME NEW m \in Nat, NEW S, NEW t \in Seq(S), Distinctly(t), ToSet(t) \in SUBSET (1 .. m)
    PROVE  Len(t) <= m
<1>1. IsFiniteSet(1 .. m) /\ Cardinality(1 .. m) = m
  <2>1. 1 \in Int /\ m \in Int
    OBVIOUS
  <2>2. IsFiniteSet(1 .. m) /\ Cardinality(1 .. m) = IF 1 > m THEN 0 ELSE m - 1 + 1
    BY ONLY <2>1, FS_Interval
  <2> QED BY <2>2
<1>2. Cardinality(ToSet(t)) = Len(t)
  BY DistinctLength
<1>3. Cardinality(ToSet(t)) <= Cardinality(1 .. m)
  BY <1>1, FS_Subset
<1> QED BY <1>1, <1>2, <1>3

\* The items at some places of the normal order.
LEMMA PlacesFacts ==
    ASSUME PlaylistInv, NEW p \in Seq(DOMAIN normal)
    PROVE  /\ RealIndexes(p) \in Seq(DOMAIN cells) /\ RealIndexes(p) \in Seq(Nat)
           /\ Len(RealIndexes(p)) = Len(p) /\ DOMAIN RealIndexes(p) = DOMAIN p
           /\ \A k \in DOMAIN p : p[k] \in DOMAIN normal /\ RealIndexes(p)[k] = normal[p[k]]
<1> DEFINE r == RealIndexes(p)
<1>1. /\ DOMAIN p = 1 .. Len(p) /\ Len(p) \in Nat
      /\ \A k \in DOMAIN p : p[k] \in DOMAIN normal
  BY LenProperties, ElementOfSeq
<1>2. normal \in Seq(DOMAIN cells) /\ cells \in Seq(Item)
  BY ListingIs, ListingFields DEF PlaylistInv, OrdersOf
<1>3. DOMAIN normal = 1 .. Len(normal) /\ DOMAIN cells = 1 .. Len(cells) /\ Len(cells) \in Nat
  BY <1>2, LenProperties
<1>4. \A k \in 1 .. Len(p) : normal[p[k]] \in DOMAIN cells
  BY <1>1, <1>2, <1>3, ElementOfSeq
<1>5. r = [k \in 1 .. Len(p) |-> normal[p[k]]]
  BY <1>1 DEF RealIndexes
<1>6. r \in [1 .. Len(p) -> DOMAIN cells]
  BY <1>4, <1>5
<1>7. r \in Seq(DOMAIN cells)
  BY <1>1, <1>6
<1>8. Len(r) = Len(p) /\ DOMAIN r = DOMAIN p
  BY <1>1, <1>6, <1>7, LenProperties
<1>9. r \in Seq(Nat)
  <2>1. DOMAIN cells \in SUBSET Nat
    BY <1>3
  <2> QED BY <1>7, <2>1, SeqMonotonic
<1> QED BY <1>1, <1>5, <1>7, <1>8, <1>9

\* The items selected in the view, from the top down.
LEMMA SelectionFacts ==
    ASSUME PlaylistInv, NEW sel \in Selections
    PROVE  /\ sel \in Seq(DOMAIN normal)
           /\ Distinctly(RealIndexes(sel))
           /\ Valid(RealIndexes(sel)) => Len(RealIndexes(sel)) <= count
<1> DEFINE r == RealIndexes(sel)
<1>1. PICK T \in SUBSET DOMAIN normal : sel = Selected(AllIndexes(normal), T)
  BY DEF Selections
<1>2. normal \in Seq(DOMAIN cells) /\ Distinctly(normal)
  BY ListingIs DEF PlaylistInv, OrdersOf
<1>3. sel \in Seq(T) /\ Distinctly(sel)
  BY <1>1, <1>2, IndexesSelected
<1>4. sel \in Seq(DOMAIN normal)
  BY <1>3, SeqMonotonic
<1>5. /\ r \in Seq(DOMAIN cells) /\ Len(r) = Len(sel) /\ DOMAIN r = DOMAIN sel
      /\ \A k \in DOMAIN sel : sel[k] \in DOMAIN normal /\ r[k] = normal[sel[k]]
  BY <1>4, PlacesFacts
<1> HIDE DEF r
<1>6. /\ DOMAIN sel = 1 .. Len(sel) /\ Len(sel) \in Nat /\ DOMAIN normal = 1 .. Len(normal)
  BY <1>2, <1>4, LenProperties
<1>7. Distinctly(r)
  <2>1. SUFFICES ASSUME NEW j \in 1 .. Len(r), NEW k \in 1 .. Len(r), j # k
                 PROVE  r[j] # r[k]
    BY DEF Distinctly
  <2>2. sel[j] # sel[k] /\ sel[j] \in 1 .. Len(normal) /\ sel[k] \in 1 .. Len(normal)
    BY <1>3, <1>5, <1>6, <2>1 DEF Distinctly
  <2> QED BY <1>2, <1>5, <1>6, <2>2 DEF Distinctly
<1>8. Valid(r) => Len(r) <= count
  <2>1. SUFFICES ASSUME Valid(r) PROVE Len(r) <= count
    OBVIOUS
  <2>2. ToSet(r) \in SUBSET (1 .. count)
    BY <2>1 DEF Valid, ToSet
  <2>3. count \in Nat
    BY ListingIs, ListingFields DEF PlaylistInv
  <2> QED BY <1>5, <1>7, <2>2, <2>3, DistinctBound
<1> QED BY <1>4, <1>7, <1>8 DEF r

LEMMA SelectedLeft ==
    ASSUME PlaylistInv, NEW sel \in Selections, DeleteSelected(sel)
    PROVE  \E d : /\ LeftOf(Listing, d) /\ ApplyFilter(d, filter)
                  /\ active <= count => Survives(Listing, d)
<1> DEFINE r == RealIndexes(sel)
           d == DeleteRealIndexArray(Listing, r)
<1>1. Valid(r) /\ ApplyFilter(d, filter)
  BY DEF DeleteSelected
<1>2. r \in Seq(Nat) /\ Distinctly(r)
  BY <1>1, SelectionFacts, PlacesFacts
<1>3. Listing \in Listings /\ Listing.count = count /\ count \in Nat /\ Listing.active = active
  BY ListingIs, ListingFields DEF PlaylistInv
<1>5. \A k \in 1 .. Len(r) : r[k] \in 1 .. count /\ r[k] <= r[k] /\ r[k] # 0
  <2>1. \A k \in 1 .. Len(r) : r[k] \in 1 .. count
    BY <1>1, <1>2, LenProperties DEF Valid
  <2> HIDE DEF r
  <2> QED BY <2>1
<1> HIDE DEF r
<1>6. Fits(Len(r), r, 0, count)
  BY <1>2, <1>3, <1>5, CoveredFits
<1>4. LeftOf(Listing, d) /\ (active <= count => Survives(Listing, d))
  BY <1>2, <1>3, <1>5, <1>6, DeleteArrayFacts
<1> HIDE DEF d
<1> QED BY <1>1, <1>4

LEMMA DeleteSelectedStep ==
    ASSUME PlaylistInv, NEW sel \in Selections, DeleteSelected(sel)
    PROVE  PlaylistInv'
<1>1. UNCHANGED <<sortVars, otherVars>>
  BY DEF DeleteSelected
<1>2. SettingsOK' /\ filter' = filter
  BY <1>1, SettingsKept
<1>3. PICK d : LeftOf(Listing, d) /\ ApplyFilter(d, filter)
  BY SelectedLeft
<1>4. d \in Listings
  BY <1>3 DEF LeftOf
<1> QED BY <1>2, <1>3, <1>4, ApplyStep

LEMMA LibraryRemovesStep ==
    ASSUME PlaylistInv, NEW e \in Entries, LibraryRemoves(e)
    PROVE  PlaylistInv'
<1> DEFINE i == RealIndexOf(ItemsOf(Listing), e)
           d == DeleteAllItemsWhereEntryIDEquals(Listing, e)
<1>1. /\ library' = library \ {e} /\ ApplyFilter(d, filter)
      /\ UNCHANGED <<filter, saved, shuffle, sortVars>>
  BY DEF LibraryRemoves
<1>2. SettingsOK' /\ filter' = filter
  BY <1>1 DEF PlaylistInv, SettingsOK, sortVars
<1>3. Listing \in Listings
  BY DEF PlaylistInv
<1>4. i \in 0 .. Listing.count /\ Listing.count \in Nat
  BY <1>3, ItemsFacts, RealIndexFacts, ListingFields
<1>5. d = IF i = 0 THEN Listing ELSE DeleteRealIndex(Listing, i)
  BY DEF DeleteAllItemsWhereEntryIDEquals
<1> HIDE DEF i, d
<1>6. d \in Listings
  <2>1. CASE i = 0
    BY <1>3, <1>5, <2>1
  <2>2. CASE i # 0
    <3>1. i \in Nat /\ Listing.count # 0
      BY <1>4, <2>2
    <3> QED BY <1>3, <1>5, <2>2, <3>1, DeleteFacts
  <2> QED BY <2>1, <2>2
<1> QED BY <1>1, <1>2, <1>6, ApplyStep

\* What RemoveDuplicates works on: the places that repeat an earlier one's entry,
\* the places it picks for them, and the indexes of the items there.
IdAt(k)    == cells[normal[k]].id
Same(k)    == {j \in 1 .. k - 1 : IdAt(j) = IdAt(k)}
Playing(e) == active # 0 /\ e = cells[active].id
Doubled    == {k \in DOMAIN normal : Least(Same(k)) # 0}
Doubles    == Selected(AllIndexes(normal), Doubled)
Picked     == [k \in DOMAIN Doubles |-> IF Playing(IdAt(Doubles[k])) THEN Least(Same(Doubles[k]))
                                                                    ELSE Doubles[k]]
Gone       == RealIndexes(Picked)

LEMMA RemovesGone ==
    ASSUME RemoveDuplicates
    PROVE  LET l     == DeleteRealIndexArray(Listing, Gone)
               again == Least({k \in 1 .. Len(normal) : Playing(l.cells[normal[k]].id)})
           IN  /\ Valid(normal)
               /\ Becomes([l EXCEPT !.active = IF again = 0 THEN l.active ELSE normal[again]])
<1> DEFINE Id(k)       == cells[normal[k]].id
           Earlier(k)  == FirstOf(k - 1, LAMBDA j : Id(j) = Id(k))
           IsActive(e) == active # 0 /\ e = cells[active].id
           doubles     == Selected(AllIndexes(normal), {k \in DOMAIN normal : Earlier(k) # 0})
           places      == [k \in DOMAIN doubles |->
                              IF IsActive(Id(doubles[k])) THEN Earlier(doubles[k])
                                                             ELSE doubles[k]]
           l           == DeleteRealIndexArray(Listing, RealIndexes(places))
           again       == FirstOf(Len(normal), LAMBDA k : IsActive(l.cells[normal[k]].id))
           m           == [l EXCEPT !.active = IF again = 0 THEN l.active ELSE normal[again]]
<1>1. Valid(normal) /\ Becomes(m)
  BY DEF RemoveDuplicates
<1>2. \A k : Earlier(k) = Least(Same(k))
  BY DEF FirstOf, Least, Same, IdAt
<1>3. \A e : IsActive(e) = Playing(e)
  BY DEF Playing
<1>4. \A k : Id(k) = IdAt(k)
  BY DEF IdAt
<1>5. again = Least({k \in 1 .. Len(normal) : IsActive(l.cells[normal[k]].id)})
  <2> HIDE DEF l, IsActive
  <2> QED BY DEF FirstOf, Least
<1> HIDE DEF again
<1>6. doubles = Doubles
  <2> HIDE DEF Earlier
  <2>1. {k \in DOMAIN normal : Earlier(k) # 0} = Doubled
    BY <1>2 DEF Doubled
  <2> QED BY <2>1 DEF Doubles
<1>7. places = Picked
  <2> HIDE DEF Earlier, IsActive, Id, doubles
  <2> QED BY <1>2, <1>3, <1>4, <1>6, Zenon DEF Picked
<1> HIDE DEF places
<1>8. l = DeleteRealIndexArray(Listing, Gone)
  BY <1>7 DEF Gone
<1> HIDE DEF l, IsActive
<1>9. {k \in 1 .. Len(normal) : IsActive(l.cells[normal[k]].id)}
          = {k \in 1 .. Len(normal) : Playing(l.cells[normal[k]].id)}
  BY <1>3
<1> QED BY <1>1, <1>5, <1>8, <1>9

LEMMA DoublesFacts ==
    ASSUME PlaylistInv, Valid(normal)
    PROVE  /\ Distinctly(Doubles) /\ ToSet(Doubles) = Doubled
           /\ DOMAIN Doubles = 1 .. Len(Doubles) /\ Len(Doubles) \in Nat
           /\ Gone \in Seq(Nat) /\ Len(Gone) = Len(Doubles)
           /\ \A k \in 1 .. Len(Doubles) :
                 /\ Picked[k] \in DOMAIN normal /\ Doubles[k] \in DOMAIN normal
                 /\ Gone[k] = normal[Picked[k]] /\ Gone[k] \in 1 .. count
                 /\ IdAt(Picked[k]) = IdAt(Doubles[k])
                 /\ ~Playing(IdAt(Doubles[k])) => Picked[k] = Doubles[k]
           /\ Fits(Len(Gone), Gone, 0, count)
<1> DEFINE x == Doubles
           t == RealIndexes(x)
<1>3. /\ normal \in Seq(DOMAIN cells) /\ Distinctly(normal) /\ Increasing(normal)
      /\ Listing \in Listings /\ Listing.count = count /\ count \in Nat
      /\ Listing.cells = cells /\ DOMAIN cells = 1 .. Len(cells)
  BY ListingIs, ListingFields DEF PlaylistInv, OrdersOf
<1>4. DOMAIN normal = 1 .. Len(normal) /\ Len(normal) \in Nat
  BY <1>3, LenProperties
<1>5. \A k \in DOMAIN normal : Least(Same(k)) \in 0 .. k - 1
                               /\ (Least(Same(k)) # 0 => Least(Same(k)) \in Same(k))
  <2>1. \A k \in DOMAIN normal : k - 1 \in Nat /\ Same(k) \in SUBSET (1 .. k - 1)
    BY <1>4 DEF Same
  <2> QED BY <2>1, LeastFacts
<1>6. x \in Seq(Doubled) /\ Distinctly(x) /\ ToSet(x) = Doubled
  <2>1. Doubled \in SUBSET DOMAIN normal
    BY DEF Doubled
  <2> QED BY <1>3, <2>1, IndexesSelected DEF Doubles
<1> HIDE DEF x
<1>7. DOMAIN x = 1 .. Len(x) /\ Len(x) \in Nat
      /\ \A k \in 1 .. Len(x) : x[k] \in DOMAIN normal /\ Least(Same(x[k])) # 0
  <2>1. DOMAIN x = 1 .. Len(x) /\ Len(x) \in Nat /\ \A k \in 1 .. Len(x) : x[k] \in Doubled
    BY <1>6, LenProperties, ElementOfSeq
  <2> QED BY <2>1 DEF Doubled
<1>8. /\ DOMAIN Picked = 1 .. Len(x)
      /\ \A k \in 1 .. Len(x) : Picked[k] = IF Playing(IdAt(x[k])) THEN Least(Same(x[k]))
                                                                  ELSE x[k]
  BY <1>7 DEF Picked, x
<1>9. ASSUME NEW k \in 1 .. Len(x)
      PROVE  /\ Picked[k] \in 1 .. Len(normal) /\ x[k] \in 1 .. Len(normal)
             /\ Picked[k] <= x[k] /\ IdAt(Picked[k]) = IdAt(x[k])
             /\ ~Playing(IdAt(x[k])) => Picked[k] = x[k]
  <2> DEFINE y == Least(Same(x[k]))
  <2>1. y \in 0 .. x[k] - 1 /\ y # 0 /\ y \in Same(x[k]) /\ x[k] \in 1 .. Len(normal)
    BY <1>4, <1>5, <1>7
  <2>2. IdAt(y) = IdAt(x[k])
    BY <2>1 DEF Same
  <2>3. Picked[k] = IF Playing(IdAt(x[k])) THEN y ELSE x[k]
    BY <1>8
  <2> HIDE DEF y
  <2> QED BY <1>4, <2>1, <2>2, <2>3
<1>10. Picked \in Seq(DOMAIN normal) /\ Len(Picked) = Len(x)
  <2>1. Picked \in [1 .. Len(x) -> DOMAIN normal]
    <3>1. Picked = [k \in 1 .. Len(x) |-> Picked[k]]
      BY <1>7 DEF Picked, x
    <3> QED BY <1>4, <1>9, <3>1
  <2>2. Picked \in Seq(DOMAIN normal)
    BY <1>7, <2>1
  <2> QED BY <1>7, <2>1, <2>2, LenProperties
<1>11. /\ t \in Seq(DOMAIN cells) /\ Len(t) = Len(x) /\ Distinctly(t)
       /\ \A k \in 1 .. Len(x) : t[k] = normal[x[k]]
  <2>1. x \in Seq(DOMAIN normal)
    <3>1. Doubled \in SUBSET DOMAIN normal
      BY DEF Doubled
    <3> QED BY <1>6, <3>1, SeqMonotonic
  <2>2. /\ t \in Seq(DOMAIN cells) /\ Len(t) = Len(x)
        /\ \A k \in 1 .. Len(x) : t[k] = normal[x[k]]
    BY <1>7, <2>1, PlacesFacts
  <2> HIDE DEF t
  <2>3. ASSUME NEW j \in 1 .. Len(t), NEW k \in 1 .. Len(t), j # k
        PROVE  t[j] # t[k]
    <3>1. x[j] # x[k]
      BY <1>6, <2>2, <2>3 DEF Distinctly
    <3>2. x[j] \in 1 .. Len(normal) /\ x[k] \in 1 .. Len(normal)
      BY <1>9, <2>2
    <3>3. normal[x[j]] # normal[x[k]]
      BY <1>3, <3>1, <3>2 DEF Distinctly
    <3> QED BY <2>2, <3>3
  <2> QED BY <2>2, <2>3 DEF Distinctly
<1> HIDE DEF t
<1>12. /\ Gone \in Seq(Nat) /\ Len(Gone) = Len(x)
       /\ \A k \in 1 .. Len(x) : Gone[k] = normal[Picked[k]]
  <2>1. DOMAIN Picked = 1 .. Len(x)
    BY <1>10, LenProperties
  <2> QED BY <1>10, <2>1, PlacesFacts DEF Gone
<1>13. ASSUME NEW k \in 1 .. Len(x)
       PROVE  t[k] \in 1 .. count /\ Gone[k] <= t[k] /\ Gone[k] \in 1 .. count
  <2> DEFINE p == Picked[k]
             q == x[k]
  <2>2. /\ p \in 1 .. Len(normal) /\ q \in 1 .. Len(normal) /\ p <= q
        /\ Gone[k] = normal[p] /\ t[k] = normal[q]
    BY <1>9, <1>11, <1>12
  <2>3. normal[p] \in 1 .. count /\ normal[q] \in 1 .. count
    BY <1>4, <2>2 DEF Valid
  <2> HIDE DEF p, q
  <2>4. p < q => normal[p] < normal[q]
    BY <1>3, <2>2 DEF Increasing
  <2>5. p = q \/ p < q
    BY <2>2
  <2> QED BY <1>3, <2>2, <2>3, <2>4, <2>5
<1>14. Fits(Len(Gone), Gone, 0, count)
  BY <1>3, <1>11, <1>12, <1>13, CoveredFits
<1> QED BY <1>4, <1>6, <1>7, <1>9, <1>12, <1>13, <1>14 DEF x

\* RemoveDuplicates leaves some of the items, which are l's, and a becomes active.
Removed(l, a) ==
    /\ LeftOf(Listing, l)
    /\ active <= count => Survives(Listing, l)
    /\ a \in Nat /\ a <= Len(l.cells)
    /\ \/ a = l.active
       \/ active # 0 /\ a \in 1 .. count /\ l.cells[a].id = cells[active].id
    /\ Becomes([l EXCEPT !.active = a])

LEMMA RemovedFacts ==
    ASSUME PlaylistInv, RemoveDuplicates
    PROVE  \E a : Removed(DeleteRealIndexArray(Listing, Gone), a)
<1> DEFINE l           == DeleteRealIndexArray(Listing, Gone)
           A           == {k \in 1 .. Len(normal) : Playing(l.cells[normal[k]].id)}
           again       == Least(A)
           a           == IF again = 0 THEN l.active ELSE normal[again]
           m           == [l EXCEPT !.active = a]
<1>1. Valid(normal) /\ Becomes(m)
  BY RemovesGone
<1>3. /\ normal \in Seq(DOMAIN cells)
      /\ Listing \in Listings /\ Listing.count = count /\ count \in Nat
      /\ Listing.active = active
      /\ Listing.cells = cells /\ DOMAIN cells = 1 .. Len(cells)
  BY ListingIs, ListingFields DEF PlaylistInv, OrdersOf
<1>4. DOMAIN normal = 1 .. Len(normal) /\ Len(normal) \in Nat
  BY <1>3, LenProperties
<1>11. LeftOf(Listing, l) /\ (active <= count => Survives(Listing, l))
  <2>1. /\ Gone \in Seq(Nat) /\ Fits(Len(Gone), Gone, 0, count)
        /\ \A k \in 1 .. Len(Gone) : Gone[k] \in 1 .. count
    BY <1>1, DoublesFacts
  <2>2. \A k \in 1 .. Len(Gone) : Gone[k] # 0
    BY <1>3, <2>1
  <2> QED BY <1>3, <2>1, <2>2, DeleteArrayFacts
<1> HIDE DEF l
<1>12. l \in Listings /\ Len(l.cells) = Len(cells)
  BY <1>3, <1>11 DEF LeftOf
<1>13. l.active \in Nat /\ l.active <= Len(l.cells)
  BY <1>12, ListingFields
<1>14. again \in 0 .. Len(normal) /\ (again # 0 => again \in A)
  <2>1. A \in SUBSET (1 .. Len(normal))
    OBVIOUS
  <2> HIDE DEF A
  <2> QED BY <1>4, <2>1, LeastFacts
<1> HIDE DEF again
<1>15. /\ a \in Nat /\ a <= Len(l.cells)
       /\ \/ a = l.active
          \/ active # 0 /\ a \in 1 .. count /\ l.cells[a].id = cells[active].id
  <2>1. CASE again = 0
    BY <1>13, <2>1
  <2>2. CASE again # 0
    <3>1. again \in 1 .. Len(normal)
      BY <1>4, <1>14, <2>2
    <3>2. normal[again] \in DOMAIN cells
      BY <1>3, <3>1, ElementOfSeq
    <3>3. normal[again] \in 1 .. count
      BY <1>1, <1>4, <3>1 DEF Valid
    <3>4. active # 0 /\ l.cells[normal[again]].id = cells[active].id
      BY <1>14, <2>2 DEF Playing
    <3> QED BY <1>3, <1>12, <2>2, <3>2, <3>3, <3>4
  <2> QED BY <2>1, <2>2
<1> HIDE DEF a
<1>16. Removed(l, a)
  BY <1>1, <1>11, <1>15 DEF Removed
<1> QED BY <1>16 DEF l

LEMMA RemoveDuplicatesStep ==
    ASSUME PlaylistInv, RemoveDuplicates
    PROVE  PlaylistInv'
<1>1. fresh' = FALSE /\ UNCHANGED <<normal, random, heard, sortVars, otherVars>>
  BY DEF RemoveDuplicates
<1>2. SettingsOK' /\ filter' = filter
  BY <1>1, SettingsKept
<1>3. PICK l, a : Removed(l, a)
  BY RemovedFacts
<1> DEFINE m == [l EXCEPT !.active = a]
<1>4. /\ LeftOf(Listing, l) /\ a \in Nat /\ a <= Len(l.cells) /\ Becomes(m)
  BY <1>3 DEF Removed
<1>5. /\ Listing \in Listings /\ Listing.cells = cells /\ Judged(Listing, filter)
      /\ OrdersOf(Listing, normal, random) /\ heard \subseteq Entries
      /\ DOMAIN Listing.cells = 1 .. Len(cells)
  BY ListingIs, ListingFields DEF PlaylistInv
<1>6. l \in Listings /\ Len(l.cells) = Len(cells) /\ Judged(l, filter)
  BY <1>4, <1>5, LeftJudged DEF LeftOf
<1>7. DOMAIN l.cells = DOMAIN Listing.cells
  BY <1>5, <1>6, ListingFields
<1>8. /\ m \in Listings /\ m.cells = l.cells /\ m.count = l.count /\ m.active = a
  BY <1>4, <1>6 DEF Listings
<1> HIDE DEF m
<1>9. Listing' = m
  BY <1>4, <1>8, ListingBecomes
<1>10. Judged(m, filter)
  BY <1>6, <1>8 DEF Judged
<1>11. OrdersOf(m, normal, random)
  BY <1>5, <1>7, <1>8 DEF OrdersOf
<1> QED BY <1>1, <1>2, <1>5, <1>8, <1>9, <1>10, <1>11 DEF PlaylistInv, OrderPlayed
----------------------------------------------------------------------------
(***************************************************************************)
(* Moving.                                                                 *)
(***************************************************************************)

\* l holds the items of the list, perhaps in another order.
Rearranged(l) ==
    /\ l \in Listings /\ l.count = count
    /\ l.active <= count \/ l.active = active
    /\ \A i \in 1 .. count : \E j \in 1 .. count : l.cells[i] = cells[j]
    /\ active \in 1 .. count => l.active # 0 /\ l.cells[l.active].id = cells[active].id

LEMMA RearrangeStep ==
    ASSUME PlaylistInv, SettingsOK', filter' = filter,
           NEW l, Rearranged(l), Becomes(l), Rebuild(l)
    PROVE  PlaylistInv'
<1>1. /\ l \in Listings /\ l.count = count
      /\ \A i \in 1 .. count : \E j \in 1 .. count : l.cells[i] = cells[j]
  BY DEF Rearranged
<1>2. Judged(Listing, filter)
  BY DEF PlaylistInv
<1>3. Judged(l, filter')
  <2>1. SUFFICES ASSUME NEW i \in 1 .. count
                 PROVE  l.cells[i].out = (l.cells[i].id \notin filter)
    BY <1>1 DEF Judged
  <2>2. PICK j \in 1 .. count : l.cells[i] = cells[j]
    BY <1>1
  <2> QED BY <1>2, <2>2, ListingIs DEF Judged
<1>4. Rebuilt(l)
  BY <1>1, RebuildFacts
<1> QED BY <1>1, <1>3, <1>4, RebuildStep

\* Of different indexes, those below real fit below it, and the others from it on.
LEMMA BelowFacts ==
    ASSUME NEW m \in Nat, NEW S, NEW x \in Seq(S), Distinctly(x),
           NEW n \in 1 .. m + 1, \A k \in DOMAIN x : x[k] \in 1 .. m
    PROVE  LET c == Cardinality({k \in DOMAIN x : x[k] < n}) IN
           c \in Nat /\ 1 <= n - c /\ n - c <= m - Len(x) + 1
<1> DEFINE B == {k \in DOMAIN x : x[k] < n}
           R == DOMAIN x \ B
           c == Cardinality(B)
           lo == 1 .. n - 1
           hi == n .. m
<1>1. DOMAIN x = 1 .. Len(x) /\ Len(x) \in Nat
  BY LenProperties
<1>2. IsFiniteSet(DOMAIN x) /\ Cardinality(DOMAIN x) = Len(x)
  <2>1. 1 \in Int /\ Len(x) \in Int
    BY <1>1
  <2>2. IsFiniteSet(1 .. Len(x)) /\ Cardinality(1 .. Len(x)) =
            IF 1 > Len(x) THEN 0 ELSE Len(x) - 1 + 1
    BY ONLY <2>1, FS_Interval
  <2> QED BY <1>1, <2>2
<1>3. IsFiniteSet(B) /\ IsFiniteSet(R) /\ c \in Nat
      /\ Cardinality(R) = Len(x) - c
  <2>1. B \in SUBSET DOMAIN x /\ B \cap DOMAIN x = B
    OBVIOUS
  <2> HIDE DEF B
  <2>2. IsFiniteSet(B) /\ c \in Nat
    BY <1>2, <2>1, FS_Subset, FS_CardinalityType
  <2>3. IsFiniteSet(R) /\ Cardinality(R) = Cardinality(DOMAIN x) - Cardinality(DOMAIN x \cap B)
    BY <1>2, <2>2, FS_Difference
  <2>4. DOMAIN x \cap B = B
    BY <2>1
  <2> QED BY <1>2, <2>2, <2>3, <2>4
<1>4. n \in Int /\ n - 1 \in Int /\ m \in Int /\ 1 \in Int
  OBVIOUS
<1>5. /\ IsFiniteSet(lo) /\ Cardinality(lo) = n - 1
      /\ IsFiniteSet(hi) /\ Cardinality(hi) = m - n + 1
  <2>1. IsFiniteSet(lo) /\ Cardinality(lo) = IF 1 > n - 1 THEN 0 ELSE n - 1 - 1 + 1
    BY ONLY <1>4, FS_Interval
  <2>2. IsFiniteSet(hi) /\ Cardinality(hi) = IF n > m THEN 0 ELSE m - n + 1
    BY ONLY <1>4, FS_Interval
  <2> HIDE DEF lo, hi
  <2> QED BY <2>1, <2>2
<1>6. c <= n - 1
  <2> DEFINE f == [k \in B |-> x[k]]
  <2>1. f \in Injection(B, lo)
    <3>1. \A k \in B : x[k] \in lo
      OBVIOUS
    <3>2. f \in [B -> lo] /\ \A k \in B : f[k] = x[k]
      BY <3>1
    <3> HIDE DEF f, lo
    <3>3. \A j, k \in B : f[j] = f[k] => j = k
      BY <1>1, <3>2 DEF Distinctly
    <3> QED BY <3>2, <3>3 DEF Injection, IsInjective
  <2> HIDE DEF f, B, lo
  <2>2. Cardinality(B) <= Cardinality(lo)
    BY <1>5, <2>1, FS_Injection
  <2> QED BY <1>5, <2>2
<1>7. Len(x) - c <= m - n + 1
  <2> DEFINE f == [k \in R |-> x[k]]
  <2>1. f \in Injection(R, hi)
    <3>1. \A k \in R : x[k] \in hi /\ k \in DOMAIN x
      OBVIOUS
    <3>2. f \in [R -> hi] /\ \A k \in R : f[k] = x[k]
      BY <3>1
    <3> HIDE DEF f, hi, R
    <3>3. \A j, k \in R : f[j] = f[k] => j = k
      BY <1>1, <3>1, <3>2 DEF Distinctly
    <3> QED BY <3>2, <3>3 DEF Injection, IsInjective
  <2> HIDE DEF f, R, hi
  <2>2. Cardinality(R) <= Cardinality(hi)
    BY <1>5, <2>1, FS_Injection
  <2> QED BY <1>3, <1>5, <2>2
<1> HIDE DEF c
<1>8. 1 <= n - c /\ n - c <= m - Len(x) + 1
  BY <1>1, <1>3, <1>6, <1>7
<1> QED BY <1>3, <1>8 DEF c

\* Where the moved items go, there is a place among the others.
LEMMA MovedFacts ==
    ASSUME PlaylistInv, NEW x \in Seq(Nat), Distinctly(x), Valid(x),
           NEW n \in Int, 1 <= n, n <= count - Len(x) + 1
    PROVE  /\ Moved(x, n) \in Seq(1 .. count) /\ Len(Moved(x, n)) = count
           /\ \A i \in 1 .. count : \E k \in 1 .. count : Moved(x, n)[k] = i
<1> DEFINE C == 1 .. count
           I == DOMAIN Items \ ToSet(x)
           o == Selected(AllIndexes(Items), I)
           a == SubSeq(o, 1, n - 1)
           b == SubSeq(o, n, Len(o))
<1>1. Items \in Seq(Item) /\ DOMAIN Items = C /\ count \in Nat
  BY ItemsFacts, ListingFields, ListingIs DEF PlaylistInv, Items
<1>2. Moved(x, n) = a \o x \o b
  BY DEF Moved
<1>3. o \in Seq(I) /\ Distinctly(o) /\ ToSet(o) = I
  <2>1. I \in SUBSET DOMAIN Items
    OBVIOUS
  <2> HIDE DEF I
  <2> QED BY <1>1, <2>1, IndexesSelected
<1>4. DOMAIN x = 1 .. Len(x) /\ Len(x) \in Nat /\ \A k \in DOMAIN x : x[k] \in C
  BY LenProperties DEF Valid
<1>5. Len(o) = count - Len(x)
  <2>1. Cardinality(I) = Len(o)
    BY <1>3, DistinctLength
  <2>2. ToSet(x) \in SUBSET C
    BY <1>4 DEF ToSet
  <2>3. IsFiniteSet(ToSet(x)) /\ Cardinality(ToSet(x)) = Len(x)
    BY DistinctLength
  <2>4. IsFiniteSet(C) /\ Cardinality(C) = count
    <3>1. 1 \in Int /\ count \in Int
      BY <1>1
    <3>2. IsFiniteSet(C) /\ Cardinality(C) = IF 1 > count THEN 0 ELSE count - 1 + 1
      BY ONLY <3>1, FS_Interval
    <3> HIDE DEF C
    <3> QED BY <1>1, <3>2
  <2>5. I = C \ ToSet(x) /\ C \cap ToSet(x) = ToSet(x)
    BY <1>1, <2>2
  <2> HIDE DEF I, C
  <2>6. Cardinality(C \ ToSet(x)) = Cardinality(C) - Cardinality(C \cap ToSet(x))
    BY <2>3, <2>4, FS_Difference
  <2> QED BY <2>1, <2>3, <2>4, <2>5, <2>6
<1>6. o \in Seq(C) /\ Len(o) \in Nat
  <2>1. I \in SUBSET C
    BY <1>1
  <2> HIDE DEF I, C
  <2> QED BY <1>3, <2>1, SeqMonotonic, LenProperties
<1> HIDE DEF o, I
<1>7. \A k \in 1 .. Len(o) : o[k] \in C
  BY <1>6, ElementOfSeq
<1>16. DOMAIN Items = C /\ \A i : i \in C <=> i \in Int /\ 1 <= i /\ i <= count
  BY <1>1
<1> HIDE DEF C
<1>8. a \in Seq(C) /\ Len(a) = n - 1 /\ \A k \in 1 .. n - 1 : a[k] = o[k]
  <2>1. \A k \in 1 .. n - 1 : o[k] \in C
    BY <1>1, <1>4, <1>5, <1>6, <1>7
  <2>2. 1 \in Int /\ n - 1 \in Int
    OBVIOUS
  <2>3. /\ a \in Seq(C) /\ Len(a) = IF 1 <= n - 1 THEN n - 1 - 1 + 1 ELSE 0
        /\ \A k \in 1 .. n - 1 - 1 + 1 : a[k] = o[1 + k - 1]
    BY ONLY <2>1, <2>2, SubSeqProperties
  <2> HIDE DEF a
  <2> QED BY <2>3
<1>9. b \in Seq(C) /\ Len(b) = Len(o) - n + 1 /\ \A k \in n .. Len(o) : b[k - n + 1] = o[k]
  <2>1. \A k \in n .. Len(o) : o[k] \in C
    BY <1>6, <1>7
  <2>2. n \in Int /\ Len(o) \in Int
    BY <1>6
  <2>3. /\ b \in Seq(C) /\ Len(b) = IF n <= Len(o) THEN Len(o) - n + 1 ELSE 0
        /\ \A k \in 1 .. Len(o) - n + 1 : b[k] = o[n + k - 1]
    BY ONLY <2>1, <2>2, SubSeqProperties
  <2> HIDE DEF b
  <2>4. n <= Len(o) + 1
    BY <1>1, <1>4, <1>5
  <2>5. ASSUME NEW k \in n .. Len(o) PROVE b[k - n + 1] = o[k]
    <3> DEFINE i == k - n + 1
    <3>1. i \in 1 .. Len(o) - n + 1 /\ n + i - 1 = k
      BY <1>6
    <3> HIDE DEF i
    <3>2. b[i] = o[n + i - 1]
      BY <2>3, <3>1
    <3> QED BY <3>1, <3>2 DEF i
  <2> QED BY <1>6, <2>3, <2>4, <2>5
<1> HIDE DEF a, b
<1>10. x \in Seq(C)
  <2>1. x = [k \in 1 .. Len(x) |-> x[k]]
    BY <1>4, LenProperties
  <2>2. [k \in 1 .. Len(x) |-> x[k]] \in Seq(C)
    BY <1>4, IsASeq
  <2> QED BY <2>1, <2>2
<1> DEFINE ax == a \o x
           all == ax \o b
<1>11. /\ ax \in Seq(C) /\ Len(ax) = Len(a) + Len(x)
       /\ \A k \in 1 .. Len(a) + Len(x) : ax[k] = IF k <= Len(a) THEN a[k] ELSE x[k - Len(a)]
  BY <1>8, <1>10, ConcatProperties
<1> HIDE DEF ax
<1>12. /\ all \in Seq(C) /\ Len(all) = Len(ax) + Len(b)
       /\ \A k \in 1 .. Len(ax) + Len(b) : all[k] = IF k <= Len(ax) THEN ax[k] ELSE b[k - Len(ax)]
  <2>1. b \in Seq(C) /\ ax \in Seq(C)
    BY <1>9, <1>11
  <2> QED BY ONLY <2>1, ConcatProperties
<1> HIDE DEF all
<1>17. /\ Len(x) \in Nat /\ count \in Nat /\ Len(o) \in Nat /\ n \in Int
       /\ Len(o) = count - Len(x) /\ Len(a) = n - 1 /\ Len(b) = Len(o) - n + 1
       /\ Len(ax) = (n - 1) + Len(x) /\ Len(all) = Len(ax) + Len(b)
       /\ 1 <= n /\ n <= Len(o) + 1
  BY <1>1, <1>4, <1>5, <1>6, <1>8, <1>9, <1>11, <1>12
<1>13. Len(all) = count
  BY <1>17
<1>14. ASSUME NEW i \in 1 .. count PROVE \E k \in 1 .. count : all[k] = i
  <2>1. CASE i \in ToSet(x)
    <3>1. PICK q \in 1 .. Len(x) : x[q] = i
      BY <1>4, <2>1 DEF ToSet
    <3> DEFINE k == Len(a) + q
    <3>2. /\ k \in 1 .. Len(a) + Len(x) /\ ~(k <= Len(a)) /\ k - Len(a) = q
          /\ k \in 1 .. Len(ax) + Len(b) /\ k <= Len(ax) /\ k \in 1 .. count
      BY <1>17, <3>1
    <3> HIDE DEF k
    <3>3. all[k] = i
      BY <1>11, <1>12, <3>1, <3>2
    <3> QED BY <3>2, <3>3
  <2>2. CASE i \notin ToSet(x)
    <3>1. i \in I
      BY <1>16, <2>2 DEF I, C
    <3>2. PICK q \in 1 .. Len(o) : o[q] = i
      BY <1>3, <1>6, <3>1, LenProperties DEF ToSet
    <3>3. CASE q <= n - 1
      <4>1. /\ q \in 1 .. n - 1 /\ q \in 1 .. Len(a) + Len(x) /\ q <= Len(a)
            /\ q \in 1 .. Len(ax) + Len(b) /\ q <= Len(ax) /\ q \in 1 .. count
        BY <1>17, <3>2, <3>3
      <4>2. all[q] = i
        BY <1>8, <1>11, <1>12, <3>2, <4>1
      <4> QED BY <4>1, <4>2
    <3>4. CASE ~(q <= n - 1)
      <4> DEFINE k == Len(ax) + (q - n + 1)
      <4>1. /\ q \in n .. Len(o) /\ k - Len(ax) = q - n + 1
            /\ k \in 1 .. Len(ax) + Len(b) /\ ~(k <= Len(ax)) /\ k \in 1 .. count
        BY <1>17, <3>2, <3>4
      <4> HIDE DEF k
      <4>2. all[k] = b[q - n + 1]
        BY <1>12, <4>1
      <4>3. all[k] = i
        BY <1>9, <3>2, <4>1, <4>2
      <4> QED BY <4>1, <4>3
    <3> QED BY <3>3, <3>4
  <2> QED BY <2>1, <2>2
<1>15. Moved(x, n) = all
  BY <1>2 DEF all, ax
<1> QED BY <1>12, <1>13, <1>14, <1>15 DEF C

\* The target is the place, among the others, of the item at place "to".
LEMMA TargetFacts ==
    ASSUME PlaylistInv, NEW sel \in Selections, Valid(RealIndexes(sel)),
           NEW to \in 1 .. Len(normal) + 1, to <= Len(normal) \/ to = count + 1,
           to \in DOMAIN normal => normal[to] \in 1 .. count
    PROVE  LET x == RealIndexes(sel)
               n == MoveTarget(to, x) IN
           n \in Int /\ 1 <= n /\ n <= count - Len(x) + 1
<1> DEFINE x == RealIndexes(sel)
           real == IF to = count + 1 THEN to ELSE normal[to]
           B == {k \in DOMAIN x : x[k] < real}
           c == Cardinality(B)
<1>1. /\ normal \in Seq(DOMAIN cells) /\ Increasing(normal) /\ count \in Nat
      /\ cells \in Seq(Item)
  BY ListingIs, ListingFields DEF PlaylistInv, OrdersOf
<1>2. DOMAIN normal = 1 .. Len(normal) /\ Len(normal) \in Nat
  BY <1>1, LenProperties
<1>3. real \in 1 .. count + 1
  BY <1>1, <1>2
<1>4. /\ x \in Seq(Nat) /\ Distinctly(x) /\ DOMAIN x = DOMAIN sel
      /\ \A k \in DOMAIN sel : sel[k] \in DOMAIN normal /\ x[k] = normal[sel[k]]
  BY SelectionFacts, PlacesFacts
<1>5. \A k \in DOMAIN x : x[k] \in 1 .. count
  BY DEF Valid
<1>6. MoveTarget(to, x) = IF to = 1 THEN real ELSE real - c
  BY DEF MoveTarget
<1> HIDE DEF x
<1>7. c \in Nat /\ 1 <= real - c /\ real - c <= count - Len(x) + 1
  <2> HIDE DEF real
  <2> QED BY <1>1, <1>3, <1>4, <1>5, BelowFacts
<1>8. to = 1 => c = 0
  <2> SUFFICES ASSUME to = 1 PROVE B = {}
    <3> HIDE DEF B
    <3>1. B = {} => c = 0
      BY FS_EmptySet
    <3> QED BY <3>1
  <2>1. SUFFICES ASSUME NEW k \in DOMAIN x PROVE ~(x[k] < real)
    OBVIOUS
  <2>2. x[k] \in 1 .. count /\ sel[k] \in 1 .. Len(normal) /\ x[k] = normal[sel[k]]
    BY <1>2, <1>4, <1>5
  <2>3. CASE to = count + 1
    BY <1>1, <2>2, <2>3
  <2>4. CASE to # count + 1
    <3>1. real = normal[1] /\ real \in 1 .. count + 1
      BY <1>3, <2>4
    <3> HIDE DEF real
    <3>2. CASE sel[k] = 1
      BY <2>2, <3>1, <3>2
    <3>3. CASE sel[k] # 1
      <4>1. 1 \in 1 .. Len(normal) /\ 1 < sel[k]
        BY <1>2, <2>2, <3>3
      <4>2. normal[1] < normal[sel[k]]
        BY <1>1, <2>2, <4>1 DEF Increasing
      <4> QED BY <2>2, <3>1, <4>2
    <3> QED BY <3>2, <3>3
  <2> QED BY <2>3, <2>4
<1> HIDE DEF c, real
<1>9. MoveTarget(to, x) = real - c
  BY <1>3, <1>6, <1>8
<1> QED BY <1>3, <1>7, <1>9 DEF x

\* A command leaves the list and its orders alone, or puts the items in another
\* order.
Rearranges ==
    \/ UNCHANGED <<cells, count, active, orders>>
    \/ \E l : Rearranged(l) /\ Becomes(l) /\ Rebuild(l)

LEMMA MoveRearranges ==
    ASSUME PlaylistInv, NEW to \in 1 .. Len(normal) + 1, NEW sel \in Selections,
           Move(to, RealIndexes(sel))
    PROVE  SettingsOK' /\ UNCHANGED otherVars /\ Rearranges /\ (active = 0 => active' = 0)
<1> DEFINE x == RealIndexes(sel)
           n == MoveTarget(to, x)
           order == Moved(x, n)
           a == FirstOf(Len(order), LAMBDA k : order[k] = active)
           s == [k \in DOMAIN order |-> cells[order[k]]]
           w == Write(Listing, s)
           l == [w EXCEPT !.active = IF a = 0 THEN @ ELSE a]
<1>1. /\ Valid(x) /\ (to \in DOMAIN normal => normal[to] \in 1 .. count)
      /\ IF to > Len(normal) /\ to # count + 1
         THEN UNCHANGED <<cells, count, active, orders>>
         ELSE Becomes(l) /\ Rebuild(l)
      /\ UNCHANGED <<sortVars, otherVars>>
  BY DEF Move
<1>2. SettingsOK' /\ filter' = filter /\ shuffle' = shuffle
  BY <1>1, SettingsKept DEF otherVars
<1>3. CASE to > Len(normal) /\ to # count + 1
  BY <1>1, <1>2, <1>3 DEF Rearranges
<1>4. CASE ~(to > Len(normal) /\ to # count + 1)
  <2>1. Becomes(l) /\ Rebuild(l)
    BY <1>1, <1>4
  <2>2. /\ Listing \in Listings /\ Judged(Listing, filter)
        /\ cells \in Seq(Item) /\ Len(cells) \in Nat /\ Len(cells) <= MaxItems
        /\ count \in Nat /\ count <= Len(cells)
        /\ active \in Nat /\ active <= Len(cells)
        /\ Listing.cells = cells /\ Listing.active = active /\ Listing.count = count
    BY ListingIs, ListingFields DEF PlaylistInv
  <2>3. n \in Int /\ 1 <= n /\ n <= count - Len(x) + 1
    <3>1. to <= Len(normal) \/ to = count + 1
      <4>1. Len(normal) \in Nat
        BY LenProperties DEF PlaylistInv, OrdersOf
      <4> QED BY <1>4, <4>1
    <3> QED BY <1>1, <3>1, TargetFacts
  <2>4. x \in Seq(Nat) /\ Distinctly(x)
    BY SelectionFacts, PlacesFacts
  <2> HIDE DEF x, n
  <2>5. /\ order \in Seq(1 .. count) /\ Len(order) = count
        /\ \A i \in 1 .. count : \E k \in 1 .. count : order[k] = i
    BY <1>1, <2>3, <2>4, MovedFacts
  <2> HIDE DEF order
  <2>6. DOMAIN order = 1 .. count /\ \A k \in 1 .. count : order[k] \in 1 .. count
    BY <2>5, LenProperties, ElementOfSeq
  <2>7. /\ a \in 0 .. count /\ (a # 0 => order[a] = active)
        /\ (active \in 1 .. count => a # 0)
    <3> DEFINE A == {k \in 1 .. Len(order) : order[k] = active}
    <3>1. A \in SUBSET (1 .. count)
      BY <2>5
    <3>2. a = Least(A)
      BY DEF FirstOf, Least
    <3>3. active \in 1 .. count => A # {}
      BY <2>5
    <3>4. \A k \in A : order[k] = active
      OBVIOUS
    <3> HIDE DEF A, a
    <3>5. a \in 0 .. count /\ (a = 0 <=> A = {}) /\ (a # 0 => a \in A)
      BY <2>2, <3>1, <3>2, LeastFacts
    <3> QED BY <3>3, <3>4, <3>5
  <2> HIDE DEF a
  <2>8. s \in Seq(Item) /\ Len(s) = count /\ \A k \in 1 .. count : s[k] = cells[order[k]]
    <3>1. \A k \in 1 .. count : cells[order[k]] \in Item
      BY <2>2, <2>6, ElementOfSeq
    <3>2. s \in [1 .. count -> Item] /\ \A k \in 1 .. count : s[k] = cells[order[k]]
      BY <2>6, <3>1
    <3> HIDE DEF s
    <3>3. s \in Seq(Item)
      BY <2>2, <3>2
    <3> QED BY <2>2, <3>2, <3>3, LenProperties
  <2> HIDE DEF s
  <2>9. Len(s) <= MaxItems
    BY <2>2, <2>8, PlaylistAssumption
  <2>10. /\ w \in Listings /\ w.count = count /\ w.active = active
         /\ Len(cells) <= Len(w.cells) /\ \A i \in 1 .. count : w.cells[i] = s[i]
    <3>1. /\ w \in Listings /\ w.count = Len(s) /\ w.active = Listing.active
          /\ Len(Listing.cells) <= Len(w.cells)
          /\ \A i \in 1 .. Len(s) : w.cells[i] = s[i]
      BY ONLY <2>2, <2>8, <2>9, WriteFacts
    <3> QED BY <2>2, <2>8, <3>1
  <2> HIDE DEF w
  <2>11. Len(w.cells) \in Nat
    BY <2>10, ListingFields
  <2>12. /\ l \in Listings /\ l.cells = w.cells /\ l.count = count
         /\ l.active = IF a = 0 THEN active ELSE a
    <3>1. l = [w EXCEPT !.active = IF a = 0 THEN w.active ELSE a]
      OBVIOUS
    <3>2. w \in [cells : Arrays, count : Nat, active : Nat] /\ w.count <= Len(w.cells)
      BY <2>10 DEF Listings
    <3> DEFINE v == IF a = 0 THEN w.active ELSE a
    <3>3. v \in Nat /\ v <= Len(w.cells)
      BY <2>2, <2>7, <2>10, <2>11
    <3> HIDE DEF v
    <3>4. l = [w EXCEPT !.active = v]
      BY <3>1 DEF v
    <3> HIDE DEF l
    <3>5. l \in [cells : Arrays, count : Nat, active : Nat] /\ l.cells = w.cells
          /\ l.count = w.count /\ l.active = v
      BY <3>2, <3>3, <3>4
    <3>6. v = IF a = 0 THEN active ELSE a
      BY <2>10 DEF v
    <3> QED BY <2>10, <3>2, <3>3, <3>5, <3>6 DEF Listings
  <2> HIDE DEF l
  <2>13. \A i \in 1 .. count : \E j \in 1 .. count : l.cells[i] = cells[j]
    <3>1. SUFFICES ASSUME NEW i \in 1 .. count
                   PROVE  \E j \in 1 .. count : l.cells[i] = cells[j]
      OBVIOUS
    <3>2. l.cells[i] = cells[order[i]] /\ order[i] \in 1 .. count
      BY <2>6, <2>8, <2>10, <2>12
    <3> QED BY <3>2
  <2>15. l.active <= count \/ l.active = active
    BY <2>2, <2>7, <2>12
  <2>16. active \in 1 .. count => l.active # 0 /\ l.cells[l.active].id = cells[active].id
    <3> SUFFICES ASSUME active \in 1 .. count
                 PROVE  l.active # 0 /\ l.cells[l.active].id = cells[active].id
      OBVIOUS
    <3>1. a \in 1 .. count /\ order[a] = active /\ l.active = a /\ a # 0
      BY <2>2, <2>7, <2>12
    <3>2. l.cells[a] = cells[active]
      BY <2>8, <2>10, <2>12, <3>1
    <3> QED BY <3>1, <3>2
  <2>14. Rearranged(l)
    BY <2>12, <2>13, <2>15, <2>16 DEF Rearranged
  <2>17. active = 0 => active' = 0
    <3>1. active = 0 => a = 0
      BY <2>6, <2>7
    <3> QED BY <2>1, <2>12, <3>1 DEF Becomes
  <2> QED BY <1>1, <1>2, <2>1, <2>14, <2>17 DEF Rearranges
<1> QED BY <1>3, <1>4

----------------------------------------------------------------------------
(***************************************************************************)
(* Playing.                                                                *)
(***************************************************************************)

LEMMA OrderFacts ==
    ASSUME PlaylistInv
    PROVE  /\ normal \in Seq(DOMAIN cells) /\ random \in Seq(DOMAIN cells)
           /\ Distinctly(random) /\ ToSet(random) = ToSet(normal)
           /\ Len(normal) \in Nat /\ Len(random) = Len(normal)
           /\ DOMAIN normal = 1 .. Len(normal) /\ DOMAIN random = 1 .. Len(normal)
           /\ Len(PlayOrder) = Len(normal)
           /\ \A k \in 1 .. Len(normal) :
                 /\ normal[k] \in DOMAIN cells /\ PlayOrder[k] \in DOMAIN cells
           /\ \A i \in DOMAIN cells : i \in 1 .. Len(cells) /\ cells[i].id \in Entries
           /\ cells \in Seq(Item) /\ Len(cells) \in Nat
<1>1. /\ normal \in Seq(DOMAIN cells) /\ random \in Seq(DOMAIN cells)
      /\ Distinctly(random) /\ ToSet(random) = ToSet(normal) /\ Len(random) = Len(normal)
  BY ListingIs DEF PlaylistInv, OrdersOf
<1>2. cells \in Seq(Item) /\ Len(cells) \in Nat /\ DOMAIN cells = 1 .. Len(cells)
  BY ListingIs, ListingFields DEF PlaylistInv
<1>3. /\ Len(normal) \in Nat
      /\ DOMAIN normal = 1 .. Len(normal) /\ DOMAIN random = 1 .. Len(normal)
  BY <1>1, LenProperties
<1>4. \A k \in 1 .. Len(normal) : normal[k] \in DOMAIN cells /\ random[k] \in DOMAIN cells
  BY <1>1, ElementOfSeq
<1>5. \A i \in DOMAIN cells : cells[i].id \in Entries
  <2>1. \A i \in DOMAIN cells : cells[i] \in Item
    BY <1>2, ElementOfSeq
  <2> QED BY <2>1 DEF Item
<1> QED BY <1>1, <1>2, <1>3, <1>4, <1>5 DEF PlayOrder

LEMMA PassingEntries ==
    ASSUME PlaylistInv
    PROVE  Passing \subseteq Entries
  BY OrderFacts DEF Passing

\* In a list with no duplicates the entry tells the place.
LEMMA DistinctEntries ==
    ASSUME PlaylistInv, Distinct,
           NEW j \in 1 .. Len(normal), NEW k \in 1 .. Len(normal),
           cells[normal[j]].id = cells[normal[k]].id
    PROVE  j = k
<1> DEFINE n == Len(normal)
           f == [i \in 1 .. n |-> cells[normal[i]].id]
<1>1. n \in Nat /\ DOMAIN normal = 1 .. n
  BY OrderFacts
<1>2. f \in Surjection(1 .. n, Passing)
  <2>1. \A i \in 1 .. n : cells[normal[i]].id \in Passing
    BY <1>1 DEF Passing
  <2>2. \A e \in Passing : \E i \in 1 .. n : cells[normal[i]].id = e
    BY <1>1 DEF Passing
  <2> HIDE DEF n
  <2> QED BY <2>1, <2>2 DEF Surjection
<1>3. IsFiniteSet(1 .. n) /\ Cardinality(1 .. n) = n
  <2>1. 1 \in Int /\ n \in Int
    BY <1>1
  <2> HIDE DEF n
  <2>2. IsFiniteSet(1 .. n) /\ Cardinality(1 .. n) = IF 1 > n THEN 0 ELSE n - 1 + 1
    BY ONLY <2>1, FS_Interval
  <2> QED BY <1>1, <2>2
<1>4. Cardinality(Passing) = n
  BY DEF Distinct
<1>5. f[j] = f[k]
  OBVIOUS
<1> HIDE DEF f
<1>6. f \in Injection(1 .. n, Passing)
  <2> HIDE DEF n
  <2> QED BY <1>2, <1>3, <1>4, FS_Surjection
<1> QED BY <1>5, <1>6 DEF Injection, IsInjective

LEMMA PlayEntryFacts ==
    ASSUME PlaylistInv, NEW e, PlayEntry(e)
    PROVE  /\ active' \in Nat /\ active' <= Len(cells)
           /\ active' \in {0} \cup ToSet(normal) \cup 1 .. count
           /\ UNCHANGED <<cells, count, normal, random, fresh, sortVars, otherVars>>
           /\ Distinct => \A p \in 1 .. Len(normal) :
                             cells[normal[p]].id = e => active' = normal[p]
<1> DEFINE T == {k \in 1 .. Len(normal) : cells[normal[k]].id = e}
           place == FirstOf(Len(normal), LAMBDA k : cells[normal[k]].id = e)
<1>1. /\ active' = IF place # 0 THEN normal[place] ELSE RealIndexOf(Items, e)
      /\ UNCHANGED <<cells, count, normal, random, fresh, sortVars, otherVars>>
  BY DEF PlayEntry
<1>2. place = Least(T)
  BY DEF FirstOf, Least
<1> HIDE DEF place
<1>3. /\ place \in 0 .. Len(normal) /\ (place = 0 <=> T = {})
      /\ (place # 0 => place \in T)
  <2>1. Len(normal) \in Nat /\ T \in SUBSET (1 .. Len(normal))
    BY OrderFacts
  <2> HIDE DEF T
  <2> QED BY <1>2, <2>1, LeastFacts
<1>4. /\ active' \in Nat /\ active' <= Len(cells)
      /\ active' \in {0} \cup ToSet(normal) \cup 1 .. count
  <2>1. CASE place = 0
    <3>1. Items \in Seq(Item) /\ Len(Items) = count /\ count \in Nat /\ count <= Len(cells)
      BY ItemsFacts, ListingFields, ListingIs DEF PlaylistInv, Items
    <3>2. RealIndexOf(Items, e) \in 0 .. Len(Items)
      BY <3>1, RealIndexFacts
    <3> QED BY <1>1, <2>1, <3>1, <3>2, OrderFacts
  <2>2. CASE place # 0
    <3>1. place \in 1 .. Len(normal)
      BY <1>3, <2>2, OrderFacts
    <3>2. normal[place] \in ToSet(normal)
      BY <3>1, OrderFacts DEF ToSet
    <3> QED BY <1>1, <2>2, <3>1, <3>2, OrderFacts
  <2> QED BY <2>1, <2>2
<1>5. ASSUME Distinct, NEW p \in 1 .. Len(normal), cells[normal[p]].id = e
      PROVE  active' = normal[p]
  <2>1. place # 0 /\ place \in T
    BY <1>3, <1>5
  <2>2. place = p
    BY <1>5, <2>1, DistinctEntries
  <2> QED BY <1>1, <2>1, <2>2
<1> QED BY <1>1, <1>4, <1>5

LEMMA PlayStep ==
    ASSUME PlaylistInv, NEW e, PlayEntry(e), heard' \subseteq Entries,
           OrderPlayed'
    PROVE  PlaylistInv'
<1>1. /\ active' \in Nat /\ active' <= Len(cells)
      /\ UNCHANGED <<cells, count, normal, random, fresh, sortVars, otherVars>>
  BY PlayEntryFacts
<1>2. SettingsOK' /\ filter' = filter
  BY <1>1, SettingsKept
<1> DEFINE m == [Listing EXCEPT !.active = active']
<1>3. Listing \in [cells : Arrays, count : Nat, active : Nat] /\ Listing \in Listings
  BY DEF PlaylistInv, Listings
<1>4. /\ m \in [cells : Arrays, count : Nat, active : Nat]
      /\ m.cells = cells /\ m.count = count /\ m.active = active'
  BY <1>1, <1>3, ListingIs
<1> HIDE DEF m
<1>5. m \in Listings
  BY <1>1, <1>3, <1>4, ListingIs DEF Listings
<1>6. Listing' = m
  <2>1. Becomes(m)
    BY <1>1, <1>4 DEF Becomes
  <2> QED BY <1>5, <2>1, ListingBecomes
<1>7. Judged(m, filter) /\ OrdersOf(m, normal, random) /\ PassingOf(m) = PassingOf(Listing)
  BY <1>4, ListingIs DEF PlaylistInv, Judged, OrdersOf, PassingOf
<1> QED BY <1>1, <1>2, <1>5, <1>6, <1>7 DEF PlaylistInv

\* Where the song after the active one is in the order, and that the list comes
\* to its end at the last one only.
LEMMA NextFacts ==
    ASSUME PlaylistInv, normal # <<>>, NEW r \in RepeatModes
    PROVE  /\ ActivePlace \in 0 .. Len(normal)
           /\ NextPlace(r) \in 0 .. Len(normal)
           /\ NextPlace(r) \in {0, 1, ActivePlace, ActivePlace + 1}
           /\ (r = "None" /\ NextPlace(r) = 0) => ActivePlace = Len(normal)
<1>1. Len(normal) \in Nat /\ Len(normal) # 0 /\ Len(PlayOrder) = Len(normal)
      /\ PlayOrder \in Seq(DOMAIN cells)
  <2>1. normal \in Seq(DOMAIN cells) /\ random \in Seq(DOMAIN cells)
    BY OrderFacts
  <2> QED BY <2>1, OrderFacts, EmptySeq DEF PlayOrder
<1>2. ActivePlace \in 0 .. Len(normal)
  BY <1>1, ActivePlaceFacts, PlaceFacts
<1> DEFINE q == ActivePlace
           n == Len(normal)
<1>3. \/ q = 0 /\ NextPlace(r) = 1
      \/ q # 0 /\ r = "One" /\ NextPlace(r) = q
      \/ q \in 1 .. n - 1 /\ r # "One" /\ NextPlace(r) = q + 1
      \/ q # 0 /\ q = n /\ r = "All" /\ NextPlace(r) = 1
      \/ q # 0 /\ q = n /\ r = "None" /\ NextPlace(r) = 0
  <2> HIDE DEF q, n
  <2>1. q \in 0 .. n /\ n \in Nat /\ n # 0
    BY <1>1, <1>2 DEF q, n
  <2>2. CASE q = 0
    BY <2>2 DEF NextPlace, q
  <2>3. CASE q # 0 /\ r = "One"
    BY <2>3 DEF NextPlace, q
  <2>4. CASE q \in 1 .. n - 1 /\ r # "One"
    BY <2>1, <2>4 DEF NextPlace, q, n
  <2>5. CASE q # 0 /\ q = n /\ r = "All"
    BY <2>1, <2>5 DEF NextPlace, q, n
  <2>6. CASE q # 0 /\ q = n /\ r = "None"
    BY <2>1, <2>6 DEF NextPlace, q, n
  <2> QED BY <2>1, <2>2, <2>3, <2>4, <2>5, <2>6 DEF RepeatModes
<1> HIDE DEF q, n
<1>4. q \in 0 .. n /\ n \in Nat /\ n # 0
  BY <1>1, <1>2 DEF q, n
<1>5. NextPlace(r) \in 0 .. n /\ NextPlace(r) \in {0, 1, q, q + 1}
      /\ ((r = "None" /\ NextPlace(r) = 0) => q = n)
  BY <1>3, <1>4
<1> QED BY <1>2, <1>5 DEF q, n

LEMMA NextSongStep ==
    ASSUME PlaylistInv, NEW r \in RepeatModes, NextSong(r)
    PROVE  PlaylistInv'
<1> DEFINE p == IF NextPlace(r) = 0 THEN 1 ELSE NextPlace(r)
           e == EntryAt(p)
           q == ActivePlace
<1>1. normal # <<>> /\ PlayEntry(e) /\ heard' = heard \cup {e}
  BY DEF NextSong
<1>2. /\ Len(normal) \in Nat /\ Len(normal) # 0
      /\ \A k \in 1 .. Len(normal) : PlayOrder[k] \in DOMAIN cells
  BY <1>1, OrderFacts, EmptySeq
<1>3. q \in 0 .. Len(normal) /\ p \in 1 .. Len(normal) /\ p \in {1, q, q + 1}
  <2>1. q \in 0 .. Len(normal) /\ NextPlace(r) \in 0 .. Len(normal)
        /\ NextPlace(r) \in {0, 1, q, q + 1}
    BY <1>1, NextFacts
  <2> HIDE DEF q
  <2> QED BY <1>2, <2>1
<1> HIDE DEF p
<1>4. e = cells[PlayOrder[p]].id /\ e \in Entries
  <2>1. PlayOrder[p] \in DOMAIN cells
    BY <1>2, <1>3
  <2> QED BY <2>1, OrderFacts DEF EntryAt
<1> HIDE DEF e
<1>5. heard' \subseteq Entries
  BY <1>1, <1>4 DEF PlaylistInv
<1>6. /\ UNCHANGED <<cells, count, normal, random, fresh, sortVars, otherVars>>
      /\ Distinct => \A k \in 1 .. Len(normal) : cells[normal[k]].id = e => active' = normal[k]
  BY <1>1, PlayEntryFacts
<1>7. OrderPlayed'
  <2>1. Passing' = Passing /\ Distinct' = Distinct /\ shuffle' = shuffle
    BY <1>6 DEF Passing, Distinct, otherVars
  <2>2. SUFFICES ASSUME shuffle, fresh, Distinct
                 PROVE  \A k \in 1 .. PlaceIn(random, active') :
                              cells[random[k]].id \in heard'
    BY <1>6, <2>1 DEF OrderPlayed
  <2>3. \A k \in 1 .. PlaceIn(random, active) : cells[random[k]].id \in heard
    BY <2>2 DEF PlaylistInv, OrderPlayed
  <2>4. PlayOrder = random /\ q = PlaceIn(random, active)
    BY <2>2, ActivePlaceFacts DEF PlayOrder
  <2>5. active' = random[p]
    <3>1. p \in DOMAIN random
      BY <1>3, OrderFacts
    <3>2. random[p] \in ToSet(normal)
      BY <3>1, OrderFacts DEF ToSet
    <3>3. PICK k \in 1 .. Len(normal) : normal[k] = random[p]
      BY <3>2, OrderFacts DEF ToSet
    <3> QED BY <1>4, <1>6, <2>2, <2>4, <3>3
  <2>6. PlaceIn(random, active') = p
    <3>1. random \in Seq(DOMAIN cells) /\ Distinctly(random) /\ p \in 1 .. Len(random)
      BY <1>3, OrderFacts
    <3> QED BY <2>5, <3>1, DistinctPlace
  <2>7. ASSUME NEW k \in 1 .. p PROVE cells[random[k]].id \in heard'
    <3>1. CASE k = p
      BY <1>1, <1>4, <2>4, <3>1
    <3>2. CASE k # p
      <4>1. k \in 1 .. q
        <5> HIDE DEF q
        <5> QED BY <1>2, <1>3, <3>2
      <4> QED BY <1>1, <2>3, <2>4, <4>1
    <3> QED BY <3>1, <3>2
  <2> QED BY <2>6, <2>7
<1> QED BY <1>1, <1>5, <1>7, PlayStep

\* A song the user chooses: what lies before it in the order is passed over.
LEMMA ChosenStep ==
    ASSUME PlaylistInv, NEW e, PlayEntry(e), heard' = heard \cup Reached'
    PROVE  PlaylistInv'
<1>1. UNCHANGED <<cells, count, normal, random, fresh, sortVars, otherVars>>
      /\ active' \in Nat
  BY PlayEntryFacts
<1>2. /\ \A k \in 1 .. Len(normal) : PlayOrder[k] \in DOMAIN cells
      /\ Len(PlayOrder) = Len(normal) /\ PlayOrder \in Seq(DOMAIN cells)
  <2>1. normal \in Seq(DOMAIN cells) /\ random \in Seq(DOMAIN cells)
    BY OrderFacts
  <2> QED BY <2>1, OrderFacts DEF PlayOrder
<1>3. PlayOrder' = PlayOrder
  BY <1>1 DEF PlayOrder, otherVars
<1>4. ActivePlace' = PlaceIn(PlayOrder, active')
  BY <1>3, ActivePlaceFacts
<1>5. Reached' = {cells[PlayOrder[k]].id : k \in 1 .. PlaceIn(PlayOrder, active')}
  BY <1>1, <1>3, <1>4 DEF Reached, EntryAt
<1>6. heard' \subseteq Entries
  <2>1. PlaceIn(PlayOrder, active') \in 0 .. Len(normal)
    BY <1>2, PlaceFacts
  <2>2. ASSUME NEW k \in 1 .. PlaceIn(PlayOrder, active')
        PROVE  cells[PlayOrder[k]].id \in Entries
    <3>1. k \in 1 .. Len(normal)
      BY <2>1, <2>2, OrderFacts
    <3>2. PlayOrder[k] \in DOMAIN cells
      BY <1>2, <3>1
    <3> QED BY <3>2, OrderFacts
  <2>3. heard \subseteq Entries
    BY DEF PlaylistInv
  <2> QED BY <1>5, <2>2, <2>3
<1>7. OrderPlayed'
  <2>1. SUFFICES ASSUME shuffle
                 PROVE  \A k \in 1 .. PlaceIn(random, active') :
                              cells[random[k]].id \in heard'
    BY <1>1 DEF OrderPlayed, otherVars
  <2>2. PlayOrder = random
    BY <2>1 DEF PlayOrder
  <2> QED BY <1>5, <2>2
<1> QED BY <1>6, <1>7, PlayStep

LEMMA PlayASongStep ==
    ASSUME PlaylistInv, PlayASong
    PROVE  PlaylistInv'
<1>1. CASE \E r \in RepeatModes : NextSong(r)
  BY <1>1, NextSongStep
<1>2. CASE \E r \in RepeatModes : PreviousSong(r)
  BY <1>2, ChosenStep DEF PreviousSong
<1>3. CASE \E e \in Entries : Play(e)
  BY <1>3, ChosenStep DEF Play
<1> QED BY <1>1, <1>2, <1>3 DEF PlayASong

----------------------------------------------------------------------------
(***************************************************************************)
(* Sorting: no item is lost, none is new, and a sort upwards is stable.    *)
(***************************************************************************)

LEMMA NumbersReach ==
    ASSUME NEW n \in Nat, NEW T, 0 \in T, \A k \in 1 .. n : k - 1 \in T => k \in T
    PROVE  \A k \in 0 .. n : k \in T
<1> DEFINE U == {k \in Nat : k <= n => k \in T}
<1>1. 0 \in U
  OBVIOUS
<1>2. ASSUME NEW k \in U PROVE k + 1 \in U
  <2>1. k \in Nat /\ k + 1 \in Nat /\ (k <= n => k \in T)
    OBVIOUS
  <2>2. SUFFICES ASSUME k + 1 <= n PROVE k + 1 \in T
    BY <2>1
  <2>3. k + 1 \in 1 .. n /\ k + 1 - 1 = k /\ k \in T
    BY <2>1, <2>2
  <2> QED BY <2>3
<1>3. U = Nat
  <2>1. U \in SUBSET Nat
    OBVIOUS
  <2> HIDE DEF U
  <2> QED BY <1>1, <1>2, <2>1, SetInduction
<1>4. \A k \in 0 .. n : k \in U /\ k <= n
  BY <1>3
<1> QED BY <1>4

KeyAt(c, f, i) == Key[f][c[i].id]

\* A stable sort puts c's item i before item j.
Precedes(c, f, i, j) ==
    KeyAt(c, f, i) < KeyAt(c, f, j) \/ (KeyAt(c, f, i) = KeyAt(c, f, j) /\ i < j)

Rising(c, f, h, t) == \A i, j \in h .. t : i < j => KeyAt(c, f, i) <= KeyAt(c, f, j)

\* The k first numbers of m are the places P, perhaps in the order of a stable sort.
Onto(m, k, P) == m \in [1 .. k -> P] /\ \A p \in P : \E q \in 1 .. k : m[q] = p
InOrder(m, k, c, f) == \A i, j \in 1 .. k : i < j => Precedes(c, f, m[i], m[j])

\* r holds c's items, each at the place m tells.
Arranges(m, r, c) ==
    /\ Onto(m, Len(c), 1 .. Len(c))
    /\ Len(r) = Len(c) /\ \A q \in 1 .. Len(c) : r[q] = c[m[q]]

LEMMA KeysAreNumbers ==
    ASSUME NEW c \in Seq(Item), NEW f \in Fields
    PROVE  \A i \in 1 .. Len(c) : KeyAt(c, f, i) \in Nat
<1>1. SUFFICES ASSUME NEW i \in 1 .. Len(c) PROVE KeyAt(c, f, i) \in Nat
  OBVIOUS
<1>2. c[i] \in Item
  BY ElementOfSeq
<1>3. c[i].id \in Entries
  BY <1>2 DEF Item
<1>4. Key[f] \in [Entries -> Nat]
  BY PlaylistAssumption DEF Fields
<1> QED BY <1>3, <1>4 DEF KeyAt

\* w is m, which takes the places U, and then takes place p.
Prolongs(w, m, k, U, p, c, f) ==
    /\ Onto(w, k, U \cup {p})
    /\ (\A q \in 1 .. k - 1 : w[q] = m[q]) /\ w[k] = p
    /\ (InOrder(m, k - 1, c, f) /\ \A i \in U : Precedes(c, f, i, p))
           => InOrder(w, k, c, f)

LEMMA TakeNext ==
    ASSUME NEW c, NEW f, NEW k \in Nat, k # 0, NEW U, NEW m, Onto(m, k - 1, U), NEW p
    PROVE  \E w : Prolongs(w, m, k, U, p, c, f)
<1> DEFINE w == [q \in 1 .. k |-> IF q = k THEN p ELSE m[q]]
<1>1. m \in [1 .. k - 1 -> U] /\ \A i \in U : \E q \in 1 .. k - 1 : m[q] = i
  BY DEF Onto
<1>2. \A q \in 1 .. k : q = k \/ q \in 1 .. k - 1
  OBVIOUS
<1>3. /\ w \in [1 .. k -> U \cup {p}] /\ w[k] = p
      /\ \A q \in 1 .. k - 1 : q \in 1 .. k /\ w[q] = m[q]
  BY <1>1, <1>2
<1> HIDE DEF w
<1>4. Onto(w, k, U \cup {p})
  <2>1. ASSUME NEW i \in U \cup {p} PROVE \E q \in 1 .. k : w[q] = i
    <3>1. CASE i = p
      BY <1>3, <3>1
    <3>2. CASE i # p
      <4>1. PICK q \in 1 .. k - 1 : m[q] = i
        BY <1>1, <3>2
      <4> QED BY <1>3, <4>1
    <3> QED BY <3>1, <3>2
  <2> QED BY <1>3, <2>1 DEF Onto
<1>5. ASSUME InOrder(m, k - 1, c, f), \A i \in U : Precedes(c, f, i, p)
      PROVE  InOrder(w, k, c, f)
  <2>1. SUFFICES ASSUME NEW i \in 1 .. k, NEW j \in 1 .. k, i < j
                 PROVE  Precedes(c, f, w[i], w[j])
    BY DEF InOrder
  <2>2. i \in 1 .. k - 1
    BY <2>1
  <2>3. w[i] = m[i] /\ m[i] \in U
    BY <1>1, <1>3, <2>2
  <2>4. CASE j = k
    BY <1>3, <1>5, <2>3, <2>4
  <2>5. CASE j # k
    <3>1. j \in 1 .. k - 1
      BY <2>5
    <3> QED BY <1>3, <1>5, <2>1, <2>2, <2>3, <3>1 DEF InOrder
  <2> QED BY <2>4, <2>5
<1>6. Prolongs(w, m, k, U, p, c, f)
  BY <1>3, <1>4, <1>5 DEF Prolongs
<1> QED BY <1>6

\* After k - 1 rounds l items of the left half are gone and k - 1 - l of the right
\* one: where the next of either half stands, and what is gone with it.
LEMMA NextOfLeft ==
    ASSUME NEW k \in Nat, NEW l \in Nat, NEW x \in Nat, NEW b \in Nat,
           l <= k - 1, k - 1 - l <= b, l + 1 <= x
    PROVE  /\ l + 1 \in 1 .. x + b
           /\ l + 1 \notin (1 .. l) \cup (x + 1 .. x + (k - 1 - l))
           /\ l + 1 <= k /\ k - (l + 1) <= b
           /\ (1 .. l + 1) \cup (x + 1 .. x + (k - (l + 1)))
                 = ((1 .. l) \cup (x + 1 .. x + (k - 1 - l))) \cup {l + 1}
<1>1. k - (l + 1) = k - 1 - l
  OBVIOUS
<1>2. 1 .. l + 1 = (1 .. l) \cup {l + 1}
  OBVIOUS
<1>3. l + 1 \notin x + 1 .. x + (k - 1 - l) /\ l + 1 \notin 1 .. l
  OBVIOUS
<1>4. l + 1 \in 1 .. x + b /\ l + 1 <= k
  OBVIOUS
<1> QED BY <1>1, <1>2, <1>3, <1>4

LEMMA NextOfRight ==
    ASSUME NEW k \in Nat, NEW l \in Nat, NEW x \in Nat, NEW b \in Nat,
           l <= k - 1, k - l <= b, l <= x
    PROVE  /\ x + (k - l) \in 1 .. x + b
           /\ x + (k - l) \notin (1 .. l) \cup (x + 1 .. x + (k - 1 - l))
           /\ (1 .. l) \cup (x + 1 .. x + (k - l))
                 = ((1 .. l) \cup (x + 1 .. x + (k - 1 - l))) \cup {x + (k - l)}
<1> DEFINE j == k - l
<1>1. j \in Nat /\ 1 <= j /\ j <= b /\ k - 1 - l = j - 1
  OBVIOUS
<1> HIDE DEF j
<1>2. x + 1 .. x + j = (x + 1 .. x + (j - 1)) \cup {x + j}
  BY <1>1
<1>3. x + j \in 1 .. x + b /\ x + j \notin 1 .. l /\ x + j \notin x + 1 .. x + (j - 1)
  BY <1>1
<1> QED BY <1>1, <1>2, <1>3 DEF j

\* A merge takes the items of both halves, each once, and of two halves in order
\* makes a list in order.
Halved(c, f, x) == Rising(c, f, 1, x) /\ Rising(c, f, x + 1, Len(c))

LEMMA MergeUpFacts ==
    ASSUME NEW a \in Seq(Item), NEW b \in Seq(Item), NEW f \in Fields
    PROVE  /\ MergeUp(a, b, f) \in Seq(Item)
           /\ \E m : /\ Arranges(m, MergeUp(a, b, f), a \o b)
                     /\ Halved(a \o b, f, Len(a)) => InOrder(m, Len(a \o b), a \o b, f)
<1> DEFINE n == Len(a) + Len(b)
           x == Len(a)
           c == a \o b
           S == [scratch : Seq(Item), left : Nat]
           Round(d, k) ==
             LET i == d.left + 1
                 j == k - d.left IN
             IF i <= Len(a) /\ (j <= Len(b) => LeftFirst(a[i], b[j], f))
             THEN [scratch |-> Append(d.scratch, a[i]), left |-> i]
             ELSE [scratch |-> Append(d.scratch, b[j]), left |-> d.left]
           init == [scratch |-> <<>>, left |-> 0]
           Body(g, k) == IF k = 0 THEN init ELSE Round(g[k - 1], k)
           Rec(g) == g = [k \in 0 .. n |-> Body(g, k)]
           done == CHOOSE g : Rec(g)
           Taken(k, l) == (1 .. l) \cup (x + 1 .. x + (k - l))
           Mixed(m, k, d) == /\ Onto(m, k, Taken(k, d.left))
                             /\ \A q \in 1 .. k : d.scratch[q] = c[m[q]]
                             /\ Halved(c, f, x) => InOrder(m, k, c, f)
           Leads(k, l) == \A i \in Taken(k, l) : \A j \in 1 .. n :
                              j \notin Taken(k, l) => Precedes(c, f, i, j)
           Good(k, d) == /\ d \in S /\ Len(d.scratch) = k
                         /\ d.left <= x /\ d.left <= k /\ k - d.left <= Len(b)
                         /\ \E m : Mixed(m, k, d)
                         /\ Halved(c, f, x) => Leads(k, d.left)
<1>1. Len(a) \in Nat /\ Len(b) \in Nat /\ n \in Nat /\ x \in Nat
  BY LenProperties
<1>2. MergeUp(a, b, f) = done[n].scratch
  BY DEF MergeUp
<1>a. /\ c \in Seq(Item) /\ Len(c) = n
      /\ \A i \in 1 .. x : c[i] = a[i]
      /\ \A j \in 1 .. Len(b) : c[x + j] = b[j]
  <2>1. /\ c \in Seq(Item) /\ Len(c) = n
        /\ \A i \in 1 .. n : c[i] = IF i <= x THEN a[i] ELSE b[i - x]
    BY ConcatProperties
  <2> HIDE DEF c, n, x
  <2>2. \A i \in 1 .. x : i \in 1 .. n /\ i <= x
    BY <1>1 DEF n, x
  <2>3. ASSUME NEW j \in 1 .. Len(b) PROVE c[x + j] = b[j]
    <3>1. x + j \in 1 .. n /\ ~(x + j <= x) /\ x + j - x = j
      BY <1>1 DEF n, x
    <3> DEFINE u == x + j
    <3>2. u \in 1 .. n /\ ~(u <= x) /\ u - x = j
      BY <1>1, <3>1
    <3> HIDE DEF u
    <3>3. c[u] = IF u <= x THEN a[u] ELSE b[u - x]
      BY ONLY <2>1, <3>2
    <3>4. c[u] = b[j]
      BY ONLY <3>2, <3>3
    <3> QED BY <3>4 DEF u
  <2> QED BY <2>1, <2>2, <2>3
<1>b. \A i \in 1 .. n : KeyAt(c, f, i) \in Nat
  <2> HIDE DEF c
  <2> QED BY <1>a, KeysAreNumbers
<1>3. Good(0, init)
  <2>1. <<>> \in Seq(Item) /\ Len(<<>>) = 0
    BY EmptySeq
  <2>2. init \in S /\ init.scratch = <<>> /\ init.left = 0
    BY <2>1
  <2>3. Taken(0, 0) = {}
    BY <1>1
  <2>4. Leads(0, 0)
    BY <2>3
  <2> DEFINE m == [q \in 1 .. 0 |-> q]
  <2>5. m \in [1 .. 0 -> {}] /\ \A q \in 1 .. 0 : FALSE
    OBVIOUS
  <2> HIDE DEF m, init, S, Taken, Leads, c, x
  <2>6. Onto(m, 0, {}) /\ InOrder(m, 0, c, f)
    BY <2>5 DEF Onto, InOrder
  <2>7. Mixed(m, 0, init)
    BY <2>2, <2>3, <2>5, <2>6
  <2> HIDE DEF Mixed
  <2> QED BY <1>1, <2>1, <2>2, <2>4, <2>7
<1>4. ASSUME NEW k \in 1 .. n, NEW d, Good(k - 1, d)
      PROVE  Good(k, Round(d, k))
  <2> DEFINE i == d.left + 1
             j == k - d.left
             left == i <= Len(a) /\ (j <= Len(b) => LeftFirst(a[i], b[j], f))
             old == Taken(k - 1, d.left)
             p == IF left THEN i ELSE x + j
             new == IF left THEN i ELSE d.left
             s == Append(d.scratch, c[p])
  <2>1. /\ d.scratch \in Seq(Item) /\ d.left \in Nat /\ Len(d.scratch) = k - 1
        /\ d.left <= x /\ d.left <= k - 1 /\ k - 1 - d.left <= Len(b)
    BY <1>4
  <2>2. PICK m : Mixed(m, k - 1, d)
    BY <1>4
  <2>3. Halved(c, f, x) => Leads(k - 1, d.left)
    BY <1>4
  <2> HIDE DEF Leads, Mixed
  <2>4. i \in Nat /\ j \in Nat /\ i <= k /\ 1 <= i /\ 1 <= j
    BY <1>1, <2>1
  <2>5. left => i <= x /\ k - i <= Len(b)
    BY <1>1, <2>1
  <2>6. ~left => j <= Len(b)
    BY <1>1, <2>1
  <2>7. Round(d, k) = IF left THEN [scratch |-> Append(d.scratch, a[i]), left |-> i]
                              ELSE [scratch |-> Append(d.scratch, b[j]), left |-> d.left]
    OBVIOUS
  <2>8. left => LeftFirst(a[i], b[j], f) \/ ~(j <= Len(b))
    OBVIOUS
  <2>9. ~left => ~LeftFirst(a[i], b[j], f) \/ ~(i <= x)
    OBVIOUS
  <2>a. /\ k \in Nat /\ 1 <= k /\ k <= n /\ n = x + Len(b) /\ x \in Nat /\ Len(b) \in Nat
        /\ i = d.left + 1 /\ j = k - d.left
    BY <1>1
  <2> HIDE DEF left, Round, n, x, c, i, j
  <2>e. /\ k \in Nat /\ d.left \in Nat /\ x \in Nat /\ Len(b) \in Nat /\ n = x + Len(b)
        /\ d.left <= k - 1 /\ k - 1 - d.left <= Len(b) /\ d.left <= x
        /\ i = d.left + 1 /\ j = k - d.left
    BY <2>1, <2>a
  <2>c. ASSUME left
        PROVE  /\ i \in 1 .. n /\ i \notin old /\ i <= k /\ k - i <= Len(b)
               /\ Taken(k, i) = old \cup {i}
    <3>1. d.left + 1 <= x
      BY ONLY <2>e, <2>5, <2>c
    <3> HIDE DEF left
    <3> QED BY ONLY <2>e, <3>1, NextOfLeft
  <2>d. ASSUME ~left
        PROVE  /\ x + j \in 1 .. n /\ x + j \notin old /\ k - d.left <= Len(b)
               /\ Taken(k, d.left) = old \cup {x + j}
    <3>1. k - d.left <= Len(b)
      BY ONLY <2>e, <2>6, <2>d
    <3> QED BY ONLY <2>e, <3>1, NextOfRight
  <2>10. p \in 1 .. n /\ p \notin old
    <3>1. CASE left
      BY ONLY <2>c, <3>1
    <3>2. CASE ~left
      BY ONLY <2>d, <3>2
    <3> QED BY ONLY <3>1, <3>2
  <2>11. Round(d, k) = [scratch |-> s, left |-> new]
    <3>1. CASE left
      <4>1. c[p] = a[i]
        BY <1>1, <1>a, <2>4, <2>5, <3>1
      <4> QED BY <2>7, <3>1, <4>1
    <3>2. CASE ~left
      <4>1. c[p] = b[j]
        BY <1>1, <1>a, <2>4, <2>6, <3>2
      <4> QED BY <2>7, <3>2, <4>1
    <3> QED BY <3>1, <3>2
  <2>12. /\ new \in Nat /\ new <= x /\ new <= k /\ k - new <= Len(b)
         /\ Taken(k, new) = old \cup {p}
    <3>1. CASE left
      <4>1. p = i /\ new = i /\ i \in Nat /\ i <= x
        BY <2>4, <2>5, <3>1
      <4> HIDE DEF p, new
      <4> QED BY ONLY <2>c, <3>1, <4>1
    <3>2. CASE ~left
      <4>1. p = x + j /\ new = d.left /\ d.left <= k
        BY <2>1, <2>a, <3>2
      <4> HIDE DEF p, new
      <4> QED BY ONLY <2>e, <2>d, <3>2, <4>1
    <3> QED BY ONLY <3>1, <3>2
  <2>13. ASSUME Halved(c, f, x), NEW r \in 1 .. n, r \notin Taken(k, new)
         PROVE  Precedes(c, f, p, r)
    <3>1. KeyAt(c, f, p) \in Nat /\ KeyAt(c, f, r) \in Nat
      BY <1>b, <2>10
    <3>2. \A u, v \in 1 .. x : u < v => KeyAt(c, f, u) <= KeyAt(c, f, v)
      BY <2>13 DEF Halved, Rising
    <3>3. \A u, v \in x + 1 .. n : u < v => KeyAt(c, f, u) <= KeyAt(c, f, v)
      BY <1>a, <2>13 DEF Halved, Rising
    <3>4. CASE left
      <4>1. p = i /\ i \in 1 .. x /\ Taken(k, new) = (1 .. i) \cup (x + 1 .. x + (k - i))
        BY <1>1, <2>4, <2>5, <3>4
      <4>2. CASE r <= x
        <5>1. r \in 1 .. x /\ i < r
          BY <1>1, <2>4, <2>13, <4>1, <4>2
        <5>2. KeyAt(c, f, i) <= KeyAt(c, f, r)
          BY <3>2, <4>1, <5>1
        <5> QED BY <3>1, <4>1, <5>1, <5>2 DEF Precedes
      <4>3. CASE ~(r <= x)
        <5>1. /\ j <= Len(b) /\ x + j \in x + 1 .. n /\ r \in x + 1 .. n
              /\ x + j <= r /\ i < r
          <6>1. r \in x + 1 .. n /\ i < r
            <7>1. r \in 1 .. n /\ i \in 1 .. x /\ ~(r <= x) /\ x \in Nat /\ n \in Nat
              BY <2>a, <2>13, <4>1, <4>3
            <7> QED BY ONLY <7>1
          <6>2. r \notin x + 1 .. x + (k - i)
            BY <2>13, <4>1
          <6>3. k - i = j - 1 /\ j \in Nat /\ x \in Nat /\ Len(b) \in Nat /\ 1 <= j
            BY <2>1, <2>4, <2>a
          <6>4. r \in x + 1 .. x + Len(b) /\ r \notin x + 1 .. x + (j - 1)
            BY <2>a, <6>1, <6>2, <6>3
          <6>5. r \in Int /\ x + j <= r /\ r <= x + Len(b)
            BY ONLY <6>3, <6>4
          <6>6. j <= Len(b) /\ x + j \in x + 1 .. x + Len(b)
            BY ONLY <6>3, <6>5
          <6> QED BY <2>a, <6>1, <6>5, <6>6
        <5>2. c[i] = a[i] /\ c[x + j] = b[j]
          BY <1>a, <2>4, <4>1, <5>1
        <5>3. KeyAt(c, f, i) <= KeyAt(c, f, x + j)
          BY <2>8, <3>4, <5>1, <5>2 DEF LeftFirst, KeyAt
        <5>4. x + j \in 1 .. n
          BY <1>1, <5>1
        <5>5. KeyAt(c, f, x + j) \in Nat /\ KeyAt(c, f, x + j) <= KeyAt(c, f, r)
          <6>1. KeyAt(c, f, x + j) \in Nat
            BY <1>b, <5>4
          <6>2. CASE x + j = r
            BY <6>1, <6>2
          <6>3. CASE x + j # r
            <7>1. x + j < r
              BY <1>1, <5>1, <6>3
            <7> QED BY <3>3, <5>1, <6>1, <7>1
          <6> QED BY <6>2, <6>3
        <5>6. KeyAt(c, f, i) <= KeyAt(c, f, r)
          BY <3>1, <4>1, <5>3, <5>5
        <5> QED BY <3>1, <4>1, <5>1, <5>6 DEF Precedes
      <4> QED BY <4>2, <4>3
    <3>5. CASE ~left
      <4>1. p = x + j /\ x + j \in x + 1 .. n
            /\ Taken(k, new) = (1 .. d.left) \cup (x + 1 .. x + j)
        <5>1. p = x + j /\ new = d.left
          BY <3>5
        <5> HIDE DEF p, new
        <5>2. k - new = j
          BY <2>a, <5>1
        <5> QED BY <2>4, <2>6, <2>a, <3>5, <5>1, <5>2
      <4>2. CASE r <= x
        <5>1. i <= x /\ i \in 1 .. x /\ r \in 1 .. x /\ i <= r
          <6>1. r \notin 1 .. d.left /\ r \in 1 .. n
            BY <2>13, <4>1
          <6> QED BY ONLY <2>e, <4>2, <6>1
        <5>2. c[i] = a[i] /\ c[x + j] = b[j]
          BY <1>1, <1>a, <2>4, <2>6, <3>5, <5>1
        <5>3. i \in 1 .. n
          BY <1>1, <5>1 DEF n, x
        <5>4. KeyAt(c, f, i) \in Nat
          BY <1>b, <5>3
        <5>5. ~(KeyAt(c, f, i) <= KeyAt(c, f, x + j))
          BY <2>9, <3>5, <5>1, <5>2 DEF LeftFirst, KeyAt
        <5>6. KeyAt(c, f, i) <= KeyAt(c, f, r)
          <6>1. CASE i = r
            BY <5>4, <6>1
          <6>2. CASE i # r
            <7>1. i < r
              BY <1>1, <2>4, <5>1, <6>2
            <7> QED BY <3>2, <5>1, <7>1
          <6> QED BY <6>1, <6>2
        <5>7. KeyAt(c, f, p) < KeyAt(c, f, r)
          BY <3>1, <4>1, <5>4, <5>5, <5>6
        <5> QED BY <5>7 DEF Precedes
      <4>3. CASE ~(r <= x)
        <5>1. r \in x + 1 .. n /\ x + j < r
          BY <1>1, <2>4, <2>13, <4>1, <4>3 DEF n
        <5>2. KeyAt(c, f, p) <= KeyAt(c, f, r)
          BY <3>3, <4>1, <5>1
        <5> QED BY <3>1, <4>1, <5>1, <5>2 DEF Precedes
      <4> QED BY <4>2, <4>3
    <3> QED BY <3>4, <3>5
  <2>14. Halved(c, f, x) => \A u \in old : Precedes(c, f, u, p)
    BY <2>3, <2>10 DEF Leads
  <2>15. Halved(c, f, x) => Leads(k, new)
    <3> SUFFICES ASSUME Halved(c, f, x), NEW u \in Taken(k, new), NEW r \in 1 .. n,
                        r \notin Taken(k, new)
                 PROVE  Precedes(c, f, u, r)
      BY DEF Leads
    <3>1. CASE u = p
      BY <2>13, <3>1
    <3>2. CASE u # p
      <4>1. u \in old /\ r \notin old
        BY <2>12, <3>2
      <4> QED BY <2>3, <4>1 DEF Leads
    <3> QED BY <3>1, <3>2
  <2>16. c[p] \in Item
    BY <1>a, <2>10, ElementOfSeq
  <2> HIDE DEF p, new, old, Taken
  <2>17. /\ s \in Seq(Item) /\ Len(s) = k /\ s[k] = c[p]
         /\ \A q \in 1 .. k - 1 : s[q] = d.scratch[q]
    <3>1. k - 1 + 1 = k /\ k \in Nat
      BY <1>1
    <3> HIDE DEF n
    <3> QED BY <2>1, <2>16, <3>1, AppendProperties
  <2> HIDE DEF s
  <2>18. /\ Onto(m, k - 1, old) /\ \A q \in 1 .. k - 1 : d.scratch[q] = c[m[q]]
         /\ Halved(c, f, x) => InOrder(m, k - 1, c, f)
    BY <2>2 DEF Mixed, old
  <2>b. PICK w : Prolongs(w, m, k, old, p, c, f)
    <3>1. k \in Nat /\ k # 0
      BY <1>1
    <3>2. Onto(m, k - 1, old)
      BY <2>18
    <3> HIDE DEF n, c
    <3> QED BY ONLY <3>1, <3>2, TakeNext
  <2>19. /\ Onto(w, k, old \cup {p})
         /\ (\A q \in 1 .. k - 1 : w[q] = m[q]) /\ w[k] = p
         /\ (InOrder(m, k - 1, c, f) /\ \A u \in old : Precedes(c, f, u, p))
                => InOrder(w, k, c, f)
    BY <2>b DEF Prolongs
  <2>20. \A q \in 1 .. k : s[q] = c[w[q]]
    <3>1. \A q \in 1 .. k : q = k \/ q \in 1 .. k - 1
      BY <1>1
    <3> QED BY <2>17, <2>18, <2>19, <3>1
  <2> DEFINE e == Round(d, k)
  <2>21. e \in S /\ e.scratch = s /\ e.left = new
    BY <2>11, <2>12, <2>17
  <2> HIDE DEF e
  <2>22. Mixed(w, k, e)
    BY <2>12, <2>14, <2>18, <2>19, <2>20, <2>21 DEF Mixed
  <2>23. Good(k, e)
    <3> HIDE DEF Mixed, Leads, S
    <3> QED BY <2>12, <2>15, <2>17, <2>21, <2>22
  <2> QED BY <2>23 DEF e
<1>5. \A k \in 1 .. n : \A d : Good(k - 1, d) => Good(k, Round(d, k))
  BY <1>4
<1>6. \A k, d : Good(k, d) => d \in S
  OBVIOUS
<1>7. ASSUME NEW d, Good(n, d)
      PROVE  /\ d.scratch \in Seq(Item)
             /\ \E m : /\ Arranges(m, d.scratch, c)
                       /\ Halved(c, f, x) => InOrder(m, n, c, f)
  <2>1. /\ d \in S /\ Len(d.scratch) = n
        /\ d.left <= x /\ d.left <= n /\ n - d.left <= Len(b)
        /\ \E m : Mixed(m, n, d)
    BY <1>7
  <2>2. PICK m : Mixed(m, n, d)
    BY <2>1
  <2>3. d.left \in Nat /\ d.scratch \in Seq(Item)
    BY <2>1
  <2>4. Taken(n, d.left) = 1 .. n
    BY <1>1, <2>1, <2>3
  <2>5. Onto(m, n, 1 .. n) /\ (\A q \in 1 .. n : d.scratch[q] = c[m[q]])
        /\ (Halved(c, f, x) => InOrder(m, n, c, f))
    BY <2>2, <2>4
  <2> HIDE DEF c, n, x, S
  <2>6. Arranges(m, d.scratch, c)
    BY <1>a, <2>1, <2>5 DEF Arranges
  <2> QED BY <2>3, <2>5, <2>6
<1> HIDE DEF Round, init, S, n, Good
<1>8. \E g : Rec(g)
  <2> DEFINE step == [k \in 1 .. n |-> [d \in S |->
                        IF Good(k - 1, d) THEN Round(d, k) ELSE d]]
  <2>1. \A k \in 1 .. n : \A d \in S :
            step[k][d] = IF Good(k - 1, d) THEN Round(d, k) ELSE d
    BY Zenon
  <2>2. step \in [1 .. n -> [S -> S]]
    <3>1. \A k \in 1 .. n : \A d \in S :
              (IF Good(k - 1, d) THEN Round(d, k) ELSE d) \in S
      BY <1>5, <1>6
    <3> QED BY <3>1
  <2> HIDE DEF step
  <2>3. PICK g : Follows(g, n, S, init, step)
    <3>1. init \in S
      BY <1>3, <1>6
    <3> QED BY ONLY <1>1, <2>2, <3>1, StepsExist
  <2>4. /\ g \in [0 .. n -> S] /\ g[0] = init
        /\ \A k \in 1 .. n : g[k] = step[k][g[k - 1]]
    BY <2>3 DEF Follows
  <2> DEFINE T == {k \in Nat : Good(k, g[k])}
  <2>5. 0 \in T
    BY <1>3, <2>4
  <2>6. ASSUME NEW k \in 1 .. n, k - 1 \in T PROVE k \in T
    <3>1. k \in Nat /\ k - 1 \in Nat /\ Good(k - 1, g[k - 1])
      BY <2>6
    <3>2. g[k] = Round(g[k - 1], k)
      BY <1>6, <2>1, <2>4, <3>1
    <3> QED BY <1>5, <3>1, <3>2
  <2>7. \A k \in 0 .. n : Good(k, g[k])
    <3> HIDE DEF T
    <3>1. \A k \in 0 .. n : k \in T
      BY <1>1, <2>5, <2>6, NumbersReach
    <3> QED BY <3>1 DEF T
  <2>8. ASSUME NEW k \in 0 .. n PROVE g[k] = Body(g, k)
    <3>1. CASE k = 0
      BY <2>4, <3>1
    <3>2. CASE k # 0
      <4>1. k \in 1 .. n /\ k - 1 \in 0 .. n
        BY <1>1, <3>2
      <4>2. g[k] = Round(g[k - 1], k)
        BY <1>6, <2>1, <2>4, <2>7, <4>1
      <4> QED BY <3>2, <4>2
    <3> QED BY <3>1, <3>2
  <2>9. g = [k \in 0 .. n |-> g[k]]
    BY <2>4
  <2> HIDE DEF Body
  <2>10. g = [k \in 0 .. n |-> Body(g, k)]
    BY <2>8, <2>9, Zenon
  <2> QED BY <2>10
<1>9. Rec(done)
  BY <1>8
<1> HIDE DEF done
<1>10. \A k \in 0 .. n : done[k] = Body(done, k)
  <2> HIDE DEF Body
  <2> QED BY <1>9, Zenon
<1> DEFINE T == {k \in Nat : Good(k, done[k])}
<1>11. 0 \in T
  <2>1. 0 \in 0 .. n
    BY <1>1
  <2>2. done[0] = init
    BY <1>10, <2>1
  <2> QED BY <1>3, <2>2
<1>12. ASSUME NEW k \in 1 .. n, k - 1 \in T PROVE k \in T
  <2>1. k \in Nat /\ k - 1 \in Nat /\ Good(k - 1, done[k - 1])
    BY <1>12
  <2>2. k \in 0 .. n /\ k # 0
    BY <1>1
  <2>3. done[k] = Round(done[k - 1], k)
    BY <1>10, <2>2
  <2> QED BY <1>5, <2>1, <2>3
<1>13. Good(n, done[n])
  <2> HIDE DEF T
  <2>1. \A k \in 0 .. n : k \in T
    BY <1>1, <1>11, <1>12, NumbersReach
  <2>2. n \in 0 .. n
    BY <1>1
  <2> QED BY <2>1, <2>2 DEF T
<1>14. n = Len(c)
  BY <1>a
<1> HIDE DEF done, c, x
<1> QED BY <1>2, <1>7, <1>13, <1>14 DEF c, x

LEMMA MergedFacts ==
    ASSUME NEW a \in Seq(Item), NEW b \in Seq(Item), NEW f \in Fields, NEW reverse
    PROVE  LET r == Merged(a, b, f, reverse) IN
           /\ r \in Seq(Item)
           /\ \E m : /\ Arranges(m, r, a \o b)
                     /\ (~reverse /\ Len(a) # 0 /\ Len(b) # 0 /\ Halved(a \o b, f, Len(a)))
                            => InOrder(m, Len(a \o b), a \o b, f)
<1> DEFINE r == Merged(a, b, f, reverse)
           c == a \o b
           x == Len(a)
           y == Len(b)
           n == x + y
           Works(m) == /\ Arranges(m, r, c)
                       /\ (~reverse /\ x # 0 /\ y # 0 /\ Halved(c, f, x)) => InOrder(m, n, c, f)
           Upwards == ~reverse /\ KeyAt(c, f, x) > KeyAt(c, f, x + 1)
<1>1. /\ c \in Seq(Item) /\ Len(c) = n
      /\ \A i \in 1 .. n : c[i] = IF i <= x THEN a[i] ELSE b[i - x]
      /\ b \o a \in Seq(Item) /\ Len(b \o a) = y + x
      /\ \A i \in 1 .. y + x : (b \o a)[i] = IF i <= y THEN b[i] ELSE a[i - y]
  BY ConcatProperties
<1>2. x \in Nat /\ y \in Nat /\ n \in Nat /\ y + x = n
  BY LenProperties
<1>3. \/ r = b \o a /\ reverse
      \/ r = MergeUp(a, b, f) /\ ~reverse
      \/ r = c /\ (~reverse => ~(Key[f][Last(a).id] > Key[f][Head(b).id]))
  BY DEF Merged
<1>4. (x # 0 /\ y # 0) =>
         KeyAt(c, f, x) = Key[f][Last(a).id] /\ KeyAt(c, f, x + 1) = Key[f][Head(b).id]
  <2>1. SUFFICES ASSUME x # 0, y # 0
                 PROVE  c[x] = Last(a) /\ c[x + 1] = Head(b)
    BY DEF KeyAt
  <2>2. c[x] = a[x]
    <3>1. x \in 1 .. n /\ x <= x
      BY <1>2, <2>1
    <3> QED BY <1>1, <3>1
  <2>3. c[x + 1] = b[1]
    <3> DEFINE u == x + 1
    <3>1. u \in 1 .. n /\ ~(u <= x) /\ u - x = 1
      BY <1>2, <2>1
    <3> HIDE DEF u
    <3>2. c[u] = IF u <= x THEN a[u] ELSE b[u - x]
      BY ONLY <1>1, <3>1
    <3>3. c[u] = b[1]
      BY ONLY <3>1, <3>2
    <3> QED BY <3>3 DEF u
  <2>4. Last(a) = a[x] /\ Head(b) = b[1]
    BY DEF Last
  <2> QED BY <2>2, <2>3, <2>4
<1>5. CASE r = b \o a /\ reverse
  <2> DEFINE m == [q \in 1 .. n |-> IF q <= y THEN x + q ELSE q - y]
  <2>1. /\ \A q \in 1 .. n : (IF q <= y THEN x + q ELSE q - y) \in 1 .. n
        /\ \A i \in 1 .. n : i <= x => y + i \in 1 .. n /\ ~(y + i <= y) /\ (y + i) - y = i
        /\ \A i \in 1 .. n : ~(i <= x) => i - x \in 1 .. n /\ i - x <= y /\ x + (i - x) = i
    BY <1>2
  <2>2. m \in [1 .. n -> 1 .. n] /\ \A q \in 1 .. n : m[q] = IF q <= y THEN x + q ELSE q - y
    BY <2>1
  <2> HIDE DEF m, n, c, x, y
  <2>3. \A i \in 1 .. n : \E q \in 1 .. n : m[q] = i
    <3>1. SUFFICES ASSUME NEW i \in 1 .. n PROVE \E q \in 1 .. n : m[q] = i
      OBVIOUS
    <3>2. CASE i <= x
      <4> DEFINE q == y + i
      <4>1. q \in 1 .. n /\ ~(q <= y) /\ q - y = i
        BY <2>1, <3>2
      <4> HIDE DEF q
      <4>2. m[q] = i
        BY <2>2, <4>1
      <4> QED BY <4>1, <4>2
    <3>3. CASE ~(i <= x)
      <4> DEFINE q == i - x
      <4>1. q \in 1 .. n /\ q <= y /\ x + q = i
        BY <2>1, <3>3
      <4> HIDE DEF q
      <4>2. m[q] = i
        BY <2>2, <4>1
      <4> QED BY <4>1, <4>2
    <3> QED BY <3>2, <3>3
  <2>4. ASSUME NEW q \in 1 .. n PROVE r[q] = c[m[q]]
    <3>1. r[q] = IF q <= y THEN b[q] ELSE a[q - y]
      BY <1>1, <1>2, <1>5
    <3>2. CASE q <= y
      <4> DEFINE u == x + q
      <4>1. u \in 1 .. n /\ ~(u <= x) /\ u - x = q /\ m[q] = u
        BY <1>2, <2>1, <2>2, <3>2
      <4> HIDE DEF u
      <4>2. c[u] = b[q]
        BY <1>1, <4>1
      <4> QED BY <3>1, <3>2, <4>1, <4>2
    <3>3. CASE ~(q <= y)
      <4> DEFINE u == q - y
      <4>1. u \in 1 .. n /\ u <= x /\ m[q] = u
        <5>1. q - y <= x
          BY <1>2, <3>3
        <5> QED BY <2>1, <2>2, <3>3, <5>1
      <4>2. r[q] = a[u]
        BY <3>1, <3>3
      <4> HIDE DEF u
      <4>3. c[u] = a[u]
        BY <1>1, <4>1
      <4> QED BY <4>1, <4>2, <4>3
    <3> QED BY <3>2, <3>3
  <2>5. Onto(m, n, 1 .. n)
    BY <2>2, <2>3 DEF Onto
  <2>6. Arranges(m, r, c)
    BY <1>1, <1>2, <1>5, <2>4, <2>5 DEF Arranges
  <2>7. Works(m)
    BY <1>5, <2>6
  <2> QED BY <1>1, <1>5, <2>7 DEF c, n, x, y
<1>6. CASE r = MergeUp(a, b, f) /\ ~reverse
  <2>1. r \in Seq(Item) /\ \E m : Arranges(m, r, c) /\ (Halved(c, f, x) => InOrder(m, Len(c), c, f))
    BY <1>6, MergeUpFacts
  <2> QED BY <2>1
<1>7. CASE r = c /\ (~reverse => ~(Key[f][Last(a).id] > Key[f][Head(b).id]))
  <2> DEFINE m == [q \in 1 .. n |-> q]
  <2>1. m \in [1 .. n -> 1 .. n] /\ \A q \in 1 .. n : m[q] = q
    OBVIOUS
  <2> HIDE DEF m, c, n
  <2>2. Onto(m, n, 1 .. n)
    BY <2>1 DEF Onto
  <2>3. Arranges(m, r, c)
    BY <1>1, <1>7, <2>1, <2>2 DEF Arranges
  <2>4. ASSUME ~reverse, x # 0, y # 0, Halved(c, f, x), NEW i \in 1 .. n, NEW j \in 1 .. n, i < j
        PROVE  Precedes(c, f, i, j)
    <3>1. \A q \in 1 .. n : KeyAt(c, f, q) \in Nat
      BY <1>1, KeysAreNumbers
    <3>2. x \in 1 .. n /\ x + 1 \in 1 .. n
      BY <1>2, <2>4 DEF n
    <3>3. KeyAt(c, f, x) <= KeyAt(c, f, x + 1)
      <4>1. KeyAt(c, f, x) \in Nat /\ KeyAt(c, f, x + 1) \in Nat
        BY <3>1, <3>2
      <4> HIDE DEF x, y
      <4>2. ~(KeyAt(c, f, x) > KeyAt(c, f, x + 1))
        BY <1>4, <1>7, <2>4
      <4> QED BY <4>1, <4>2
    <3>4. /\ \A u, v \in 1 .. x : u < v => KeyAt(c, f, u) <= KeyAt(c, f, v)
          /\ \A u, v \in x + 1 .. n : u < v => KeyAt(c, f, u) <= KeyAt(c, f, v)
      BY <1>1, <2>4 DEF Halved, Rising
    <3>5. KeyAt(c, f, i) \in Nat /\ KeyAt(c, f, j) \in Nat
      BY <3>1
    <3>6. KeyAt(c, f, i) <= KeyAt(c, f, j)
      <4>1. CASE j <= x
        <5>1. i \in 1 .. x /\ j \in 1 .. x
          BY <1>2, <2>4, <4>1
        <5> QED BY <2>4, <3>4, <5>1
      <4>2. CASE ~(i <= x)
        <5>1. i \in x + 1 .. n /\ j \in x + 1 .. n
          BY <1>2, <2>4, <4>2
        <5> QED BY <2>4, <3>4, <5>1
      <4>3. CASE i <= x /\ ~(j <= x)
        <5>1. KeyAt(c, f, i) <= KeyAt(c, f, x)
          <6>1. i = x \/ (i \in 1 .. x /\ x \in 1 .. x /\ i < x)
            BY <1>2, <4>3
          <6> QED BY <3>4, <3>5, <6>1
        <5>2. KeyAt(c, f, x + 1) <= KeyAt(c, f, j)
          <6>1. x + 1 = j \/ (x + 1 \in x + 1 .. n /\ j \in x + 1 .. n /\ x + 1 < j)
            BY <1>2, <4>3
          <6> QED BY <3>4, <3>5, <6>1
        <5>3. KeyAt(c, f, x) \in Nat /\ KeyAt(c, f, x + 1) \in Nat
          BY <3>1, <3>2
        <5> QED BY <3>3, <3>5, <5>1, <5>2, <5>3
      <4> QED BY <4>1, <4>2, <4>3
    <3> QED BY <2>4, <3>5, <3>6 DEF Precedes
  <2>5. (~reverse /\ x # 0 /\ y # 0 /\ Halved(c, f, x)) => InOrder(m, n, c, f)
    <3> HIDE DEF x, y
    <3> QED BY <2>1, <2>4 DEF InOrder
  <2>6. Works(m)
    BY <2>3, <2>5
  <2> QED BY <1>1, <1>7, <2>6 DEF c, n
<1> QED BY <1>3, <1>5, <1>6, <1>7

\* r holds s's items h to t, each at the place q tells.
Part(q, r, s, h, t) ==
    /\ Len(r) = t - h + 1 /\ Onto(q, t - h + 1, h .. t)
    /\ \A k \in 1 .. t - h + 1 : r[k] = s[q[k]]

\* r holds both parts of s, and in order if they were and are merged in order.
Welds(q, r, s, f, h, t, qa, a, qb, b, m) ==
    /\ Part(q, r, s, h, t)
    /\ (/\ InOrder(qa, Len(a), s, f) /\ InOrder(qb, Len(b), s, f)
        /\ InOrder(m, Len(a \o b), a \o b, f))
           => InOrder(q, Len(r), s, f)

\* A merge of two sorted parts of s sorts both together.
LEMMA JoinedFacts ==
    ASSUME NEW s \in Seq(Item), NEW f \in Fields,
           NEW h \in Nat, NEW e \in Nat, NEW t \in Nat, 1 <= h, h <= e, e < t, t <= Len(s),
           NEW a \in Seq(Item), NEW qa, Part(qa, a, s, h, e),
           NEW b \in Seq(Item), NEW qb, Part(qb, b, s, e + 1, t),
           NEW r, NEW m, Arranges(m, r, a \o b)
    PROVE  /\ (InOrder(qa, Len(a), s, f) /\ InOrder(qb, Len(b), s, f))
                  => Halved(a \o b, f, Len(a))
           /\ \E q : Welds(q, r, s, f, h, t, qa, a, qb, b, m)
<1> DEFINE c == a \o b
           x == Len(a)
           y == Len(b)
           n == x + y
           at(i) == IF i <= x THEN qa[i] ELSE qb[i - x]
           u == [i \in 1 .. n |-> at(i)]
           q == [k \in 1 .. n |-> u[m[k]]]
<1>1. /\ c \in Seq(Item) /\ Len(c) = n
      /\ \A i \in 1 .. n : c[i] = IF i <= x THEN a[i] ELSE b[i - x]
  BY ConcatProperties
<1>2. /\ x = e - h + 1 /\ y = t - e /\ n = t - h + 1
      /\ x \in Nat /\ y \in Nat /\ n \in Nat /\ x # 0 /\ y # 0
  BY DEF Part
<1>3. /\ qa \in [1 .. x -> h .. e] /\ \A i \in h .. e : \E k \in 1 .. x : qa[k] = i
      /\ \A k \in 1 .. x : a[k] = s[qa[k]]
  BY <1>2 DEF Part, Onto
<1>4. /\ qb \in [1 .. y -> e + 1 .. t] /\ \A i \in e + 1 .. t : \E k \in 1 .. y : qb[k] = i
      /\ \A k \in 1 .. y : b[k] = s[qb[k]]
  <2>1. t - (e + 1) + 1 = y
    BY <1>2
  <2>2. Onto(qb, y, e + 1 .. t) /\ \A k \in 1 .. y : b[k] = s[qb[k]]
    BY <2>1 DEF Part
  <2> QED BY <2>2 DEF Onto
<1>5. /\ m \in [1 .. n -> 1 .. n] /\ \A i \in 1 .. n : \E k \in 1 .. n : m[k] = i
      /\ Len(r) = n /\ \A k \in 1 .. n : r[k] = c[m[k]]
  BY <1>1 DEF Arranges, Onto
<1> HIDE DEF c, x, y, n
<1>6. \A i \in 1 .. n : \/ i \in 1 .. x /\ i <= x
                        \/ i - x \in 1 .. y /\ ~(i <= x)
  BY <1>2 DEF n
<1>7. /\ \A i \in 1 .. n : at(i) \in h .. t /\ c[i] = s[at(i)]
      /\ \A i \in 1 .. n : i <= x => at(i) \in h .. e
      /\ \A i \in 1 .. n : ~(i <= x) => at(i) \in e + 1 .. t
  <2>1. ASSUME NEW i \in 1 .. n
        PROVE  /\ at(i) \in h .. t /\ c[i] = s[at(i)]
               /\ i <= x => at(i) \in h .. e
               /\ ~(i <= x) => at(i) \in e + 1 .. t
    <3>1. CASE i <= x
      <4>1. i \in 1 .. x
        BY <1>6, <3>1
      <4>2. qa[i] \in h .. e /\ c[i] = s[qa[i]]
        BY <1>1, <1>3, <3>1, <4>1
      <4> QED BY <3>1, <4>2
    <3>2. CASE ~(i <= x)
      <4> DEFINE v == i - x
      <4>1. v \in 1 .. y
        BY <1>6, <3>2
      <4>2. c[i] = b[v]
        BY <1>1, <3>2
      <4>3. at(i) = qb[v]
        BY <3>2
      <4> HIDE DEF v, at
      <4>4. qb[v] \in e + 1 .. t /\ c[i] = s[qb[v]]
        BY <1>4, <4>1, <4>2
      <4> QED BY <3>2, <4>3, <4>4
    <3> QED BY <3>1, <3>2
  <2> HIDE DEF at
  <2> QED BY <2>1
<1>8. \A j \in h .. t : \E i \in 1 .. n : at(i) = j
  <2>1. SUFFICES ASSUME NEW j \in h .. t PROVE \E i \in 1 .. n : at(i) = j
    OBVIOUS
  <2>2. CASE j \in h .. e
    <3>1. PICK k \in 1 .. x : qa[k] = j
      BY <1>3, <2>2
    <3>2. k \in 1 .. n /\ at(k) = j
      BY <1>2, <3>1 DEF n
    <3> QED BY <3>2
  <2>3. CASE j \in e + 1 .. t
    <3>1. PICK k \in 1 .. y : qb[k] = j
      BY <1>4, <2>3
    <3> DEFINE i == x + k
    <3>2. i \in 1 .. n /\ ~(i <= x) /\ i - x = k
      BY <1>2, <3>1 DEF n
    <3> HIDE DEF i
    <3>3. at(i) = j
      BY <3>1, <3>2
    <3> QED BY <3>2, <3>3
  <2> QED BY <2>2, <2>3
<1>9. ASSUME InOrder(qa, x, s, f), InOrder(qb, y, s, f), NEW i \in 1 .. n, NEW j \in 1 .. n, i < j
      PROVE  /\ at(i) < at(j) \/ KeyAt(c, f, i) < KeyAt(c, f, j) \/ ((i <= x) /\ ~(j <= x))
             /\ (i <= x /\ ~(j <= x)) => at(i) < at(j)
             /\ (i <= x <=> j <= x) =>
                   \/ KeyAt(c, f, i) < KeyAt(c, f, j)
                   \/ KeyAt(c, f, i) = KeyAt(c, f, j) /\ at(i) < at(j)
  <2>1. KeyAt(c, f, i) = KeyAt(s, f, at(i)) /\ KeyAt(c, f, j) = KeyAt(s, f, at(j))
    <3>1. c[i] = s[at(i)] /\ c[j] = s[at(j)]
      <4> HIDE DEF at
      <4> QED BY <1>7
    <3> QED BY <3>1 DEF KeyAt
  <2>2. CASE i <= x /\ j <= x
    <3>1. i \in 1 .. x /\ j \in 1 .. x /\ at(i) = qa[i] /\ at(j) = qa[j]
      BY <1>6, <2>2
    <3>2. Precedes(s, f, qa[i], qa[j])
      BY <1>9, <3>1 DEF InOrder
    <3>3. Precedes(s, f, at(i), at(j))
      BY <3>1, <3>2
    <3> HIDE DEF at
    <3> QED BY <2>1, <2>2, <3>3 DEF Precedes
  <2>3. CASE ~(i <= x) /\ ~(j <= x)
    <3>1. i - x \in 1 .. y /\ j - x \in 1 .. y /\ i - x < j - x
          /\ at(i) = qb[i - x] /\ at(j) = qb[j - x]
      BY <1>2, <1>6, <1>9, <2>3
    <3>2. Precedes(s, f, qb[i - x], qb[j - x])
      BY <1>9, <3>1 DEF InOrder
    <3>3. Precedes(s, f, at(i), at(j))
      BY <3>1, <3>2
    <3> HIDE DEF at
    <3> QED BY <2>1, <2>3, <3>3 DEF Precedes
  <2>4. CASE i <= x /\ ~(j <= x)
    <3>1. at(i) \in h .. e /\ at(j) \in e + 1 .. t
      <4> HIDE DEF at
      <4> QED BY <1>7, <2>4
    <3> HIDE DEF at
    <3>2. at(i) < at(j)
      BY <3>1
    <3> QED BY <2>4, <3>2
  <2>5. CASE ~(i <= x) /\ j <= x
    BY <1>2, <1>9, <2>5
  <2> QED BY <2>2, <2>3, <2>4, <2>5
<1>10. \A i \in 1 .. n : KeyAt(c, f, i) \in Nat
  BY <1>1, KeysAreNumbers
<1> HIDE DEF at
<1>11. ASSUME InOrder(qa, x, s, f), InOrder(qb, y, s, f)
       PROVE  Halved(c, f, x)
  <2>1. Rising(c, f, 1, x)
    <3>1. SUFFICES ASSUME NEW i \in 1 .. x, NEW j \in 1 .. x, i < j
                   PROVE  KeyAt(c, f, i) <= KeyAt(c, f, j)
      BY DEF Rising
    <3>2. i \in 1 .. n /\ j \in 1 .. n /\ i <= x /\ j <= x
      BY <1>2 DEF n
    <3>3. KeyAt(c, f, i) < KeyAt(c, f, j) \/ KeyAt(c, f, i) = KeyAt(c, f, j)
      BY <1>9, <1>11, <3>1, <3>2
    <3> QED BY <1>10, <3>2, <3>3
  <2>2. Rising(c, f, x + 1, n)
    <3>1. SUFFICES ASSUME NEW i \in x + 1 .. n, NEW j \in x + 1 .. n, i < j
                   PROVE  KeyAt(c, f, i) <= KeyAt(c, f, j)
      BY DEF Rising
    <3>2. i \in 1 .. n /\ j \in 1 .. n /\ ~(i <= x) /\ ~(j <= x)
      BY <1>2
    <3>3. KeyAt(c, f, i) < KeyAt(c, f, j) \/ KeyAt(c, f, i) = KeyAt(c, f, j)
      BY <1>9, <1>11, <3>1, <3>2
    <3> QED BY <1>10, <3>2, <3>3
  <2> QED BY <1>1, <2>1, <2>2 DEF Halved
<1>12. /\ u \in [1 .. n -> h .. t] /\ \A i \in 1 .. n : u[i] = at(i)
  BY <1>7
<1> HIDE DEF u
<1>13. /\ q \in [1 .. n -> h .. t] /\ \A k \in 1 .. n : q[k] = at(m[k]) /\ m[k] \in 1 .. n
  BY <1>5, <1>12
<1> HIDE DEF q
<1>14. \A j \in h .. t : \E k \in 1 .. n : q[k] = j
  <2>1. SUFFICES ASSUME NEW j \in h .. t PROVE \E k \in 1 .. n : q[k] = j
    OBVIOUS
  <2>2. PICK i \in 1 .. n : at(i) = j
    BY <1>8
  <2>3. PICK k \in 1 .. n : m[k] = i
    BY <1>5
  <2> QED BY <1>13, <2>2, <2>3
<1>15. Part(q, r, s, h, t)
  <2>1. ASSUME NEW k \in 1 .. n PROVE r[k] = s[q[k]]
    <3>1. m[k] \in 1 .. n /\ q[k] = at(m[k]) /\ r[k] = c[m[k]]
      BY <1>5, <1>13
    <3>2. c[m[k]] = s[at(m[k])]
      BY <1>7, <3>1
    <3> QED BY <3>1, <3>2
  <2> QED BY <1>2, <1>5, <1>13, <1>14, <2>1 DEF Part, Onto
<1>16. ASSUME InOrder(qa, x, s, f), InOrder(qb, y, s, f), InOrder(m, n, c, f)
       PROVE  InOrder(q, n, s, f)
  <2>1. SUFFICES ASSUME NEW k \in 1 .. n, NEW l \in 1 .. n, k < l
                 PROVE  Precedes(s, f, q[k], q[l])
    BY DEF InOrder
  <2> DEFINE i == m[k]
             j == m[l]
  <2>2. i \in 1 .. n /\ j \in 1 .. n /\ q[k] = at(i) /\ q[l] = at(j)
    BY <1>13
  <2>3. Precedes(c, f, i, j)
    BY <1>16, <2>1 DEF InOrder
  <2> HIDE DEF i, j
  <2>4. KeyAt(c, f, i) = KeyAt(s, f, q[k]) /\ KeyAt(c, f, j) = KeyAt(s, f, q[l])
    BY <1>7, <2>2 DEF KeyAt
  <2>5. CASE KeyAt(c, f, i) < KeyAt(c, f, j)
    BY <2>4, <2>5 DEF Precedes
  <2>6. CASE ~(KeyAt(c, f, i) < KeyAt(c, f, j))
    <3>1. KeyAt(c, f, i) = KeyAt(c, f, j) /\ i < j
      BY <2>3, <2>6 DEF Precedes
    <3>2. \/ at(i) < at(j) \/ (i <= x /\ ~(j <= x))
      BY <1>9, <1>16, <2>2, <2>6, <3>1
    <3>3. at(i) < at(j)
      BY <1>9, <1>16, <2>2, <3>1, <3>2
    <3> QED BY <2>2, <2>4, <3>1, <3>3 DEF Precedes
  <2> QED BY <2>5, <2>6
<1>17. Welds(q, r, s, f, h, t, qa, a, qb, b, m)
  BY <1>1, <1>5, <1>15, <1>16 DEF c, x, y, Welds
<1> QED BY <1>11, <1>17 DEF c, x, y

\* The sorted list is made of the items there were, each once, and a sort upwards
\* puts them in the order of a stable sort.
LEMMA MergeSortFacts ==
    ASSUME NEW s \in Seq(Item), NEW f \in Fields, NEW reverse, Len(s) # 0
    PROVE  /\ MergeSort(s, f, reverse) \in Seq(Item)
           /\ \E q : /\ Arranges(q, MergeSort(s, f, reverse), s)
                     /\ ~reverse => InOrder(q, Len(s), s, f)
<1> DEFINE n == Len(s)
           D == (DOMAIN s) \X (DOMAIN s)
           S == [D -> Seq(Item)]
           Half(p) == (p[1] + p[2]) \div 2
           Lower(p) == <<p[1], Half(p)>>
           Upper(p) == <<Half(p) + 1, p[2]>>
           Body(g, p) == IF p[1] < p[2] THEN Merged(g[Lower(p)], g[Upper(p)], f, reverse)
                                        ELSE <<s[p[1]]>>
           Rec(g) == g = [p \in D |-> Body(g, p)]
           ms == CHOOSE g : Rec(g)
           Width(p) == p[2] - p[1]
<1>1. n \in Nat /\ DOMAIN s = 1 .. n /\ n # 0
  BY LenProperties
<1>2. MergeSort(s, f, reverse) = ms[<<1, n>>]
  BY DEF MergeSort
<1>3. \A p \in D : p[1] \in 1 .. n /\ p[2] \in 1 .. n /\ p = <<p[1], p[2]>>
  BY <1>1
<1>4. ASSUME NEW p \in D, p[1] < p[2]
      PROVE  /\ Lower(p) \in D /\ Upper(p) \in D
             /\ Width(Lower(p)) \in Nat /\ Width(Upper(p)) \in Nat
             /\ Width(Lower(p)) < Width(p) /\ Width(Upper(p)) < Width(p)
             /\ Width(Lower(p)) + Width(Upper(p)) + 1 = Width(p)
  <2>1. p[1] \in 1 .. n /\ p[2] \in 1 .. n
    BY <1>3
  <2>2. Half(p) \in Int /\ p[1] <= Half(p) /\ Half(p) + 1 <= p[2]
    BY <1>4, <2>1
  <2>3. Lower(p)[1] = p[1] /\ Lower(p)[2] = Half(p)
        /\ Upper(p)[1] = Half(p) + 1 /\ Upper(p)[2] = p[2]
    OBVIOUS
  <2>4. Half(p) \in 1 .. n /\ Half(p) + 1 \in 1 .. n
    <3> HIDE DEF Half, n
    <3> QED BY <1>1, <2>1, <2>2
  <2>5. Lower(p) \in D /\ Upper(p) \in D
    BY <1>1, <2>1, <2>4
  <2> DEFINE h == Half(p)
             u == p[1]
             w == p[2]
  <2>6. u \in Nat /\ w \in Nat /\ h \in Int /\ u <= h /\ h + 1 <= w
    BY <1>1, <2>1, <2>2
  <2> HIDE DEF h, u, w
  <2>7. /\ h - u \in Nat /\ w - (h + 1) \in Nat
        /\ h - u < w - u /\ w - (h + 1) < w - u
        /\ (h - u) + (w - (h + 1)) + 1 = w - u
    BY ONLY <2>6
  <2>8. /\ Width(Lower(p)) = h - u /\ Width(Upper(p)) = w - (h + 1)
        /\ Width(p) = w - u
    BY <2>3 DEF h, u, w
  <2> HIDE DEF Half, Lower, Upper, D, n, Width
  <2> QED BY ONLY <2>5, <2>7, <2>8
<1>5. \A p \in D : p[1] < p[2] =>
             /\ Lower(p) \in D /\ Upper(p) \in D
             /\ Width(Lower(p)) \in Nat /\ Width(Upper(p)) \in Nat
             /\ Width(Lower(p)) < Width(p) /\ Width(Upper(p)) < Width(p)
             /\ Width(Lower(p)) + Width(Upper(p)) + 1 = Width(p)
  BY <1>4
<1>6. \A p \in D : Width(p) \in Int /\ Width(p) < n
  BY <1>1, <1>3
<1>7. ASSUME NEW g \in S, NEW p \in D PROVE Body(g, p) \in Seq(Item)
  <2>1. CASE p[1] < p[2]
    <3>1. g[Lower(p)] \in Seq(Item) /\ g[Upper(p)] \in Seq(Item)
      <4> HIDE DEF Lower, Upper, D
      <4> QED BY <1>5, <2>1
    <3>2. Merged(g[Lower(p)], g[Upper(p)], f, reverse) \in Seq(Item)
      BY <3>1, MergedFacts
    <3> QED BY <2>1, <3>2
  <2>2. CASE ~(p[1] < p[2])
    <3>1. s[p[1]] \in Item
      BY <1>1, <1>3, ElementOfSeq
    <3> QED BY <2>2, <3>1
  <2> QED BY <2>1, <2>2
<1>8. \A g \in S : \A p \in D : Body(g, p) \in Seq(Item)
  BY <1>7
<1>9. ASSUME NEW g, NEW h, NEW m \in Int, NEW p \in D, Width(p) < m + 1,
             \A q \in D : Width(q) < m => g[q] = h[q]
      PROVE  Body(g, p) = Body(h, p)
  <2>1. CASE p[1] < p[2]
    <3>1. /\ Lower(p) \in D /\ Upper(p) \in D
          /\ Width(Lower(p)) < m /\ Width(Upper(p)) < m
      <4> HIDE DEF Lower, Upper, D, Width
      <4>1. /\ Lower(p) \in D /\ Upper(p) \in D
            /\ Width(Lower(p)) \in Nat /\ Width(Upper(p)) \in Nat
            /\ Width(Lower(p)) < Width(p) /\ Width(Upper(p)) < Width(p)
            /\ Width(p) \in Int
        BY <1>5, <1>6, <2>1
      <4> QED BY <1>9, <4>1
    <3>2. g[Lower(p)] = h[Lower(p)] /\ g[Upper(p)] = h[Upper(p)]
      BY <1>9, <3>1
    <3> QED BY <2>1, <3>2
  <2>2. CASE ~(p[1] < p[2])
    BY <2>2
  <2> QED BY <2>1, <2>2
<1> HIDE DEF n

<1>10. \E g : Rec(g)
  <2> DEFINE init == [p \in D |-> <<s[p[1]]>>]
             Phi(g) == [p \in D |-> Body(g, p)]
             step == [k \in 1 .. n |-> [g \in S |-> Phi(g)]]
  <2>1. init \in S /\ \A p \in D : init[p] = <<s[p[1]]>>
    <3>1. \A p \in D : <<s[p[1]]>> \in Seq(Item)
      <4> SUFFICES ASSUME NEW p \in D PROVE <<s[p[1]]>> \in Seq(Item)
        OBVIOUS
      <4>1. s[p[1]] \in Item
        BY <1>1, <1>3, ElementOfSeq
      <4> QED BY <4>1
    <3> HIDE DEF D
    <3> QED BY <3>1
  <2> HIDE DEF init, Body, D
  <2>2. \A g \in S : Phi(g) \in S /\ \A p \in D : Phi(g)[p] = Body(g, p)
    BY <1>8
  <2> HIDE DEF Phi
  <2>3. step \in [1 .. n -> [S -> S]] /\ \A k \in 1 .. n : \A g \in S : step[k][g] = Phi(g)
    <3> HIDE DEF S
    <3> QED BY <2>2
  <2> HIDE DEF step
  <2>4. PICK F : Follows(F, n, S, init, step)
    <3> HIDE DEF S
    <3> QED BY ONLY <1>1, <2>1, <2>3, StepsExist
  <2> HIDE DEF S
  <2>5. /\ F \in [0 .. n -> S] /\ F[0] = init
        /\ \A k \in 1 .. n : F[k] = Phi(F[k - 1])
    <3>1. /\ F \in [0 .. n -> S] /\ F[0] = init
          /\ \A k \in 1 .. n : F[k] = step[k][F[k - 1]]
      BY <2>4 DEF Follows
    <3>2. \A k \in 1 .. n : k - 1 \in 0 .. n
      BY <1>1
    <3> QED BY <2>3, <3>1, <3>2
  <2> DEFINE Settled(k) == \A p \in D : Width(p) < k => Body(F[k], p) = F[k][p]
             T == {k \in Nat : Settled(k)}
  <2>6. 0 \in T
    <3>1. ASSUME NEW p \in D, Width(p) < 0 PROVE Body(F[0], p) = F[0][p]
      <4>1. ~(p[1] < p[2])
        BY <1>1, <1>3, <3>1 DEF D
      <4>2. Body(F[0], p) = <<s[p[1]]>>
        BY <4>1 DEF Body
      <4> QED BY <2>1, <2>5, <4>2
    <3> QED BY <3>1
  <2>7. ASSUME NEW k \in 1 .. n, k - 1 \in T PROVE k \in T
    <3>1. Settled(k - 1) /\ k \in Nat /\ k \in Int /\ k - 1 \in Int /\ k - 1 + 1 = k
      BY <2>7
    <3>2. F[k - 1] \in S /\ F[k] = Phi(F[k - 1])
      <4>1. k - 1 \in 0 .. n
        BY <1>1
      <4> QED BY <2>5, <4>1
    <3>3. \A q \in D : F[k][q] = Body(F[k - 1], q)
      BY <2>2, <3>2
    <3>4. \A q \in D : Width(q) < k - 1 => F[k][q] = F[k - 1][q]
      BY <3>1, <3>3
    <3>5. ASSUME NEW p \in D, Width(p) < k PROVE Body(F[k], p) = F[k][p]
      <4>1. Width(p) < k - 1 + 1
        BY <3>1, <3>5
      <4> HIDE DEF Width
      <4>2. Body(F[k], p) = Body(F[k - 1], p)
        BY <1>9, <3>1, <3>4, <4>1
      <4> QED BY <3>3, <4>2
    <3> HIDE DEF Width
    <3> QED BY <3>1, <3>5
  <2>8. Settled(n)
    <3> HIDE DEF T
    <3>1. \A k \in 0 .. n : k \in T
      BY <1>1, <2>6, <2>7, NumbersReach
    <3>2. n \in 0 .. n
      BY <1>1
    <3> HIDE DEF Settled
    <3> QED BY <3>1, <3>2 DEF T
  <2>9. \A p \in D : F[n][p] = Body(F[n], p)
    BY <1>6, <2>8
  <2>10. F[n] = [p \in D |-> F[n][p]]
    <3>1. F[n] \in S
      BY <1>1, <2>5
    <3> QED BY <3>1 DEF S
  <2>11. F[n] = [p \in D |-> Body(F[n], p)]
    BY <2>9, <2>10, Zenon
  <2> QED BY <2>11
<1>11. Rec(ms)
  BY <1>10
<1> HIDE DEF ms
<1>12. \A p \in D : ms[p] = Body(ms, p)
  <2> HIDE DEF Body, D
  <2> QED BY <1>11, Zenon
<1> DEFINE Right(p) == /\ ms[p] \in Seq(Item) /\ Len(ms[p]) = Width(p) + 1
                       /\ \E q : /\ Part(q, ms[p], s, p[1], p[2])
                                 /\ ~reverse => InOrder(q, Len(ms[p]), s, f)
           T == {k \in Nat : \A p \in D : (0 <= Width(p) /\ Width(p) < k) => Right(p)}
<1>13. 0 \in T
  BY <1>6
<1>14. ASSUME NEW k \in 1 .. n, k - 1 \in T PROVE k \in T
  <2>1. k \in Nat /\ \A p \in D : (0 <= Width(p) /\ Width(p) < k - 1) => Right(p)
    BY <1>14
  <2>2. ASSUME NEW p \in D, 0 <= Width(p), Width(p) < k PROVE Right(p)
    <3>1. CASE p[1] < p[2]
      <4> HIDE DEF Lower, Upper, D, Width
      <4>1. /\ Lower(p) \in D /\ Upper(p) \in D
            /\ Width(Lower(p)) \in Nat /\ Width(Upper(p)) \in Nat
            /\ Width(Lower(p)) < Width(p) /\ Width(Upper(p)) < Width(p)
            /\ Width(Lower(p)) + Width(Upper(p)) + 1 = Width(p)
            /\ Width(p) \in Int
        BY <1>5, <1>6, <3>1
      <4>2. Right(Lower(p)) /\ Right(Upper(p))
        BY <2>1, <2>2, <4>1
      <4>3. ms[p] = Merged(ms[Lower(p)], ms[Upper(p)], f, reverse)
        BY <1>12, <3>1
      <4>4. Lower(p)[1] = p[1] /\ Lower(p)[2] = Half(p)
            /\ Upper(p)[1] = Half(p) + 1 /\ Upper(p)[2] = p[2]
        BY DEF Lower, Upper
      <4>5. /\ p[1] \in 1 .. n /\ p[2] \in 1 .. n /\ Half(p) \in 1 .. n
            /\ p[1] <= Half(p) /\ Half(p) < p[2]
        <5>1. p[1] \in 1 .. n /\ p[2] \in 1 .. n
          BY <1>3
        <5>2. Half(p) \in Int /\ p[1] <= Half(p) /\ Half(p) + 1 <= p[2]
          BY <3>1, <5>1 DEF Half
        <5> HIDE DEF Half
        <5> QED BY <1>1, <5>1, <5>2
      <4> HIDE DEF Half
      <4> DEFINE a == ms[Lower(p)]
                 b == ms[Upper(p)]
                 r == ms[p]
                 h == p[1]
                 e == Half(p)
                 t == p[2]
      <4>6. a \in Seq(Item) /\ b \in Seq(Item)
        BY <4>2
      <4>7. PICK qa : Part(qa, a, s, h, e) /\ (~reverse => InOrder(qa, Len(a), s, f))
        BY <4>2, <4>4
      <4>8. PICK qb : Part(qb, b, s, e + 1, t) /\ (~reverse => InOrder(qb, Len(b), s, f))
        BY <4>2, <4>4
      <4>9. r = Merged(a, b, f, reverse)
        BY <4>3
      <4> HIDE DEF a, b, r
      <4>10. PICK m : /\ Arranges(m, r, a \o b)
                      /\ (~reverse /\ Len(a) # 0 /\ Len(b) # 0 /\ Halved(a \o b, f, Len(a)))
                             => InOrder(m, Len(a \o b), a \o b, f)
        BY <4>6, <4>9, MergedFacts
      <4>11. r \in Seq(Item)
        BY <4>6, <4>9, MergedFacts
      <4>12. h \in Nat /\ e \in Nat /\ t \in Nat /\ 1 <= h /\ h <= e /\ e < t /\ t <= Len(s)
        BY <1>1, <4>5 DEF n
      <4> HIDE DEF h, e, t
      <4>13. Part(qa, a, s, h, e) /\ Part(qb, b, s, e + 1, t) /\ Arranges(m, r, a \o b)
        BY <4>7, <4>8, <4>10
      <4>14. Len(a) # 0 /\ Len(b) # 0
        BY <4>12, <4>13 DEF Part
      <4>15. (InOrder(qa, Len(a), s, f) /\ InOrder(qb, Len(b), s, f))
                 => Halved(a \o b, f, Len(a))
        BY ONLY <4>6, <4>12, <4>13, JoinedFacts
      <4>20. PICK q : Welds(q, r, s, f, h, t, qa, a, qb, b, m)
        BY ONLY <4>6, <4>12, <4>13, JoinedFacts
      <4>16. /\ Part(q, r, s, h, t)
             /\ (/\ InOrder(qa, Len(a), s, f) /\ InOrder(qb, Len(b), s, f)
                 /\ InOrder(m, Len(a \o b), a \o b, f))
                    => InOrder(q, Len(r), s, f)
        BY <4>20 DEF Welds
      <4>17. ~reverse => InOrder(q, Len(r), s, f)
        BY <4>7, <4>8, <4>10, <4>14, <4>15, <4>16
      <4>18. Len(r) = t - h + 1
        BY <4>16 DEF Part
      <4>19. t - h + 1 = Width(p) + 1
        BY DEF Width, h, t
      <4> QED BY <4>11, <4>16, <4>17, <4>18, <4>19 DEF r, h, t
    <3>2. CASE ~(p[1] < p[2])
      <4>1. ms[p] = <<s[p[1]]>>
        BY <1>12, <3>2
      <4>2. s[p[1]] \in Item
        BY <1>1, <1>3, ElementOfSeq
      <4>3. ms[p] \in Seq(Item) /\ Len(ms[p]) = 1 /\ ms[p][1] = s[p[1]]
        BY <4>1, <4>2
      <4>4. Width(p) = 0 /\ p[2] = p[1] /\ p[1] \in 1 .. n
        BY <1>1, <1>3, <2>2, <3>2
      <4> DEFINE q == [j \in 1 .. 1 |-> p[1]]
      <4>5. p[2] - p[1] + 1 = 1
        BY <1>1, <4>4
      <4>6. /\ q \in [1 .. 1 -> p[1] .. p[2]] /\ q[1] = p[1]
            /\ \A i \in p[1] .. p[2] : \E j \in 1 .. 1 : q[j] = i
        BY <1>1, <4>4
      <4> HIDE DEF q, n, Width
      <4> DEFINE h == p[1]
                 t == p[2]
                 r == ms[p]
      <4>9. /\ t - h + 1 = 1 /\ q \in [1 .. 1 -> h .. t] /\ q[1] = h
            /\ \A i \in h .. t : \E j \in 1 .. 1 : q[j] = i
            /\ Len(r) = 1 /\ r[1] = s[h]
        BY <4>3, <4>5, <4>6
      <4> HIDE DEF h, t, r
      <4>10. Onto(q, t - h + 1, h .. t)
        BY <4>9 DEF Onto
      <4>11. \A j \in 1 .. t - h + 1 : r[j] = s[q[j]]
        BY <4>9
      <4>12. Part(q, r, s, h, t)
        BY <4>9, <4>10, <4>11 DEF Part
      <4>7. Part(q, ms[p], s, p[1], p[2])
        BY <4>12 DEF h, t, r
      <4>8. InOrder(q, 1, s, f)
        BY DEF InOrder
      <4> QED BY <4>3, <4>4, <4>7, <4>8
    <3> QED BY <3>1, <3>2
  <2> HIDE DEF Right, Width
  <2> QED BY <2>1, <2>2
<1>15. n \in T
  <2> HIDE DEF T
  <2>1. \A k \in 0 .. n : k \in T
    BY <1>1, <1>13, <1>14, NumbersReach
  <2>2. n \in 0 .. n
    BY <1>1
  <2> QED BY <2>1, <2>2
<1> DEFINE whole == <<1, n>>
<1>16. whole \in D /\ Width(whole) = n - 1 /\ 0 <= n - 1 /\ n - 1 < n
  BY <1>1
<1>17. Right(whole)
  <2> HIDE DEF Right, whole, Width
  <2> QED BY <1>15, <1>16
<1>18. n - 1 + 1 = n /\ whole[1] = 1 /\ whole[2] = n
  BY <1>1
<1> HIDE DEF Width, whole
<1>19. /\ ms[whole] \in Seq(Item) /\ Len(ms[whole]) = n
       /\ \E q : /\ Part(q, ms[whole], s, 1, n)
                 /\ ~reverse => InOrder(q, n, s, f)
  BY <1>16, <1>17, <1>18
<1>20. PICK q : Part(q, ms[whole], s, 1, n) /\ (~reverse => InOrder(q, n, s, f))
  BY <1>19
<1>21. Arranges(q, ms[whole], s)
  BY <1>18, <1>20 DEF Part, Arranges, n
<1> QED BY <1>2, <1>19, <1>20, <1>21 DEF n, whole

\* The list is sorted upwards by column f, as a stable sort does it.
SortedUp(f) ==
    /\ count' = count
    /\ \E q : /\ Onto(q, count, 1 .. count) /\ InOrder(q, count, cells, f)
              /\ \A k \in 1 .. count : cells'[k] = cells[q[k]]

LEMMA SortRearranges ==
    ASSUME PlaylistInv, NEW f \in Fields, Sort(f)
    PROVE  /\ SettingsOK' /\ UNCHANGED otherVars /\ Rearranges
           /\ sortBy' = f /\ sortVars' # sortVars
           /\ sortType' = "ASCENDING" => SortedUp(f)
           /\ active = 0 => active' = 0 \/ cells'[active'].id = 0
<1> DEFINE s  == MergeSort(Items, f, sortType' = "DESCENDING")
           id == IF active = 0 THEN 0 ELSE cells[active].id
           w  == Write(Listing, s)
           a  == RealIndexOf(s, id)
           l  == [w EXCEPT !.active = a]
<1>1. /\ sortBy' = f
      /\ sortType' = IF sortBy = f /\ sortType = "ASCENDING" THEN "DESCENDING"
                                                            ELSE "ASCENDING"
      /\ IF count < 2 THEN UNCHANGED <<cells, count, active, orders>>
                      ELSE Becomes(l) /\ Rebuild(l)
      /\ UNCHANGED otherVars
  BY DEF Sort
<1>2. SettingsOK' /\ filter' = filter /\ shuffle' = shuffle
  <2>1. sortType' \in {"ASCENDING", "DESCENDING", "UNSORTED"}
    BY <1>1
  <2> QED BY <1>1, <2>1 DEF PlaylistInv, SettingsOK, otherVars
<1>5. sortVars' # sortVars
  <2>1. sortBy' # sortBy \/ sortType' # sortType
    BY <1>1
  <2> QED BY <2>1 DEF sortVars
<1>3. CASE count < 2
  <2>1. UNCHANGED <<cells, count, active>> /\ count \in Nat
    BY <1>1, <1>3, ListingIs, ListingFields DEF PlaylistInv
  <2> DEFINE q == [k \in 1 .. count |-> k]
  <2>2. q \in [1 .. count -> 1 .. count] /\ \A k \in 1 .. count : q[k] = k
    OBVIOUS
  <2> HIDE DEF q
  <2>3. Onto(q, count, 1 .. count)
    BY <2>2 DEF Onto
  <2>4. InOrder(q, count, cells, f)
    BY <1>3, <2>1 DEF InOrder
  <2>5. SortedUp(f)
    BY <2>1, <2>2, <2>3, <2>4 DEF SortedUp
  <2> QED BY <1>1, <1>2, <1>3, <1>5, <2>1, <2>5 DEF Rearranges
<1>4. CASE ~(count < 2)
  <2>1. Becomes(l) /\ Rebuild(l)
    BY <1>1, <1>4
  <2>2. /\ Listing \in Listings /\ Judged(Listing, filter)
        /\ count \in Nat /\ count <= Len(cells) /\ Len(cells) \in Nat /\ Len(cells) <= MaxItems
        /\ Listing.cells = cells /\ Listing.count = count
    BY ListingIs, ListingFields DEF PlaylistInv
  <2>3. /\ Items \in Seq(Item) /\ Len(Items) = count /\ DOMAIN Items = 1 .. count
        /\ \A i \in 1 .. count : Items[i] = cells[i]
    BY <2>2, ItemsFacts DEF Items
  <2>4. s \in Seq(Item) /\ \E q : Arranges(q, s, Items) /\ (sortType' # "DESCENDING" => InOrder(q, Len(Items), Items, f))
    <3>1. Len(Items) # 0
      BY <1>4, <2>2, <2>3
    <3> QED BY <2>3, <3>1, MergeSortFacts
  <2> HIDE DEF s
  <2>5. PICK q : Arranges(q, s, Items) /\ (sortType' # "DESCENDING" => InOrder(q, Len(Items), Items, f))
    BY <2>4
  <2>6. /\ Len(s) = count /\ Onto(q, count, 1 .. count)
        /\ \A k \in 1 .. count : s[k] = Items[q[k]]
        /\ sortType' # "DESCENDING" => InOrder(q, count, Items, f)
    BY <2>3, <2>5 DEF Arranges
  <2>7. /\ Len(s) <= MaxItems
        /\ \A k \in 1 .. count : q[k] \in 1 .. count /\ s[k] = cells[q[k]]
        /\ \A i \in 1 .. count : \E k \in 1 .. count : q[k] = i
    <3>1. Len(s) <= MaxItems
      BY <2>2, <2>6, PlaylistAssumption
    <3>2. /\ \A k \in 1 .. count : q[k] \in 1 .. count
          /\ \A i \in 1 .. count : \E k \in 1 .. count : q[k] = i
      BY <2>6 DEF Onto
    <3> QED BY <2>3, <2>6, <3>1, <3>2
  <2>8. /\ a \in 0 .. count /\ (a # 0 => s[a].id = id)
        /\ active \in 1 .. count => a # 0
    <3>1. /\ a \in 0 .. count /\ (a # 0 => s[a].id = id)
          /\ a = 0 => \A i \in 1 .. count : s[i].id # id
      BY <2>4, <2>6, RealIndexFacts
    <3> HIDE DEF a
    <3>2. ASSUME active \in 1 .. count PROVE a # 0
      <4>1. PICK k \in 1 .. count : q[k] = active
        BY <2>7, <3>2
      <4>4. active # 0
        BY <2>2, <3>2
      <4>5. s[k] = cells[q[k]]
        BY <2>7, <4>1
      <4>2. active # 0 /\ s[k] = cells[active]
        BY <4>1, <4>4, <4>5
      <4>3. s[k].id = id
        BY <4>2
      <4> QED BY <3>1, <4>2
    <3> QED BY <3>1, <3>2
  <2> HIDE DEF a
  <2>9. /\ w \in Listings /\ w.count = count /\ Len(cells) <= Len(w.cells)
        /\ \A i \in 1 .. count : w.cells[i] = s[i]
    <3>1. /\ w \in Listings /\ w.count = Len(s)
          /\ Len(Listing.cells) <= Len(w.cells)
          /\ \A i \in 1 .. Len(s) : w.cells[i] = s[i]
      BY ONLY <2>2, <2>4, <2>7, WriteFacts
    <3> QED BY <2>2, <2>6, <3>1
  <2> HIDE DEF w
  <2>10. /\ l \in Listings /\ l.cells = w.cells /\ l.count = count
         /\ l.active <= count /\ l.active = a
    <3>1. w \in [cells : Arrays, count : Nat, active : Nat] /\ w.count <= Len(w.cells)
      BY <2>9 DEF Listings
    <3>2. Len(w.cells) \in Nat
      BY <2>9, ListingFields
    <3>3. a \in Nat /\ a <= Len(w.cells)
      BY <2>2, <2>8, <2>9, <3>2
    <3>4. l \in [cells : Arrays, count : Nat, active : Nat] /\ l.cells = w.cells
          /\ l.count = w.count /\ l.active = a
      BY <3>1, <3>3
    <3> HIDE DEF l
    <3>5. l.active <= count
      BY <2>2, <2>8, <3>4
    <3> QED BY <2>9, <3>1, <3>3, <3>4, <3>5 DEF Listings
  <2> HIDE DEF l
  <2>11. \A i \in 1 .. count : \E j \in 1 .. count : l.cells[i] = cells[j]
    <3>1. SUFFICES ASSUME NEW i \in 1 .. count
                   PROVE  \E j \in 1 .. count : l.cells[i] = cells[j]
      OBVIOUS
    <3>2. l.cells[i] = cells[q[i]] /\ q[i] \in 1 .. count
      BY <2>7, <2>9, <2>10
    <3> QED BY <3>2
  <2>13. l.active # 0 => l.cells[l.active].id = id
    <3>1. l.active # 0 => l.active \in 1 .. count
      BY <2>2, <2>8, <2>10
    <3> QED BY <2>8, <2>9, <2>10, <3>1
  <2>14. active \in 1 .. count => l.active # 0 /\ l.cells[l.active].id = cells[active].id
    BY <2>8, <2>10, <2>13
  <2>12. Rearranged(l)
    BY <2>10, <2>11, <2>14 DEF Rearranged
  <2>15. cells' = l.cells /\ count' = count /\ active' = l.active
    BY <2>1, <2>10 DEF Becomes
  <2>16. ASSUME sortType' = "ASCENDING" PROVE SortedUp(f)
    <3>1. InOrder(q, count, Items, f)
      BY <2>6, <2>16
    <3>2. InOrder(q, count, cells, f)
      <4>1. SUFFICES ASSUME NEW i \in 1 .. count, NEW j \in 1 .. count, i < j
                     PROVE  Precedes(cells, f, q[i], q[j])
        BY DEF InOrder
      <4>2. Precedes(Items, f, q[i], q[j])
        BY <3>1, <4>1 DEF InOrder
      <4>3. Items[q[i]] = cells[q[i]] /\ Items[q[j]] = cells[q[j]]
        BY <2>3, <2>7
      <4> QED BY <4>2, <4>3 DEF Precedes, KeyAt
    <3>3. \A k \in 1 .. count : cells'[k] = cells[q[k]]
      BY <2>7, <2>9, <2>10, <2>15
    <3> QED BY <2>6, <2>15, <3>2, <3>3 DEF SortedUp
  <2>17. active = 0 => active' = 0 \/ cells'[active'].id = 0
    BY <2>13, <2>15
  <2> QED BY <1>1, <1>2, <1>5, <2>1, <2>12, <2>16, <2>17 DEF Rearranges
<1> QED BY <1>3, <1>4

\* Moving and sorting.
LEMMA RearrangesStep ==
    ASSUME PlaylistInv, SettingsOK', UNCHANGED otherVars, Rearranges
    PROVE  PlaylistInv'
<1>1. filter' = filter /\ shuffle' = shuffle
  BY DEF otherVars
<1>2. CASE UNCHANGED <<cells, count, active, orders>>
  BY <1>1, <1>2, IdleStep
<1>3. CASE \E l : Rearranged(l) /\ Becomes(l) /\ Rebuild(l)
  BY <1>1, <1>3, RearrangeStep
<1> QED BY <1>2, <1>3 DEF Rearranges
----------------------------------------------------------------------------
(***************************************************************************)
(* The invariant, and what it gives.                                       *)
(***************************************************************************)

LEMMA InitInv ==
    ASSUME Init
    PROVE  PlaylistInv
<1>1. PICK ids \in Loaded, pass \in Filters :
        /\ cells = [k \in DOMAIN ids |-> [id |-> ids[k], out |-> ids[k] \notin pass]]
        /\ count = Len(ids) /\ filter = pass
        /\ normal = PassingIndexes(cells) /\ fresh = TRUE
        /\ \/ active = 0 /\ random \in Shuffles(normal, 0)
           \/ /\ active \in {RealIndexOf(cells, e) : e \in pass} \ {0}
              /\ random \in Shuffles(normal, 0)
           \/ /\ normal # <<>> /\ active = normal[1]
              /\ random \in Shuffles(normal, active)
        /\ shuffle \in BOOLEAN /\ heard = Reached
        /\ library = Entries /\ saved = <<>>
        /\ sortBy = "none" /\ sortType = "UNSORTED" /\ steps = 0
  BY DEF Init
<1>2. ids \in Seq(Entries) /\ Len(ids) <= MaxItems /\ MaxItems \in Nat
  BY PlaylistAssumption
<1>3. DOMAIN ids = 1 .. Len(ids) /\ Len(ids) \in Nat /\ \A k \in DOMAIN ids : ids[k] \in Entries
  BY <1>2, LenProperties, ElementOfSeq
<1>4. SettingsOK
  <2>1. saved \in Seq(Entries) /\ Len(saved) = 0
    BY <1>1, EmptySeq
  <2> QED BY <1>1, <1>2, <2>1 DEF SettingsOK
<1>5. /\ cells \in Seq(Item) /\ Len(cells) = Len(ids)
      /\ \A k \in 1 .. Len(ids) :
            cells[k].id = ids[k] /\ cells[k].out = (cells[k].id \notin pass)
  <2> DEFINE Cell(k) == [id |-> ids[k], out |-> ids[k] \notin pass]
  <2>1. \A k \in 1 .. Len(ids) : Cell(k) \in Item
    BY <1>3 DEF Item
  <2>2. \A k \in 1 .. Len(ids) :
            Cell(k).id = ids[k] /\ Cell(k).out = (ids[k] \notin pass)
    OBVIOUS
  <2>3. cells = [k \in 1 .. Len(ids) |-> Cell(k)]
    BY <1>1, <1>3
  <2> HIDE DEF Cell
  <2>4. cells \in [1 .. Len(ids) -> Item] /\ \A k \in 1 .. Len(ids) : cells[k] = Cell(k)
    BY <2>1, <2>3
  <2>5. cells \in Seq(Item)
    BY <1>3, <2>4
  <2>6. Len(cells) = Len(ids)
    BY <1>3, <2>4, <2>5, LenProperties
  <2> QED BY <2>2, <2>4, <2>5, <2>6
<1> DEFINE l == [cells |-> cells, count |-> count, active |-> 0]
<1>6. l \in Listings /\ l.cells = cells /\ l.count = count
  <2>1. cells \in Arrays
    BY <1>2, <1>5 DEF Arrays
  <2>2. count \in Nat /\ count <= Len(cells) /\ 0 <= Len(cells)
    BY <1>1, <1>3, <1>5
  <2> QED BY <2>1, <2>2 DEF Listings
<1> HIDE DEF l
<1>7. ItemsOf(l) = cells
  <2>1. ItemsOf(l) = SubSeq(cells, 1, Len(cells))
    BY <1>1, <1>5, <1>6 DEF ItemsOf
  <2> QED BY <1>5, <2>1, SubSeqFull
<1>8. /\ normal \in Seq(DOMAIN cells) /\ Increasing(normal) /\ Distinctly(normal)
      /\ ToSet(normal) = PassingOf(l)
  BY <1>1, <1>6, <1>7, PassingFacts
<1>9. DOMAIN cells = 1 .. Len(ids) /\ DOMAIN normal = 1 .. Len(normal) /\ Len(normal) \in Nat
  BY <1>5, <1>8, LenProperties
<1>10. \E a : random \in Shuffles(normal, a)
  BY <1>1
<1>11. /\ random \in Seq(DOMAIN cells) /\ Distinctly(random)
       /\ ToSet(random) = ToSet(normal) /\ Len(random) = Len(normal)
  BY <1>8, <1>10, ShuffledFacts
<1>12. active \in 0 .. Len(ids)
  <2>1. CASE active = 0
    BY <1>3, <2>1
  <2>2. CASE active \in {RealIndexOf(cells, e) : e \in pass} \ {0}
    <3>1. PICK e \in pass : active = RealIndexOf(cells, e)
      BY <2>2
    <3>2. RealIndexOf(cells, e) \in 0 .. Len(cells)
      BY <1>5, RealIndexFacts
    <3> QED BY <1>5, <2>2, <3>1, <3>2
  <2>3. CASE normal # <<>> /\ active = normal[1]
    <3>1. 1 \in 1 .. Len(normal)
      BY <1>8, <1>9, <2>3, EmptySeq
    <3>2. normal[1] \in DOMAIN cells
      BY <1>8, <3>1, ElementOfSeq
    <3> QED BY <1>3, <1>9, <2>3, <3>2
  <2> QED BY <1>1, <2>1, <2>2, <2>3
<1>13. Listing \in Listings
  <2>1. cells \in Arrays /\ count \in Nat /\ count <= Len(cells)
        /\ active \in Nat /\ active <= Len(cells)
    BY <1>1, <1>2, <1>3, <1>5, <1>12 DEF Arrays
  <2> QED BY <2>1 DEF Listings, Listing
<1>14. /\ OrdersOf(Listing, normal, random) /\ Judged(Listing, filter)
       /\ PassingOf(l) = PassingOf(Listing)
  <2>1. OrdersOf(Listing, normal, random)
    BY <1>8, <1>11, ListingIs DEF OrdersOf
  <2>2. Judged(Listing, filter)
    <3>1. filter = pass /\ count = Len(ids)
      BY <1>1
    <3> QED BY <1>5, <3>1, ListingIs DEF Judged
  <2>3. PassingOf(l) = PassingOf(Listing)
    BY <1>6, ListingIs DEF PassingOf
  <2> QED BY <2>1, <2>2, <2>3
<1>15. heard = {cells[PlayOrder[k]].id : k \in 1 .. PlaceIn(PlayOrder, active)}
  BY <1>1, ActivePlaceFacts DEF Reached, EntryAt
<1>16. heard \subseteq Entries
  <2>1. PlayOrder \in Seq(DOMAIN cells)
    BY <1>8, <1>11 DEF PlayOrder
  <2>2. ASSUME NEW k \in 1 .. PlaceIn(PlayOrder, active)
        PROVE  cells[PlayOrder[k]].id \in Entries
    <3>1. PlaceIn(PlayOrder, active) \in 0 .. Len(PlayOrder) /\ Len(PlayOrder) \in Nat
      BY <2>1, PlaceFacts, LenProperties
    <3>2. k \in DOMAIN PlayOrder
      <4>1. DOMAIN PlayOrder = 1 .. Len(PlayOrder)
        BY <2>1, LenProperties
      <4> HIDE DEF PlayOrder
      <4> QED BY <2>2, <3>1, <4>1
    <3>3. PlayOrder[k] \in DOMAIN cells
      BY <2>1, <3>2, ElementOfSeq
    <3> QED BY <1>3, <1>5, <1>9, <3>3
  <2> QED BY <1>15, <2>2
<1>17. OrderPlayed
  BY <1>15 DEF OrderPlayed, PlayOrder
<1> QED BY <1>1, <1>4, <1>8, <1>12, <1>13, <1>14, <1>16, <1>17 DEF PlaylistInv

LEMMA StepInv ==
    ASSUME PlaylistInv, [Next]_vars
    PROVE  PlaylistInv'
<1>1. CASE \E f \in Fields : Sort(f)
  BY <1>1, SortRearranges, RearrangesStep
<1>2. CASE \E e \in Entries : Add(e)
  BY <1>2, AddStep
<1>3. CASE \E to \in 1 .. Len(normal) + 1, sel \in Selections : Move(to, RealIndexes(sel))
  BY <1>3, MoveRearranges, RearrangesStep
<1>4. CASE \E sel \in Selections : DeleteSelected(sel)
  BY <1>4, DeleteSelectedStep
<1>5. CASE RemoveDuplicates
  BY <1>5, RemoveDuplicatesStep
<1>6. CASE \E e \in Entries : LibraryRemoves(e)
  BY <1>6, LibraryRemovesStep
<1>7. CASE \E pass \in Filters : SetFilter(pass)
  BY <1>7, SetFilterStep
<1>8. CASE SaveOrder
  BY <1>8, SaveOrderStep
<1>9. CASE ToggleShuffle
  BY <1>9, ToggleShuffleStep
<1>10. CASE RestoreOrder
  BY <1>10, RestoreOrderStep
<1>11. CASE PlayASong
  BY <1>11, PlayASongStep
<1>12. CASE UNCHANGED vars
  <2>1. UNCHANGED <<cells, count, active, orders, filter>> /\ shuffle' = shuffle
    BY <1>12 DEF vars, otherVars
  <2>2. SettingsOK'
    BY <1>12 DEF PlaylistInv, SettingsOK, vars, sortVars, otherVars
  <2> QED BY <2>1, <2>2, IdleStep
<1> QED BY <1>1, <1>2, <1>3, <1>4, <1>5, <1>6, <1>7, <1>8, <1>9, <1>10, <1>11, <1>12
       DEF Next, Edit

LEMMA PlaylistInvariant == Spec => []PlaylistInv
<1>1. Init => PlaylistInv
  BY InitInv
<1>2. PlaylistInv /\ [Next]_vars => PlaylistInv'
  BY StepInv
<1> QED BY <1>1, <1>2, PTL DEF Spec

\* However the list is edited, sorted, filtered, restored or played, every index
\* the program keeps of it stays inside the array's memory.
THEOREM PlaylistTypes == Spec => []TypeOK
<1>1. PlaylistInv => TypeOK
  BY InvTypes
<1> QED BY <1>1, PlaylistInvariant, PTL

\* Whenever the orders have been rebuilt after the last change, the view and the
\* player reach exactly the items that pass the filter: RebuildPlaylistArrays
\* trusts the mark that ApplyFilter left on each item, and no command leaves a
\* wrong one.
THEOREM OrdersReachAll == Spec => []IndexesExact
<1>1. PlaylistInv => IndexesExact
  BY InvIndexes
<1> QED BY <1>1, PlaylistInvariant, PTL

\* The shuffled songs come to their end only when each has been played since the
\* order was made, or lies in it before one that the user chose or the start did.
THEOREM ShuffleHearsAll == Spec => []ShufflePlaysAll
<1>1. PlaylistInv => ShufflePlaysAll
  <2> SUFFICES ASSUME PlaylistInv, shuffle, fresh, Distinct, normal # <<>>,
                      NextPlace("None") = 0, NEW e \in Passing
               PROVE  e \in heard
    BY DEF ShufflePlaysAll
  <2>1. "None" \in RepeatModes
    BY DEF RepeatModes
  <2>2. ActivePlace = Len(normal)
    BY <2>1, NextFacts
  <2>3. PlaceIn(random, active) = Len(normal)
    BY <2>2, ActivePlaceFacts DEF PlayOrder
  <2>4. PICK i \in DOMAIN normal : e = cells[normal[i]].id
    BY DEF Passing
  <2>5. normal[i] \in ToSet(random)
    BY <2>4, OrderFacts DEF ToSet
  <2>6. PICK k \in 1 .. Len(normal) : random[k] = normal[i]
    BY <2>5, OrderFacts DEF ToSet
  <2>7. \A j \in 1 .. PlaceIn(random, active) : cells[random[j]].id \in heard
    BY DEF PlaylistInv, OrderPlayed
  <2> QED BY <2>3, <2>4, <2>6, <2>7
<1> QED BY <1>1, PlaylistInvariant, PTL

----------------------------------------------------------------------------
(***************************************************************************)
(* Which commands make the list name a destroyed entry.                    *)
(***************************************************************************)

\* What l's items and its active item name is in the library.
Living(l, entries) ==
    /\ \A i \in 1 .. l.count : l.cells[i].id \in entries
    /\ l.active # 0 => l.cells[l.active].id \in entries

LEMMA NothingDangles ==
    ASSUME ~Dangling
    PROVE  /\ Living(Listing, library)
           /\ \A i \in ToSet(normal) : cells[i].id \in library
<1>1. \A i \in Named : cells[i].id \in library
  BY DEF Dangling
<1>2. (1 .. count) \subseteq Named /\ ToSet(normal) \subseteq Named
      /\ (active # 0 => active \in Named)
  BY DEF Named
<1> QED BY <1>1, <1>2, ListingIs DEF Living

LEMMA RebuiltLives ==
    ASSUME NEW m \in Listings, Becomes(m), Rebuilt(m), Living(m, library')
    PROVE  ~Dangling'
<1>1. ToSet(normal') \subseteq 1 .. m.count
  BY DEF Rebuilt, PassingOf
<1>2. cells' = m.cells /\ count' = m.count /\ active' = m.active
  BY DEF Becomes
<1>3. SUFFICES ASSUME NEW i \in Named' PROVE cells'[i].id \in library'
  BY DEF Dangling
<1>4. i \in 1 .. m.count \/ (i = m.active /\ m.active # 0)
  BY <1>1, <1>2 DEF Named
<1> QED BY <1>2, <1>4 DEF Living

LEMMA AppliedLives ==
    ASSUME NEW l \in Listings, NEW pass, ApplyFilter(l, pass), Living(l, library')
    PROVE  ~Dangling'
<1>1. PICK m : Applied(l, m, pass)
  BY ApplyFilterFacts
<1>2. /\ m \in Listings /\ m.count = l.count /\ m.active = l.active
      /\ \A i \in 1 .. Len(l.cells) : m.cells[i].id = l.cells[i].id
      /\ Becomes(m) /\ Rebuilt(m)
  BY <1>1 DEF Applied
<1>3. /\ l.count \in Nat /\ l.count <= Len(l.cells) /\ Len(l.cells) \in Nat
      /\ l.active \in Nat /\ l.active <= Len(l.cells)
  BY ListingFields
<1>4. Living(m, library')
  BY <1>2, <1>3 DEF Living
<1> QED BY <1>2, <1>4, RebuiltLives

\* A command that leaves the list and the library alone, and plays what is there.
LEMMA SameLives ==
    ASSUME ~Dangling, UNCHANGED <<cells, count, normal, library>>,
           active' \in {0, active} \cup ToSet(normal) \cup 1 .. count
    PROVE  ~Dangling'
<1>1. Named' \subseteq Named
  BY DEF Named
<1> QED BY <1>1 DEF Dangling

LEMMA RearrangesLives ==
    ASSUME PlaylistInv, ~Dangling, active <= count, UNCHANGED otherVars, Rearranges
    PROVE  ~Dangling'
<1>1. library' = library /\ Living(Listing, library) /\ active \in Nat /\ count \in Nat
  BY NothingDangles, ListingIs, ListingFields DEF otherVars, PlaylistInv
<1>2. CASE UNCHANGED <<cells, count, active, orders>>
  BY <1>1, <1>2, SameLives DEF orders
<1>3. CASE \E l : Rearranged(l) /\ Becomes(l) /\ Rebuild(l)
  <2>1. PICK l : Rearranged(l) /\ Becomes(l) /\ Rebuild(l)
    BY <1>3
  <2>2. /\ l \in Listings /\ l.count = count /\ (l.active <= count \/ l.active = active)
        /\ \A i \in 1 .. count : \E j \in 1 .. count : l.cells[i] = cells[j]
    BY <2>1 DEF Rearranged
  <2>3. \A i \in 1 .. count : l.cells[i].id \in library
    <3>1. SUFFICES ASSUME NEW i \in 1 .. count PROVE l.cells[i].id \in library
      OBVIOUS
    <3>2. PICK j \in 1 .. count : l.cells[i] = cells[j]
      BY <2>2
    <3> QED BY <1>1, <3>2, ListingIs DEF Living
  <2>4. l.active \in Nat /\ (l.active # 0 => l.active \in 1 .. count)
    BY <1>1, <2>2, ListingFields
  <2>5. Living(l, library')
    BY <1>1, <2>2, <2>3, <2>4 DEF Living
  <2> QED BY <2>1, <2>2, <2>5, RebuildFacts, RebuiltLives
<1> QED BY <1>2, <1>3 DEF Rearranges

LEMMA LeftLives ==
    ASSUME NEW l \in Listings, l.active <= l.count, NEW d, LeftOf(l, d),
           NEW entries, Living(l, entries)
    PROVE  /\ \A k \in 1 .. l.count : d.cells[k].id \in entries
           /\ Living(d, entries)
<1>1. /\ d \in Listings /\ d.count <= l.count /\ d.active <= l.active
      /\ \A k \in 1 .. l.count : \E j \in 1 .. l.count : d.cells[k] = l.cells[j]
  BY DEF LeftOf
<1>2. \A k \in 1 .. l.count : d.cells[k].id \in entries
  <2>1. SUFFICES ASSUME NEW k \in 1 .. l.count PROVE d.cells[k].id \in entries
    OBVIOUS
  <2>2. PICK j \in 1 .. l.count : d.cells[k] = l.cells[j]
    BY <1>1
  <2> QED BY <2>2 DEF Living
<1>3. /\ d.count \in Nat /\ l.count \in Nat /\ d.active \in Nat /\ l.active \in Nat
  BY <1>1, ListingFields
<1> QED BY <1>1, <1>2, <1>3 DEF Living

LEMMA AddLives ==
    ASSUME PlaylistInv, ~Dangling, active <= count, NEW e \in Entries, Add(e)
    PROVE  ~Dangling'
<1>1. e \in library /\ library' = library
  BY DEF Add, otherVars
<1>2. /\ Living(Listing, library) /\ active \in Nat /\ count \in Nat
      /\ Listing.cells = cells /\ Listing.count = count
  BY NothingDangles, ListingIs, ListingFields DEF PlaylistInv
<1>3. PICK l : Added(l, e)
  BY AddFacts
<1>4. /\ l \in Listings /\ l.count = count + 1 /\ l.active = active
      /\ \A k \in 1 .. count : l.cells[k] = cells[k]
      /\ l.cells[count + 1].id = e /\ ApplyFilter(l, filter)
  BY <1>3 DEF Added
<1>5. \A k \in 1 .. count + 1 : l.cells[k].id \in library
  <2>1. SUFFICES ASSUME NEW k \in 1 .. count + 1 PROVE l.cells[k].id \in library
    OBVIOUS
  <2>2. CASE k = count + 1
    BY <1>1, <1>4, <2>2
  <2>3. CASE k # count + 1
    <3>1. k \in 1 .. count
      BY <1>2, <2>3
    <3> QED BY <1>2, <1>4, <3>1 DEF Living
  <2> QED BY <2>2, <2>3
<1>6. active # 0 => active \in 1 .. count + 1
  BY <1>2
<1>7. Living(l, library')
  BY <1>1, <1>4, <1>5, <1>6 DEF Living
<1> QED BY <1>4, <1>7, AppliedLives

LEMMA RestoreLives ==
    ASSUME PlaylistInv, ~Dangling, active <= count, RestoreOrder,
           ToSet(saved) \subseteq library
    PROVE  ~Dangling'
<1> DEFINE s == [k \in DOMAIN saved |-> [id |-> saved[k], out |-> FALSE]]
           l == Write(Listing, s)
<1>1. ApplyFilter(l, filter) /\ library' = library
  BY DEF RestoreOrder, otherVars
<1>2. Listing \in Listings /\ saved \in Seq(Entries) /\ Len(saved) <= MaxItems
  BY DEF PlaylistInv, SettingsOK
<1>3. DOMAIN saved = 1 .. Len(saved) /\ Len(saved) \in Nat
  BY <1>2, LenProperties
<1>4. \A k \in 1 .. Len(saved) : [id |-> saved[k], out |-> FALSE] \in Item
  BY <1>2, ElementOfSeq DEF Item
<1>5. s \in [1 .. Len(saved) -> Item] /\ \A k \in 1 .. Len(saved) : s[k].id = saved[k]
  BY <1>3, <1>4
<1> HIDE DEF s
<1>6. s \in Seq(Item)
  BY <1>3, <1>5
<1>7. Len(s) = Len(saved)
  BY <1>3, <1>5, <1>6, LenProperties
<1>8. /\ l \in Listings /\ l.count = Len(saved) /\ l.active = active
      /\ \A k \in 1 .. Len(saved) : l.cells[k] = s[k]
      /\ \A k \in Len(saved) + 1 .. Len(cells) : l.cells[k] = cells[k]
  BY <1>2, <1>6, <1>7, WriteFacts, ListingIs
<1> HIDE DEF l
<1>9. /\ active \in Nat /\ active <= Len(cells) /\ Len(cells) \in Nat
      /\ active # 0 => cells[active].id \in library
  BY <1>2, NothingDangles, ListingIs, ListingFields DEF Living
<1>10. \A k \in 1 .. Len(saved) : l.cells[k].id \in library
  BY <1>3, <1>5, <1>8 DEF ToSet
<1>11. active # 0 => l.cells[active].id \in library
  <2>1. SUFFICES ASSUME active # 0 PROVE l.cells[active].id \in library
    OBVIOUS
  <2>2. active \in 1 .. Len(saved) \/ active \in Len(saved) + 1 .. Len(cells)
    BY <1>3, <1>9, <2>1
  <2> QED BY <1>8, <1>9, <1>10, <2>1, <2>2
<1>12. Living(l, library')
  BY <1>1, <1>8, <1>10, <1>11 DEF Living
<1> QED BY <1>1, <1>8, <1>12, AppliedLives

\* An entry that occurs once is gone when its first item is.
LEMMA OnceOnly ==
    ASSUME PlaylistInv, NEW e, ~(Occurs(e) > 1),
           NEW i \in 1 .. count, NEW j \in 1 .. count,
           cells[i].id = e, cells[j].id = e
    PROVE  i = j
<1> DEFINE T == {k \in 1 .. count : cells[k].id = e}
<1>1. 1 \in Int /\ count \in Int
  BY ListingIs, ListingFields DEF PlaylistInv
<1>2. IsFiniteSet(1 .. count)
  BY ONLY <1>1, FS_Interval
<1>3. T \subseteq 1 .. count
  OBVIOUS
<1>4. Occurs(e) = Cardinality(T) /\ i \in T /\ j \in T
  BY DEF Occurs
<1> HIDE DEF T
<1>5. IsFiniteSet(T)
  BY ONLY <1>2, <1>3, FS_Subset
<1>6. /\ Cardinality(T) \in Nat
      /\ IsFiniteSet(T \ {i}) /\ Cardinality(T \ {i}) = Cardinality(T) - 1
  BY ONLY <1>4, <1>5, FS_CardinalityType, FS_RemoveElement
<1>7. Cardinality(T \ {i}) \in Nat
  BY ONLY <1>6, FS_CardinalityType
<1>8. Cardinality(T \ {i}) = 0
  BY <1>4, <1>6, <1>7
<1>9. T \ {i} = {}
  BY ONLY <1>6, <1>8, FS_EmptySet
<1> QED BY <1>4, <1>9

LEMMA LibraryRemovesLives ==
    ASSUME PlaylistInv, ~Dangling, active <= count, NEW e \in Entries, LibraryRemoves(e),
           ~(Occurs(e) > 1)
    PROVE  ~Dangling'
<1> DEFINE T == {k \in 1 .. Len(ItemsOf(Listing)) : ItemsOf(Listing)[k].id = e}
           i == RealIndexOf(ItemsOf(Listing), e)
           d == DeleteAllItemsWhereEntryIDEquals(Listing, e)
           at(k) == IF k \in i .. count - 1 THEN k + 1 ELSE k
<1>1. /\ library' = library \ {e} /\ ApplyFilter(d, filter)
  BY DEF LibraryRemoves
<1>2. /\ Listing \in Listings /\ Listing.count = count /\ Listing.cells = cells
      /\ Listing.active = active /\ Living(Listing, library)
  BY NothingDangles, ListingIs DEF PlaylistInv
<1>3. /\ Len(ItemsOf(Listing)) = count /\ count \in Nat /\ active \in Nat
      /\ count <= Len(cells) /\ Len(cells) \in Nat
      /\ \A k \in 1 .. count : ItemsOf(Listing)[k] = cells[k]
  BY <1>2, ItemsFacts, ListingFields
<1>4. d = IF i = 0 THEN Listing ELSE DeleteRealIndex(Listing, i)
  BY DEF DeleteAllItemsWhereEntryIDEquals
<1>5. i = Least(T)
  BY DEF RealIndexOf, FirstOf, Least
<1>6. T = {k \in 1 .. count : cells[k].id = e}
  BY <1>3
<1> HIDE DEF T, i, d
<1>7. i \in 0 .. count /\ (i = 0 <=> T = {}) /\ (i # 0 => i \in T)
  <2>1. T \in SUBSET (1 .. count)
    BY <1>6
  <2> QED BY <1>3, <1>5, <2>1, LeastFacts
<1>8. \A k \in 1 .. count : cells[k].id \in library
  BY <1>2 DEF Living
<1>9. d \in Listings /\ Living(d, library')
  <2>1. CASE i = 0
    <3>1. \A k \in 1 .. count : cells[k].id \in library'
      BY <1>1, <1>6, <1>7, <1>8, <2>1
    <3>2. active # 0 => active \in 1 .. count
      BY <1>3
    <3> QED BY <1>2, <1>4, <2>1, <3>1, <3>2 DEF Living
  <2>2. CASE i # 0
    <3>1. i \in 1 .. count /\ cells[i].id = e /\ count # 0 /\ i \in Nat
      BY <1>3, <1>6, <1>7, <2>2
    <3>2. /\ d \in Listings /\ d.count = count - 1
          /\ d.active = ActiveAfter(active, i)
          /\ \A k \in 1 .. Len(cells) : d.cells[k] = cells[at(k)]
      BY <1>2, <1>4, <2>2, <3>1, DeleteFacts
    <3>3. \A k \in 1 .. count - 1 : k \in 1 .. Len(cells)
                                    /\ at(k) \in 1 .. count /\ at(k) # i
      BY <1>3, <3>1
    <3> HIDE DEF at
    <3>4. \A k \in 1 .. count : k # i => cells[k].id \in library'
      <4>1. SUFFICES ASSUME NEW k \in 1 .. count, k # i PROVE cells[k].id \in library'
        OBVIOUS
      <4>2. cells[k].id # e
        BY <3>1, <4>1, OnceOnly
      <4> QED BY <1>1, <1>8, <4>2
    <3>5. \A k \in 1 .. count - 1 : d.cells[k].id \in library'
      BY <3>2, <3>3, <3>4
    <3>6. d.active # 0 => d.active \in 1 .. count - 1
      <4>1. d.active = IF active = i THEN 0 ELSE IF active > i THEN active - 1 ELSE active
        BY <1>3, <3>1, <3>2 DEF ActiveAfter
      <4> QED BY <1>3, <3>1, <4>1
    <3> QED BY <3>2, <3>5, <3>6 DEF Living
  <2> QED BY <2>1, <2>2
<1> QED BY <1>1, <1>9, AppliedLives

LEMMA RemoveDuplicatesLives ==
    ASSUME PlaylistInv, ~Dangling, active <= count, RemoveDuplicates
    PROVE  ~Dangling'
<1>1. Valid(normal) /\ normal' = normal /\ library' = library
  BY DEF RemoveDuplicates, otherVars
<1>2. PICK l, a : Removed(l, a)
  BY RemovedFacts
<1> DEFINE m == [l EXCEPT !.active = a]
<1>3. /\ LeftOf(Listing, l) /\ (a = l.active \/ a \in 1 .. count) /\ a \in Nat /\ Becomes(m)
  BY <1>2 DEF Removed
<1>4. /\ Listing \in Listings /\ Listing.count = count /\ Listing.active = active
      /\ Living(Listing, library)
  BY NothingDangles, ListingIs DEF PlaylistInv
<1>5. /\ \A k \in 1 .. count : l.cells[k].id \in library
      /\ Living(l, library)
  BY <1>3, <1>4, LeftLives
<1>6. l \in Listings /\ l.count <= count /\ l.count \in Nat /\ count \in Nat
  BY <1>3, <1>4, ListingFields DEF LeftOf
<1>7. m.cells = l.cells /\ m.count = l.count /\ m.active = a
  BY <1>3, <1>6 DEF Listings
<1> HIDE DEF m
<1>8. cells' = l.cells /\ count' = l.count /\ active' = a
  BY <1>3, <1>7 DEF Becomes
<1>9. ToSet(normal) \subseteq 1 .. count
  BY <1>1 DEF Valid, ToSet
<1>10. SUFFICES ASSUME NEW i \in Named' PROVE cells'[i].id \in library'
  BY DEF Dangling
<1>11. i \in 1 .. count \/ (i = a /\ a # 0)
  <2>1. i \in 1 .. l.count \/ i \in ToSet(normal) \/ (i = a /\ a # 0)
    BY <1>1, <1>8 DEF Named
  <2> QED BY <1>6, <1>9, <2>1
<1> QED BY <1>1, <1>3, <1>5, <1>8, <1>11 DEF Living

\* Where the active index is in the list, only two commands let it dangle.
LEMMA StepLives ==
    ASSUME PlaylistInv, Next, active <= count,
           ~(\E e \in library \ library' : Occurs(e) > 1),
           ~(library' = library /\ ~(ToSet(saved) \subseteq library))
    PROVE  ~Dangling'
<1>1. /\ Listing \in Listings /\ Listing.count = count /\ Listing.active = active
  BY ListingIs DEF PlaylistInv
<1>2. CASE \E f \in Fields : Sort(f)
  <2>1. ~Dangling
    BY <1>2 DEF Sort, Command
  <2> QED BY <1>2, <2>1, SortRearranges, RearrangesLives
<1>3. CASE \E e \in Entries : Add(e)
  <2>1. ~Dangling
    BY <1>3 DEF Add, Command
  <2> QED BY <1>3, <2>1, AddLives
<1>4. CASE \E to \in 1 .. Len(normal) + 1, sel \in Selections : Move(to, RealIndexes(sel))
  <2>1. ~Dangling
    BY <1>4 DEF Move, Command
  <2> QED BY <1>4, <2>1, MoveRearranges, RearrangesLives
<1>5. CASE \E sel \in Selections : DeleteSelected(sel)
  <2>1. PICK sel \in Selections : DeleteSelected(sel)
    BY <1>5
  <2>2. ~Dangling /\ library' = library
    BY <2>1 DEF DeleteSelected, Command, otherVars
  <2>3. PICK d : LeftOf(Listing, d) /\ ApplyFilter(d, filter)
    BY <2>1, SelectedLeft
  <2>4. Living(d, library') /\ d \in Listings
    BY <1>1, <2>2, <2>3, NothingDangles, LeftLives DEF LeftOf
  <2> QED BY <2>3, <2>4, AppliedLives
<1>6. CASE RemoveDuplicates
  <2>1. ~Dangling
    BY <1>6 DEF RemoveDuplicates, Command
  <2> QED BY <1>6, <2>1, RemoveDuplicatesLives
<1>7. CASE \E e \in Entries : LibraryRemoves(e)
  <2>1. PICK e \in Entries : LibraryRemoves(e)
    BY <1>7
  <2>2. ~Dangling /\ e \in library \ library'
    BY <2>1 DEF LibraryRemoves, Command
  <2> QED BY <2>1, <2>2, LibraryRemovesLives
<1>8. CASE \E pass \in Filters : SetFilter(pass)
  <2>1. PICK pass \in Filters : SetFilter(pass)
    BY <1>8
  <2>2. ~Dangling /\ library' = library /\ ApplyFilter(Listing, pass)
    BY <2>1 DEF SetFilter, Command
  <2>3. Living(Listing, library')
    BY <2>2, NothingDangles
  <2> QED BY <1>1, <2>2, <2>3, AppliedLives
<1>9. CASE SaveOrder
  <2>1. ~Dangling /\ UNCHANGED <<cells, count, normal, library>> /\ active' = active
    BY <1>9 DEF SaveOrder, Command, orders
  <2> QED BY <2>1, SameLives
<1>10. CASE ToggleShuffle
  <2>1. /\ ~Dangling /\ UNCHANGED <<cells, count, active, library>>
        /\ IF shuffle THEN UNCHANGED orders ELSE Rebuild(Listing)
    BY <1>10 DEF ToggleShuffle, Command
  <2>2. CASE shuffle
    BY <2>1, <2>2, SameLives DEF orders
  <2>3. CASE ~shuffle
    <3>1. Becomes(Listing)
      BY <2>1, ListingIs DEF Becomes
    <3>2. Living(Listing, library')
      BY <2>1, NothingDangles
    <3> QED BY <1>1, <2>1, <2>3, <3>1, <3>2, RebuildFacts, RebuiltLives
  <2> QED BY <2>2, <2>3
<1>11. CASE RestoreOrder
  <2>1. ~Dangling /\ library' = library
    BY <1>11 DEF RestoreOrder, Command, otherVars
  <2> QED BY <1>11, <2>1, RestoreLives
<1>12. CASE PlayASong
  <2>1. PICK e : PlayEntry(e)
    BY <1>12 DEF PlayASong, NextSong, PreviousSong, Play
  <2>2. ~Dangling
    BY <2>1 DEF PlayEntry, Command
  <2>3. UNCHANGED <<cells, count, normal, library>>
        /\ active' \in {0} \cup ToSet(normal) \cup 1 .. count
    BY <2>1, PlayEntryFacts DEF otherVars
  <2> QED BY <2>2, <2>3, SameLives
<1> QED BY <1>2, <1>3, <1>4, <1>5, <1>6, <1>7, <1>8, <1>9, <1>10, <1>11, <1>12
       DEF Next, Edit

\* The list comes to name an entry that the library has destroyed only when the
\* library drops one that the list has twice, as DeleteAllItemsWhereEntryIDEquals
\* deletes one item; when RemoveDuplicates left the active index beyond the end;
\* or when RestoreOrder brings back an entry that went since the order was saved.
THEOREM DanglingIsExplained == Spec => OnlyTheseDangle
<1>1. ASSUME PlaylistInv, [Next]_vars
      PROVE  [Dangling' => \/ \E e \in library \ library' : Occurs(e) > 1
                           \/ active > count
                           \/ library' = library /\ ~(ToSet(saved) \subseteq library)]_vars
  <2>1. active \in Nat /\ count \in Nat
    BY <1>1, ListingIs, ListingFields DEF PlaylistInv
  <2>2. ~(active > count) => active <= count
    BY <2>1
  <2> QED BY <1>1, <2>2, StepLives
<1> QED BY <1>1, PlaylistInvariant, PTL DEF Spec, OnlyTheseDangle

----------------------------------------------------------------------------
(***************************************************************************)
(* A sort upwards is a stable one.                                         *)
(***************************************************************************)

\* The k-th item of a stable order has k - 1 items ahead of it.
LEMMA AheadFacts ==
    ASSUME PlaylistInv, NEW f \in Fields, NEW q,
           Onto(q, count, 1 .. count), InOrder(q, count, cells, f),
           NEW k \in 1 .. count
    PROVE  Cardinality({j \in 1 .. count : Precedes(cells, f, j, q[k])}) = k - 1
<1> DEFINE t == [i \in 1 .. k - 1 |-> q[i]]
<1>1. /\ count \in Nat /\ count <= Len(cells) /\ cells \in Seq(Item)
      /\ \A i \in 1 .. count : KeyAt(cells, f, i) \in Nat
  <2>1. count \in Nat /\ count <= Len(cells) /\ cells \in Seq(Item)
    BY ListingIs, ListingFields DEF PlaylistInv
  <2>2. \A i \in 1 .. Len(cells) : KeyAt(cells, f, i) \in Nat
    BY <2>1, KeysAreNumbers
  <2> QED BY <2>1, <2>2, LenProperties
<1>2. /\ \A i \in 1 .. count : q[i] \in 1 .. count
      /\ \A j \in 1 .. count : \E i \in 1 .. count : q[i] = j
  BY DEF Onto
<1>3. \A i, j \in 1 .. count : i < j => Precedes(cells, f, q[i], q[j])
  BY DEF InOrder
<1>4. \A i, j \in 1 .. count : Precedes(cells, f, i, j) => ~Precedes(cells, f, j, i)
  BY <1>1 DEF Precedes
<1>5. \A i, j \in 1 .. count : i # j => q[i] # q[j]
  <2>1. SUFFICES ASSUME NEW i \in 1 .. count, NEW j \in 1 .. count, i < j
                 PROVE  q[i] # q[j]
    BY <1>1
  <2> QED BY <1>2, <1>3, <1>4, <2>1
<1>7. /\ t \in Seq(1 .. count) /\ Len(t) = k - 1 /\ DOMAIN t = 1 .. k - 1
      /\ \A i \in 1 .. k - 1 : t[i] = q[i] /\ i \in 1 .. count /\ i < k
  <2>1. \A i \in 1 .. k - 1 : i \in 1 .. count /\ i < k
    BY <1>1
  <2>2. k - 1 \in Nat
    BY <1>1
  <2> QED BY <1>2, <2>1, <2>2, IsASeq
<1> HIDE DEF t
<1>8. Distinctly(t)
  BY <1>5, <1>7 DEF Distinctly
<1>9. ToSet(t) = {j \in 1 .. count : Precedes(cells, f, j, q[k])}
  <2>1. ASSUME NEW j \in ToSet(t)
        PROVE  j \in 1 .. count /\ Precedes(cells, f, j, q[k])
    <3>1. PICK i \in 1 .. k - 1 : t[i] = j
      BY <1>7, <2>1 DEF ToSet
    <3> QED BY <1>2, <1>3, <1>7, <3>1
  <2>2. ASSUME NEW j \in 1 .. count, Precedes(cells, f, j, q[k])
        PROVE  j \in ToSet(t)
    <3>1. PICK i \in 1 .. count : q[i] = j
      BY <1>2
    <3>2. ~(k < i) /\ k # i
      BY <1>2, <1>3, <1>4, <2>2, <3>1
    <3>3. i \in 1 .. k - 1
      BY <1>1, <3>2
    <3> QED BY <1>7, <3>1, <3>3 DEF ToSet
  <2> QED BY <2>1, <2>2
<1> QED BY <1>7, <1>8, <1>9, DistinctLength

LEMMA OnlySortSorts ==
    ASSUME Next, sortVars' # sortVars
    PROVE  \E f \in Fields : Sort(f)
<1>1. SUFFICES ASSUME ~(\E f \in Fields : Sort(f)) PROVE sortVars' = sortVars
  OBVIOUS
<1>2. CASE PlayASong
  BY <1>2 DEF PlayASong, NextSong, PreviousSong, Play, PlayEntry
<1>3. CASE RestoreOrder
  BY <1>3 DEF RestoreOrder
<1>4. CASE Edit
  BY <1>1, <1>4 DEF Edit, Add, Move, DeleteSelected, RemoveDuplicates, LibraryRemoves,
                    SetFilter, SaveOrder, ToggleShuffle
<1> QED BY <1>2, <1>3, <1>4 DEF Next

\* A sort upwards gives the list in the order of the column, with those that are
\* alike there in the order they had, whatever the list was: MergeUp takes the
\* left item first when two are alike, and halves that meet in order are left
\* alone.
THEOREM SortsUpwards == Spec => AscendingSorts
<1>1. ASSUME PlaylistInv, [Next]_vars
      PROVE  [(sortVars' # sortVars /\ sortType' = "ASCENDING")
                 => /\ count' = count
                    /\ \A i \in 1 .. count :
                          cells'[Cardinality(Ahead(sortBy', <, i)) + 1] = cells[i]]_vars
  <2>1. SUFFICES ASSUME Next, sortVars' # sortVars, sortType' = "ASCENDING"
                 PROVE  /\ count' = count
                        /\ \A i \in 1 .. count :
                              cells'[Cardinality(Ahead(sortBy', <, i)) + 1] = cells[i]
    BY <1>1
  <2>2. PICK f \in Fields : Sort(f)
    BY <2>1, OnlySortSorts
  <2>3. sortBy' = f /\ SortedUp(f)
    BY <1>1, <2>1, <2>2, SortRearranges
  <2>4. PICK q : /\ Onto(q, count, 1 .. count) /\ InOrder(q, count, cells, f)
                 /\ \A k \in 1 .. count : cells'[k] = cells[q[k]]
    BY <2>3 DEF SortedUp
  <2>5. ASSUME NEW i \in 1 .. count
        PROVE  cells'[Cardinality(Ahead(sortBy', <, i)) + 1] = cells[i]
    <3>1. PICK k \in 1 .. count : q[k] = i
      BY <2>4 DEF Onto
    <3> DEFINE A == {j \in 1 .. count : Precedes(cells, f, j, i)}
               c == Cardinality(A)
    <3>2. Ahead(sortBy', <, i) = A
      BY <2>3 DEF Ahead, Precedes, KeyAt
    <3>3. c = k - 1
      BY <1>1, <2>4, <3>1, AheadFacts
    <3>4. c + 1 = k
      <4> HIDE DEF c
      <4> QED BY <3>3
    <3>5. cells'[c + 1] = cells[i]
      BY <2>4, <3>1, <3>4
    <3> HIDE DEF A
    <3> QED BY <3>2, <3>5
  <2> QED BY <2>3, <2>5 DEF SortedUp
<1> QED BY <1>1, PlaylistInvariant, PTL DEF Spec, AscendingSorts

----------------------------------------------------------------------------
(***************************************************************************)
(* The active song stays the active one.                                   *)
(***************************************************************************)

LEMMA FollowsApplied ==
    ASSUME PlaylistInv, NEW l \in Listings, NEW pass, ApplyFilter(l, pass),
           Followed(Listing, l)
    PROVE  Followed(Listing, Listing')
<1>1. PICK m : Applied(l, m, pass)
  BY ApplyFilterFacts
<1>2. /\ m \in Listings /\ m.count = l.count /\ m.active = l.active
      /\ \A i \in 1 .. Len(l.cells) : m.cells[i].id = l.cells[i].id
      /\ Listing' = m
  BY <1>1, ListingBecomes DEF Applied
<1>3. /\ l.count \in Nat /\ l.count <= Len(l.cells) /\ Len(l.cells) \in Nat
      /\ l.active \in Nat /\ l.active <= Len(l.cells)
  BY ListingFields
<1>4. ASSUME NEW e PROVE Occ(m, e) = Occ(l, e)
  <2>1. \A k \in 1 .. l.count : k \in 1 .. Len(l.cells)
    BY <1>3
  <2>2. {k \in 1 .. m.count : m.cells[k].id = e} = {k \in 1 .. l.count : l.cells[k].id = e}
    BY <1>2, <2>1
  <2> QED BY <2>2 DEF Occ
<1>5. l.active # 0 => m.cells[l.active].id = l.cells[l.active].id
  BY <1>2, <1>3
<1> QED BY <1>2, <1>4, <1>5 DEF Followed

LEMMA FollowsIdly ==
    ASSUME NEW l, l.active = active, active # 0 => l.cells[active].id = cells[active].id
    PROVE  Followed(Listing, l)
  BY ListingIs DEF Followed

LEMMA RearrangesFollows ==
    ASSUME PlaylistInv, active <= count, Rearranges, active = 0 => active' = 0
    PROVE  Followed(Listing, Listing')
<1>1. active \in Nat /\ count \in Nat
  BY ListingIs, ListingFields DEF PlaylistInv
<1>2. CASE UNCHANGED <<cells, count, active, orders>>
  BY <1>2, ListingIs, FollowsIdly
<1>3. CASE \E l : Rearranged(l) /\ Becomes(l) /\ Rebuild(l)
  <2>1. PICK l : Rearranged(l) /\ Becomes(l) /\ Rebuild(l)
    BY <1>3
  <2>2. l \in Listings /\ (active \in 1 .. count =>
                              l.active # 0 /\ l.cells[l.active].id = cells[active].id)
    BY <2>1 DEF Rearranged
  <2>3. Listing' = l /\ l.active = active'
    BY <2>1, <2>2, ListingBecomes, ListingIs
  <2>4. active # 0 => active \in 1 .. count
    BY <1>1
  <2> QED BY <2>2, <2>3, <2>4, ListingIs DEF Followed
<1> QED BY <1>2, <1>3 DEF Rearranges

LEMMA SortFollows ==
    ASSUME PlaylistInv, active <= count, NEW f \in Fields, Sort(f)
    PROVE  \/ Followed(Listing, Listing')
           \/ active = 0 /\ sortVars' # sortVars /\ cells'[active'].id = 0
<1>1. /\ Rearranges /\ sortVars' # sortVars
      /\ active = 0 => active' = 0 \/ cells'[active'].id = 0
  BY SortRearranges
<1> QED BY <1>1, RearrangesFollows

LEMMA LibraryRemovesFollows ==
    ASSUME PlaylistInv, active <= count, NEW e \in Entries, LibraryRemoves(e)
    PROVE  Followed(Listing, Listing')
<1> DEFINE i == RealIndexOf(ItemsOf(Listing), e)
           d == DeleteAllItemsWhereEntryIDEquals(Listing, e)
<1>1. ApplyFilter(d, filter)
  BY DEF LibraryRemoves
<1>2. /\ Listing \in Listings /\ Listing.count = count /\ Listing.active = active
      /\ Listing.cells = cells
  BY ListingIs DEF PlaylistInv
<1>3. i \in 0 .. count /\ count \in Nat
  BY <1>2, ItemsFacts, RealIndexFacts, ListingFields
<1>4. d = IF i = 0 THEN Listing ELSE DeleteRealIndex(Listing, i)
  BY DEF DeleteAllItemsWhereEntryIDEquals
<1> HIDE DEF i, d
<1>5. Survives(Listing, Listing)
  <2>1. ASSUME NEW x PROVE Occ(Listing, x) <= Occ(Listing, x)
    <3>1. Occ(Listing, x) \in Nat
      BY <1>2, OccFacts
    <3> QED BY <3>1
  <2> QED BY <1>2, <2>1 DEF Survives, Followed
<1>6. d \in Listings /\ Followed(Listing, d)
  <2>1. CASE i = 0
    BY <1>2, <1>4, <1>5, <2>1 DEF Survives
  <2>2. CASE i # 0
    <3>1. i \in 1 .. Listing.count /\ i \in Nat /\ Listing.count # 0
      BY <1>2, <1>3, <2>2
    <3>2. DeleteRealIndex(Listing, i) \in Listings
      BY <1>2, <3>1, DeleteFacts
    <3>3. Survives(Listing, DeleteRealIndex(Listing, i))
      BY <1>2, <1>5, <3>1, SurvivesDelete
    <3> QED BY <1>4, <2>2, <3>2, <3>3 DEF Survives
  <2> QED BY <2>1, <2>2
<1> QED BY <1>1, <1>6, FollowsApplied

LEMMA RemoveDuplicatesFollows ==
    ASSUME PlaylistInv, active <= count, RemoveDuplicates
    PROVE  Followed(Listing, Listing')
<1>1. PICK l, a : Removed(l, a)
  BY RemovedFacts
<1> DEFINE m == [l EXCEPT !.active = a]
<1>2. /\ LeftOf(Listing, l) /\ Survives(Listing, l)
      /\ a \in Nat /\ a <= Len(l.cells)
      /\ \/ a = l.active
         \/ active # 0 /\ a \in 1 .. count /\ l.cells[a].id = cells[active].id
      /\ Becomes(m)
  BY <1>1 DEF Removed
<1>3. l \in Listings
  BY <1>2 DEF LeftOf
<1>4. m \in Listings /\ m.cells = l.cells /\ m.count = l.count /\ m.active = a
  BY <1>2, <1>3 DEF Listings
<1> HIDE DEF m
<1>5. Listing' = m /\ Listing.active = active /\ Listing.cells = cells
  BY <1>2, <1>4, ListingBecomes, ListingIs
<1>6. \A e : Occ(m, e) = Occ(l, e)
  BY <1>4 DEF Occ
<1>7. CASE a = l.active
  BY <1>2, <1>4, <1>5, <1>6, <1>7 DEF Survives, Followed
<1>8. CASE active # 0 /\ a \in 1 .. count /\ l.cells[a].id = cells[active].id
  <2>1. a # 0
    BY <1>8
  <2> QED BY <1>4, <1>5, <1>8, <2>1 DEF Followed
<1> QED BY <1>2, <1>7, <1>8

\* An edit keeps the active song, or a sort with none active finds the one whose
\* ID is NULL.
LEMMA EditFollows ==
    ASSUME PlaylistInv, Edit, active <= count
    PROVE  \/ Followed(Listing, Listing')
           \/ active = 0 /\ sortVars' # sortVars /\ cells'[active'].id = 0
<1>1. /\ Listing \in Listings /\ Listing.count = count /\ Listing.active = active
      /\ Listing.cells = cells /\ active \in Nat /\ count \in Nat
  BY ListingIs, ListingFields DEF PlaylistInv
<1>2. CASE \E f \in Fields : Sort(f)
  BY <1>2, SortFollows
<1>3. CASE \E e \in Entries : Add(e)
  <2>1. PICK e \in Entries : Add(e)
    BY <1>3
  <2>2. PICK l : Added(l, e)
    BY <2>1, AddFacts
  <2>3. /\ l \in Listings /\ l.active = active /\ ApplyFilter(l, filter)
        /\ \A k \in 1 .. count : l.cells[k] = cells[k]
    BY <2>2 DEF Added
  <2>4. active # 0 => l.cells[active].id = cells[active].id
    BY <1>1, <2>3
  <2> QED BY <2>3, <2>4, FollowsIdly, FollowsApplied
<1>4. CASE \E to \in 1 .. Len(normal) + 1, sel \in Selections : Move(to, RealIndexes(sel))
  BY <1>4, MoveRearranges, RearrangesFollows
<1>5. CASE \E sel \in Selections : DeleteSelected(sel)
  <2>1. PICK d : /\ LeftOf(Listing, d) /\ ApplyFilter(d, filter)
                 /\ active <= count => Survives(Listing, d)
    BY <1>5, SelectedLeft
  <2> QED BY <2>1, FollowsApplied DEF LeftOf, Survives
<1>6. CASE RemoveDuplicates
  BY <1>6, RemoveDuplicatesFollows
<1>7. CASE \E e \in Entries : LibraryRemoves(e)
  BY <1>7, LibraryRemovesFollows
<1>8. CASE \E pass \in Filters : SetFilter(pass)
  <2>1. PICK pass \in Filters : SetFilter(pass)
    BY <1>8
  <2>2. ApplyFilter(Listing, pass)
    BY <2>1 DEF SetFilter
  <2>3. Followed(Listing, Listing)
    BY <1>1, FollowsIdly
  <2> QED BY <1>1, <2>2, <2>3, FollowsApplied
<1>9. CASE SaveOrder \/ ToggleShuffle
  <2>1. UNCHANGED <<cells, count, active>>
    BY <1>9 DEF SaveOrder, ToggleShuffle
  <2> QED BY <2>1, ListingIs, FollowsIdly
<1> QED BY <1>2, <1>3, <1>4, <1>5, <1>6, <1>7, <1>8, <1>9 DEF Edit

\* Only playing, and restoring an order, change which song is the active one:
\* every edit leaves it active wherever its item goes, until that item is deleted.
\* The exceptions are those the property names: a sort with none active takes the
\* item with the ID NULL, and RemoveDuplicates may leave the active index beyond
\* the end.  Deleting moves the indexes to come and the active one along; that
\* RemoveDuplicates deletes the same index several times does no harm here, as
\* there are always items left from it on.
THEOREM ActiveStaysActive == Spec => ActiveFollows
<1>1. ASSUME PlaylistInv, [Next]_vars
      PROVE  [\/ active # 0 /\ active' # 0 /\ ActiveEntry' = ActiveEntry
              \/ active # 0 /\ active' = 0 /\ \E e \in {ActiveEntry} : Occurs(e)' < Occurs(e)
              \/ active = 0 /\ active' = 0
              \/ active = 0 /\ sortVars' # sortVars /\ ActiveEntry' = 0
              \/ active > count
              \/ RestoreOrder \/ PlayASong]_vars
  <2>1. SUFFICES ASSUME Edit, active <= count
                 PROVE  \/ active # 0 /\ active' # 0 /\ ActiveEntry' = ActiveEntry
                        \/ active # 0 /\ active' = 0
                              /\ \E e \in {ActiveEntry} : Occurs(e)' < Occurs(e)
                        \/ active = 0 /\ active' = 0
                        \/ active = 0 /\ sortVars' # sortVars /\ ActiveEntry' = 0
    <3>1. active \in Nat /\ count \in Nat
      BY <1>1, ListingIs, ListingFields DEF PlaylistInv
    <3>2. active <= count \/ active > count
      BY <3>1
    <3> QED BY <1>1, <3>2 DEF Next
  <2>2. /\ Listing.count = count /\ Listing.active = active /\ Listing.cells = cells
        /\ Listing'.count = count' /\ Listing'.active = active' /\ Listing'.cells = cells'
    BY ListingIs
  <2>3. \A e : Occurs(e) = Occ(Listing, e) /\ Occurs(e)' = Occ(Listing', e)
    BY <2>2 DEF Occurs, Occ
  <2>4. ActiveEntry = cells[active].id /\ ActiveEntry' = cells'[active'].id
    BY DEF ActiveEntry
  <2>5. CASE Followed(Listing, Listing')
    <3>1. CASE active = 0
      BY <2>2, <2>5, <3>1 DEF Followed
    <3>2. CASE active # 0 /\ active' # 0 /\ cells'[active'].id = cells[active].id
      BY <2>4, <3>2
    <3>3. CASE active # 0 /\ active' = 0
               /\ Occ(Listing', cells[active].id) < Occ(Listing, cells[active].id)
      <4>1. \E e \in {ActiveEntry} : Occurs(e)' < Occurs(e)
        BY <2>3, <2>4, <3>3
      <4> QED BY <3>3, <4>1
    <3> QED BY <2>2, <2>5, <3>1, <3>2, <3>3 DEF Followed
  <2>6. CASE active = 0 /\ sortVars' # sortVars /\ cells'[active'].id = 0
    BY <2>4, <2>6
  <2> QED BY <1>1, <2>1, <2>5, <2>6, EditFollows
<1> QED BY <1>1, PlaylistInvariant, PTL DEF Spec, ActiveFollows

----------------------------------------------------------------------------
(***************************************************************************)
(* Removing duplicates.                                                    *)
(***************************************************************************)

\* The indexes among the first k of x whose items are of entry e.
Hits(l, x, k, e) == {j \in 1 .. k : l.cells[x[j]].id = e}

LEMMA HitsFacts ==
    ASSUME NEW l, NEW x, NEW k \in Nat, NEW e
    PROVE  /\ Hits(l, x, 0, e) = {} /\ IsFiniteSet(Hits(l, x, k, e))
           /\ Cardinality(Hits(l, x, k, e)) \in Nat
           /\ k # 0 => Cardinality(Hits(l, x, k, e)) =
                           IF l.cells[x[k]].id = e THEN Cardinality(Hits(l, x, k - 1, e)) + 1
                                                   ELSE Cardinality(Hits(l, x, k - 1, e))
<1>1. Hits(l, x, 0, e) = {}
  BY DEF Hits
<1>2. ASSUME NEW i \in Nat
      PROVE  IsFiniteSet(Hits(l, x, i, e)) /\ Cardinality(Hits(l, x, i, e)) \in Nat
  <2>1. 1 \in Int /\ i \in Int
    OBVIOUS
  <2>2. IsFiniteSet(1 .. i)
    BY ONLY <2>1, FS_Interval
  <2>3. Hits(l, x, i, e) \in SUBSET (1 .. i)
    BY DEF Hits
  <2>4. IsFiniteSet(Hits(l, x, i, e))
    BY ONLY <2>2, <2>3, FS_Subset
  <2> QED BY ONLY <2>4, FS_CardinalityType
<1>3. ASSUME k # 0
      PROVE  Cardinality(Hits(l, x, k, e)) =
                 IF l.cells[x[k]].id = e THEN Cardinality(Hits(l, x, k - 1, e)) + 1
                                         ELSE Cardinality(Hits(l, x, k - 1, e))
  <2>1. /\ k - 1 \in Nat /\ k \notin 1 .. k - 1
        /\ \A j : j \in 1 .. k <=> j \in 1 .. k - 1 \/ j = k
    BY <1>3
  <2>2. k \notin Hits(l, x, k - 1, e)
    BY <2>1 DEF Hits
  <2>3. CASE l.cells[x[k]].id = e
    <3>1. Hits(l, x, k, e) = Hits(l, x, k - 1, e) \cup {k}
      BY <2>1, <2>3 DEF Hits
    <3>2. IsFiniteSet(Hits(l, x, k - 1, e))
      BY <1>2, <2>1
    <3>3. Cardinality(Hits(l, x, k, e)) = Cardinality(Hits(l, x, k - 1, e)) + 1
      BY ONLY <2>2, <3>1, <3>2, FS_AddElement
    <3> QED BY ONLY <2>3, <3>3
  <2>4. CASE l.cells[x[k]].id # e
    <3>1. Hits(l, x, k, e) = Hits(l, x, k - 1, e)
      BY <2>1, <2>4 DEF Hits
    <3> QED BY <2>4, <3>1
  <2> QED BY <2>3, <2>4
<1> QED BY <1>1, <1>2, <1>3

\* After k rounds the other indexes are those of the same items as at first, and
\* of each entry as many items went as indexes were its.
Exact(l, x, k, d) ==
    /\ \A j \in k + 1 .. Len(x) : /\ d.left[j] \in 1 .. d.list.count
                                  /\ d.list.cells[d.left[j]].id = l.cells[x[j]].id
    /\ \A i, j \in k + 1 .. Len(x) : i # j => d.left[i] # d.left[j]
    /\ \A e : Occ(d.list, e) = Occ(l, e) - Cardinality(Hits(l, x, k, e))

LEMMA ExactRound ==
    ASSUME NEW l \in Listings, NEW x \in Seq(Nat), NEW k \in 1 .. Len(x),
           NEW d \in Deletions(Len(x)), Exact(l, x, k - 1, d)
    PROVE  /\ DeleteRound(Len(x), d, d.left[k]) \in Deletions(Len(x))
           /\ Exact(l, x, k, DeleteRound(Len(x), d, d.left[k]))
<1> DEFINE n == Len(x)
           i == d.left[k]
           v == [j \in 1 .. n |-> IF i < d.left[j] THEN d.left[j] - 1 ELSE d.left[j]]
           m == DeleteRealIndex(d.list, i)
           at(j) == IF j \in i .. d.list.count - 1 THEN j + 1 ELSE j
<1>1. n \in Nat /\ k - 1 + 1 = k /\ k \in Nat /\ k # 0
  BY LenProperties
<1>2. /\ d.left \in [1 .. n -> Nat] /\ d.list \in Listings
      /\ \A j \in k .. n : /\ d.left[j] \in 1 .. d.list.count
                           /\ d.list.cells[d.left[j]].id = l.cells[x[j]].id
      /\ \A h, j \in k .. n : h # j => d.left[h] # d.left[j]
      /\ \A e : Occ(d.list, e) = Occ(l, e) - Cardinality(Hits(l, x, k - 1, e))
  BY <1>1 DEF Deletions, Exact
<1>3. /\ k \in k .. n
      /\ \A j \in k + 1 .. n : j \in k .. n /\ j \in 1 .. n /\ j # k
  BY <1>1
<1> HIDE DEF n
<1>4. /\ i \in 1 .. d.list.count /\ d.list.cells[i].id = l.cells[x[k]].id
      /\ d.list.count \in Nat /\ d.list.count <= Len(d.list.cells)
      /\ Len(d.list.cells) \in Nat
  BY <1>2, <1>3, ListingFields
<1>5. \A j \in k + 1 .. n : d.left[j] \in 1 .. d.list.count /\ d.left[j] # i
  BY <1>2, <1>3
<1>6. \A j \in 1 .. n : /\ v[j] = IF i < d.left[j] THEN d.left[j] - 1 ELSE d.left[j]
                        /\ d.left[j] \in Nat
  BY <1>2
<1>7. v \in [1 .. n -> Nat]
  <2>1. \A j \in 1 .. n : (IF i < d.left[j] THEN d.left[j] - 1 ELSE d.left[j]) \in Nat
    <3> HIDE DEF i
    <3> QED BY <1>4, <1>6
  <2> QED BY <2>1
<1>8. DeleteRound(n, d, i) = [list |-> m, left |-> v]
  BY DEF DeleteRound
<1> HIDE DEF i, v
<1>9. /\ m \in Listings /\ m.count = d.list.count - 1
      /\ \A j \in 1 .. Len(d.list.cells) : m.cells[j] = d.list.cells[at(j)]
  <2>1. i \in Nat /\ d.list.count # 0
    BY <1>4
  <2> QED BY <1>2, <2>1, DeleteFacts
<1>10. \A e : Occ(m, e) = IF d.list.cells[i].id = e THEN Occ(d.list, e) - 1
                                                    ELSE Occ(d.list, e)
  BY <1>2, <1>4, DeleteOccurs
<1> HIDE DEF m
<1>11. ASSUME NEW j \in k + 1 .. n
       PROVE  v[j] \in 1 .. m.count /\ m.cells[v[j]].id = l.cells[x[j]].id
  <2>1. /\ d.left[j] \in 1 .. d.list.count /\ d.left[j] # i
        /\ v[j] = IF i < d.left[j] THEN d.left[j] - 1 ELSE d.left[j]
    BY <1>3, <1>5, <1>6
  <2> DEFINE y == d.left[j]
             w == v[j]
             p == d.list.count
  <2>4. /\ p \in Nat /\ p <= Len(d.list.cells) /\ Len(d.list.cells) \in Nat
        /\ i \in 1 .. p /\ y \in 1 .. p /\ y # i
        /\ w = (IF i < y THEN y - 1 ELSE y) /\ m.count = p - 1
    BY <1>4, <1>9, <2>1
  <2>5. at(w) = IF w \in i .. p - 1 THEN w + 1 ELSE w
    OBVIOUS
  <2> HIDE DEF y, w, p, at
  <2>6. w \in 1 .. p - 1 /\ at(w) = y
    BY <2>4, <2>5
  <2>7. w \in 1 .. m.count /\ w \in 1 .. Len(d.list.cells)
    BY <2>4, <2>6
  <2>2. v[j] \in 1 .. m.count /\ v[j] \in 1 .. Len(d.list.cells) /\ at(v[j]) = d.left[j]
    BY <2>6, <2>7 DEF w, y
  <2> HIDE DEF at
  <2>3. m.cells[v[j]] = d.list.cells[d.left[j]]
    BY <1>9, <2>2
  <2> QED BY <1>2, <1>3, <2>2, <2>3
<1>12. ASSUME NEW h \in k + 1 .. n, NEW j \in k + 1 .. n, h # j
       PROVE  v[h] # v[j]
  <2>1. /\ d.left[j] \in 1 .. d.list.count /\ d.left[j] # i
        /\ v[j] = IF i < d.left[j] THEN d.left[j] - 1 ELSE d.left[j]
        /\ d.left[h] \in 1 .. d.list.count /\ d.left[h] # i
        /\ v[h] = IF i < d.left[h] THEN d.left[h] - 1 ELSE d.left[h]
        /\ d.left[h] # d.left[j]
    BY <1>2, <1>3, <1>5, <1>6, <1>12
  <2> DEFINE y == d.left[j]
             z == d.left[h]
  <2>2. /\ y \in Nat /\ z \in Nat /\ i \in Nat /\ y # i /\ z # i /\ y # z
        /\ v[j] = (IF i < y THEN y - 1 ELSE y) /\ v[h] = (IF i < z THEN z - 1 ELSE z)
    BY <1>4, <2>1
  <2> HIDE DEF y, z
  <2> QED BY <2>2
<1>13. ASSUME NEW e
       PROVE  Occ(m, e) = Occ(l, e) - Cardinality(Hits(l, x, k, e))
  <2> DEFINE c == Cardinality(Hits(l, x, k, e))
             b == Cardinality(Hits(l, x, k - 1, e))
             o == Occ(l, e)
  <2>1. c = (IF l.cells[x[k]].id = e THEN b + 1 ELSE b)
    <3>1. k \in Nat /\ k # 0
      BY <1>1
    <3> HIDE DEF n
    <3> QED BY ONLY <3>1, HitsFacts
  <2>2. b \in Nat
    <3>1. k - 1 \in Nat
      BY <1>1
    <3> QED BY <3>1, HitsFacts
  <2>3. o \in Nat
    BY OccFacts
  <2>4. Occ(m, e) = IF l.cells[x[k]].id = e THEN o - b - 1 ELSE o - b
    BY <1>2, <1>4, <1>10
  <2> HIDE DEF c, b, o
  <2>5. Occ(m, e) = o - c
    BY <2>1, <2>2, <2>3, <2>4
  <2> QED BY <2>5 DEF c, o
<1> DEFINE r == [list |-> m, left |-> v]
<1>14. r.list = m /\ r.left = v /\ r \in Deletions(n)
  BY <1>7, <1>9 DEF Deletions
<1> HIDE DEF r
<1>15. Exact(l, x, k, r)
  BY <1>11, <1>12, <1>13, <1>14 DEF Exact, n
<1> QED BY <1>8, <1>14, <1>15 DEF r, i, n

\* Deleting different indexes deletes the items at them and no other.
LEMMA DeleteExactly ==
    ASSUME NEW l \in Listings, NEW x \in Seq(Nat), Distinctly(x),
           \A j \in 1 .. Len(x) : x[j] \in 1 .. l.count,
           NEW e
    PROVE  Occ(DeleteRealIndexArray(l, x), e) =
               Occ(l, e) - Cardinality(Hits(l, x, Len(x), e))
<1> DEFINE n == Len(x)
           S == Deletions(n)
           init == [list |-> l, left |-> x]
           G == [k \in 0 .. n |-> {d \in S : Exact(l, x, k, d)}]
<1>1. n \in Nat /\ DOMAIN x = 1 .. n /\ x \in [1 .. n -> Nat]
  <2>1. DOMAIN x = 1 .. n /\ n \in Nat /\ \A i \in 1 .. n : x[i] \in Nat
    BY LenProperties, ElementOfSeq
  <2>2. x = [i \in 1 .. n |-> x[i]]
    BY LenProperties
  <2> HIDE DEF n
  <2> QED BY <2>1, <2>2
<1>2. init \in S /\ init.list = l /\ init.left = x
  BY <1>1 DEF Deletions
<1> HIDE DEF init
<1>3. Exact(l, x, 0, init)
  <2>1. \A j \in 0 + 1 .. Len(x) : j \in 1 .. Len(x)
    BY <1>1
  <2>2. ASSUME NEW y PROVE Occ(l, y) = Occ(l, y) - Cardinality(Hits(l, x, 0, y))
    <3>1. Hits(l, x, 0, y) = {}
      BY HitsFacts
    <3>2. Cardinality({}) = 0
      BY ONLY FS_EmptySet
    <3>3. Occ(l, y) \in Nat
      BY OccFacts
    <3>4. Occ(l, y) = Occ(l, y) - 0
      BY <3>3
    <3> QED BY <3>1, <3>2, <3>4
  <2> QED BY <1>2, <2>1, <2>2 DEF Exact, Distinctly
<1>4. /\ G \in [0 .. n -> SUBSET S]
      /\ \A k \in 0 .. n : G[k] = {d \in S : Exact(l, x, k, d)}
  <2> HIDE DEF S
  <2> QED OBVIOUS
<1> HIDE DEF G
<1>5. init \in G[0]
  <2>1. 0 \in 0 .. n
    BY <1>1
  <2> HIDE DEF S
  <2> QED BY <1>2, <1>3, <1>4, <2>1
<1>6. \A k \in 1 .. n : \A d \in G[k - 1] : DeleteRound(n, d, d.left[k]) \in G[k]
  <2>1. SUFFICES ASSUME NEW k \in 1 .. n, NEW d \in G[k - 1]
                 PROVE  DeleteRound(n, d, d.left[k]) \in G[k]
    OBVIOUS
  <2>2. k \in 0 .. n /\ k - 1 \in 0 .. n
    BY <1>1
  <2>3. d \in S /\ Exact(l, x, k - 1, d)
    BY <1>4, <2>1, <2>2
  <2>4. DeleteRound(n, d, d.left[k]) \in S /\ Exact(l, x, k, DeleteRound(n, d, d.left[k]))
    BY <2>3, ExactRound
  <2> HIDE DEF S
  <2> QED BY <1>4, <2>2, <2>4
<1>7. PICK d \in G[n] : DeleteRealIndexArray(l, x) = d.list
  BY <1>4, <1>5, <1>6, DeleteRounds DEF init
<1>8. Exact(l, x, n, d)
  BY <1>1, <1>4, <1>7
<1> QED BY <1>7, <1>8 DEF Exact

\* The doubled places of entry e, in the sequence of them all.
DoublesOf(e) == {j \in 1 .. Len(Doubles) : IdAt(Doubles[j]) = e}

\* All the places of an entry but the first are doubled, and while the orders are
\* fresh it has as many places as items.
LEMMA DoublesCount ==
    ASSUME PlaylistInv, fresh, Valid(normal), NEW e \in Passing
    PROVE  /\ IsFiniteSet(DoublesOf(e))
           /\ Cardinality(DoublesOf(e)) = Occ(Listing, e) - 1
<1> DEFINE n  == Len(normal)
           D  == {k \in 1 .. n : IdAt(k) = e}
           T  == {i \in 1 .. count : cells[i].id = e}
           J  == DoublesOf(e)
           y  == Least(D)
           f  == [k \in D |-> normal[k]]
           g  == [j \in J |-> Doubles[j]]
<1>1. /\ normal \in Seq(DOMAIN cells) /\ Distinctly(normal) /\ Listing \in Listings
      /\ Listing.count = count /\ Listing.cells = cells
  BY ListingIs DEF PlaylistInv, OrdersOf
<1>2. n \in Nat /\ DOMAIN normal = 1 .. n
  BY <1>1, LenProperties
<1>3. ToSet(normal) = {i \in 1 .. count : cells[i].id \in filter}
  BY InvIndexes DEF IndexesExact
<1>4. \A j, k \in 1 .. n : j # k => normal[j] # normal[k]
  BY <1>1 DEF Distinctly
<1>5. \A k \in 1 .. n : IdAt(k) = cells[normal[k]].id /\ normal[k] \in ToSet(normal)
  BY <1>2 DEF IdAt, ToSet
<1>6. D # {} /\ e \in filter
  <2>1. PICK k \in 1 .. n : e = IdAt(k)
    BY <1>2 DEF Passing, IdAt
  <2> QED BY <1>3, <1>5, <2>1
<1>7. \A i \in T : \E k \in D : normal[k] = i
  <2>1. SUFFICES ASSUME NEW i \in T PROVE \E k \in D : normal[k] = i
    OBVIOUS
  <2>2. i \in ToSet(normal)
    BY <1>3, <1>6
  <2>3. PICK k \in 1 .. n : normal[k] = i
    BY <1>2, <2>2 DEF ToSet
  <2> QED BY <1>5, <2>3
<1>8. \A k \in D : normal[k] \in T
  BY <1>3, <1>5
<1>9. IsFiniteSet(T) /\ Occ(Listing, e) = Cardinality(T)
  BY <1>1, OccFacts DEF Occ
<1>10. D \in SUBSET (1 .. n)
  OBVIOUS
<1>11. y \in 1 .. n /\ y \in D /\ \A k \in D : y <= k
  <2> HIDE DEF D, n
  <2> QED BY <1>2, <1>6, <1>10, LeastFacts
<1>12. /\ Distinctly(Doubles) /\ ToSet(Doubles) = Doubled
       /\ DOMAIN Doubles = 1 .. Len(Doubles)
       /\ \A k \in 1 .. Len(Doubles) : Doubles[k] \in DOMAIN normal
  BY DoublesFacts
<1>13. \A k \in 1 .. n : k \in Doubled <=> \E j \in 1 .. k - 1 : IdAt(j) = IdAt(k)
  <2>1. SUFFICES ASSUME NEW k \in 1 .. n
                 PROVE  k \in Doubled <=> \E j \in 1 .. k - 1 : IdAt(j) = IdAt(k)
    OBVIOUS
  <2>2. k - 1 \in Nat /\ Same(k) \in SUBSET (1 .. k - 1)
    BY DEF Same
  <2>3. Least(Same(k)) = 0 <=> Same(k) = {}
    BY <2>2, LeastFacts
  <2> QED BY <1>2, <2>3 DEF Doubled, Same
<1>14. \A j \in J : j \in 1 .. Len(Doubles) /\ Doubles[j] \in 1 .. n /\ IdAt(Doubles[j]) = e
  BY <1>2, <1>12 DEF DoublesOf
<1> HIDE DEF J, y, n
<1>15. \A j \in J : Doubles[j] \in D \ {y}
  <2>1. SUFFICES ASSUME NEW j \in J PROVE Doubles[j] \in D /\ Doubles[j] # y
    OBVIOUS
  <2>2. Doubles[j] \in D /\ Doubles[j] \in Doubled
    BY <1>12, <1>14 DEF ToSet
  <2>3. PICK k \in 1 .. Doubles[j] - 1 : IdAt(k) = IdAt(Doubles[j])
    BY <1>13, <1>14, <2>2
  <2>4. k \in 1 .. n /\ k < Doubles[j]
    BY <1>2, <1>14, <2>3
  <2>5. k \in D
    BY <1>14, <2>3, <2>4
  <2> QED BY <1>11, <1>14, <2>2, <2>4, <2>5
<1>16. \A k \in D \ {y} : \E j \in J : Doubles[j] = k
  <2>1. SUFFICES ASSUME NEW k \in D, k # y PROVE \E j \in J : Doubles[j] = k
    OBVIOUS
  <2>2. y \in 1 .. k - 1 /\ IdAt(y) = IdAt(k) /\ k \in 1 .. n
    BY <1>2, <1>11, <2>1
  <2>3. k \in ToSet(Doubles)
    BY <1>12, <1>13, <2>2
  <2>4. PICK j \in 1 .. Len(Doubles) : Doubles[j] = k
    BY <1>12, <2>3 DEF ToSet
  <2> QED BY <2>4 DEF J, DoublesOf
<1> HIDE DEF D, T
<1>17. f \in [D -> T] /\ \A k \in D : f[k] = normal[k]
  BY <1>8
<1>18. g \in [J -> D \ {y}] /\ \A j \in J : g[j] = Doubles[j]
  BY <1>15
<1> HIDE DEF f, g
<1>19. f \in Injection(D, T) /\ f \in Surjection(D, T)
  <2>1. \A j, k \in D : f[j] = f[k] => j = k
    BY <1>4, <1>10, <1>17 DEF n
  <2>2. \A i \in T : \E k \in D : f[k] = i
    BY <1>7, <1>17
  <2> QED BY <1>17, <2>1, <2>2 DEF Injection, IsInjective, Surjection
<1>20. g \in Injection(J, D \ {y}) /\ g \in Surjection(J, D \ {y})
  <2>1. \A j, k \in J : g[j] = g[k] => j = k
    BY <1>12, <1>14, <1>18 DEF Distinctly
  <2>2. \A k \in D \ {y} : \E j \in J : g[j] = k
    BY <1>16, <1>18
  <2> QED BY <1>18, <2>1, <2>2 DEF Injection, IsInjective, Surjection
<1>21. IsFiniteSet(D) /\ Cardinality(D) = Cardinality(T)
  BY <1>9, <1>19, FS_Injection
<1>22. IsFiniteSet(D \ {y}) /\ Cardinality(D \ {y}) = Cardinality(D) - 1
  BY <1>11, <1>21, FS_RemoveElement
<1>23. IsFiniteSet(J) /\ Cardinality(J) = Cardinality(D \ {y})
  BY <1>20, <1>22, FS_Injection
<1> QED BY <1>9, <1>21, <1>22, <1>23 DEF J

\* No index is deleted twice, unless the active entry is there three times.
LEMMA GoneOnce ==
    ASSUME PlaylistInv, fresh, Valid(normal), active # 0 => Occurs(ActiveEntry) < 3
    PROVE  Distinctly(Gone)
<1>1. /\ normal \in Seq(DOMAIN cells) /\ Distinctly(normal)
      /\ Listing \in Listings /\ Listing.count = count /\ Listing.cells = cells
  BY ListingIs DEF PlaylistInv, OrdersOf
<1>2. /\ Distinctly(Doubles) /\ Len(Gone) = Len(Doubles)
      /\ \A k \in 1 .. Len(Doubles) :
            /\ Picked[k] \in DOMAIN normal /\ Doubles[k] \in DOMAIN normal
            /\ Gone[k] = normal[Picked[k]]
            /\ IdAt(Picked[k]) = IdAt(Doubles[k])
            /\ ~Playing(IdAt(Doubles[k])) => Picked[k] = Doubles[k]
  BY DoublesFacts
<1>3. SUFFICES ASSUME NEW j \in 1 .. Len(Doubles), NEW k \in 1 .. Len(Doubles), j # k,
                      Gone[j] = Gone[k]
               PROVE  FALSE
  BY <1>2 DEF Distinctly
<1>4. Picked[j] = Picked[k]
  <2>1. normal[Picked[j]] = normal[Picked[k]]
    BY <1>2, <1>3
  <2>2. Picked[j] \in 1 .. Len(normal) /\ Picked[k] \in 1 .. Len(normal)
    BY <1>1, <1>2, LenProperties
  <2> QED BY <1>1, <2>1, <2>2 DEF Distinctly
<1> DEFINE e == IdAt(Doubles[j])
           J == DoublesOf(e)
<1>5. IdAt(Doubles[k]) = e
  BY <1>2, <1>4
<1>6. Playing(e)
  <2>1. SUFFICES ASSUME ~Playing(e) PROVE FALSE
    OBVIOUS
  <2>2. Doubles[j] = Doubles[k]
    BY <1>2, <1>4, <1>5, <2>1
  <2> QED BY <1>2, <1>3, <2>2 DEF Distinctly
<1>7. Occ(Listing, e) < 3
  BY <1>1, <1>6 DEF Playing, Occurs, Occ, ActiveEntry
<1>8. e \in Passing
  BY <1>2 DEF Passing, IdAt
<1>9. j \in J /\ k \in J
  BY <1>5 DEF DoublesOf
<1> HIDE DEF e
<1>10. IsFiniteSet(J) /\ Cardinality(J) = Occ(Listing, e) - 1
  BY <1>8, DoublesCount
<1> HIDE DEF J
<1>11. Cardinality(J) <= 1 /\ Cardinality(J) \in Nat
  <2>1. Occ(Listing, e) \in Nat
    BY <1>1, OccFacts
  <2>2. Cardinality(J) \in Nat
    BY <1>10, FS_CardinalityType
  <2> QED BY <1>7, <1>10, <2>1, <2>2
<1>12. IsFiniteSet(J \ {j}) /\ Cardinality(J \ {j}) = Cardinality(J) - 1
  BY <1>9, <1>10, FS_RemoveElement
<1>13. Cardinality(J \ {j}) \in Nat
  BY <1>12, FS_CardinalityType
<1>14. Cardinality(J \ {j}) = 0
  BY <1>11, <1>12, <1>13
<1>15. J \ {j} = {}
  BY ONLY <1>12, <1>14, FS_EmptySet
<1> QED BY <1>3, <1>9, <1>15

LEMMA DuplicatesRemoved ==
    ASSUME PlaylistInv, fresh, RemoveDuplicates, active # 0 => Occurs(ActiveEntry) < 3, NEW e
    PROVE  Occurs(e)' = IF e \in Passing THEN 1 ELSE Occurs(e)
<1> DEFINE l == DeleteRealIndexArray(Listing, Gone)
           h == Hits(Listing, Gone, Len(Gone), e)
<1>1. PICK a : Removed(l, a)
  BY RemovedFacts
<1>2. LeftOf(Listing, l) /\ Becomes([l EXCEPT !.active = a])
  BY <1>1 DEF Removed
<1>3. Valid(normal)
  BY RemovesGone
<1>4. Listing \in Listings /\ Listing.count = count /\ Listing.cells = cells
  BY ListingIs DEF PlaylistInv
<1>5. /\ Gone \in Seq(Nat) /\ Len(Gone) = Len(Doubles)
      /\ \A k \in 1 .. Len(Doubles) :
            /\ Doubles[k] \in DOMAIN normal
            /\ Gone[k] = normal[Picked[k]] /\ Gone[k] \in 1 .. count
            /\ IdAt(Picked[k]) = IdAt(Doubles[k])
  BY <1>3, DoublesFacts
<1>6. Occ(l, e) = Occ(Listing, e) - Cardinality(h)
  <2>1. Distinctly(Gone)
    BY <1>3, GoneOnce
  <2>2. \A k \in 1 .. Len(Gone) : Gone[k] \in 1 .. Listing.count
    BY <1>4, <1>5
  <2> QED BY <1>4, <1>5, <2>1, <2>2, DeleteExactly
<1> HIDE DEF l
<1>7. h = DoublesOf(e)
  <2>1. \A k \in 1 .. Len(Doubles) : cells[Gone[k]].id = IdAt(Doubles[k])
    BY <1>5 DEF IdAt
  <2> QED BY <1>4, <1>5, <2>1 DEF Hits, DoublesOf
<1> HIDE DEF h
<1>8. Occurs(e) = Occ(Listing, e) /\ Occ(Listing, e) \in Nat
  BY <1>4, OccFacts DEF Occurs, Occ
<1>9. Occurs(e)' = Occ(l, e)
  <2>1. l \in Listings
    BY <1>2 DEF LeftOf
  <2>2. cells' = l.cells /\ count' = l.count
    BY <1>2, <2>1 DEF Listings, Becomes
  <2> QED BY <2>2 DEF Occurs, Occ
<1>10. CASE e \in Passing
  <2>1. Cardinality(h) = Occ(Listing, e) - 1
    BY <1>3, <1>7, <1>10, DoublesCount
  <2> QED BY <1>6, <1>8, <1>9, <1>10, <2>1
<1>11. CASE e \notin Passing
  <2>1. h = {}
    BY <1>5, <1>7, <1>11 DEF DoublesOf, Passing, IdAt
  <2>2. Cardinality({}) = 0
    BY ONLY FS_EmptySet
  <2> QED BY <1>6, <1>8, <1>9, <1>11, <2>1, <2>2
<1> QED BY <1>10, <1>11

LEMMA OnlyRemovalStales ==
    ASSUME Next, fresh, ~fresh'
    PROVE  RemoveDuplicates
<1>1. \A l : Rebuild(l) => fresh'
  BY DEF Rebuild
<1>2. \A l, pass : ApplyFilter(l, pass) => fresh'
  BY <1>1 DEF ApplyFilter
<1>3. CASE \E f \in Fields : Sort(f)
  BY <1>1, <1>3 DEF Sort, orders
<1>4. CASE \E to \in 1 .. Len(normal) + 1, sel \in Selections : Move(to, RealIndexes(sel))
  BY <1>1, <1>4 DEF Move, orders
<1>5. CASE ToggleShuffle \/ SaveOrder
  BY <1>1, <1>5 DEF ToggleShuffle, SaveOrder, orders
<1>6. CASE \/ \E e \in Entries : Add(e) \/ LibraryRemoves(e)
           \/ \E sel \in Selections : DeleteSelected(sel)
           \/ \E pass \in Filters : SetFilter(pass)
           \/ RestoreOrder
  BY <1>2, <1>6 DEF Add, LibraryRemoves, DeleteSelected, SetFilter, RestoreOrder
<1>7. CASE PlayASong
  BY <1>7 DEF PlayASong, NextSong, PreviousSong, Play, PlayEntry
<1> QED BY <1>3, <1>4, <1>5, <1>6, <1>7 DEF Next, Edit

\* Removing duplicates leaves one item of each entry that passes the filter and
\* touches no other.  It needs the orders of the list as it is, and the active
\* entry there at most twice: the third one has the same index deleted again.
THEOREM OneOfEachStays == Spec => DuplicatesGo
<1>1. ASSUME PlaylistInv, [Next]_vars
      PROVE  [(fresh /\ ~fresh' /\ (active # 0 => Occurs(ActiveEntry) < 3)) =>
                 /\ \A e \in Passing : Occurs(e)' = 1
                 /\ \A e \in Entries \ Passing : Occurs(e)' = Occurs(e)]_vars
  <2>1. SUFFICES ASSUME Next, fresh, ~fresh', active # 0 => Occurs(ActiveEntry) < 3
                 PROVE  \A e : Occurs(e)' = IF e \in Passing THEN 1 ELSE Occurs(e)
    BY <1>1
  <2>2. RemoveDuplicates
    BY <2>1, OnlyRemovalStales
  <2> QED BY <1>1, <2>1, <2>2, DuplicatesRemoved
<1> QED BY <1>1, PlaylistInvariant, PTL DEF Spec, DuplicatesGo
=============================================================================
