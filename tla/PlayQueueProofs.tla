-------------------------- MODULE PlayQueueProofs --------------------------
(***************************************************************************)
(* Proofs about the play queue, the history and the future list.           *)
(***************************************************************************)
EXTENDS PlayQueue, SequenceFacts, FiniteSetTheorems

(***************************************************************************)
(* Numbers, selections and the recursive functions of the model.           *)
(***************************************************************************)

LEMMA MinOfTwo ==
    ASSUME NEW a \in Nat, NEW b \in Nat
    PROVE  /\ Min({a, b}) \in Nat
           /\ Min({a, b}) = IF a <= b THEN a ELSE b
<1>1. Min({a, b}) \in {a, b} /\ \A y \in {a, b} : Min({a, b}) <= y
  BY MinFacts
<1> DEFINE c == Min({a, b})
<1> HIDE DEF c
<1>2. (c = a \/ c = b) /\ c <= a /\ c <= b
  BY <1>1 DEF c
<1> QED BY <1>2 DEF c

\* A selection is no longer than what it is taken from, and holds none but its
\* elements.
LEMMA SelectedFacts ==
    ASSUME NEW S, NEW s \in Seq(S), NEW I \in SUBSET DOMAIN s
    PROVE  /\ Selected(s, I) \in Seq(S)
           /\ Len(Selected(s, I)) <= Len(s)
           /\ \A k \in DOMAIN Selected(s, I) : \E i \in I : Selected(s, I)[k] = s[i]
           /\ \A i \in I : \E k \in DOMAIN Selected(s, I) : Selected(s, I)[k] = s[i]
           /\ I # {} => Selected(s, I) # <<>>
<1> DEFINE t == Selected(s, I)
<1>1. t \in Seq(S)
  BY SelectedPicks
<1>2. PICK h : Picks(h, t, s, I) /\ \A i \in I : \E k \in 1 .. Len(t) : h[k] = i
  BY SelectedPicks
<1> HIDE DEF t
<1>3. /\ DOMAIN s = 1 .. Len(s) /\ Len(s) \in Nat
      /\ DOMAIN t = 1 .. Len(t) /\ Len(t) \in Nat
  BY <1>1, LenProperties
<1>4. h \in Injection(1 .. Len(t), I)
  <2>1. h \in [1 .. Len(t) -> I]
    BY <1>2 DEF Picks
  <2>2. ASSUME NEW i \in 1 .. Len(t), NEW j \in 1 .. Len(t), i # j PROVE h[i] # h[j]
    <3>1. h[i] \in Nat /\ h[j] \in Nat
      BY <1>3, <2>1
    <3>2. i < j => h[i] < h[j]
      BY <1>2 DEF Picks
    <3>3. j < i => h[j] < h[i]
      BY <1>2 DEF Picks
    <3>4. i < j \/ j < i
      BY <1>3, <2>2
    <3>5. \A a, b \in Nat : a < b => a # b
      OBVIOUS
    <3> QED BY <3>1, <3>2, <3>3, <3>4, <3>5
  <2> QED BY <2>1, <2>2 DEF Injection, IsInjective
<1>5. Len(t) <= Len(s)
  <2>1. IsFiniteSet(1 .. Len(s)) /\ Cardinality(1 .. Len(s)) = Len(s)
    <3>1. \A n \in Nat : IF 1 > n THEN n = 0 ELSE n - 1 + 1 = n
      OBVIOUS
    <3>2. Len(s) \in Int /\ 1 \in Int
      BY <1>3
    <3> QED BY <1>3, <3>1, <3>2, FS_Interval
  <2>2. Cardinality(1 .. Len(t)) = Len(t)
    <3>1. \A n \in Nat : IF 1 > n THEN n = 0 ELSE n - 1 + 1 = n
      OBVIOUS
    <3>2. Len(t) \in Int /\ 1 \in Int
      BY <1>3
    <3> QED BY <1>3, <3>1, <3>2, FS_Interval
  <2>3. I \in SUBSET 1 .. Len(s)
    BY <1>3
  <2>4. IsFiniteSet(I) /\ Cardinality(I) <= Len(s) /\ Cardinality(I) \in Nat
    BY <2>1, <2>3, FS_Subset, FS_CardinalityType
  <2>5. Cardinality(1 .. Len(t)) <= Cardinality(I)
    BY <1>4, <2>4, FS_Injection
  <2> QED BY <1>3, <2>2, <2>4, <2>5
<1>6. \A k \in DOMAIN t : \E i \in I : t[k] = s[i]
  BY <1>2, <1>3 DEF Picks
<1>7. \A i \in I : \E k \in DOMAIN t : t[k] = s[i]
  BY <1>2, <1>3 DEF Picks
<1>8. I # {} => t # <<>>
  <2>1. t = <<>> => DOMAIN t = {}
    BY <1>1, <1>3, EmptySeq
  <2> QED BY <1>7, <2>1
<1> QED BY <1>1, <1>5, <1>6, <1>7, <1>8 DEF t

\* The removals: what stays matches only if what stood before it matched too.
Leaves(t, s, match) ==
    \E I \in SUBSET DOMAIN s :
        /\ t = Selected(s, I)
        /\ \A i \in I : i \in match => i - 1 \in match

LEMMA DroppedFacts ==
    ASSUME NEW S, NEW s \in Seq(S), NEW match \in SUBSET DOMAIN s
    PROVE  Leaves(Dropped(s, match), s, match)
<1> DEFINE n == Len(s)
           Rec(g) == g = [i \in 0 .. n |-> i \in match /\ ~g[i - 1]]
           gone == CHOOSE g : Rec(g)
           I == {i \in DOMAIN s : ~gone[i]}
           step == [k \in 1 .. n |-> [b \in BOOLEAN |-> k \in match /\ ~b]]
<1>1. n \in Nat /\ DOMAIN s = 1 .. n
  BY LenProperties
<1>2. \E g : Rec(g)
  <2>1. step \in [1 .. n -> [BOOLEAN -> BOOLEAN]]
    OBVIOUS
  <2>2. \A k \in 1 .. n : \A b \in BOOLEAN : step[k][b] = (k \in match /\ ~b)
    OBVIOUS
  <2> HIDE DEF step
  <2>3. PICK g : Follows(g, n, BOOLEAN, FALSE, step)
    <3> HIDE DEF n
    <3>1. FALSE \in BOOLEAN
      OBVIOUS
    <3> QED BY ONLY <1>1, <2>1, <3>1, StepsExist
  <2>4. ASSUME NEW k \in 0 .. n PROVE g[k] = (k \in match /\ ~g[k - 1])
    <3>1. CASE k = 0
      <4>1. k \notin match
        BY <1>1, <3>1
      <4> QED BY <2>3, <3>1, <4>1 DEF Follows
    <3>2. CASE k # 0
      <4>1. k \in 1 .. n /\ k - 1 \in 0 .. n
        BY <1>1, <3>2
      <4>2. g[k - 1] \in BOOLEAN
        BY <2>3, <4>1 DEF Follows
      <4>3. step[k][g[k - 1]] = (k \in match /\ ~g[k - 1])
        BY <2>2, <4>1, <4>2
      <4> QED BY <2>3, <4>1, <4>3 DEF Follows
    <3> QED BY <3>1, <3>2
  <2>5. g = [i \in 0 .. n |-> i \in match /\ ~g[i - 1]]
    <3>1. g = [i \in 0 .. n |-> g[i]]
      BY <2>3 DEF Follows
    <3> HIDE DEF n
    <3> QED BY <2>4, <3>1, Zenon
  <2> QED BY <2>5
<1>3. Rec(gone)
  BY <1>2
<1>4. Dropped(s, match) = Selected(s, I)
  BY DEF Dropped
<1> HIDE DEF gone
<1>5. ASSUME NEW i \in I, i \in match PROVE i - 1 \in match
  <2>1. i \in 0 .. n /\ i \in 1 .. n /\ i - 1 \in 0 .. n
    BY <1>1
  <2>2. \A k \in 0 .. n : gone[k] = (k \in match /\ ~gone[k - 1])
    BY <1>3, Zenon
  <2> QED BY <1>5, <2>1, <2>2
<1> QED BY <1>4, <1>5 DEF Leaves

----------------------------------------------------------------------------
(***************************************************************************)
(* Lists, places and wishes.                                               *)
(***************************************************************************)

Asking == [list : Nat, entry : Songs \cup {NoSong}]

\* Of a state: what the type invariant says, and that the lists are finitely many.
QueueInv == TypeOK /\ IsFiniteSet(Lists)

LEMMA ListFacts ==
    ASSUME TypeOK, NEW l \in Lists
    PROVE  /\ l \in Nat /\ shown[l] \in Seq(Songs) /\ items[l] \in Seq(Songs)
           /\ Len(shown[l]) \in Nat /\ DOMAIN shown[l] = 1 .. Len(shown[l])
           /\ at[l] \in Songs \cup {NoSong}
<1>1. l \in Nat /\ shown[l] \in Seq(Songs) /\ items[l] \in Seq(Songs) /\ at[l] \in Songs \cup {NoSong}
  BY DEF TypeOK
<1> QED BY <1>1, LenProperties

LEMMA PlaceFacts ==
    ASSUME TypeOK, NEW l \in Lists, NEW e
    PROVE  /\ Place(l, e) \in Nat /\ Place(l, e) <= Len(shown[l])
           /\ Place(l, e) = 0 => \A i \in DOMAIN shown[l] : shown[l][i] # e
           /\ Place(l, e) # 0 => Place(l, e) \in DOMAIN shown[l] /\ shown[l][Place(l, e)] = e
           /\ \A i \in DOMAIN shown[l] : shown[l][i] = e => Place(l, e) # 0 /\ Place(l, e) <= i
<1> DEFINE n == Len(shown[l])
           T == {i \in 1 .. n : shown[l][i] = e}
<1>1. n \in Nat /\ DOMAIN shown[l] = 1 .. n
  BY ListFacts
<1>2. Place(l, e) = IF \E i \in 1 .. n : shown[l][i] = e THEN Min(T) ELSE 0
  BY DEF Place, FirstOf
<1> HIDE DEF n
<1>3. T \in SUBSET Nat
  BY <1>1
<1>4. T # {} => Min(T) \in T /\ \A y \in T : Min(T) <= y
  BY <1>3, MinFacts
<1> DEFINE c == Min(T)
<1> HIDE DEF c
<1>5. CASE T = {}
  <2>1. Place(l, e) = 0
    BY <1>2, <1>5
  <2>2. \A i \in 1 .. n : shown[l][i] # e
    BY <1>5
  <2> QED BY <1>1, <2>1, <2>2 DEF n
<1>6. CASE T # {}
  <2>1. Place(l, e) = c
    BY <1>2, <1>6 DEF c
  <2>2. c \in T /\ \A y \in T : c <= y
    BY <1>4, <1>6 DEF c
  <2>3. c \in 1 .. n /\ shown[l][c] = e
    BY <2>2
  <2>4. \A i \in 1 .. n : shown[l][i] = e => c <= i
    BY <2>2
  <2>5. c \in Nat /\ c # 0 /\ c <= n
    BY <1>1, <2>3
  <2> QED BY <1>1, <2>1, <2>3, <2>4, <2>5 DEF n
<1> QED BY <1>5, <1>6

LEMMA EntryFacts ==
    ASSUME TypeOK, NEW l \in Lists, NEW n
    PROVE  /\ EntryAt(l, n) \in Songs \cup {NoSong}
           /\ n \in DOMAIN shown[l] => EntryAt(l, n) = shown[l][n] /\ EntryAt(l, n) \in Songs
           /\ EntryAt(l, n) # NoSong => n \in DOMAIN shown[l] /\ EntryAt(l, n) \in ToSet(shown[l])
<1>1. ASSUME NEW i \in DOMAIN shown[l] PROVE shown[l][i] \in Songs
  BY ListFacts, ElementOfSeq
<1> QED BY <1>1 DEF EntryAt, ToSet

\* An entry that a list shows is the one at its place.
LEMMA EntryOfPlace ==
    ASSUME TypeOK, NEW l \in Lists, NEW e
    PROVE  /\ e \in ToSet(shown[l]) <=> Place(l, e) # 0
           /\ Place(l, e) # 0 => EntryAt(l, Place(l, e)) = e /\ e \in Songs
<1>1. e \in ToSet(shown[l]) <=> Place(l, e) # 0
  BY PlaceFacts DEF ToSet
<1>2. Place(l, e) # 0 => EntryAt(l, Place(l, e)) = e /\ EntryAt(l, Place(l, e)) \in Songs
  BY PlaceFacts, EntryFacts
<1> QED BY <1>1, <1>2

LEMMA WishFacts ==
    ASSUME NEW l, NEW e
    PROVE  /\ Wish(l, e).list = l /\ Wish(l, e).entry = e
           /\ l \in Nat /\ e \in Songs => Wish(l, e) \in Wanted
           /\ l \in Nat /\ e \in Songs \cup {NoSong} => Wish(l, e) \in Asking
  BY DEF Wish, Wanted, Asking

LEMMA QueueFacts ==
    ASSUME TypeOK
    PROVE  /\ Len(queue) \in Nat /\ DOMAIN queue = 1 .. Len(queue)
           /\ \A i \in 1 .. Len(queue) : /\ queue[i] \in Wanted
                                         /\ queue[i].list \in Nat /\ queue[i].entry \in Songs
           /\ queue # <<>> => Len(queue) # 0 /\ Head(queue) = queue[1]
<1>1. queue \in Seq(Wanted)
  BY DEF TypeOK
<1>2. \A i \in 1 .. Len(queue) : queue[i] \in Wanted
  BY <1>1, ElementOfSeq
<1>3. queue # <<>> => Len(queue) # 0 /\ Head(queue) = queue[1]
  BY <1>1
<1> QED BY <1>1, <1>2, <1>3, LenProperties DEF Wanted

LEMMA OwnNextFacts ==
    ASSUME TypeOK
    PROVE  /\ OwnNext \in Nat
           /\ shown[activeList] # <<>> => OwnNext = 0 \/ OwnNext \in DOMAIN shown[activeList]
<1> DEFINE a == Place(activeList, at[activeList])
           n == Len(shown[activeList])
<1>1. activeList \in Lists /\ repeat \in Repeats
  BY DEF TypeOK
<1>2. /\ a \in Nat /\ a <= n /\ n \in Nat /\ DOMAIN shown[activeList] = 1 .. n
      /\ shown[activeList] # <<>> => n # 0
  BY <1>1, PlaceFacts, ListFacts
<1>3. repeat \in {"None", "One", "All", "AllQueued"}
  BY <1>1 DEF Repeats
<1>4. OwnNext = CASE a = 0 -> 1
                  [] a # 0 /\ repeat = "One" -> a
                  [] a \in 1 .. n - 1 /\ repeat # "One" -> a + 1
                  [] a # 0 /\ a = n /\ repeat = "All" -> 1
                  [] a # 0 /\ a = n /\ repeat \in {"None", "AllQueued"} -> 0
  BY DEF OwnNext
<1> HIDE DEF a, n
<1>5. CASE a = 0
  <2>1. OwnNext = 1
    BY <1>2, <1>4, <1>5
  <2> QED BY <1>2, <2>1
<1>6. CASE a # 0 /\ repeat = "One"
  <2>1. OwnNext = a
    BY <1>2, <1>4, <1>6
  <2> QED BY <1>2, <1>6, <2>1
<1>7. CASE a # 0 /\ repeat # "One" /\ a # n
  <2>1. a \in 1 .. n - 1 /\ a + 1 \in 1 .. n /\ a + 1 \in Nat
    BY <1>2, <1>7
  <2>2. OwnNext = a + 1
    BY <1>4, <1>7, <2>1
  <2> QED BY <1>2, <2>1, <2>2
<1>8. CASE a # 0 /\ repeat # "One" /\ a = n
  <2>1. ~(a \in 1 .. n - 1)
    BY <1>2, <1>8
  <2>2. OwnNext \in {0, 1}
    BY <1>3, <1>4, <1>8, <2>1
  <2>3. 1 \in 1 .. n
    BY <1>2, <1>8
  <2> QED BY <1>2, <2>2, <2>3
<1> QED BY <1>5, <1>6, <1>7, <1>8

\* The four ways to the next song.
LEMMA NextSongCases ==
    ASSUME TypeOK
    PROVE  \/ /\ shown[activeList] = <<>>
              /\ NextSong = From(activeList, 0)
           \/ /\ shown[activeList] # <<>> /\ selected # <<>>
              /\ NextSong = From(activeList, Head(selected))
           \/ /\ shown[activeList] # <<>> /\ selected = <<>>
              /\ queue # <<>> /\ Playable(Head(queue)) /\ Head(queue).list \in Lists
              /\ NextSong = From(Head(queue).list, Place(Head(queue).list, Head(queue).entry))
              /\ NextSong.list = Head(queue).list /\ NextSong.entry = Head(queue).entry
              /\ NextSong.place # 0 /\ NextSong.entry \in Songs
           \/ /\ shown[activeList] # <<>> /\ selected = <<>>
              /\ ~(queue # <<>> /\ Playable(Head(queue)))
              /\ NextSong = From(activeList, OwnNext)
<1>1. ASSUME queue # <<>>, Playable(Head(queue))
      PROVE  LET w == Head(queue) IN
             /\ w.list \in Lists /\ Place(w.list, w.entry) # 0
             /\ EntryAt(w.list, Place(w.list, w.entry)) = w.entry /\ w.entry \in Songs
  BY <1>1, EntryOfPlace DEF Playable
<1> QED BY <1>1 DEF NextSong, NextInOwnList, From

LEMMA NextSongFacts ==
    ASSUME TypeOK
    PROVE  /\ NextSong.list \in Lists /\ NextSong.entry \in Songs \cup {NoSong}
           /\ NextSong.entry = EntryAt(NextSong.list, NextSong.place)
<1>1. activeList \in Lists
  BY DEF TypeOK
<1>2. ASSUME NEW l \in Lists, NEW n
      PROVE  /\ From(l, n).list \in Lists /\ From(l, n).entry \in Songs \cup {NoSong}
             /\ From(l, n).entry = EntryAt(From(l, n).list, From(l, n).place)
  BY EntryFacts DEF From
<1> QED BY <1>1, <1>2, NextSongCases

\* The first wish taken for e, an entry of l that starts, and what it takes with it.
TakenAt(l, e, i) ==
    /\ i \in 1 .. Len(queue) /\ Place(l, queue[i].entry) = Place(l, e)
    /\ \A j \in 1 .. Len(queue) : Place(l, queue[j].entry) = Place(l, e) => i <= j
Backs(l, i) == IF repeat = "AllQueued" THEN [k \in 1 .. i |-> Wish(l, queue[i].entry)] ELSE <<>>

LEMMA QueueAfterFacts ==
    ASSUME TypeOK, NEW l \in Lists, NEW e
    PROVE  \/ /\ QueueAfter(l, e) = queue
              /\ \A j \in 1 .. Len(queue) : Place(l, queue[j].entry) # Place(l, e)
           \/ \E i \in 1 .. Len(queue) :
                 /\ TakenAt(l, e, i)
                 /\ QueueAfter(l, e) = SubSeq(queue, i + 1, Len(queue)) \o Backs(l, i)
<1> DEFINE n == Len(queue)
           T == {k \in 1 .. n : Place(l, queue[k].entry) = Place(l, e)}
           i == FirstOf(n, LAMBDA k : Place(l, queue[k].entry) = Place(l, e))
<1>1. n \in Nat
  BY QueueFacts
<1>2. i = IF \E k \in 1 .. n : Place(l, queue[k].entry) = Place(l, e) THEN Min(T) ELSE 0
  BY DEF FirstOf
<1>3. T # {} => Min(T) \in T /\ \A y \in T : Min(T) <= y
  <2>1. T \in SUBSET Nat
    BY <1>1
  <2> HIDE DEF T
  <2> QED BY <2>1, MinFacts
<1>4. QueueAfter(l, e) = IF i = 0 THEN queue ELSE SubSeq(queue, i + 1, n) \o Backs(l, i)
  BY DEF QueueAfter, Backs
<1> HIDE DEF i
<1>5. CASE T = {}
  BY <1>2, <1>4, <1>5
<1>6. CASE T # {}
  <2>1. i \in T /\ \A y \in T : i <= y
    BY <1>2, <1>3, <1>6
  <2>2. i \in 1 .. n /\ i # 0
    BY <1>1, <2>1
  <2>3. TakenAt(l, e, i)
    BY <2>1, <2>2 DEF TakenAt
  <2> QED BY <1>4, <2>2, <2>3
<1> QED BY <1>5, <1>6

LEMMA RestOfQueue ==
    ASSUME TypeOK, NEW i \in 1 .. Len(queue)
    PROVE  /\ SubSeq(queue, i + 1, Len(queue)) \in Seq(Wanted)
           /\ Len(SubSeq(queue, i + 1, Len(queue))) = Len(queue) - i
<1>1. /\ Len(queue) \in Nat /\ i + 1 \in Int /\ Len(queue) \in Int
      /\ \A k \in i + 1 .. Len(queue) : k \in 1 .. Len(queue)
  BY QueueFacts
<1>2. \A k \in i + 1 .. Len(queue) : queue[k] \in Wanted
  BY <1>1, QueueFacts
<1>3. /\ SubSeq(queue, i + 1, Len(queue)) \in Seq(Wanted)
      /\ Len(SubSeq(queue, i + 1, Len(queue)))
            = IF i + 1 <= Len(queue) THEN Len(queue) - (i + 1) + 1 ELSE 0
  BY <1>1, <1>2, SubSeqProperties
<1> QED BY <1>1, <1>3

LEMMA QueueAfterType ==
    ASSUME TypeOK, NEW l \in Lists, NEW e
    PROVE  QueueAfter(l, e) \in Seq(Wanted) /\ Len(QueueAfter(l, e)) <= Len(queue)
<1>1. queue \in Seq(Wanted) /\ Len(queue) \in Nat
  BY QueueFacts DEF TypeOK
<1>2. ASSUME NEW i \in 1 .. Len(queue)
      PROVE  LET q == SubSeq(queue, i + 1, Len(queue)) \o Backs(l, i) IN
             q \in Seq(Wanted) /\ Len(q) <= Len(queue)
  <2> DEFINE a == SubSeq(queue, i + 1, Len(queue))
             b == Backs(l, i)
  <2>1. a \in Seq(Wanted) /\ Len(a) = Len(queue) - i
    BY RestOfQueue
  <2>2. b \in Seq(Wanted) /\ Len(b) \in {0, i}
    <3>1. Wish(l, queue[i].entry) \in Wanted
      BY QueueFacts, WishFacts, ListFacts
    <3>2. i \in Nat
      OBVIOUS
    <3>3. CASE repeat = "AllQueued"
      <4> DEFINE w == Wish(l, queue[i].entry)
                 c == [k \in 1 .. i |-> w]
      <4>1. b = c
        BY <3>3 DEF Backs
      <4> HIDE DEF w
      <4>2. c \in [1 .. i -> Wanted] /\ c \in Seq(Wanted)
        BY <3>1, <3>2, IsASeq DEF w
      <4>3. Len(c) = i
        BY <3>2, <4>2
      <4> QED BY <4>1, <4>2, <4>3
    <3>4. CASE repeat # "AllQueued"
      <4>1. b = <<>>
        BY <3>4 DEF Backs
      <4> QED BY <4>1
    <3> QED BY <3>3, <3>4
  <2> HIDE DEF a, b
  <2>3. a \o b \in Seq(Wanted) /\ Len(a \o b) = Len(a) + Len(b)
    BY <2>1, <2>2, ConcatProperties
  <2>4. Len(a \o b) <= Len(queue)
    BY <1>1, <2>1, <2>2, <2>3
  <2> QED BY <2>3, <2>4 DEF a, b
<1>3. Len(queue) <= Len(queue)
  BY <1>1
<1> QED BY <1>1, <1>2, <1>3, QueueAfterFacts

\* The history.
LEMMA HistoryFacts ==
    ASSUME NEW h \in Seq(Wanted), Len(h) <= HistorySize, NEW w \in Wanted
    PROVE  LET g == AddHistoryItem(h, w) IN
           /\ g \in Seq(Wanted) /\ Len(g) <= HistorySize
           /\ g # <<>> /\ Head(g) = w
<1> DEFINE g == AddHistoryItem(h, w)
           m == Min({HistorySize, Len(h) + 1})
           u == <<w>> \o h
<1>1. HistorySize \in Nat /\ HistorySize # 0 /\ Len(h) \in Nat /\ Len(h) + 1 \in Nat
  BY PlayQueueAssumption, LenProperties
<1>2. CASE h # <<>> /\ Head(h) = w
  BY <1>2 DEF AddHistoryItem
<1>3. CASE ~(h # <<>> /\ Head(h) = w)
  <2>1. g = SubSeq(u, 1, m)
    BY <1>3 DEF AddHistoryItem
  <2>2. m \in Nat /\ m = IF HistorySize <= Len(h) + 1 THEN HistorySize ELSE Len(h) + 1
    BY <1>1, MinOfTwo
  <2>3. <<w>> \in Seq(Wanted) /\ Len(<<w>>) = 1 /\ <<w>>[1] = w
    OBVIOUS
  <2>4. u \in Seq(Wanted) /\ Len(u) = 1 + Len(h) /\ u[1] = w
    <3>1. u \in Seq(Wanted) /\ Len(u) = Len(<<w>>) + Len(h)
      BY <2>3, ConcatProperties
    <3>2. 1 \in 1 .. Len(<<w>>) + Len(h) /\ 1 <= Len(<<w>>)
      BY <1>1, <2>3
    <3>3. u[1] = <<w>>[1]
      BY <2>3, <3>2, ConcatProperties
    <3> QED BY <2>3, <3>1, <3>3
  <2> HIDE DEF u, m, g
  <2>5. m \in 1 .. Len(u) /\ m <= HistorySize
    BY <1>1, <2>2, <2>4
  <2>6. \A i \in 1 .. m : u[i] \in Wanted
    <3>1. \A i \in 1 .. m : i \in 1 .. Len(u)
      BY <2>4, <2>5
    <3> QED BY <2>4, <3>1, ElementOfSeq
  <2>7. /\ g \in Seq(Wanted) /\ Len(g) = m /\ g[1] = u[1]
    <3>1. 1 \in Int /\ m \in Int /\ 1 <= m /\ m - 1 + 1 = m /\ 1 \in 1 .. m /\ 1 + 1 - 1 = 1
      BY <2>2, <2>5
    <3>2. /\ g \in Seq(Wanted) /\ Len(g) = IF 1 <= m THEN m - 1 + 1 ELSE 0
          /\ \A i \in 1 .. m - 1 + 1 : g[i] = u[1 + i - 1]
      BY <2>1, <2>6, <3>1, SubSeqProperties
    <3> QED BY <3>1, <3>2
  <2>8. g # <<>>
    BY <2>2, <2>5, <2>7
  <2> QED BY <2>4, <2>5, <2>7, <2>8 DEF g
<1> QED BY <1>2, <1>3

----------------------------------------------------------------------------
(***************************************************************************)
(* The future list.                                                        *)
(***************************************************************************)

LEMMA SeqNarrows ==
    ASSUME NEW S, NEW s \in Seq(S), NEW T, \A i \in 1 .. Len(s) : s[i] \in T
    PROVE  s \in Seq(T)
<1>1. Len(s) \in Nat /\ s = [i \in 1 .. Len(s) |-> s[i]]
  BY LenProperties
<1>2. [i \in 1 .. Len(s) |-> s[i]] \in Seq(T)
  BY <1>1, IsASeq
<1> QED BY <1>1, <1>2

LEMMA PrefixFacts ==
    ASSUME NEW S, NEW s \in Seq(S), NEW m \in Nat
    PROVE  LET t == SubSeq(s, 1, Min({m, Len(s)})) IN
           /\ t \in Seq(S) /\ Len(t) = Min({m, Len(s)})
           /\ Len(t) <= m /\ Len(t) <= Len(s)
           /\ \A i \in 1 .. Len(t) : t[i] = s[i]
<1> DEFINE c == Min({m, Len(s)})
           t == SubSeq(s, 1, c)
<1>1. c \in Nat /\ Len(s) \in Nat /\ c <= m /\ c <= Len(s)
  <2>1. Len(s) \in Nat
    BY LenProperties
  <2>2. c \in Nat /\ c = IF m <= Len(s) THEN m ELSE Len(s)
    BY <2>1, MinOfTwo
  <2> QED BY <2>1, <2>2
<1> HIDE DEF c
<1>2. 1 \in Int /\ c \in Int /\ \A i \in 1 .. c : s[i] \in S
  <2>1. \A i \in 1 .. c : i \in 1 .. Len(s)
    BY <1>1
  <2> QED BY <1>1, <2>1, ElementOfSeq
<1>3. /\ t \in Seq(S) /\ Len(t) = IF 1 <= c THEN c - 1 + 1 ELSE 0
      /\ \A i \in 1 .. c - 1 + 1 : t[i] = s[1 + i - 1]
  BY <1>2, SubSeqProperties
<1>4. Len(t) = c
  BY <1>1, <1>3
<1>5. ASSUME NEW i \in 1 .. c PROVE t[i] = s[i]
  <2>1. i \in 1 .. c - 1 + 1 /\ 1 + i - 1 = i
    BY <1>1
  <2> QED BY <1>3, <2>1
<1> QED BY <1>1, <1>3, <1>4, <1>5 DEF c

\* Wishes that name a list that exists.
Here == [list : Lists, entry : Songs \cup {NoSong}]

LEMMA HereFacts ==
    ASSUME TypeOK, NEW l \in Lists, NEW n
    PROVE  Wish(l, EntryAt(l, n)) \in Here
  BY EntryFacts DEF Here, Wish

Shows(w) == w.entry # NoSong
ChosenWishes(l) == [k \in DOMAIN selected |-> Wish(l, EntryAt(l, selected[k]))]
ThereAt(l) == {k \in DOMAIN ChosenWishes(l) : Shows(ChosenWishes(l)[k])}

LEMMA ChosenFacts ==
    ASSUME TypeOK, NEW l \in Lists
    PROVE  /\ ChosenWishes(l) \in Seq(Here) /\ Len(ChosenWishes(l)) = Len(selected)
           /\ Selected(ChosenWishes(l), ThereAt(l)) \in Seq(Here)
           /\ FutureSelected(l) = LET there == Selected(ChosenWishes(l), ThereAt(l)) IN
                               SubSeq(there, 1, Min({FutureSize, Len(there)}))
<1>1. selected \in Seq(Nat \ {0}) /\ Len(selected) \in Nat /\ DOMAIN selected = 1 .. Len(selected)
  BY LenProperties DEF TypeOK
<1>2. ChosenWishes(l) \in [1 .. Len(selected) -> Here]
  BY <1>1, HereFacts DEF ChosenWishes, TypeOK
<1>3. ChosenWishes(l) \in Seq(Here) /\ Len(ChosenWishes(l)) = Len(selected)
  BY <1>1, <1>2
<1>4. Selected(ChosenWishes(l), ThereAt(l)) \in Seq(Here)
  BY <1>3, SelectedFacts DEF ThereAt
<1>5. FutureSelected(l) = LET there == Selected(ChosenWishes(l), ThereAt(l)) IN
                       SubSeq(there, 1, Min({FutureSize, Len(there)}))
  BY DEF FutureSelected, Kept, ThereAt, ChosenWishes, Shows
<1> QED BY <1>3, <1>4, <1>5

LEMMA FutureSelectedFacts ==
    ASSUME TypeOK, NEW l \in Lists
    PROVE  /\ FutureSelected(l) \in Seq(Here)
           /\ Len(FutureSelected(l)) \in Nat /\ Len(FutureSelected(l)) <= FutureSize
<1> DEFINE there == Selected(ChosenWishes(l), ThereAt(l))
<1>1. there \in Seq(Here) /\ FutureSelected(l) = SubSeq(there, 1, Min({FutureSize, Len(there)}))
  BY ChosenFacts
<1>2. FutureSize \in Nat
  BY PlayQueueAssumption
<1> HIDE DEF there
<1>3. FutureSelected(l) \in Seq(Here) /\ Len(FutureSelected(l)) <= FutureSize
  BY <1>1, <1>2, PrefixFacts
<1> QED BY <1>3, LenProperties

ListedAt == {i \in DOMAIN queue : Playable(queue[i])}

LEMMA ListedFacts ==
    ASSUME TypeOK
    PROVE  /\ Listed = Selected(queue, ListedAt) /\ Listed \in Seq(Here)
           /\ (\E i \in DOMAIN queue : Playable(queue[i])) => Listed # <<>>
<1>1. Listed = Selected(queue, ListedAt)
  BY DEF Listed, Kept, ListedAt
<1>2. queue \in Seq(Wanted) /\ ListedAt \in SUBSET DOMAIN queue
  BY DEF TypeOK, ListedAt
<1>3. /\ Listed \in Seq(Wanted)
      /\ \A k \in DOMAIN Listed : \E i \in ListedAt : Listed[k] = queue[i]
      /\ ListedAt # {} => Listed # <<>>
  BY <1>1, <1>2, SelectedFacts
<1>4. ASSUME NEW k \in 1 .. Len(Listed) PROVE Listed[k] \in Here
  <2>1. Listed[k] \in Wanted
    BY <1>3, ElementOfSeq
  <2>2. k \in DOMAIN Listed
    BY <1>3, LenProperties
  <2>3. PICK i \in ListedAt : Listed[k] = queue[i]
    BY <1>3, <2>2
  <2>4. Listed[k].list \in Lists
    BY <2>3 DEF ListedAt, Playable
  <2> QED BY <2>1, <2>4 DEF Wanted, Here
<1>5. Listed \in Seq(Here)
  BY <1>3, <1>4, SeqNarrows
<1> QED BY <1>1, <1>3, <1>5 DEF ListedAt

LEMMA FutureQueueFacts ==
    ASSUME TypeOK, NEW room \in Nat, Restarts /\ room # 0 => Listed # <<>>
    PROVE  FutureQueue(room) \in Seq(Here) /\ Len(FutureQueue(room)) <= room
<1>1. Listed \in Seq(Here) /\ Len(Listed) \in Nat
  BY ListedFacts, LenProperties
<1>2. CASE ~Restarts
  <2>1. FutureQueue(room) = SubSeq(Listed, 1, Min({room, Len(Listed)}))
    BY <1>2 DEF FutureQueue
  <2> QED BY <1>1, <2>1, PrefixFacts
<1>3. CASE Restarts
  <2> DEFINE e(k) == Listed[((k - 1) % Len(Listed)) + 1]
             c == [k \in 1 .. room |-> e(k)]
  <2>1. FutureQueue(room) = c
    BY <1>3 DEF FutureQueue
  <2>2. ASSUME NEW k \in 1 .. room PROVE e(k) \in Here
    <3>1. Len(Listed) # 0
      BY <1>1, <1>3
    <3>2. ((k - 1) % Len(Listed)) + 1 \in 1 .. Len(Listed)
      BY <1>1, <3>1
    <3> QED BY <1>1, <3>2, ElementOfSeq
  <2> HIDE DEF e
  <2>3. c \in Seq(Here)
    BY <2>2, IsASeq
  <2>4. c \in [1 .. room -> Here] /\ Len(c) = room
    BY <2>2, <2>3
  <2> QED BY <2>1, <2>3, <2>4
<1> QED BY <1>2, <1>3

LEMMA FutureOwnFacts ==
    ASSUME TypeOK, NEW l \in Lists, NEW n, NEW room \in Nat
    PROVE  FutureOwn(l, n, room) \in Seq(Here)
<1>1. CASE shown[l] = <<>>
  BY <1>1 DEF FutureOwn
<1>2. CASE shown[l] # <<>>
  <2> DEFINE p == CHOOSE p : p = [k \in 0 .. room |-> IF k = 0 THEN n ELSE PlaceAfter(l, p[k - 1])]
             e(k) == Wish(l, EntryAt(l, p[k]))
  <2>1. FutureOwn(l, n, room) = [k \in 1 .. room |-> e(k)]
    BY <1>2 DEF FutureOwn
  <2>2. \A k \in 1 .. room : e(k) \in Here
    <3> HIDE DEF p
    <3> QED BY HereFacts
  <2> HIDE DEF e
  <2> QED BY <2>1, <2>2, IsASeq
<1> QED BY <1>1, <1>2

LEMMA FutureWithFacts ==
    ASSUME TypeOK, NEW l \in Lists, NEW e, NEW asked \in Seq(Here), Len(asked) <= FutureSize
    PROVE  FutureWith(l, e, asked) \in Seq(Here)
<1> DEFINE last == IF asked = <<>> THEN Wish(l, e) ELSE Last(asked)
           n == Place(last.list, last.entry)
           room == FutureSize - Len(asked)
           first == <<Wish(last.list, EntryAt(last.list, 1))>>
           own == FutureOwn(last.list, 1, room - 1)
<1>1. Len(asked) \in Nat /\ FutureSize \in Nat /\ room \in Nat
  BY LenProperties, PlayQueueAssumption
<1>2. last.list \in Lists
  <2>1. CASE asked = <<>>
    BY <2>1 DEF TypeOK, Wish
  <2>2. CASE asked # <<>>
    <3>1. Len(asked) \in 1 .. Len(asked)
      BY <1>1, <2>2
    <3>2. Last(asked) \in Here
      BY <3>1, ElementOfSeq DEF Last
    <3> QED BY <2>2, <3>2 DEF Here
  <2> QED BY <2>1, <2>2
<1>3. FutureWith(l, e, asked) = IF n = 0 /\ room > 0 THEN asked \o first \o own
                          ELSE asked \o FutureOwn(last.list, n, room)
  BY DEF FutureWith
<1>4. first \in Seq(Here)
  <2>1. Wish(last.list, EntryAt(last.list, 1)) \in Here
    <3> HIDE DEF last
    <3> QED BY <1>2, HereFacts
  <2> DEFINE x == Wish(last.list, EntryAt(last.list, 1))
  <2> HIDE DEF x
  <2>2. x \in Here /\ first = <<x>>
    BY <2>1 DEF x
  <2> QED BY <2>2
<1> HIDE DEF last, first
<1>5. CASE n = 0 /\ room > 0
  <2>1. room - 1 \in Nat
    BY <1>1, <1>5
  <2>2. own \in Seq(Here)
    BY <1>2, <2>1, FutureOwnFacts
  <2> HIDE DEF own
  <2>3. asked \o first \in Seq(Here)
    BY <1>4, ConcatProperties
  <2>4. (asked \o first) \o own \in Seq(Here)
    BY <2>2, <2>3, ConcatProperties
  <2> QED BY <1>3, <1>5, <2>4
<1>6. CASE ~(n = 0 /\ room > 0)
  <2>1. FutureOwn(last.list, n, room) \in Seq(Here)
    BY <1>1, <1>2, FutureOwnFacts
  <2> QED BY <1>3, <1>6, <2>1, ConcatProperties
<1> QED BY <1>5, <1>6

LEMMA FutureAskedFacts ==
    ASSUME TypeOK, NEW l \in Lists, ~FutureLoops(l)
    PROVE  FutureAsked(l) \in Seq(Here) /\ Len(FutureAsked(l)) <= FutureSize
<1> DEFINE a == FutureSelected(l)
           room == FutureSize - Len(a)
<1>1. a \in Seq(Here) /\ Len(a) \in Nat /\ Len(a) <= FutureSize
  BY FutureSelectedFacts
<1>2. FutureSize \in Nat /\ room \in Nat
  BY <1>1, PlayQueueAssumption
<1>3. Restarts /\ room # 0 => Listed # <<>>
  <2>1. SUFFICES ASSUME Restarts, room # 0 PROVE Listed # <<>>
    OBVIOUS
  <2>2. Len(a) < FutureSize
    BY <1>1, <1>2, <2>1
  <2>3. \E i \in DOMAIN queue : Playable(queue[i])
    BY <2>1, <2>2 DEF FutureLoops
  <2> QED BY <2>3, ListedFacts
<1>4. FutureQueue(room) \in Seq(Here) /\ Len(FutureQueue(room)) <= room
  BY <1>2, <1>3, FutureQueueFacts
<1>5. FutureAsked(l) = a \o FutureQueue(room)
  BY DEF FutureAsked
<1> HIDE DEF a
<1> DEFINE b == FutureQueue(room)
<1>6. b \in Seq(Here) /\ Len(b) <= FutureSize - Len(a) /\ Len(b) \in Nat
  BY <1>4, LenProperties
<1> HIDE DEF b
<1>7. a \o b \in Seq(Here) /\ Len(a \o b) = Len(a) + Len(b)
  BY <1>1, <1>6, ConcatProperties
<1>8. Len(a \o b) <= FutureSize
  BY <1>1, <1>2, <1>6, <1>7
<1> QED BY <1>5, <1>7, <1>8 DEF b

MenuOK == \A m \in outdated : m \in Seq(Asking)

LEMMA MenuFacts ==
    ASSUME TypeOK, NEW l \in Lists, NEW e, ~FutureLoops(l)
    PROVE  /\ FutureMenus(l, e) = {FutureWith(l, e, FutureAsked(l))}
           /\ \A m \in FutureMenus(l, e) : m \in Seq(Asking)
<1>1. FutureMenus(l, e) = {FutureWith(l, e, FutureAsked(l))}
  BY DEF FutureMenus
<1>2. FutureWith(l, e, FutureAsked(l)) \in Seq(Here)
  BY FutureAskedFacts, FutureWithFacts
<1>3. Here \subseteq Asking
  BY DEF TypeOK, Here, Asking
<1> QED BY <1>1, <1>2, <1>3, SeqMonotonic

\* A step from a state that does not hang leaves the menu built, as it was or as
\* it would have been built.
LEMMA MenuStep ==
    ASSUME TypeOK, ~Hung, RebuildFutureMenu \/ KeepFutureMenu
    PROVE  MenuOK'
<1>1. CASE RebuildFutureMenu
  BY <1>1 DEF RebuildFutureMenu, MenuOK
<1>2. CASE KeepFutureMenu /\ outdated # {}
  BY <1>2 DEF KeepFutureMenu, Menus, MenuOK, TypeOK, Asking
<1>3. CASE KeepFutureMenu /\ outdated = {}
  <2>1. ~FutureLoops(activeList) /\ activeList \in Lists
    BY <1>3 DEF Hung, TypeOK
  <2>2. outdated' = FutureMenus(activeList, at[activeList])
    BY <1>3 DEF KeepFutureMenu, Menus
  <2> QED BY <2>1, <2>2, MenuFacts DEF MenuOK
<1> QED BY <1>1, <1>2, <1>3

----------------------------------------------------------------------------
(***************************************************************************)
(* TypeOK, part by part, and what PlayEntry does to the parts.             *)
(***************************************************************************)

ListsOK ==
    /\ 0 \in Lists /\ Lists \subseteq Nat
    /\ items \in [Lists -> Seq(Songs)] /\ shown \in [Lists -> Seq(Songs)]
    /\ newestID \in Nat
ActiveOK == at \in [Lists -> Songs \cup {NoSong}] /\ activeList \in Lists
HistoryOK == history \in Seq(Wanted) /\ Len(history) <= HistorySize
HeardOK ==
    /\ selected \in Seq(Nat \ {0})
    /\ playing \in Wanted \cup {Silence} /\ ending \in {"none", "old", "last"}
    /\ failing \in BOOLEAN /\ retries \in 0 .. MaxRetry
AsksOK  == queue \in Seq(Wanted) /\ Len(queue) <= MaxQueue
RestOK  == repeat \in Repeats /\ crossfade \in BOOLEAN /\ steps \in 0 .. MaxSteps

LEMMA TypeParts ==
    TypeOK <=> ListsOK /\ ActiveOK /\ HistoryOK /\ HeardOK /\ AsksOK /\ MenuOK /\ RestOK
  BY DEF TypeOK, ListsOK, ActiveOK, HistoryOK, HeardOK, AsksOK, MenuOK, RestOK, Asking

LEMMA TypeNext ==
    TypeOK' <=> ListsOK' /\ ActiveOK' /\ HistoryOK' /\ HeardOK' /\ AsksOK' /\ MenuOK' /\ RestOK'
  BY DEF TypeOK, ListsOK, ActiveOK, HistoryOK, HeardOK, AsksOK, MenuOK, RestOK, Asking

\* The parts that playing can change.
PlayOK == ActiveOK /\ HistoryOK /\ HeardOK /\ AsksOK /\ MenuOK

LEMMA AssumptionFacts ==
    /\ MaxRetry \in Nat /\ MaxQueue \in Nat /\ MaxSteps \in Nat /\ FirstID \in Nat
    /\ HistorySize \in Nat /\ FutureSize \in Nat /\ NoSong \notin Songs /\ Broken \subseteq Songs
  BY PlayQueueAssumption

LEMMA ActiveFacts ==
    ASSUME TypeOK, NEW l \in Lists
    PROVE  AtOnceActive(l) \in [Lists -> Songs \cup {NoSong}]
  BY DEF TypeOK, AtOnceActive

LEMMA EntryFails ==
    ASSUME TypeOK, UNCHANGED items,
           NEW l \in Lists, NEW e \in Songs, NEW h \in Seq(Wanted), Len(h) <= HistorySize,
           NEW old \in Wanted \cup {Silence}, NEW reset \in BOOLEAN, retries' \in 0 .. MaxRetry,
           CannotOpen(l, e, h, old, reset)
    PROVE  ActiveOK' /\ HistoryOK' /\ HeardOK' /\ AsksOK'
<1>1. ActiveOK'
  BY ActiveFacts DEF CannotOpen, ActiveOK, Lists
<1>2. HistoryOK' /\ AsksOK'
  BY DEF CannotOpen, HistoryOK, AsksOK, TypeOK
<1>3. HeardOK'
  BY DEF CannotOpen, HeardOK, TypeOK
<1> QED BY <1>1, <1>2, <1>3

LEMMA EntryPlayed ==
    ASSUME TypeOK, ~Hung, UNCHANGED items,
           NEW l \in Lists, NEW e \in Songs, NEW h \in Seq(Wanted), Len(h) <= HistorySize,
           NEW old \in Wanted \cup {Silence}, NEW reset \in BOOLEAN,
           NEW tried \in 0 .. MaxRetry, PlayEntry(l, e, h, old, reset, tried)
    PROVE  PlayOK'
<1>3. l \in Nat /\ Wish(l, e) \in Wanted
  BY WishFacts DEF TypeOK
<1>4. CASE e \in Broken
  <2>1. CannotOpen(l, e, h, old, reset) /\ retries' = tried /\ KeepFutureMenu
    BY <1>4 DEF PlayEntry
  <2>2. MenuOK'
    BY <2>1, MenuStep
  <2>3. ActiveOK' /\ HistoryOK' /\ HeardOK' /\ AsksOK'
    BY <2>1, EntryFails
  <2> QED BY <2>2, <2>3 DEF PlayOK
<1>5. CASE e \notin Broken
  <2>1. Starts(l, e, h, old, reset)
    BY <1>5 DEF PlayEntry
  <2>0. ActiveOK'
    BY <2>1, ActiveFacts DEF Starts, ActiveOK, Lists
  <2>2. MenuOK'
    BY <2>1, MenuStep DEF Starts
  <2>3. HistoryOK'
    BY <1>3, <2>1, HistoryFacts DEF Starts, HistoryOK
  <2>4. AsksOK'
    <3>1. /\ queue' \in Seq(Wanted) /\ Len(queue') <= Len(queue)
          /\ Len(queue) <= MaxQueue /\ Len(queue) \in Nat
      BY <2>1, QueueAfterType, QueueFacts DEF Starts, TypeOK
    <3>2. Len(queue') \in Nat /\ MaxQueue \in Nat
      BY <3>1, LenProperties, AssumptionFacts
    <3> QED BY <3>1, <3>2 DEF AsksOK
  <2>5. HeardOK'
    <3>1. selected' \in Seq(Nat \ {0})
      <4>1. selected # <<>> => Tail(selected) \in Seq(Nat \ {0})
        BY HeadTailProperties DEF TypeOK
      <4>2. selected' = IF selected # <<>> /\ Head(selected) = Place(l, e)
                        THEN Tail(selected) ELSE selected
        BY <2>1 DEF Starts
      <4>3. selected \in Seq(Nat \ {0})
        BY DEF TypeOK
      <4> QED BY <4>1, <4>2, <4>3
    <3>2. playing' \in Wanted /\ ending' \in {"none", "old"} /\ failing' = FALSE /\ retries' = 0
      BY <1>3, <2>1 DEF Starts
    <3>3. 0 \in 0 .. MaxRetry
      BY AssumptionFacts
    <3> QED BY <3>1, <3>2, <3>3 DEF HeardOK
  <2> QED BY <2>0, <2>2, <2>3, <2>4, <2>5 DEF PlayOK
<1> QED BY <1>4, <1>5

LEMMA ActiveMade ==
    ASSUME TypeOK, UNCHANGED items,
           NEW l \in Lists, NEW h \in Seq(Wanted), Len(h) <= HistorySize, MakeActive(l, h)
    PROVE  ActiveOK' /\ HistoryOK' /\ AsksOK' /\ selected' \in Seq(Nat \ {0})
<1>1. ActiveOK'
  BY ActiveFacts DEF MakeActive, ActiveOK, Lists
<1> QED BY <1>1 DEF MakeActive, HistoryOK, AsksOK, TypeOK

LEMMA NothingPlayed ==
    ASSUME TypeOK, ~Hung, UNCHANGED items,
           NEW l \in Lists, NEW h \in Seq(Wanted), Len(h) <= HistorySize, PlayNothing(l, h)
    PROVE  ActiveOK' /\ HistoryOK' /\ AsksOK' /\ MenuOK' /\ selected' \in Seq(Nat \ {0})
<1>1. MenuOK'
  BY MenuStep DEF PlayNothing
<1>2. ActiveOK' /\ HistoryOK' /\ AsksOK' /\ selected' \in Seq(Nat \ {0})
  BY ActiveMade DEF PlayNothing
<1> QED BY <1>1, <1>2

LEMMA Chosen ==
    ASSUME TypeOK, ~Hung, NEW l \in Lists, NEW e \in Songs \cup {NoSong},
           NEW h \in Seq(Wanted), Len(h) <= HistorySize, Choose(l, e, h)
    PROVE  PlayOK' /\ UNCHANGED <<listVars, repeat, crossfade>>
<1>1. UNCHANGED <<listVars, repeat, crossfade>> /\ UNCHANGED items
  BY DEF Choose, listVars
<1>2. CASE e = NoSong
  <2>1. PlayNothing(l, h) /\ UNCHANGED <<playing, ending, failing, retries>>
    BY <1>2 DEF Choose
  <2>2. ActiveOK' /\ HistoryOK' /\ AsksOK' /\ MenuOK' /\ selected' \in Seq(Nat \ {0})
    BY <1>1, <2>1, NothingPlayed
  <2> QED BY <1>1, <2>1, <2>2 DEF PlayOK, HeardOK, TypeOK
<1>3. CASE e # NoSong
  <2>1. PlayEntry(l, e, h, playing, TRUE, retries)
    BY <1>3 DEF Choose
  <2>2. playing \in Wanted \cup {Silence} /\ retries \in 0 .. MaxRetry /\ e \in Songs
    BY <1>3 DEF TypeOK
  <2> QED BY <1>1, <2>1, <2>2, EntryPlayed
<1> QED BY <1>2, <1>3

LEMMA CommandFacts ==
    ASSUME TypeOK, Command
    PROVE  ~Hung /\ ~failing /\ steps' \in 0 .. MaxSteps /\ steps' = steps + 1 /\ steps' # steps
<1>1. ~Hung /\ ~failing /\ steps < MaxSteps /\ steps' = steps + 1
  BY DEF Command
<1>2. steps \in 0 .. MaxSteps /\ MaxSteps \in Nat
  BY AssumptionFacts DEF TypeOK
<1>3. steps' \in 0 .. MaxSteps /\ steps' # steps
  BY <1>1, <1>2
<1> QED BY <1>1, <1>3

LEMMA ListsSame == ASSUME TypeOK, UNCHANGED listVars PROVE ListsOK' /\ UNCHANGED <<items, shown>>
  BY DEF TypeOK, ListsOK, listVars, Lists

LEMMA RestSame ==
    ASSUME TypeOK, UNCHANGED <<repeat, crossfade>>, steps' \in 0 .. MaxSteps
    PROVE  RestOK'
  BY DEF TypeOK, RestOK

LEMMA ChosenStep ==
    ASSUME TypeOK, Command, NEW l \in Lists, NEW e \in Songs \cup {NoSong},
           NEW h \in Seq(Wanted), Len(h) <= HistorySize, Choose(l, e, h)
    PROVE  TypeOK'
<1>1. ~Hung /\ steps' \in 0 .. MaxSteps
  BY CommandFacts
<1>2. PlayOK' /\ UNCHANGED listVars /\ UNCHANGED <<repeat, crossfade>>
  BY <1>1, Chosen
<1>3. ListsOK' /\ RestOK'
  BY <1>1, <1>2, ListsSame, RestSame
<1> QED BY <1>2, <1>3, TypeNext DEF PlayOK

LEMMA LibraryStep ==
    ASSUME TypeOK, Command, NEW e \in Songs \cup {NoSong},
           NEW h \in Seq(Wanted), Len(h) <= HistorySize, PlayFromLibrary(e, h)
    PROVE  TypeOK'
<1>0. 0 \in Lists /\ ~Hung /\ steps' \in 0 .. MaxSteps
  BY CommandFacts DEF TypeOK
<1>1. CASE Choose(0, e, h)
  BY <1>0, <1>1, ChosenStep
<1>2. CASE ~Choose(0, e, h)
  <2>1. UNCHANGED listVars /\ UNCHANGED items /\ UNCHANGED <<repeat, crossfade>>
    BY <1>2 DEF PlayFromLibrary, listVars
  <2>2. ListsOK' /\ RestOK'
    BY <1>0, <2>1, ListsSame, RestSame
  <2>3. CASE MakeActive(0, h) /\ RebuildFutureMenu /\ UNCHANGED <<playing, ending, failing, retries>>
    <3>1. ActiveOK' /\ HistoryOK' /\ AsksOK' /\ selected' \in Seq(Nat \ {0})
      BY <1>0, <2>1, <2>3, ActiveMade
    <3>2. MenuOK' /\ HeardOK'
      BY <2>3, <3>1 DEF RebuildFutureMenu, MenuOK, HeardOK, TypeOK
    <3> QED BY <2>2, <3>1, <3>2, TypeNext
  <2>4. CASE /\ e \in Broken /\ ~FutureLoops(0)
             /\ CannotOpen(0, e, h, playing, TRUE) /\ UNCHANGED retries
             /\ outdated' = FutureMenus(0, at[0])
    <3>1. e \in Songs /\ playing \in Wanted \cup {Silence} /\ retries' \in 0 .. MaxRetry
      BY <2>4, AssumptionFacts DEF TypeOK
    <3>2. ActiveOK' /\ HistoryOK' /\ HeardOK' /\ AsksOK'
      BY <1>0, <2>1, <2>4, <3>1, EntryFails
    <3>3. MenuOK'
      BY <1>0, <2>4, MenuFacts DEF MenuOK
    <3> QED BY <2>2, <3>2, <3>3, TypeNext
  <2> QED BY <1>2, <2>3, <2>4 DEF PlayFromLibrary
<1> QED BY <1>1, <1>2

\* The history without the item that is played from it.
LEMMA RemoveAtFacts ==
    ASSUME TypeOK, NEW i \in DOMAIN history
    PROVE  /\ RemoveAt(history, i) \in Seq(Wanted)
           /\ Len(RemoveAt(history, i)) <= HistorySize
           /\ history[i] \in Wanted
<1> DEFINE n == Len(history)
           a == SubSeq(history, 1, i - 1)
           b == SubSeq(history, i + 1, n)
<1>1. history \in Seq(Wanted) /\ n \in Nat /\ DOMAIN history = 1 .. n /\ n <= HistorySize
  BY LenProperties DEF TypeOK
<1>2. \A k \in 1 .. n : history[k] \in Wanted
  BY <1>1, ElementOfSeq
<1>3. a \in Seq(Wanted) /\ Len(a) = i - 1
  <2>1. /\ 1 \in Int /\ i - 1 \in Int /\ \A k \in 1 .. i - 1 : k \in 1 .. n
        /\ (IF 1 <= i - 1 THEN i - 1 - 1 + 1 ELSE 0) = i - 1
    BY <1>1
  <2>2. \A k \in 1 .. i - 1 : history[k] \in Wanted
    BY <1>2, <2>1
  <2> QED BY <2>1, <2>2, SubSeqProperties
<1>4. b \in Seq(Wanted) /\ Len(b) = n - i
  <2>1. /\ i + 1 \in Int /\ n \in Int /\ \A k \in i + 1 .. n : k \in 1 .. n
        /\ (IF i + 1 <= n THEN n - (i + 1) + 1 ELSE 0) = n - i
    BY <1>1
  <2>2. \A k \in i + 1 .. n : history[k] \in Wanted
    BY <1>2, <2>1
  <2> HIDE DEF n
  <2> QED BY <2>1, <2>2, SubSeqProperties
<1>5. RemoveAt(history, i) = a \o b
  BY DEF RemoveAt
<1> HIDE DEF a, b
<1>6. a \o b \in Seq(Wanted) /\ Len(a \o b) = Len(a) + Len(b)
  BY <1>3, <1>4, ConcatProperties
<1>7. Len(a \o b) <= HistorySize
  BY <1>1, <1>3, <1>4, <1>6, AssumptionFacts
<1> QED BY <1>1, <1>2, <1>5, <1>6, <1>7

LEMMA ShownSong ==
    ASSUME TypeOK, NEW l \in Lists, NEW e, e \in ToSet(shown[l]) \cup ToSet(items[l])
    PROVE  e \in Songs
<1>1. \A i \in DOMAIN shown[l] : shown[l][i] \in Songs
  BY ListFacts, ElementOfSeq
<1>2. \A i \in DOMAIN items[l] : items[l][i] \in Songs
  <2>1. items[l] \in Seq(Songs)
    BY ListFacts
  <2> QED BY <2>1, LenProperties, ElementOfSeq
<1> QED BY <1>1, <1>2 DEF ToSet

LEMMA PlayStep == TypeOK /\ Play => TypeOK'
<1> SUFFICES ASSUME TypeOK, Play PROVE TypeOK'
  OBVIOUS
<1>1. history \in Seq(Wanted) /\ Len(history) <= HistorySize
  BY DEF TypeOK
<1>2. CASE SkipToNext
  <2> DEFINE n == NextSong
             e == IF n.place = 0 THEN EntryAt(n.list, 1) ELSE n.entry
  <2>1. Command /\ Choose(n.list, e, history)
    BY <1>2 DEF SkipToNext, OrFirst, Wish
  <2>2. n.list \in Lists /\ n.entry \in Songs \cup {NoSong}
    BY NextSongFacts
  <2>3. e \in Songs \cup {NoSong}
    BY <2>2, EntryFacts
  <2> HIDE DEF e, n
  <2> QED BY <1>1, <2>1, <2>2, <2>3, ChosenStep
<1>3. CASE \E l \in Lists : \E e \in ToSet(shown[l]) : PlayFromView(l, e)
  <2>1. PICK l \in Lists : \E e \in ToSet(shown[l]) : PlayFromView(l, e)
    BY <1>3
  <2>2. PICK e \in ToSet(shown[l]) : PlayFromView(l, e)
    BY <2>1
  <2>3. Command /\ Choose(l, e, history) /\ e \in Songs
    BY <2>2, ShownSong DEF PlayFromView
  <2> QED BY <1>1, <2>3, ChosenStep
<1>4. CASE \E i \in DOMAIN history : PlayHistoryIndex(i)
  <2>1. PICK i \in DOMAIN history : PlayHistoryIndex(i)
    BY <1>4
  <2> DEFINE w == history[i]
             h == RemoveAt(history, i)
             e == IF w.entry \in Library THEN w.entry ELSE NoSong
  <2>2. Command
    BY <2>1 DEF PlayHistoryIndex
  <2>3. h \in Seq(Wanted) /\ Len(h) <= HistorySize /\ w \in Wanted
    BY RemoveAtFacts
  <2>4. CASE w.list \in Lists /\ w.entry \in ToSet(items[w.list])
    <3>1. Choose(w.list, w.entry, h)
      BY <2>1, <2>4 DEF PlayHistoryIndex
    <3>2. w.entry \in Songs
      BY <2>3 DEF Wanted
    <3> HIDE DEF h
    <3> QED BY <2>2, <2>3, <2>4, <3>1, <3>2, ChosenStep
  <2>5. CASE ~(w.list \in Lists /\ w.entry \in ToSet(items[w.list]))
    <3>1. PlayFromLibrary(e, h)
      BY <2>1, <2>5 DEF PlayHistoryIndex
    <3>2. e \in Songs \cup {NoSong}
      BY <2>3 DEF Wanted
    <3> HIDE DEF h, e
    <3> QED BY <2>2, <2>3, <3>1, <3>2, LibraryStep
  <2> QED BY <2>4, <2>5
<1>5. CASE ~Hung /\ \E i \in DOMAIN Future : PlayFuture(i)
  <2>1. PICK i \in DOMAIN Future : PlayFuture(i)
    BY <1>5
  <2> DEFINE w == Future[i]
             e == IF w.entry \in ToSet(items[w.list]) THEN w.entry ELSE NoSong
  <2>2. Command /\ w.list \in Lists /\ Choose(w.list, e, history)
    BY <2>1 DEF PlayFuture
  <2>3. e \in Songs \cup {NoSong}
    BY <2>2, ShownSong
  <2> HIDE DEF e, w
  <2> QED BY <1>1, <2>2, <2>3, ChosenStep
<1> QED BY <1>2, <1>3, <1>4, <1>5 DEF Play

LEMMA GoOnFacts ==
    ASSUME TypeOK, GoOn
    PROVE  /\ UNCHANGED steps /\ UNCHANGED listVars /\ UNCHANGED <<repeat, crossfade>> /\ ~Hung
           /\ \/ SongEnds(NextSong) \/ MixPoint(NextSong)
              \/ StreamEnds(NextSong) \/ HandleFailed(NextSong)
<1>1. SongEnds(NextSong) \/ MixPoint(NextSong) \/ StreamEnds(NextSong) \/ HandleFailed(NextSong)
  BY DEF GoOn
<1>2. Notified
  BY <1>1 DEF SongEnds, MixPoint, StreamEnds, HandleFailed
<1> QED BY <1>1, <1>2 DEF Notified

LEMMA GoOnStep == TypeOK /\ GoOn => TypeOK'
<1> SUFFICES ASSUME TypeOK, GoOn PROVE TypeOK'
  OBVIOUS
<1> DEFINE n == NextSong
<1>1. /\ UNCHANGED steps /\ UNCHANGED listVars /\ UNCHANGED <<repeat, crossfade>> /\ ~Hung
      /\ SongEnds(n) \/ MixPoint(n) \/ StreamEnds(n) \/ HandleFailed(n)
  BY GoOnFacts
<1>2. n.list \in Lists /\ n.entry \in Songs \cup {NoSong}
  BY NextSongFacts
<1> HIDE DEF n
<1>3. ListsOK' /\ RestOK' /\ UNCHANGED items
  BY <1>1, ListsSame, RestSame DEF TypeOK
<1>4. SUFFICES PlayOK'
  BY <1>3, TypeNext DEF PlayOK
<1>5. /\ history \in Seq(Wanted) /\ Len(history) <= HistorySize
      /\ playing \in Wanted \cup {Silence} /\ Silence \in Wanted \cup {Silence}
      /\ ending \in {"none", "old", "last"} /\ failing \in BOOLEAN /\ retries \in 0 .. MaxRetry
      /\ selected \in Seq(Nat \ {0}) /\ activeList \in Lists
      /\ TRUE \in BOOLEAN /\ FALSE \in BOOLEAN
  BY DEF TypeOK
<1>6. CASE SongEnds(n)
  <2>1. CASE n.entry = NoSong
    <3>1. PlayNothing(n.list, history) /\ playing' = Silence /\ UNCHANGED <<ending, failing, retries>>
      BY <1>6, <2>1 DEF SongEnds
    <3>2. ActiveOK' /\ HistoryOK' /\ AsksOK' /\ MenuOK' /\ selected' \in Seq(Nat \ {0})
      BY <1>1, <1>2, <1>3, <1>5, <3>1, NothingPlayed
    <3> QED BY <1>5, <3>1, <3>2 DEF PlayOK, HeardOK
  <2>2. CASE n.entry # NoSong
    <3>1. PlayEntry(n.list, n.entry, history, Silence, TRUE, retries)
      BY <1>6, <2>2 DEF SongEnds
    <3> QED BY <1>1, <1>2, <1>3, <1>5, <2>2, <3>1, EntryPlayed
  <2> QED BY <2>1, <2>2
<1>7. CASE MixPoint(n)
  <2>1. CASE n.entry = NoSong
    <3>1. PlayNothing(n.list, history) /\ ending' = "last" /\ UNCHANGED <<playing, failing, retries>>
      BY <1>7, <2>1 DEF MixPoint
    <3>2. ActiveOK' /\ HistoryOK' /\ AsksOK' /\ MenuOK' /\ selected' \in Seq(Nat \ {0})
      BY <1>1, <1>2, <1>3, <1>5, <3>1, NothingPlayed
    <3> QED BY <1>5, <3>1, <3>2 DEF PlayOK, HeardOK
  <2>2. CASE n.entry # NoSong
    <3>1. PlayEntry(n.list, n.entry, history, playing, FALSE, retries)
      BY <1>7, <2>2 DEF MixPoint
    <3> QED BY <1>1, <1>2, <1>3, <1>5, <2>2, <3>1, EntryPlayed
  <2> QED BY <2>1, <2>2
<1>8. CASE StreamEnds(n)
  <2>1. /\ PlayNothing(n.list, history) /\ ending' = "none" /\ playing' \in {Silence, playing}
        /\ UNCHANGED <<failing, retries>>
    BY <1>8 DEF StreamEnds, HeardAfterEnd
  <2>2. ActiveOK' /\ HistoryOK' /\ AsksOK' /\ MenuOK' /\ selected' \in Seq(Nat \ {0})
    BY <1>1, <1>2, <1>3, <1>5, <2>1, NothingPlayed
  <2>3. HeardOK'
    BY <1>5, <2>1, <2>2 DEF HeardOK
  <2> QED BY <2>2, <2>3 DEF PlayOK
<1>9. CASE HandleFailed(n)
  <2>0. retries < MaxRetry => retries + 1 \in 0 .. MaxRetry
    BY <1>5, AssumptionFacts
  <2>1. CASE retries < MaxRetry /\ n.entry # NoSong
    <3> DEFINE tried == retries + 1
    <3>1. PlayEntry(n.list, n.entry, history, playing, FALSE, tried)
      BY <1>9, <2>1 DEF HandleFailed
    <3>2. tried \in 0 .. MaxRetry /\ n.entry \in Songs
      BY <1>2, <2>0, <2>1
    <3> HIDE DEF tried
    <3> QED BY <1>1, <1>2, <1>3, <1>5, <3>1, <3>2, EntryPlayed
  <2>2. CASE ~(retries < MaxRetry /\ n.entry # NoSong)
    <3> DEFINE l == IF retries < MaxRetry THEN n.list ELSE activeList
    <3>1. /\ PlayNothing(l, history) /\ failing' = FALSE
          /\ retries' = IF retries < MaxRetry THEN retries + 1 ELSE retries
          /\ UNCHANGED <<playing, ending>>
      BY <1>9, <2>2 DEF HandleFailed
    <3>2. l \in Lists
      BY <1>2, <1>5
    <3> HIDE DEF l
    <3>3. ActiveOK' /\ HistoryOK' /\ AsksOK' /\ MenuOK' /\ selected' \in Seq(Nat \ {0})
      BY <1>1, <1>3, <1>5, <3>1, <3>2, NothingPlayed
    <3>4. retries' \in 0 .. MaxRetry
      BY <1>5, <2>0, <3>1
    <3> QED BY <1>5, <3>1, <3>3, <3>4 DEF PlayOK, HeardOK
  <2> QED BY <2>1, <2>2
<1> QED BY <1>1, <1>6, <1>7, <1>8, <1>9

----------------------------------------------------------------------------
(***************************************************************************)
(* What the user asks for.                                                 *)
(***************************************************************************)

\* A selection names places that the list shows.
LEMMA SelectionFacts ==
    ASSUME TypeOK, NEW l \in Lists, NEW sel \in Selections(l)
    PROVE  /\ sel \in Seq(DOMAIN shown[l]) /\ sel \in Seq(Nat \ {0})
           /\ Wishes(l, sel) \in Seq(Wanted)
<1> DEFINE D == DOMAIN shown[l]
<1>1. /\ shown[l] \in Seq(Songs) /\ l \in Nat
      /\ Len(shown[l]) \in Nat /\ D = 1 .. Len(shown[l])
  BY ListFacts
<1>2. \A i \in D : shown[l][i] \in Songs
  BY <1>1, ElementOfSeq
<1>3. Places(l) \in Seq(D) /\ DOMAIN Places(l) = D
  <2>1. Places(l) \in [1 .. Len(shown[l]) -> D]
    BY <1>1 DEF Places
  <2> HIDE DEF D
  <2> QED BY <1>1, <2>1
<1>4. PICK I \in SUBSET D : sel = Selected(Places(l), I)
  BY DEF Selections
<1> HIDE DEF D
<1>5. sel \in Seq(D)
  BY <1>3, <1>4, SelectedFacts
<1>6. sel \in Seq(Nat \ {0})
  BY <1>1, <1>5, SeqMonotonic
<1>7. Wishes(l, sel) \in Seq(Wanted)
  <2> DEFINE e(k) == Wish(l, shown[l][sel[k]])
  <2>1. Len(sel) \in Nat /\ DOMAIN sel = 1 .. Len(sel)
    BY <1>5, LenProperties
  <2>2. ASSUME NEW k \in 1 .. Len(sel) PROVE e(k) \in Wanted
    <3>1. sel[k] \in D
      BY <1>5, ElementOfSeq
    <3>2. shown[l][sel[k]] \in Songs
      BY <1>2, <3>1
    <3> QED BY <1>1, <3>2, WishFacts
  <2>3. Wishes(l, sel) = [k \in 1 .. Len(sel) |-> e(k)]
    BY <2>1 DEF Wishes
  <2> HIDE DEF e
  <2> QED BY <2>1, <2>2, <2>3, IsASeq
<1> QED BY <1>5, <1>6, <1>7 DEF D

LEMMA Enqueued ==
    ASSUME TypeOK, Command, NEW q \in Seq(Wanted), Enqueue(q), repeat' \in Repeats
    PROVE  TypeOK' /\ UNCHANGED listVars
<1>1. ~Hung /\ steps' \in 0 .. MaxSteps
  BY CommandFacts
<1>2. /\ Len(q) <= MaxQueue /\ queue' = q /\ RebuildFutureMenu
      /\ UNCHANGED listVars /\ UNCHANGED playVars /\ UNCHANGED crossfade
  BY DEF Enqueue
<1>3. ListsOK' /\ UNCHANGED items
  BY <1>2, ListsSame
<1>4. AsksOK' /\ RestOK'
  BY <1>1, <1>2 DEF AsksOK, RestOK, TypeOK
<1>5. MenuOK'
  BY <1>1, <1>2, MenuStep
<1>6. ActiveOK' /\ HistoryOK' /\ HeardOK'
  BY <1>2, <1>3 DEF playVars, ActiveOK, HistoryOK, HeardOK, TypeOK, Lists
<1> QED BY <1>2, <1>3, <1>4, <1>5, <1>6, TypeNext

\* What QueueByField puts into the queue.
Found(l, alike) == Kept(items[l], LAMBDA e : e \in alike)
FoundWishes(l, alike) == [k \in DOMAIN Found(l, alike) |-> Wish(l, Found(l, alike)[k])]

LEMMA FoundFacts ==
    ASSUME TypeOK, NEW l \in Lists, NEW alike
    PROVE  Found(l, alike) \in Seq(Songs) /\ FoundWishes(l, alike) \in Seq(Wanted)
<1> DEFINE found == Found(l, alike)
           I == {i \in DOMAIN items[l] : items[l][i] \in alike}
           w(k) == Wish(l, found[k])
<1>1. items[l] \in Seq(Songs) /\ l \in Nat /\ I \in SUBSET DOMAIN items[l]
  BY ListFacts
<1>2. found = Selected(items[l], I)
  BY DEF Kept, Found
<1>3. found \in Seq(Songs)
  <2> HIDE DEF I, found
  <2> QED BY <1>1, <1>2, SelectedFacts
<1> HIDE DEF found
<1>4. Len(found) \in Nat /\ DOMAIN found = 1 .. Len(found)
  BY <1>3, LenProperties
<1>5. \A k \in 1 .. Len(found) : w(k) \in Wanted
  BY <1>1, <1>3, ElementOfSeq, WishFacts
<1> HIDE DEF w
<1>6. [k \in 1 .. Len(found) |-> w(k)] \in Seq(Wanted)
  BY <1>4, <1>5, IsASeq
<1> QED BY <1>3, <1>4, <1>6 DEF w, found, FoundWishes

LEMMA AskStep == TypeOK /\ Ask => TypeOK' /\ UNCHANGED listVars
<1> SUFFICES ASSUME TypeOK, Ask PROVE TypeOK' /\ UNCHANGED listVars
  OBVIOUS
<1>1. queue \in Seq(Wanted) /\ repeat \in Repeats /\ "None" \in Repeats /\ <<>> \in Seq(Wanted)
  BY DEF TypeOK, Repeats
<1>2. ASSUME NEW l \in Lists, NEW sel \in Selections(l), PlayNext(l, sel)
      PROVE  TypeOK' /\ UNCHANGED listVars
  <2> DEFINE q == Wishes(l, sel) \o queue
  <2>1. Command /\ repeat' = repeat /\ Enqueue(q)
    BY <1>2 DEF PlayNext
  <2>2. q \in Seq(Wanted)
    BY <1>1, SelectionFacts, ConcatProperties
  <2> HIDE DEF q
  <2> QED BY <1>1, <2>1, <2>2, Enqueued
<1>3. ASSUME NEW l \in Lists, NEW sel \in Selections(l), AppendQueue(l, sel)
      PROVE  TypeOK' /\ UNCHANGED listVars
  <2> DEFINE q == queue \o Wishes(l, sel)
  <2>1. Command /\ repeat' = repeat /\ Enqueue(q)
    BY <1>3 DEF AppendQueue
  <2>2. q \in Seq(Wanted)
    BY <1>1, SelectionFacts, ConcatProperties
  <2> HIDE DEF q
  <2> QED BY <1>1, <2>1, <2>2, Enqueued
<1>4. ASSUME NEW l \in Lists, NEW alike \in Fields, NEW ctrl \in BOOLEAN, QueueByField(l, alike, ctrl)
      PROVE  TypeOK' /\ UNCHANGED listVars
  <2> DEFINE more == FoundWishes(l, alike)
             before == IF ctrl THEN <<>> ELSE queue
             q == before \o more
  <2>1. Command /\ repeat' = repeat /\ Enqueue(q)
    BY <1>4 DEF QueueByField, FoundWishes, Found
  <2>2. more \in Seq(Wanted)
    BY FoundFacts
  <2>3. before \in Seq(Wanted)
    BY <1>1
  <2> HIDE DEF before, more
  <2>4. q \in Seq(Wanted)
    BY <2>2, <2>3, ConcatProperties
  <2> HIDE DEF q
  <2> QED BY <1>1, <2>1, <2>4, Enqueued
<1>5. CASE ClearQueue
  <2>1. Command /\ repeat' \in Repeats /\ Enqueue(<<>>)
    BY <1>1, <1>5 DEF ClearQueue
  <2> QED BY <1>1, <2>1, Enqueued
<1>6. ASSUME NEW mode \in Modes, SetRepeat(mode) PROVE TypeOK' /\ UNCHANGED listVars
  <2>1. /\ Command /\ repeat' = mode /\ RebuildFutureMenu /\ mode \in Repeats
        /\ UNCHANGED listVars /\ UNCHANGED playVars /\ UNCHANGED queue /\ UNCHANGED crossfade
    BY <1>6, PlayQueueAssumption DEF SetRepeat
  <2>2. ~Hung /\ steps' \in 0 .. MaxSteps
    BY <2>1, CommandFacts
  <2>3. ListsOK' /\ UNCHANGED items
    BY <2>1, ListsSame
  <2>4. MenuOK' /\ RestOK'
    BY <2>1, <2>2, MenuStep DEF RestOK, TypeOK
  <2>5. ActiveOK' /\ HistoryOK' /\ HeardOK' /\ AsksOK'
    BY <2>1, <2>3 DEF playVars, ActiveOK, HistoryOK, HeardOK, AsksOK, TypeOK, Lists
  <2> QED BY <2>1, <2>3, <2>4, <2>5, TypeNext
<1>7. ASSUME NEW sel \in {<<>>} \cup UNION {Selections(l) : l \in Lists}, SelectToPlay(sel)
      PROVE  TypeOK' /\ UNCHANGED listVars
  <2>1. /\ Command /\ selected' = sel /\ RebuildFutureMenu /\ UNCHANGED listVars
        /\ UNCHANGED <<at, activeList, playing, ending, failing, retries, history>>
        /\ UNCHANGED <<queue, repeat, crossfade>>
    BY <1>7 DEF SelectToPlay
  <2>2. ~Hung /\ steps' \in 0 .. MaxSteps
    BY <2>1, CommandFacts
  <2>3. ListsOK' /\ UNCHANGED items
    BY <2>1, ListsSame
  <2>4. sel \in Seq(Nat \ {0})
    <3>1. CASE sel = <<>>
      BY <3>1
    <3>2. CASE sel # <<>>
      <4>1. PICK l \in Lists : sel \in Selections(l)
        BY <3>2
      <4> QED BY <4>1, SelectionFacts
    <3> QED BY <3>1, <3>2
  <2>5. MenuOK' /\ RestOK'
    BY <2>1, <2>2, MenuStep DEF RestOK, TypeOK
  <2>6. ActiveOK' /\ HistoryOK' /\ HeardOK' /\ AsksOK'
    BY <2>1, <2>3, <2>4 DEF ActiveOK, HistoryOK, HeardOK, AsksOK, TypeOK, Lists
  <2> QED BY <2>1, <2>3, <2>5, <2>6, TypeNext
<1>8. ASSUME NEW l \in Lists, SwitchTo(l) PROVE TypeOK' /\ UNCHANGED listVars
  <2>1. /\ Command /\ UNCHANGED listVars
        /\ MakeActive(l, history) \/ MakeActive(activeList, history)
        /\ UNCHANGED <<playing, ending, failing, retries>> /\ UNCHANGED <<repeat, crossfade>>
    BY <1>8 DEF SwitchTo, PlayNothing
  <2>2. ~Hung /\ steps' \in 0 .. MaxSteps
    BY <2>1, CommandFacts
  <2>3. ListsOK' /\ UNCHANGED items
    BY <2>1, ListsSame
  <2>4. MenuOK'
    <3>1. \/ KeepFutureMenu \/ RebuildFutureMenu
          \/ ~FutureLoops(activeList) /\ outdated' = FutureMenus(activeList, at[activeList])
      BY <1>8 DEF SwitchTo, PlayNothing
    <3>2. activeList \in Lists
      BY DEF TypeOK
    <3> QED BY <2>2, <3>1, <3>2, MenuStep, MenuFacts DEF MenuOK
  <2>5. RestOK'
    BY <2>1, <2>2, RestSame
  <2>6. ActiveOK' /\ HistoryOK' /\ HeardOK' /\ AsksOK'
    <3>1. activeList \in Lists /\ history \in Seq(Wanted) /\ Len(history) <= HistorySize
      BY DEF TypeOK
    <3>2. ActiveOK' /\ HistoryOK' /\ AsksOK' /\ selected' \in Seq(Nat \ {0})
      BY <2>1, <2>3, <3>1, ActiveMade
    <3> QED BY <2>1, <3>2 DEF HeardOK, TypeOK
  <2> QED BY <2>1, <2>3, <2>4, <2>5, <2>6, TypeNext
<1> QED BY <1>2, <1>3, <1>4, <1>5, <1>6, <1>7, <1>8 DEF Ask

----------------------------------------------------------------------------
(***************************************************************************)
(* What happens to the lists.                                              *)
(***************************************************************************)

LEMMA WithoutFacts ==
    ASSUME NEW f \in [Lists -> Seq(Songs)], NEW ids, NEW e
    PROVE  Without(f, ids, e) \in [Lists -> Seq(Songs)]
<1>1. ASSUME NEW l \in Lists PROVE Kept(f[l], LAMBDA x : x # e) \in Seq(Songs)
  <2> DEFINE I == {i \in DOMAIN f[l] : f[l][i] # e}
  <2>1. Kept(f[l], LAMBDA x : x # e) = Selected(f[l], I)
    BY DEF Kept
  <2>2. f[l] \in Seq(Songs) /\ I \in SUBSET DOMAIN f[l]
    OBVIOUS
  <2> HIDE DEF I
  <2> QED BY <2>1, <2>2, SelectedFacts
<1> DEFINE g(l) == Kept(f[l], LAMBDA x : x # e)
<1>2. Without(f, ids, e) = [l \in Lists |-> IF l \in ids THEN g(l) ELSE f[l]]
  BY DEF Without
<1>3. \A l \in Lists : g(l) \in Seq(Songs)
  BY <1>1
<1> HIDE DEF g
<1> QED BY <1>2, <1>3

LEMMA LeavesFacts ==
    ASSUME NEW S, NEW s \in Seq(S), NEW match, NEW t, Leaves(t, s, match)
    PROVE  t \in Seq(S) /\ Len(t) <= Len(s)
  BY SelectedFacts DEF Leaves

LEMMA RemovedFacts ==
    ASSUME NEW S, NEW s \in Seq(S), NEW x
    PROVE  /\ RemoveEntryID(s, x) \in Seq(S) /\ Len(RemoveEntryID(s, x)) <= Len(s)
           /\ RemovePlaylistID(s, x) \in Seq(S) /\ Len(RemovePlaylistID(s, x)) <= Len(s)
<1> DEFINE I == {i \in DOMAIN s : s[i].entry = x}
           J == {i \in DOMAIN s : s[i].list = x}
<1>1. Leaves(Dropped(s, I), s, I) /\ Leaves(Dropped(s, J), s, J)
  <2>1. I \in SUBSET DOMAIN s /\ J \in SUBSET DOMAIN s
    OBVIOUS
  <2> HIDE DEF I, J
  <2> QED BY <2>1, DroppedFacts
<1>2. RemoveEntryID(s, x) = Dropped(s, I) /\ RemovePlaylistID(s, x) = Dropped(s, J)
  BY DEF RemoveEntryID, RemovePlaylistID
<1> HIDE DEF I, J
<1> QED BY <1>1, <1>2, LeavesFacts

\* An ID that no list has.
FreeFrom(n) == {k \in n .. n + Cardinality(Lists) : k \notin Lists}

LEMMA FreeFacts ==
    ASSUME QueueInv, NEW n \in Nat
    PROVE  Min(FreeFrom(n)) \in Nat /\ Min(FreeFrom(n)) \notin Lists
<1> DEFINE c == Cardinality(Lists)
<1>1. IsFiniteSet(Lists) /\ c \in Nat
  BY FS_CardinalityType DEF QueueInv
<1>2. FreeFrom(n) # {}
  <2>1. SUFFICES ASSUME n .. n + c \subseteq Lists PROVE FALSE
    BY DEF FreeFrom
  <2>2. Cardinality(n .. n + c) <= c
    BY <1>1, <2>1, FS_Subset
  <2>3. Cardinality(n .. n + c) = c + 1
    <3> HIDE DEF c
    <3>1. n \in Int /\ n + c \in Int /\ ~(n > n + c) /\ (n + c) - n + 1 = c + 1
      BY <1>1
    <3> QED BY <3>1, FS_Interval
  <2> HIDE DEF c
  <2> QED BY <1>1, <2>2, <2>3
<1>3. FreeFrom(n) \in SUBSET Nat
  <2> HIDE DEF c
  <2> QED BY <1>1 DEF FreeFrom, c
<1>4. Min(FreeFrom(n)) \in FreeFrom(n)
  BY <1>2, <1>3, MinFacts
<1> QED BY <1>3, <1>4 DEF FreeFrom

\* The histories there can be, and how one is read item by item.
Histories == {h \in Seq(Wanted) : Len(h) <= HistorySize}
Reads(f, h, s) ==
    /\ f \in [0 .. Len(s) -> Histories] /\ f[0] = h
    /\ \A k \in 1 .. Len(s) : f[k] = AddHistoryItem(f[k - 1], s[k])

LEMMA ReadFacts ==
    ASSUME NEW h \in Histories, NEW s \in Seq(Wanted)
    PROVE  \E f : Reads(f, h, s) /\ ReadHistory(h, s) = f[Len(s)]
<1> DEFINE n == Len(s)
           Rec(f) == f = [k \in 0 .. n |-> IF k = 0 THEN h ELSE AddHistoryItem(f[k - 1], s[k])]
           read == CHOOSE f : Rec(f)
           step == [k \in 1 .. n |-> [g \in Histories |-> AddHistoryItem(g, s[k])]]
<1>1. n \in Nat /\ \A k \in 1 .. n : s[k] \in Wanted
  BY LenProperties, ElementOfSeq
<1>2. ASSUME NEW k \in 1 .. n, NEW g \in Histories PROVE AddHistoryItem(g, s[k]) \in Histories
  BY <1>1, HistoryFacts DEF Histories
<1>3. step \in [1 .. n -> [Histories -> Histories]]
  BY <1>2
<1>4. \A k \in 1 .. n : \A g \in Histories : step[k][g] = AddHistoryItem(g, s[k])
  OBVIOUS
<1> HIDE DEF step
<1>5. PICK f : Follows(f, n, Histories, h, step)
  <2> HIDE DEF n
  <2> QED BY ONLY <1>1, <1>3, h \in Histories, StepsExist
<1>6. /\ f \in [0 .. n -> Histories] /\ f[0] = h
      /\ \A k \in 1 .. n : f[k] = step[k][f[k - 1]]
  BY <1>5 DEF Follows
<1>7. ASSUME NEW k \in 1 .. n PROVE f[k] = AddHistoryItem(f[k - 1], s[k])
  <2>1. f[k - 1] \in Histories
    <3>1. k - 1 \in 0 .. n
      BY <1>1
    <3> QED BY <1>6, <3>1
  <2> QED BY <1>4, <1>6, <2>1
<1>8. Rec(f)
  <2>1. ASSUME NEW k \in 0 .. n
        PROVE  f[k] = IF k = 0 THEN h ELSE AddHistoryItem(f[k - 1], s[k])
    <3>1. CASE k = 0
      BY <1>6, <3>1
    <3>2. CASE k # 0
      <4>1. k \in 1 .. n
        BY <1>1, <3>2
      <4> QED BY <1>7, <3>2, <4>1
    <3> QED BY <3>1, <3>2
  <2>2. f = [k \in 0 .. n |-> f[k]]
    BY <1>6
  <2> HIDE DEF n
  <2> QED BY <2>1, <2>2, Zenon
<1>9. Rec(read)
  BY <1>8
<1>10. ReadHistory(h, s) = read[n]
  BY DEF ReadHistory
<1> HIDE DEF read
<1>11. /\ read[0] = h
       /\ \A k \in 1 .. n : read[k] = AddHistoryItem(read[k - 1], s[k])
  <2>1. \A k \in 0 .. n : read[k] = IF k = 0 THEN h ELSE AddHistoryItem(read[k - 1], s[k])
    BY <1>9, Zenon
  <2>2. 0 \in 0 .. n /\ \A k \in 1 .. n : k \in 0 .. n /\ k # 0
    BY <1>1
  <2> HIDE DEF n
  <2> QED BY <2>1, <2>2
<1> DEFINE T == {m \in Nat : m <= n => read[m] = f[m]}
<1>12. 0 \in T
  BY <1>6, <1>11
<1>13. ASSUME NEW m \in T PROVE m + 1 \in T
  <2>1. SUFFICES ASSUME m + 1 <= n PROVE read[m + 1] = f[m + 1]
    OBVIOUS
  <2>2. m \in Nat /\ m <= n /\ m + 1 \in 1 .. n /\ (m + 1) - 1 = m
    BY <1>1, <2>1
  <2>3. read[m] = f[m]
    BY <2>2
  <2> QED BY <1>7, <1>11, <2>2, <2>3
<1> HIDE DEF T
<1>14. T = Nat
  <2>1. T \in SUBSET Nat
    BY DEF T
  <2> QED BY <1>12, <1>13, <2>1, SetInduction
<1>15. read[n] = f[n]
  <2>1. n \in T /\ n <= n
    BY <1>1, <1>14
  <2> QED BY <2>1 DEF T
<1>16. Reads(f, h, s)
  BY <1>6, <1>7 DEF Reads
<1> QED BY <1>10, <1>15, <1>16

\* The parts that every change of the lists leaves in type.
LEMMA ChangeParts ==
    ASSUME TypeOK, Command, RebuildFutureMenu \/ KeepFutureMenu, crossfade' = crossfade,
           repeat' \in Repeats, queue' \in Seq(Wanted), Len(queue') <= Len(queue)
    PROVE  MenuOK' /\ RestOK' /\ AsksOK'
<1>1. ~Hung /\ steps' \in 0 .. MaxSteps
  BY CommandFacts
<1>2. MenuOK'
  BY <1>1, MenuStep
<1>3. RestOK'
  BY <1>1 DEF RestOK, TypeOK
<1>4. Len(queue') <= MaxQueue
  <2>1. Len(queue) <= MaxQueue /\ Len(queue) \in Nat /\ Len(queue') \in Nat /\ MaxQueue \in Nat
    BY QueueFacts, LenProperties, AssumptionFacts DEF TypeOK
  <2> QED BY <2>1
<1> QED BY <1>2, <1>3, <1>4 DEF AsksOK

LEMMA QueueSame ==
    ASSUME TypeOK, queue' = queue
    PROVE  queue' \in Seq(Wanted) /\ Len(queue') <= Len(queue)
<1>1. Len(queue) \in Nat /\ queue \in Seq(Wanted)
  BY QueueFacts DEF TypeOK
<1>2. Len(queue) <= Len(queue)
  BY <1>1
<1> QED BY <1>1, <1>2

LEMMA ResetFacts ==
    ASSUME TypeOK, NEW cond, ResetIf(cond),
           UNCHANGED <<failing, retries>>, UNCHANGED selected
    PROVE  HeardOK'
<1>1. playing' \in {Silence, playing} /\ ending' \in {"none", ending}
  BY DEF ResetIf
<1> QED BY <1>1 DEF HeardOK, TypeOK

LEMMA AtWithoutFacts ==
    ASSUME TypeOK, NEW ids, NEW e
    PROVE  AtWithout(ids, e) \in [Lists -> Songs \cup {NoSong}]
  BY DEF AtWithout, TypeOK

LEMMA RemoveFromListStep ==
    ASSUME QueueInv, NEW l \in Lists, NEW e \in Songs, RemoveFromList(l, e)
    PROVE  QueueInv'
<1> USE DEF QueueInv
<1>1. /\ Command /\ RebuildFutureMenu /\ UNCHANGED newestID /\ UNCHANGED activeList
      /\ UNCHANGED <<failing, retries>> /\ UNCHANGED history /\ UNCHANGED selected
      /\ UNCHANGED queue /\ UNCHANGED repeat /\ UNCHANGED crossfade
      /\ items' = Without(items, {l}, e) /\ shown' = Without(shown, {l}, e)
      /\ at' = AtWithout({l}, e)
  BY DEF RemoveFromList
<1>2. ResetIf(activeList = l /\ at'[l] = NoSong)
  BY DEF RemoveFromList
<1>3. items' \in [Lists -> Seq(Songs)] /\ shown' \in [Lists -> Seq(Songs)]
  BY <1>1, WithoutFacts DEF TypeOK
<1>4. Lists' = Lists
  BY <1>3 DEF Lists
<1>5. ListsOK'
  BY <1>1, <1>3, <1>4 DEF TypeOK, ListsOK
<1>6. ActiveOK' /\ HistoryOK'
  BY <1>1, <1>4, AtWithoutFacts DEF TypeOK, ActiveOK, HistoryOK
<1>7. HeardOK'
  BY <1>1, <1>2, ResetFacts
<1>8. MenuOK' /\ RestOK' /\ AsksOK'
  BY <1>1, QueueSame, ChangeParts DEF TypeOK
<1>9. TypeOK'
  BY <1>5, <1>6, <1>7, <1>8, TypeNext
<1> QED BY <1>4, <1>9

LEMMA RemoveFromLibraryStep ==
    ASSUME QueueInv, NEW e \in Songs, RemoveFromLibrary(e)
    PROVE  QueueInv'
<1> USE DEF QueueInv
<1>1. /\ Command /\ RebuildFutureMenu /\ UNCHANGED newestID /\ UNCHANGED activeList
      /\ UNCHANGED <<failing, retries>> /\ UNCHANGED selected
      /\ UNCHANGED repeat /\ UNCHANGED crossfade
      /\ queue' = RemoveEntryID(queue, e) /\ history' = RemoveEntryID(history, e)
      /\ items' = Without(items, Lists, e) /\ shown' = Without(shown, Lists, e)
      /\ at' = AtWithout(Lists, e)
  BY DEF RemoveFromLibrary
<1>2. ResetIf(at'[activeList] = NoSong /\ (activeList = 0 \/ at[activeList] = e))
  BY DEF RemoveFromLibrary
<1>3. items' \in [Lists -> Seq(Songs)] /\ shown' \in [Lists -> Seq(Songs)]
  BY <1>1, WithoutFacts DEF TypeOK
<1>4. Lists' = Lists
  BY <1>3 DEF Lists
<1>5. ListsOK'
  BY <1>1, <1>3, <1>4 DEF TypeOK, ListsOK
<1>6. ActiveOK'
  BY <1>1, <1>4, AtWithoutFacts DEF TypeOK, ActiveOK
<1>7. HistoryOK'
  <2>1. history \in Seq(Wanted) /\ Len(history) <= HistorySize
    BY DEF TypeOK
  <2>2. history' \in Seq(Wanted) /\ Len(history') <= Len(history)
    BY <1>1, <2>1, RemovedFacts
  <2>3. Len(history') \in Nat /\ Len(history) \in Nat /\ HistorySize \in Nat
    BY <2>1, <2>2, LenProperties, AssumptionFacts
  <2>4. Len(history') <= HistorySize
    BY <2>1, <2>2, <2>3
  <2> QED BY <2>2, <2>4 DEF HistoryOK
<1>8. HeardOK'
  BY <1>1, <1>2, ResetFacts
<1>9. MenuOK' /\ RestOK' /\ AsksOK'
  <2>1. queue' \in Seq(Wanted) /\ Len(queue') <= Len(queue)
    BY <1>1, RemovedFacts DEF TypeOK
  <2> QED BY <1>1, <2>1, ChangeParts DEF TypeOK
<1>10. TypeOK'
  BY <1>5, <1>6, <1>7, <1>8, <1>9, TypeNext
<1> QED BY <1>4, <1>10

LEMMA DeleteListStep ==
    ASSUME QueueInv, NEW l \in Lists, DeleteList(l)
    PROVE  QueueInv'
<1> USE DEF QueueInv
<1>1. /\ Command /\ (RebuildFutureMenu \/ KeepFutureMenu) /\ UNCHANGED newestID
      /\ UNCHANGED <<failing, retries>> /\ UNCHANGED history /\ UNCHANGED selected
      /\ UNCHANGED repeat /\ UNCHANGED crossfade /\ l # 0
      /\ queue' = RemovePlaylistID(queue, l)
      /\ items' = [k \in Lists \ {l} |-> items[k]]
      /\ shown' = [k \in Lists \ {l} |-> shown[k]]
      /\ at' = [k \in Lists \ {l} |-> at[k]]
      /\ activeList' = IF activeList = l THEN 0 ELSE activeList
  BY DEF DeleteList, MayRebuildFutureMenu
<1>2. ResetIf(activeList = l)
  BY DEF DeleteList
<1>3. Lists' = Lists \ {l}
  BY <1>1 DEF Lists
<1>4. ListsOK'
  BY <1>1, <1>3 DEF TypeOK, ListsOK
<1>5. ActiveOK' /\ HistoryOK'
  BY <1>1, <1>3 DEF TypeOK, ActiveOK, HistoryOK
<1>6. HeardOK'
  BY <1>1, <1>2, ResetFacts
<1>7. MenuOK' /\ RestOK' /\ AsksOK'
  <2>1. queue' \in Seq(Wanted) /\ Len(queue') <= Len(queue)
    BY <1>1, RemovedFacts DEF TypeOK
  <2> QED BY <1>1, <2>1, ChangeParts DEF TypeOK
<1>8. TypeOK'
  BY <1>4, <1>5, <1>6, <1>7, TypeNext
<1>9. IsFiniteSet(Lists')
  BY <1>3, FS_RemoveElement
<1> QED BY <1>8, <1>9

LEMMA NewListStep ==
    ASSUME QueueInv, NEW s \in Seq(Songs), NewList(s)
    PROVE  QueueInv'
<1> USE DEF QueueInv
<1> DEFINE id == Min(FreeFrom(newestID))
<1>1. /\ Command /\ (RebuildFutureMenu \/ KeepFutureMenu) /\ newestID' = id
      /\ UNCHANGED <<failing, retries>> /\ UNCHANGED history /\ UNCHANGED selected
      /\ UNCHANGED queue /\ UNCHANGED repeat /\ UNCHANGED crossfade
      /\ UNCHANGED activeList /\ UNCHANGED playing /\ UNCHANGED ending
      /\ items' = [l \in Lists \cup {id} |-> IF l = id THEN s ELSE items[l]]
      /\ shown' = [l \in Lists \cup {id} |-> IF l = id THEN s ELSE shown[l]]
      /\ at'    = [l \in Lists \cup {id} |-> IF l = id THEN NoSong ELSE at[l]]
  BY DEF NewList, MayRebuildFutureMenu, FreeFrom
<1>2. id \in Nat
  BY FreeFacts DEF TypeOK
<1> HIDE DEF id
<1>3. Lists' = Lists \cup {id}
  BY <1>1 DEF Lists
<1>4. ListsOK'
  <2>1. items' \in [Lists \cup {id} -> Seq(Songs)] /\ shown' \in [Lists \cup {id} -> Seq(Songs)]
    BY <1>1 DEF TypeOK
  <2> QED BY <1>1, <1>2, <1>3, <2>1 DEF TypeOK, ListsOK
<1>5. ActiveOK' /\ HistoryOK' /\ HeardOK'
  BY <1>1, <1>3 DEF TypeOK, ActiveOK, HistoryOK, HeardOK
<1>6. MenuOK' /\ RestOK' /\ AsksOK'
  BY <1>1, QueueSame, ChangeParts DEF TypeOK
<1>7. TypeOK'
  BY <1>4, <1>5, <1>6, TypeNext
<1>8. IsFiniteSet(Lists')
  BY <1>3, FS_AddElement
<1> QED BY <1>7, <1>8

LEMMA SetFilterStep ==
    ASSUME QueueInv, NEW l \in Lists, NEW hide, SetFilter(l, hide)
    PROVE  QueueInv'
<1> USE DEF QueueInv
<1> DEFINE s == Kept(items[l], LAMBDA e : e \notin hide)
<1>1. /\ Command /\ RebuildFutureMenu /\ UNCHANGED items /\ UNCHANGED newestID
      /\ UNCHANGED playVars /\ UNCHANGED queue /\ UNCHANGED repeat /\ UNCHANGED crossfade
      /\ shown' = [shown EXCEPT ![l] = s]
  BY DEF SetFilter
<1>2. s \in Seq(Songs)
  <2> DEFINE I == {i \in DOMAIN items[l] : items[l][i] \notin hide}
  <2>1. s = Selected(items[l], I)
    BY DEF Kept
  <2>2. items[l] \in Seq(Songs) /\ I \in SUBSET DOMAIN items[l]
    BY ListFacts
  <2> HIDE DEF I, s
  <2> QED BY <2>1, <2>2, SelectedFacts
<1> HIDE DEF s
<1>3. Lists' = Lists
  BY <1>1 DEF Lists
<1>4. ListsOK'
  BY <1>1, <1>2, <1>3 DEF TypeOK, ListsOK
<1>5. ActiveOK' /\ HistoryOK' /\ HeardOK'
  BY <1>1, <1>3 DEF playVars, TypeOK, ActiveOK, HistoryOK, HeardOK
<1>6. MenuOK' /\ RestOK' /\ AsksOK'
  BY <1>1, QueueSame, ChangeParts DEF TypeOK
<1>7. TypeOK'
  BY <1>4, <1>5, <1>6, TypeNext
<1> QED BY <1>3, <1>7

\* What the next start opens, and the history as it is read then.
ToOpen == IF Place(activeList, at[activeList]) # 0 THEN at[activeList] ELSE EntryAt(activeList, 1)
Opens  == ToOpen \notin Broken \cup {NoSong}
KnownAt == {i \in DOMAIN Reverse(history) :
               /\ Reverse(history)[i].list \in Lists
               /\ Reverse(history)[i].entry \in ToSet(items[Reverse(history)[i].list])}
Known  == Selected(Reverse(history), KnownAt)
Opened == IF Opens THEN <<Wish(activeList, ToOpen)>> ELSE <<>>

LEMMA ReverseFacts ==
    ASSUME NEW S, NEW s \in Seq(S)
    PROVE  /\ Reverse(s) \in Seq(S) /\ Len(Reverse(s)) = Len(s) /\ Len(s) \in Nat
           /\ \A i \in 1 .. Len(s) : Reverse(s)[i] = s[(Len(s) - i) + 1]
<1> DEFINE n == Len(s)
           e(i) == s[(n - i) + 1]
<1>1. n \in Nat
  BY LenProperties
<1>2. ASSUME NEW i \in 1 .. n PROVE e(i) \in S
  <2>1. (n - i) + 1 \in 1 .. n
    BY <1>1
  <2> QED BY <2>1, ElementOfSeq
<1>3. Reverse(s) = [i \in 1 .. n |-> e(i)]
  BY DEF Reverse
<1> HIDE DEF e
<1>4. Reverse(s) \in Seq(S)
  BY <1>1, <1>2, <1>3, IsASeq
<1>5. Len(Reverse(s)) = n
  <2>1. DOMAIN Reverse(s) = 1 .. n /\ Len(Reverse(s)) \in Nat
    BY <1>3, <1>4, LenProperties
  <2>2. DOMAIN Reverse(s) = 1 .. Len(Reverse(s))
    BY <1>4, LenProperties
  <2> HIDE DEF n
  <2> QED BY <1>1, <2>1, <2>2
<1> QED BY <1>1, <1>3, <1>4, <1>5 DEF e

LEMMA RestartFacts ==
    ASSUME TypeOK, Restart
    PROVE  /\ Command /\ RebuildFutureMenu
           /\ playing' = IF Opens THEN Wish(activeList, ToOpen) ELSE Silence
           /\ history' = ReadHistory(Opened, Known)
           /\ Opened \in Histories /\ Known \in Seq(Wanted)
           /\ activeList \in Lists /\ activeList \in Nat /\ ToOpen \in Songs \cup {NoSong}
           /\ Opens => ToOpen \in Songs
           /\ at' = [k \in Lists |-> IF k # activeList THEN NoSong
                                     ELSE IF Opens THEN ToOpen ELSE EntryAt(activeList, 1)]
           /\ repeat' = IF queue = <<>> /\ repeat = "AllQueued" THEN "None" ELSE repeat
           /\ newestID' = Min(FreeFrom(FirstID))
           /\ selected' = <<>> /\ ending' = "none" /\ retries' = 0
           /\ UNCHANGED <<items, shown>> /\ UNCHANGED activeList /\ UNCHANGED failing
           /\ UNCHANGED queue /\ UNCHANGED crossfade
<1>1. /\ Command /\ RebuildFutureMenu
      /\ playing' = IF Opens THEN Wish(activeList, ToOpen) ELSE Silence
      /\ at' = [k \in Lists |-> IF k # activeList THEN NoSong
                                ELSE IF Opens THEN ToOpen ELSE EntryAt(activeList, 1)]
      /\ repeat' = IF queue = <<>> /\ repeat = "AllQueued" THEN "None" ELSE repeat
      /\ newestID' = Min(FreeFrom(FirstID))
      /\ selected' = <<>> /\ ending' = "none" /\ retries' = 0
      /\ UNCHANGED <<items, shown>> /\ UNCHANGED activeList /\ UNCHANGED failing
      /\ UNCHANGED queue /\ UNCHANGED crossfade
  BY DEF Restart, ToOpen, Opens, FreeFrom
<1>2. history' = ReadHistory(Opened, Known)
  <2>1. history' = ReadHistory(IF Opens THEN <<playing'>> ELSE <<>>, Known)
    BY DEF Restart, ToOpen, Opens, Known, KnownAt, Kept, HistoryToRead
  <2>2. (IF Opens THEN <<playing'>> ELSE <<>>) = Opened
    BY <1>1 DEF Opened
  <2> QED BY <2>1, <2>2
<1>3. activeList \in Lists /\ activeList \in Nat /\ ToOpen \in Songs \cup {NoSong}
  <2>1. activeList \in Lists
    BY DEF TypeOK
  <2> QED BY <2>1, EntryFacts, ListFacts DEF ToOpen
<1>4. Opens => ToOpen \in Songs
  BY <1>3 DEF Opens
<1>5. Opened \in Histories
  <2>1. CASE Opens
    <3> DEFINE w == Wish(activeList, ToOpen)
    <3>1. w \in Wanted /\ Opened = <<w>>
      BY <1>3, <1>4, <2>1, WishFacts DEF Opened
    <3> HIDE DEF w
    <3>2. <<w>> \in Seq(Wanted) /\ Len(<<w>>) = 1
      BY <3>1
    <3>3. HistorySize \in Nat \ {0}
      BY PlayQueueAssumption
    <3>4. 1 <= HistorySize
      BY <3>3
    <3> QED BY <3>1, <3>2, <3>4 DEF Histories
  <2>2. CASE ~Opens
    <3>1. Opened = <<>> /\ <<>> \in Seq(Wanted) /\ Len(<<>>) = 0
      BY <2>2 DEF Opened
    <3>2. HistorySize \in Nat
      BY AssumptionFacts
    <3>3. 0 <= HistorySize
      BY <3>2
    <3> QED BY <3>1, <3>3 DEF Histories
  <2> QED BY <2>1, <2>2
<1>6. Known \in Seq(Wanted)
  <2>1. Reverse(history) \in Seq(Wanted) /\ KnownAt \in SUBSET DOMAIN Reverse(history)
    BY ReverseFacts DEF TypeOK, KnownAt
  <2> QED BY <2>1, SelectedFacts DEF Known
<1> QED BY <1>1, <1>2, <1>3, <1>4, <1>5, <1>6

LEMMA RestartStep ==
    ASSUME QueueInv, Restart
    PROVE  QueueInv'
<1> USE DEF QueueInv
<1>1. /\ Command /\ RebuildFutureMenu
      /\ playing' = IF Opens THEN Wish(activeList, ToOpen) ELSE Silence
      /\ history' = ReadHistory(Opened, Known)
      /\ Opened \in Histories /\ Known \in Seq(Wanted)
      /\ activeList \in Lists /\ activeList \in Nat /\ ToOpen \in Songs \cup {NoSong}
      /\ Opens => ToOpen \in Songs
      /\ at' = [k \in Lists |-> IF k # activeList THEN NoSong
                                ELSE IF Opens THEN ToOpen ELSE EntryAt(activeList, 1)]
      /\ repeat' = IF queue = <<>> /\ repeat = "AllQueued" THEN "None" ELSE repeat
      /\ newestID' = Min(FreeFrom(FirstID))
      /\ selected' = <<>> /\ ending' = "none" /\ retries' = 0
      /\ UNCHANGED <<items, shown>> /\ UNCHANGED activeList /\ UNCHANGED failing
      /\ UNCHANGED queue /\ UNCHANGED crossfade
  BY RestartFacts
<1>2. Lists' = Lists
  BY <1>1 DEF Lists
<1>3. ListsOK'
  <2>1. newestID' \in Nat
    BY <1>1, FreeFacts, AssumptionFacts
  <2> QED BY <1>1, <1>2, <2>1 DEF TypeOK, ListsOK
<1>4. ActiveOK'
  <2>1. EntryAt(activeList, 1) \in Songs \cup {NoSong}
    BY <1>1, EntryFacts
  <2> QED BY <1>1, <1>2, <2>1 DEF ActiveOK
<1>5. HistoryOK'
  <2>1. PICK f : Reads(f, Opened, Known) /\ history' = f[Len(Known)]
    BY <1>1, ReadFacts
  <2>2. Len(Known) \in 0 .. Len(Known)
    BY <1>1, LenProperties
  <2>3. history' \in Histories
    BY <2>1, <2>2 DEF Reads
  <2> QED BY <2>3 DEF Histories, HistoryOK
<1>6. HeardOK'
  <2>1. playing' \in Wanted \cup {Silence}
    BY <1>1, WishFacts
  <2>2. 0 \in 0 .. MaxRetry /\ <<>> \in Seq(Nat \ {0})
    BY AssumptionFacts
  <2> QED BY <1>1, <2>1, <2>2 DEF HeardOK, TypeOK
<1>7. MenuOK' /\ RestOK' /\ AsksOK'
  <2>1. repeat' \in Repeats
    BY <1>1 DEF TypeOK, Repeats
  <2> QED BY <1>1, <2>1, QueueSame, ChangeParts
<1>8. TypeOK'
  BY <1>3, <1>4, <1>5, <1>6, <1>7, TypeNext
<1> QED BY <1>2, <1>8

LEMMA InvInit == Init => QueueInv
<1> SUFFICES ASSUME Init PROVE QueueInv
  OBVIOUS
<1>1. PICK m \in DOMAIN Content : \A l \in DOMAIN Content : l <= m
  BY PlayQueueAssumption
<1>2. items = Content /\ shown = items /\ Lists = DOMAIN Content
  BY DEF Init, Lists
<1>3. m \in Nat /\ Lists \in SUBSET Nat /\ \A l \in Lists : l <= m
  BY <1>1, <1>2, PlayQueueAssumption
<1>4. IsFiniteSet(Lists)
  BY <1>3, FS_BoundedSetOfNaturals
<1>5. newestID \in Nat
  <2>1. newestID = Max(Lists) + 1
    BY DEF Init
  <2>2. \E x \in Lists : \A y \in Lists : x >= y
    <3>1. m \in Lists /\ \A y \in Lists : m >= y
      BY <1>1, <1>2, <1>3
    <3> QED BY <3>1
  <2>3. Max(Lists) \in Lists
    BY <2>2 DEF Max
  <2>4. Max(Lists) \in Nat
    BY <1>3, <2>3
  <2> HIDE DEF Lists
  <2> QED BY <2>1, <2>4
<1>6. ListsOK
  <2>1. items \in [Lists -> Seq(Songs)]
    <3>1. \A l \in Lists : items[l] \in Seq(Songs)
      BY <1>2, PlayQueueAssumption
    <3>2. items = [l \in Lists |-> items[l]]
      <4> USE DEF Lists
      <4> QED BY <1>2, PlayQueueAssumption
    <3> QED BY <3>1, <3>2
  <2> QED BY <1>2, <1>3, <1>5, <2>1, PlayQueueAssumption DEF ListsOK
<1>7. queue \in Seq(Wanted) /\ Len(queue) <= MaxQueue
  BY PlayQueueAssumption DEF Init, Wanted
<1>8. AsksOK
  BY <1>7 DEF AsksOK
<1>9. RestOK
  <2>1. 0 \in 0 .. MaxSteps
    BY AssumptionFacts
  <2> QED BY <2>1, PlayQueueAssumption DEF Init, RestOK
<1>10. MenuOK
  BY DEF Init, MenuOK
<1>11. selected \in Seq(Nat \ {0}) /\ ending = "none" /\ failing = FALSE /\ retries \in 0 .. MaxRetry
  BY AssumptionFacts DEF Init
<1>12. CASE activeList = 0 /\ playing = Silence /\ history = <<>> /\ at = [l \in Lists |-> NoSong]
  <2>1. ActiveOK
    BY <1>6, <1>12 DEF ActiveOK, ListsOK
  <2>2. HistoryOK
    <3>1. <<>> \in Seq(Wanted) /\ Len(<<>>) = 0 /\ HistorySize \in Nat
      BY AssumptionFacts
    <3> QED BY <1>12, <3>1 DEF HistoryOK
  <2>3. HeardOK
    BY <1>11, <1>12 DEF HeardOK
  <2> QED BY <1>4, <1>6, <1>8, <1>9, <1>10, <2>1, <2>2, <2>3, TypeParts DEF QueueInv
<1>13. CASE \E l \in Lists : \E e \in ToSet(shown[l]) \ Broken :
              /\ activeList = l /\ playing = Wish(l, e) /\ history = <<Wish(l, e)>>
              /\ at = [k \in Lists |-> IF k = l THEN e ELSE NoSong]
  <2>0. PICK l \in Lists : \E e \in ToSet(shown[l]) \ Broken :
              /\ activeList = l /\ playing = Wish(l, e) /\ history = <<Wish(l, e)>>
              /\ at = [k \in Lists |-> IF k = l THEN e ELSE NoSong]
    BY <1>13
  <2>1. PICK e \in ToSet(shown[l]) \ Broken :
              /\ activeList = l /\ playing = Wish(l, e) /\ history = <<Wish(l, e)>>
              /\ at = [k \in Lists |-> IF k = l THEN e ELSE NoSong]
    BY <2>0
  <2>2. e \in Songs
    <3>1. shown[l] \in Seq(Songs)
      BY <1>6 DEF ListsOK
    <3>2. \A i \in DOMAIN shown[l] : shown[l][i] \in Songs
      BY <3>1, LenProperties, ElementOfSeq
    <3> QED BY <3>2 DEF ToSet
  <2> DEFINE w == Wish(l, e)
  <2>3. w \in Wanted
    BY <1>3, <2>2, WishFacts
  <2> HIDE DEF w
  <2>4. ActiveOK
    BY <2>1, <2>2 DEF ActiveOK
  <2>5. HistoryOK
    <3>1. <<w>> \in Seq(Wanted) /\ Len(<<w>>) = 1
      BY <2>3
    <3>2. HistorySize \in Nat \ {0}
      BY PlayQueueAssumption
    <3>3. 1 <= HistorySize
      BY <3>2
    <3>4. history = <<w>>
      BY <2>1 DEF w
    <3> QED BY <3>1, <3>3, <3>4 DEF HistoryOK
  <2>6. HeardOK
    BY <1>11, <2>1, <2>3 DEF HeardOK, w
  <2> QED BY <1>4, <1>6, <1>8, <1>9, <1>10, <2>4, <2>5, <2>6, TypeParts DEF QueueInv
<1> QED BY <1>12, <1>13 DEF Init

LEMMA InvStep == QueueInv /\ [Next]_vars => QueueInv'
<1> SUFFICES ASSUME QueueInv, [Next]_vars PROVE QueueInv'
  OBVIOUS
<1>0. TypeOK /\ IsFiniteSet(Lists)
  BY DEF QueueInv
<1>1. ASSUME TypeOK', UNCHANGED listVars PROVE QueueInv'
  BY <1>0, <1>1 DEF QueueInv, listVars, Lists
<1>2. CASE UNCHANGED vars
  <2>1. TypeOK'
    BY <1>0, <1>2 DEF vars, listVars, playVars, TypeOK, Lists
  <2> QED BY <1>1, <1>2, <2>1 DEF vars
<1>3. CASE Play
  <2>1. UNCHANGED listVars
    BY <1>3 DEF Play, SkipToNext, PlayFromView, PlayHistoryIndex, PlayFromLibrary, PlayFuture, Choose
  <2> QED BY <1>0, <1>1, <1>3, <2>1, PlayStep
<1>4. CASE Ask
  BY <1>0, <1>1, <1>4, AskStep
<1>5. CASE Change
  <2>1. CASE \E l \in Lists, hide \in Filters : SetFilter(l, hide)
    BY <2>1, SetFilterStep
  <2>2. CASE \E l \in Lists, e \in Songs : RemoveFromList(l, e)
    BY <2>2, RemoveFromListStep
  <2>3. CASE \E e \in Songs : RemoveFromLibrary(e)
    BY <2>3, RemoveFromLibraryStep
  <2>4. CASE \E l \in Lists : DeleteList(l)
    BY <2>4, DeleteListStep
  <2>5. CASE \E l \in Lists : NewList(shown[l])
    BY <1>0, <2>5, ListFacts, NewListStep
  <2>6. CASE Restart
    BY <2>6, RestartStep
  <2> QED BY <1>5, <2>1, <2>2, <2>3, <2>4, <2>5, <2>6 DEF Change
<1>6. CASE GoOn
  BY <1>0, <1>1, <1>6, GoOnFacts, GoOnStep
<1> QED BY <1>2, <1>3, <1>4, <1>5, <1>6 DEF Next

LEMMA QueueInvariant == Spec => []QueueInv
  BY InvInit, InvStep, PTL DEF Spec

\* Whatever commands, failures and restarts follow one another: the queue and the
\* history stay within their sizes, every list there is has what it shows and its
\* active entry, and the active list is always one that exists.
THEOREM QueueTypes == Spec => []TypeOK
<1>1. QueueInv => TypeOK
  BY DEF QueueInv
<1> QED BY <1>1, QueueInvariant, PTL

----------------------------------------------------------------------------
(***************************************************************************)
(* What the notifications and the commands that play can come to.          *)
(***************************************************************************)

\* A song starts.
SongStarts(l, e) ==
    /\ activeList' = l /\ playing' = Wish(l, e) /\ queue' = QueueAfter(l, e)
    /\ at' = [AtOnceActive(l) EXCEPT ![l] = e]
\* A song cannot be opened.
SongFails == failing' /\ UNCHANGED queue
\* A command starts nothing.
NothingStarts == steps' # steps /\ UNCHANGED playing /\ UNCHANGED queue
\* A song or a stream ends and no other starts.
NothingFollows ==
    /\ playing' \in {Silence, playing} /\ UNCHANGED queue
    /\ \/ activeList' = activeList \/ playing' = Silence
       \/ /\ ending # "none" /\ ending' = "none"
          /\ queue # <<>> /\ activeList' = Head(queue).list

PlaysOn ==
    /\ UNCHANGED <<items, shown>> /\ UNCHANGED repeat
    /\ \/ \E l \in Lists : \E e \in Songs \ Broken : SongStarts(l, e)
       \/ SongFails \/ NothingStarts \/ NothingFollows

LEMMA EntryStarts ==
    ASSUME NEW l, NEW e, NEW h, NEW old, NEW reset, NEW tried, PlayEntry(l, e, h, old, reset, tried)
    PROVE  IF e \in Broken THEN SongFails ELSE SongStarts(l, e)
  BY DEF PlayEntry, CannotOpen, Starts, SongFails, SongStarts

LEMMA ChosenPlays ==
    ASSUME TypeOK, Command, NEW l \in Lists, NEW e \in Songs \cup {NoSong}, NEW h, Choose(l, e, h)
    PROVE  PlaysOn
<1>1. UNCHANGED <<items, shown>> /\ UNCHANGED repeat
  BY DEF Choose, listVars
<1>2. steps' # steps
  BY CommandFacts
<1>3. CASE e = NoSong
  <2>1. NothingStarts
    BY <1>2, <1>3 DEF Choose, PlayNothing, MakeActive, NothingStarts
  <2> QED BY <1>1, <2>1 DEF PlaysOn
<1>4. CASE e # NoSong
  <2>1. PlayEntry(l, e, h, playing, TRUE, retries) /\ e \in Songs
    BY <1>4 DEF Choose
  <2> QED BY <1>1, <2>1, EntryStarts DEF PlaysOn
<1> QED BY <1>3, <1>4

LEMMA LibraryPlays ==
    ASSUME TypeOK, Command, NEW e \in Songs \cup {NoSong}, NEW h, PlayFromLibrary(e, h)
    PROVE  PlaysOn
<1>1. 0 \in Lists /\ steps' # steps
  BY CommandFacts DEF TypeOK
<1>2. CASE Choose(0, e, h)
  BY <1>1, <1>2, ChosenPlays
<1>3. CASE ~Choose(0, e, h)
  <2>1. UNCHANGED <<items, shown>> /\ UNCHANGED repeat
    BY <1>3 DEF PlayFromLibrary, listVars
  <2>2. SongFails \/ NothingStarts
    BY <1>1, <1>3 DEF PlayFromLibrary, CannotOpen, SongFails, MakeActive, NothingStarts
  <2> QED BY <2>1, <2>2 DEF PlaysOn
<1> QED BY <1>2, <1>3

LEMMA GoOnPlays ==
    ASSUME TypeOK, GoOn
    PROVE  PlaysOn
<1> DEFINE n == NextSong
<1>1. /\ UNCHANGED listVars /\ UNCHANGED <<repeat, crossfade>>
      /\ SongEnds(n) \/ MixPoint(n) \/ StreamEnds(n) \/ HandleFailed(n)
  BY GoOnFacts
<1>2. UNCHANGED <<items, shown>> /\ UNCHANGED repeat
  BY <1>1 DEF listVars
<1>3. /\ n.list \in Lists /\ n.entry \in Songs \cup {NoSong}
      /\ n.list = activeList \/ (queue # <<>> /\ n.list = Head(queue).list /\ n.entry # NoSong)
  <2>1. NoSong \notin Songs
    BY AssumptionFacts
  <2> QED BY <2>1, NextSongFacts, NextSongCases DEF From
<1> HIDE DEF n
<1>4. ASSUME NEW old, NEW reset, NEW tried, n.entry # NoSong,
             PlayEntry(n.list, n.entry, history, old, reset, tried)
      PROVE  PlaysOn
  BY <1>2, <1>3, <1>4, EntryStarts DEF PlaysOn
<1>5. CASE SongEnds(n)
  <2>1. CASE n.entry = NoSong
    <3>1. NothingFollows
      BY <1>5, <2>1 DEF SongEnds, PlayNothing, MakeActive, NothingFollows
    <3> QED BY <1>2, <3>1 DEF PlaysOn
  <2>2. CASE n.entry # NoSong
    BY <1>4, <1>5, <2>2 DEF SongEnds
  <2> QED BY <2>1, <2>2
<1>6. CASE MixPoint(n)
  <2>1. CASE n.entry = NoSong
    <3>1. NothingFollows
      BY <1>3, <1>6, <2>1 DEF MixPoint, PlayNothing, MakeActive, NothingFollows
    <3> QED BY <1>2, <3>1 DEF PlaysOn
  <2>2. CASE n.entry # NoSong
    BY <1>4, <1>6, <2>2 DEF MixPoint
  <2> QED BY <2>1, <2>2
<1>7. CASE StreamEnds(n)
  <2>1. NothingFollows
    BY <1>3, <1>7 DEF StreamEnds, HeardAfterEnd, PlayNothing, MakeActive, NothingFollows
  <2> QED BY <1>2, <2>1 DEF PlaysOn
<1>8. CASE HandleFailed(n)
  <2>1. CASE retries < MaxRetry /\ n.entry # NoSong
    BY <1>4, <1>8, <2>1 DEF HandleFailed
  <2>2. CASE ~(retries < MaxRetry /\ n.entry # NoSong)
    <3>1. activeList' = activeList /\ UNCHANGED playing /\ UNCHANGED queue
      BY <1>3, <1>8, <2>2 DEF HandleFailed, PlayNothing, MakeActive
    <3>2. NothingFollows
      BY <3>1 DEF NothingFollows
    <3> QED BY <1>2, <3>2 DEF PlaysOn
  <2> QED BY <2>1, <2>2
<1> QED BY <1>1, <1>5, <1>6, <1>7, <1>8

\* A command that plays is a choice of an entry of a list, or of none, or the
\* library is asked for the entry.
LEMMA PlayChooses ==
    ASSUME TypeOK, Play
    PROVE  /\ Command
           /\ \/ \E l \in Lists : \E e \in Songs \cup {NoSong} : \E h : Choose(l, e, h)
              \/ \E e \in Songs \cup {NoSong} : \E h : PlayFromLibrary(e, h)
<1>1. 0 \in Lists
  BY DEF TypeOK
<1>2. CASE SkipToNext
  <2>1. NextSong.list \in Lists /\ NextSong.entry \in Songs \cup {NoSong}
    BY NextSongFacts
  <2> DEFINE e == IF NextSong.place = 0 THEN EntryAt(NextSong.list, 1) ELSE NextSong.entry
  <2>2. e \in Songs \cup {NoSong}
    BY <2>1, EntryFacts
  <2>3. Command /\ Choose(NextSong.list, e, history)
    BY <1>2 DEF SkipToNext, OrFirst, Wish
  <2> HIDE DEF e
  <2> QED BY <2>1, <2>2, <2>3
<1>3. CASE \E l \in Lists : \E e \in ToSet(shown[l]) : PlayFromView(l, e)
  BY <1>3, ShownSong DEF PlayFromView
<1>4. CASE \E i \in DOMAIN history : PlayHistoryIndex(i)
  <2>1. PICK i \in DOMAIN history : PlayHistoryIndex(i)
    BY <1>4
  <2>2. history[i].entry \in Songs
    BY RemoveAtFacts DEF Wanted
  <2> DEFINE h == RemoveAt(history, i)
             e == IF history[i].entry \in Library THEN history[i].entry ELSE NoSong
  <2>3. e \in Songs \cup {NoSong}
    BY <2>2
  <2>4. /\ Command
        /\ \/ history[i].list \in Lists /\ Choose(history[i].list, history[i].entry, h)
           \/ PlayFromLibrary(e, h)
    BY <2>1 DEF PlayHistoryIndex
  <2> HIDE DEF e, h
  <2> QED BY <1>1, <2>2, <2>3, <2>4
<1>5. CASE ~Hung /\ \E i \in DOMAIN Future : PlayFuture(i)
  <2>1. PICK i \in DOMAIN Future : PlayFuture(i)
    BY <1>5
  <2> DEFINE w == Future[i]
             e == IF w.entry \in ToSet(items[w.list]) THEN w.entry ELSE NoSong
  <2>2. Command /\ w.list \in Lists /\ Choose(w.list, e, history)
    BY <2>1 DEF PlayFuture
  <2>3. e \in Songs \cup {NoSong}
    BY <2>2, ShownSong
  <2> HIDE DEF e, w
  <2> QED BY <2>2, <2>3
<1> QED BY <1>2, <1>3, <1>4, <1>5 DEF Play

LEMMA PlayOrGoOn ==
    ASSUME TypeOK, Play \/ GoOn
    PROVE  PlaysOn
<1>1. CASE Play
  BY <1>1, PlayChooses, ChosenPlays, LibraryPlays
<1>2. CASE GoOn
  BY <1>2, GoOnPlays
<1> QED BY <1>1, <1>2

----------------------------------------------------------------------------
(***************************************************************************)
(* The active list.                                                        *)
(***************************************************************************)

HeardStep ==
    (Heard /\ ~Heard') =>
           \/ failing'
           \/ steps' # steps /\ UNCHANGED playing
           \/ /\ ending # "none" /\ ending' = "none"
              /\ queue # <<>> /\ activeList' = Head(queue).list

LEMMA ActiveListStep == TypeOK /\ [Next]_vars => HeardStep
<1> SUFFICES ASSUME TypeOK, [Next]_vars PROVE HeardStep
  OBVIOUS
<1>1. CASE Play \/ GoOn
  <2>1. PlaysOn
    BY <1>1, PlayOrGoOn
  <2>2. ASSUME NEW l, NEW e, SongStarts(l, e) PROVE Heard'
    BY <2>2 DEF SongStarts, Heard, Wish
  <2>3. NothingFollows => HeardStep
    BY DEF NothingFollows, HeardStep, Heard
  <2> QED BY <2>1, <2>2, <2>3 DEF PlaysOn, SongFails, NothingStarts, HeardStep
<1>2. ASSUME UNCHANGED playing, UNCHANGED activeList PROVE HeardStep
  BY <1>2 DEF HeardStep, Heard
<1>3. CASE UNCHANGED vars
  BY <1>2, <1>3 DEF vars, playVars
<1>4. CASE Ask
  <2>1. CASE \E l \in Lists : SwitchTo(l)
    <3>1. Command /\ UNCHANGED playing
      BY <2>1 DEF SwitchTo
    <3> QED BY <3>1, CommandFacts DEF HeardStep
  <2>2. CASE ~\E l \in Lists : SwitchTo(l)
    BY <1>2, <1>4, <2>2
    DEF Ask, PlayNext, AppendQueue, QueueByField, ClearQueue, Enqueue, playVars, SetRepeat, SelectToPlay
  <2> QED BY <2>1, <2>2
<1>5. CASE Change
  <2>1. ASSUME NEW cond, ResetIf(cond), UNCHANGED activeList PROVE HeardStep
    <3>1. playing' \in {Silence, playing}
      BY <2>1 DEF ResetIf
    <3> QED BY <2>1, <3>1 DEF HeardStep, Heard
  <2>2. CASE \E l \in Lists, hide \in Filters : SetFilter(l, hide)
    BY <1>2, <2>2 DEF SetFilter, playVars
  <2>3. CASE \E l \in Lists, e \in Songs : RemoveFromList(l, e)
    BY <2>1, <2>3 DEF RemoveFromList
  <2>4. CASE \E e \in Songs : RemoveFromLibrary(e)
    BY <2>1, <2>4 DEF RemoveFromLibrary
  <2>5. CASE \E l \in Lists : DeleteList(l)
    <3>1. PICK l \in Lists : DeleteList(l)
      BY <2>5
    <3>2. /\ activeList' = IF activeList = l THEN 0 ELSE activeList
          /\ playing' = IF activeList = l THEN Silence ELSE playing
      BY <3>1 DEF DeleteList, ResetIf
    <3> QED BY <3>2 DEF HeardStep, Heard
  <2>6. CASE \E l \in Lists : NewList(shown[l])
    BY <1>2, <2>6 DEF NewList
  <2>7. CASE Restart
    <3>1. /\ playing' = IF Opens THEN Wish(activeList, ToOpen) ELSE Silence
          /\ activeList' = activeList
      BY <2>7, RestartFacts
    <3> QED BY <3>1 DEF HeardStep, Heard, Wish
  <2> QED BY <1>5, <2>2, <2>3, <2>4, <2>5, <2>6, <2>7 DEF Change
<1> QED BY <1>1, <1>3, <1>4, <1>5 DEF Next

\* The list that the title, the failure marks and Next go by stays the one whose
\* song is heard, apart from the three ways out that the property names.
THEOREM HeardListIsActive == Spec => ActiveListIsHeard
<1>1. QueueInv /\ [Next]_vars => [HeardStep]_vars
  BY ActiveListStep DEF QueueInv
<1> QED BY <1>1, QueueInvariant, PTL DEF Spec, ActiveListIsHeard, HeardStep

----------------------------------------------------------------------------
(***************************************************************************)
(* The order of the queue.                                                 *)
(***************************************************************************)

\* The head of the queue, when its own list starts it.
LEMMA HeadTaken ==
    ASSUME TypeOK, queue # <<>>, Playable(Head(queue))
    PROVE  LET w == Head(queue) IN
           QueueAfter(w.list, w.entry) =
               Tail(queue) \o (IF repeat = "AllQueued" THEN <<w>> ELSE <<>>)
<1> DEFINE w == Head(queue)
           l == w.list
           e == w.entry
<1>1. /\ Len(queue) \in Nat /\ Len(queue) # 0 /\ w = queue[1] /\ 1 \in 1 .. Len(queue)
      /\ w \in Wanted /\ l \in Lists
  <2>1. Len(queue) \in Nat /\ Len(queue) # 0 /\ w = queue[1]
    BY QueueFacts
  <2>2. 1 \in 1 .. Len(queue)
    BY <2>1
  <2> QED BY <2>1, <2>2, QueueFacts DEF Playable
<1>2. Place(l, queue[1].entry) = Place(l, e)
  BY <1>1
<1> HIDE DEF l, e
<1>3. PICK i \in 1 .. Len(queue) :
           /\ TakenAt(l, e, i)
           /\ QueueAfter(l, e) = SubSeq(queue, i + 1, Len(queue)) \o Backs(l, i)
  BY <1>1, <1>2, QueueAfterFacts
<1>4. i = 1
  <2>1. i <= 1
    BY <1>1, <1>2, <1>3 DEF TakenAt
  <2> QED BY <1>1, <2>1
<1>5. SubSeq(queue, i + 1, Len(queue)) = Tail(queue)
  <2>1. queue \in Seq(Wanted) /\ i + 1 = 2
    BY <1>4 DEF TypeOK
  <2> QED BY <2>1, TailIsSubSeq
<1>6. Backs(l, i) = IF repeat = "AllQueued" THEN <<w>> ELSE <<>>
  <2>1. Wish(l, queue[1].entry) = w
    BY <1>1 DEF Wish, Wanted, l
  <2> HIDE DEF w
  <2>2. [k \in 1 .. 1 |-> w] = <<w>>
    OBVIOUS
  <2>3. Backs(l, 1) = IF repeat = "AllQueued" THEN [k \in 1 .. 1 |-> w] ELSE <<>>
    BY <2>1 DEF Backs
  <2> QED BY <1>4, <2>2, <2>3
<1> QED BY <1>3, <1>5, <1>6 DEF l, e

OrderStep ==
    (/\ Asks /\ selected = <<>> /\ shown[activeList] # <<>>
     /\ queue # <<>> /\ Ready(Head(queue)))
        => /\ playing' = Head(queue)
           /\ queue' = Tail(queue) \o (IF repeat = "AllQueued" THEN <<Head(queue)>> ELSE <<>>)

LEMMA QueueOrderStep == TypeOK /\ [Next]_vars => OrderStep
<1> SUFFICES ASSUME TypeOK, Asks, selected = <<>>, shown[activeList] # <<>>,
                    queue # <<>>, Ready(Head(queue))
             PROVE  /\ playing' = Head(queue)
                    /\ queue' = Tail(queue) \o (IF repeat = "AllQueued" THEN <<Head(queue)>> ELSE <<>>)
  BY DEF OrderStep
<1> DEFINE w == Head(queue)
           n == NextSong
<1>1. Playable(w) /\ w.entry \notin Broken /\ w \in Wanted
  <2>1. 1 \in 1 .. Len(queue) /\ w = queue[1]
    BY QueueFacts
  <2> QED BY <2>1, QueueFacts DEF Ready
<1>2. n.list = w.list /\ n.entry = w.entry /\ n.place # 0 /\ n.entry # NoSong
  BY <1>1, NextSongCases, AssumptionFacts
<1>3. \E h, old, reset, tried : PlayEntry(w.list, w.entry, h, old, reset, tried)
  <2>1. CASE SkipToNext
    <3>1. OrFirst(n).list = w.list /\ OrFirst(n).entry = w.entry
      BY <1>2 DEF OrFirst, Wish
    <3>2. Choose(OrFirst(n).list, OrFirst(n).entry, history)
      BY <2>1 DEF SkipToNext
    <3> QED BY <1>2, <3>1, <3>2 DEF Choose
  <2>2. CASE SongEnds(n)
    BY <1>2, <2>2 DEF SongEnds
  <2>3. CASE MixPoint(n)
    BY <1>2, <2>3 DEF MixPoint
  <2> QED BY <2>1, <2>2, <2>3 DEF Asks
<1>4. SongStarts(w.list, w.entry)
  BY <1>1, <1>3, EntryStarts
<1>5. Wish(w.list, w.entry) = w
  BY <1>1 DEF Wish, Wanted
<1> HIDE DEF w, n
<1>6. playing' = w /\ queue' = QueueAfter(w.list, w.entry)
  BY <1>4, <1>5 DEF SongStarts
<1> QED BY <1>1, <1>6, HeadTaken DEF w

\* Whatever else is going on, the next song is the head of the queue if that can be
\* played, and exactly this wish goes.
THEOREM QueueIsServedInOrder == Spec => QueueInOrder
<1>1. QueueInv /\ [Next]_vars => [OrderStep]_vars
  BY QueueOrderStep DEF QueueInv
<1> QED BY <1>1, QueueInvariant, PTL DEF Spec, QueueInOrder, OrderStep

----------------------------------------------------------------------------
(***************************************************************************)
(* Hangs.                                                                  *)
(***************************************************************************)

\* q holds no wish that s does not hold.
NoMore(q, s) == \A i \in DOMAIN q : \E j \in DOMAIN s : q[i] = s[j]

LEMMA LeavesNoMore ==
    ASSUME NEW S, NEW s \in Seq(S), NEW match, NEW t, Leaves(t, s, match)
    PROVE  NoMore(t, s)
  BY SelectedFacts DEF Leaves, NoMore

LEMMA RemovedNoMore ==
    ASSUME NEW S, NEW s \in Seq(S), NEW x
    PROVE  NoMore(RemoveEntryID(s, x), s) /\ NoMore(RemovePlaylistID(s, x), s)
<1> DEFINE I == {i \in DOMAIN s : s[i].entry = x}
           J == {i \in DOMAIN s : s[i].list = x}
<1>1. Leaves(Dropped(s, I), s, I) /\ Leaves(Dropped(s, J), s, J)
  <2>1. I \in SUBSET DOMAIN s /\ J \in SUBSET DOMAIN s
    OBVIOUS
  <2> HIDE DEF I, J
  <2> QED BY <2>1, DroppedFacts
<1>2. RemoveEntryID(s, x) = Dropped(s, I) /\ RemovePlaylistID(s, x) = Dropped(s, J)
  BY DEF RemoveEntryID, RemovePlaylistID
<1> HIDE DEF I, J
<1> QED BY <1>1, <1>2, LeavesNoMore

\* Whether w can be played from lists that show what ss says.
CanPlay(w, ss) == w.list \in DOMAIN ss /\ \E k \in DOMAIN ss[w.list] : ss[w.list][k] = w.entry

LEMMA CanPlayFacts ==
    ASSUME TypeOK, NEW w
    PROVE  Playable(w) <=> CanPlay(w, shown)
<1>1. Lists = DOMAIN shown
  BY DEF TypeOK
<1> QED BY <1>1, PlaceFacts DEF Playable, CanPlay

\* A state that hangs.
Shut == queue # <<>> /\ \A i \in DOMAIN queue : ~CanPlay(queue[i], shown)

LEMMA HungShut == TypeOK /\ Hung => Shut
  BY CanPlayFacts DEF Hung, FutureLoops, Restarts, Shut

LEMMA HungNext ==
    ASSUME TypeOK, TypeOK', Hung', UNCHANGED shown
    PROVE  \E i \in DOMAIN queue' : ~Playable(queue'[i])
<1>1. (TypeOK /\ Hung => Shut)'
  BY HungShut, PTL
<1>2. queue' # <<>> /\ \A i \in DOMAIN queue' : ~CanPlay(queue'[i], shown)
  BY <1>1 DEF Shut
<1>3. queue' \in Seq(Wanted)
  BY DEF TypeOK
<1>4. 1 \in DOMAIN queue'
  BY <1>2, <1>3
<1> QED BY <1>2, <1>4, CanPlayFacts

AllPlay(s) == \A i \in DOMAIN s : Playable(s[i])

LEMMA AllPlayFacts ==
    ASSUME NEW S, NEW s \in Seq(S), NEW t \in Seq(S), AllPlay(s), AllPlay(t)
    PROVE  AllPlay(s \o t)
<1>1. Len(s) \in Nat /\ DOMAIN s = 1 .. Len(s) /\ Len(t) \in Nat /\ DOMAIN t = 1 .. Len(t)
  BY LenProperties
<1>2. /\ DOMAIN (s \o t) = 1 .. Len(s) + Len(t)
      /\ \A i \in 1 .. Len(s) + Len(t) : (s \o t)[i] = IF i <= Len(s) THEN s[i] ELSE t[i - Len(s)]
  <2>1. s \o t \in Seq(S) /\ Len(s \o t) = Len(s) + Len(t)
    BY ConcatProperties
  <2> QED BY <2>1, LenProperties, ConcatProperties
<1>3. ASSUME NEW i \in 1 .. Len(s) + Len(t) PROVE Playable((s \o t)[i])
  <2>1. CASE i <= Len(s)
    <3>1. i \in DOMAIN s /\ (s \o t)[i] = s[i]
      BY <1>1, <1>2, <2>1
    <3> QED BY <3>1 DEF AllPlay
  <2>2. CASE ~(i <= Len(s))
    <3>1. i - Len(s) \in DOMAIN t /\ (s \o t)[i] = t[i - Len(s)]
      BY <1>1, <1>2, <2>2
    <3> QED BY <3>1 DEF AllPlay
  <2> QED BY <2>1, <2>2
<1> QED BY <1>2, <1>3 DEF AllPlay

\* What a selection asks for is shown.
LEMMA WishesPlay ==
    ASSUME TypeOK, NEW l \in Lists, NEW sel \in Selections(l)
    PROVE  AllPlay(Wishes(l, sel))
<1>1. sel \in Seq(DOMAIN shown[l])
  BY SelectionFacts
<1>2. ASSUME NEW k \in DOMAIN sel PROVE Playable(Wish(l, shown[l][sel[k]]))
  <2>1. sel[k] \in DOMAIN shown[l]
    BY <1>1, LenProperties, ElementOfSeq
  <2>2. Place(l, shown[l][sel[k]]) # 0
    BY <2>1, PlaceFacts
  <2> QED BY <2>2 DEF Playable, Wish
<1> QED BY <1>2 DEF AllPlay, Wishes

HangStep ==
    (~Hung /\ Healthy /\ Hung') =>
        \/ shown' # shown \/ items' # items
        \/ \E l \in Lists, alike \in Fields, ctrl \in BOOLEAN : QueueByField(l, alike, ctrl)
        \/ Place(activeList', at'[activeList']) = 0 /\ playing' = Wish(activeList', at'[activeList'])

LEMMA HangCaused == TypeOK /\ TypeOK' /\ [Next]_vars => HangStep
<1> SUFFICES ASSUME TypeOK, TypeOK', [Next]_vars, Healthy, Hung', UNCHANGED shown,
                    ~\E l \in Lists, alike \in Fields, ctrl \in BOOLEAN : QueueByField(l, alike, ctrl)
             PROVE  /\ Place(activeList', at'[activeList']) = 0
                    /\ playing' = Wish(activeList', at'[activeList'])
  BY DEF HangStep
<1>1. PICK i \in DOMAIN queue' : ~Playable(queue'[i])
  BY HungNext
<1>2. queue \in Seq(Wanted) /\ AllPlay(queue) /\ \A j \in DOMAIN queue : Playable(queue[j])
  BY DEF TypeOK, Healthy, AllPlay, ToSet
<1>3. ASSUME AllPlay(queue') PROVE FALSE
  BY <1>1, <1>3 DEF AllPlay
<1>4. ASSUME NoMore(queue', queue) PROVE FALSE
  BY <1>1, <1>2, <1>4 DEF NoMore
<1>5. ASSUME UNCHANGED queue PROVE FALSE
  BY <1>2, <1>3, <1>5
<1>6. CASE Play \/ GoOn
  <2>1. PICK l \in Lists : \E e \in Songs \ Broken : SongStarts(l, e)
    BY <1>5, <1>6, PlayOrGoOn DEF PlaysOn, SongFails, NothingStarts, NothingFollows
  <2>2. PICK e \in Songs \ Broken : SongStarts(l, e)
    BY <2>1
  <2>3. activeList' = l /\ playing' = Wish(l, e) /\ queue' = QueueAfter(l, e) /\ at'[l] = e
    BY <2>2, ActiveFacts DEF SongStarts
  <2>4. queue' # queue
    BY <1>5
  <2>5. PICK j \in 1 .. Len(queue) :
           /\ TakenAt(l, e, j)
           /\ queue' = SubSeq(queue, j + 1, Len(queue)) \o Backs(l, j)
    BY <2>3, <2>4, QueueAfterFacts
  <2> DEFINE a == SubSeq(queue, j + 1, Len(queue))
  <2>6. a \in Seq(Wanted) /\ AllPlay(a)
    <3>1. a \in Seq(Wanted) /\ Len(a) = Len(queue) - j /\ Len(queue) \in Nat
      BY RestOfQueue, QueueFacts
    <3>2. ASSUME NEW k \in DOMAIN a PROVE Playable(a[k])
      <4>1. k \in 1 .. Len(queue) - j
        BY <3>1, LenProperties
      <4>2. /\ k \in 1 .. Len(queue) - (j + 1) + 1 /\ (j + 1) + k - 1 \in 1 .. Len(queue)
            /\ j + 1 \in Int /\ Len(queue) \in Int
            /\ \A x \in j + 1 .. Len(queue) : x \in 1 .. Len(queue)
        BY <3>1, <4>1
      <4>3. \A x \in j + 1 .. Len(queue) : queue[x] \in Wanted
        BY <4>2, QueueFacts
      <4>4. a[k] = queue[(j + 1) + k - 1]
        BY <4>2, <4>3, SubSeqProperties
      <4>5. (j + 1) + k - 1 \in DOMAIN queue
        BY <4>2, QueueFacts
      <4> QED BY <1>2, <4>4, <4>5
    <3> QED BY <3>1, <3>2 DEF AllPlay
  <2>7. ~AllPlay(Backs(l, j))
    <3>1. Backs(l, j) \in Seq(Wanted)
      <4>1. Wish(l, queue[j].entry) \in Wanted /\ j \in Nat
        BY QueueFacts, WishFacts, ListFacts
      <4> DEFINE w == Wish(l, queue[j].entry)
      <4> HIDE DEF w
      <4>2. [k \in 1 .. j |-> w] \in Seq(Wanted) /\ <<>> \in Seq(Wanted)
        BY <4>1, IsASeq DEF w
      <4> QED BY <4>2 DEF Backs, w
    <3> HIDE DEF a
    <3> QED BY <1>3, <2>5, <2>6, <3>1, AllPlayFacts DEF a
  <2>8. Place(l, queue[j].entry) = 0
    <3>1. PICK k \in DOMAIN Backs(l, j) : ~Playable(Backs(l, j)[k])
      BY <2>7 DEF AllPlay
    <3>2. repeat = "AllQueued"
      <4>1. repeat # "AllQueued" => Backs(l, j) = <<>>
        BY DEF Backs
      <4> QED BY <3>1, <4>1
    <3>3. Backs(l, j)[k] = Wish(l, queue[j].entry)
      BY <3>1, <3>2 DEF Backs
    <3> QED BY <3>1, <3>3 DEF Playable, Wish
  <2>9. Place(l, e) = 0
    BY <2>5, <2>8 DEF TakenAt
  <2> QED BY <2>3, <2>9
<1>7. CASE UNCHANGED vars
  BY <1>5, <1>7 DEF vars
<1>8. CASE Ask
  <2>1. ASSUME NEW l \in Lists, NEW sel \in Selections(l), PlayNext(l, sel) PROVE FALSE
    <3>1. Wishes(l, sel) \in Seq(Wanted) /\ AllPlay(Wishes(l, sel))
      BY SelectionFacts, WishesPlay
    <3>2. queue' = Wishes(l, sel) \o queue
      BY <2>1 DEF PlayNext, Enqueue
    <3> QED BY <1>2, <1>3, <3>1, <3>2, AllPlayFacts
  <2>2. ASSUME NEW l \in Lists, NEW sel \in Selections(l), AppendQueue(l, sel) PROVE FALSE
    <3>1. Wishes(l, sel) \in Seq(Wanted) /\ AllPlay(Wishes(l, sel))
      BY SelectionFacts, WishesPlay
    <3>2. queue' = queue \o Wishes(l, sel)
      BY <2>2 DEF AppendQueue, Enqueue
    <3> QED BY <1>2, <1>3, <3>1, <3>2, AllPlayFacts
  <2>3. ASSUME ClearQueue PROVE FALSE
    <3>1. queue' = <<>>
      BY <2>3 DEF ClearQueue, Enqueue
    <3> QED BY <1>1, <3>1
  <2>4. ASSUME NEW mode \in Modes, SetRepeat(mode) PROVE FALSE
    BY <1>5, <2>4 DEF SetRepeat
  <2>5. ASSUME NEW sel, SelectToPlay(sel) PROVE FALSE
    BY <1>5, <2>5 DEF SelectToPlay
  <2>6. ASSUME NEW l \in Lists, SwitchTo(l) PROVE FALSE
    BY <1>5, <2>6 DEF SwitchTo, PlayNothing, MakeActive
  <2> QED BY <1>8, <2>1, <2>2, <2>3, <2>4, <2>5, <2>6 DEF Ask
<1>9. CASE Change
  <2>1. ASSUME NEW e \in Songs, RemoveFromLibrary(e) PROVE FALSE
    BY <1>2, <1>4, <2>1, RemovedNoMore DEF RemoveFromLibrary
  <2>2. ASSUME NEW l \in Lists, DeleteList(l) PROVE FALSE
    BY <1>2, <1>4, <2>2, RemovedNoMore DEF DeleteList
  <2>3. ASSUME \/ \E l \in Lists, hide \in Filters : SetFilter(l, hide)
               \/ \E l \in Lists, e \in Songs : RemoveFromList(l, e)
               \/ \E l \in Lists : NewList(shown[l])
               \/ Restart
        PROVE  FALSE
    <3>1. UNCHANGED queue
      BY <2>3, RestartFacts DEF SetFilter, RemoveFromList, NewList
    <3> QED BY <1>5, <3>1
  <2> QED BY <1>9, <2>1, <2>2, <2>3 DEF Change
<1> QED BY <1>6, <1>7, <1>8, <1>9 DEF Next

\* The program comes to loop forever in no other way than those that the property
\* names, when all that is queued could be played.
THEOREM HangsAreExplained == Spec => HangsExplained
<1>1. QueueInv /\ QueueInv' /\ [Next]_vars => [HangStep]_vars
  BY HangCaused DEF QueueInv
<1> QED BY <1>1, QueueInvariant, PTL DEF Spec, HangsExplained, HangStep

----------------------------------------------------------------------------
(***************************************************************************)
(* Removals.                                                               *)
(***************************************************************************)

\* What matches and stays stood behind another that matched.
LEMMA LeavesTwins ==
    ASSUME NEW S, NEW s \in Seq(S), NEW match \in SUBSET DOMAIN s, NEW t, Leaves(t, s, match),
           NEW k \in DOMAIN t
    PROVE  \E i \in DOMAIN s : t[k] = s[i] /\ (i \in match => i - 1 \in match)
<1>1. PICK I \in SUBSET DOMAIN s : /\ t = Selected(s, I)
                                   /\ \A i \in I : i \in match => i - 1 \in match
  BY DEF Leaves
<1>2. PICK i \in I : t[k] = s[i]
  BY <1>1, SelectedFacts
<1> QED BY <1>1, <1>2

EntryTwins(s, x) == \E i \in 1 .. Len(s) - 1 : s[i].entry = x /\ s[i + 1].entry = x
ListTwins(s, x)  == \E i \in 1 .. Len(s) - 1 : s[i].list = x /\ s[i + 1].list = x

LEMMA RemovedTwins ==
    ASSUME NEW S, NEW s \in Seq(S), NEW x
    PROVE  /\ (\E w \in ToSet(RemoveEntryID(s, x)) : w.entry = x) => EntryTwins(s, x)
           /\ (\E w \in ToSet(RemovePlaylistID(s, x)) : w.list = x) => ListTwins(s, x)
<1> DEFINE I == {i \in DOMAIN s : s[i].entry = x}
           J == {i \in DOMAIN s : s[i].list = x}
           n == Len(s)
<1>1. n \in Nat /\ DOMAIN s = 1 .. n
  BY LenProperties
<1>2. RemoveEntryID(s, x) = Dropped(s, I) /\ RemovePlaylistID(s, x) = Dropped(s, J)
  BY DEF RemoveEntryID, RemovePlaylistID
<1>3. ASSUME NEW match \in SUBSET DOMAIN s, NEW k \in DOMAIN Dropped(s, match)
      PROVE  \E i \in DOMAIN s : Dropped(s, match)[k] = s[i] /\ (i \in match => i - 1 \in match)
  BY DroppedFacts, LeavesTwins
<1>4. ASSUME NEW w \in ToSet(RemoveEntryID(s, x)), w.entry = x PROVE EntryTwins(s, x)
  <2>1. PICK k \in DOMAIN Dropped(s, I) : w = Dropped(s, I)[k]
    BY <1>2 DEF ToSet
  <2>2. PICK i \in DOMAIN s : w = s[i] /\ (i \in I => i - 1 \in I)
    <3>1. I \in SUBSET DOMAIN s
      OBVIOUS
    <3> HIDE DEF I
    <3> QED BY <1>3, <2>1, <3>1
  <2>3. s[i].entry = x /\ i - 1 \in DOMAIN s /\ s[i - 1].entry = x
    BY <1>4, <2>2
  <2>4. i - 1 \in 1 .. n - 1 /\ (i - 1) + 1 = i
    BY <1>1, <2>3
  <2> QED BY <2>3, <2>4 DEF EntryTwins
<1>5. ASSUME NEW w \in ToSet(RemovePlaylistID(s, x)), w.list = x PROVE ListTwins(s, x)
  <2>1. PICK k \in DOMAIN Dropped(s, J) : w = Dropped(s, J)[k]
    BY <1>2 DEF ToSet
  <2>2. PICK i \in DOMAIN s : w = s[i] /\ (i \in J => i - 1 \in J)
    <3>1. J \in SUBSET DOMAIN s
      OBVIOUS
    <3> HIDE DEF J
    <3> QED BY <1>3, <2>1, <3>1
  <2>3. s[i].list = x /\ i - 1 \in DOMAIN s /\ s[i - 1].list = x
    BY <1>5, <2>2
  <2>4. i - 1 \in 1 .. n - 1 /\ (i - 1) + 1 = i
    BY <1>1, <2>3
  <2> QED BY <2>3, <2>4 DEF ListTwins
<1> QED BY <1>4, <1>5

\* An entry that is not the removed one stays in the list.
LEMMA WithoutKeeps ==
    ASSUME TypeOK, NEW ids, NEW e, NEW l \in Lists, NEW x \in ToSet(items[l]), x # e
    PROVE  x \in ToSet(Without(items, ids, e)[l])
<1> DEFINE I == {i \in DOMAIN items[l] : items[l][i] # e}
<1>1. Without(items, ids, e)[l] = IF l \in ids THEN Selected(items[l], I) ELSE items[l]
  BY DEF Without, Kept
<1>2. PICK i \in DOMAIN items[l] : items[l][i] = x
  BY DEF ToSet
<1>3. i \in I /\ I \in SUBSET DOMAIN items[l] /\ items[l] \in Seq(Songs)
  BY <1>2, ListFacts
<1> HIDE DEF I
<1>4. \E k \in DOMAIN Selected(items[l], I) : Selected(items[l], I)[k] = x
  BY <1>2, <1>3, SelectedFacts
<1> QED BY <1>1, <1>4 DEF ToSet

\* What ceases to be in the lists, and by what.
LEMMA ListsGo ==
    ASSUME TypeOK, [Next]_vars, NEW l \in Lists \ Lists'
    PROVE  queue' = RemovePlaylistID(queue, l)
<1>1. Lists' # Lists
  OBVIOUS
<1>2. ~UNCHANGED items
  BY <1>1 DEF Lists
<1>3. Change
  <2>1. CASE Play \/ GoOn
    BY <1>2, <2>1, PlayOrGoOn DEF PlaysOn
  <2>2. CASE Ask
    BY <1>2, <2>2, AskStep DEF listVars
  <2>3. CASE UNCHANGED vars
    BY <1>2, <2>3 DEF vars, listVars
  <2> QED BY <2>1, <2>2, <2>3 DEF Next
<1>4. ASSUME NEW k \in Lists, DeleteList(k) PROVE queue' = RemovePlaylistID(queue, l)
  <2>1. Lists' = Lists \ {k}
    BY <1>4 DEF DeleteList, Lists
  <2> QED BY <1>4, <2>1 DEF DeleteList
<1>5. ASSUME NEW k \in Lists, NewList(shown[k]) PROVE FALSE
  <2>1. Lists \subseteq Lists'
    BY <1>5 DEF NewList, Lists
  <2> QED BY <2>1
<1>6. ASSUME NEW ids, NEW e, items' = Without(items, ids, e) PROVE FALSE
  BY <1>1, <1>6 DEF Without, Lists
<1> QED BY <1>2, <1>3, <1>4, <1>5, <1>6, RestartFacts
    DEF Change, SetFilter, RemoveFromList, RemoveFromLibrary

LEMMA EntriesGo ==
    ASSUME QueueInv, [Next]_vars, NEW e \in Library \ Library'
    PROVE  queue' = RemoveEntryID(queue, e) /\ history' = RemoveEntryID(history, e)
<1> USE DEF QueueInv
<1>1. 0 \in Lists /\ items'[0] # items[0]
  BY DEF TypeOK, Library
<1>2. ~UNCHANGED items
  BY <1>1
<1>3. Change
  <2>1. CASE Play \/ GoOn
    BY <1>2, <2>1, PlayOrGoOn DEF PlaysOn
  <2>2. CASE Ask
    BY <1>2, <2>2, AskStep DEF listVars
  <2>3. CASE UNCHANGED vars
    BY <1>2, <2>3 DEF vars, listVars
  <2> QED BY <2>1, <2>2, <2>3 DEF Next
<1>4. ASSUME NEW x \in Songs, RemoveFromLibrary(x)
      PROVE  queue' = RemoveEntryID(queue, e) /\ history' = RemoveEntryID(history, e)
  <2>1. items' = Without(items, Lists, x)
    BY <1>4 DEF RemoveFromLibrary
  <2>2. e = x
    BY <1>1, <2>1, WithoutKeeps DEF Library
  <2> QED BY <1>4, <2>2 DEF RemoveFromLibrary
<1>5. ASSUME NEW l \in Lists, NEW x \in Songs, RemoveFromList(l, x) PROVE FALSE
  <2>1. l # 0 /\ items' = Without(items, {l}, x)
    BY <1>5 DEF RemoveFromList
  <2>2. items'[0] = items[0]
    BY <1>1, <2>1 DEF Without
  <2> QED BY <1>1, <2>2
<1>6. ASSUME NEW l \in Lists, DeleteList(l) PROVE FALSE
  BY <1>1, <1>6 DEF DeleteList
<1>7. ASSUME NEW l \in Lists, NewList(shown[l]) PROVE FALSE
  <2> DEFINE id == Min(FreeFrom(newestID))
  <2>1. items' = [k \in Lists \cup {id} |-> IF k = id THEN shown[l] ELSE items[k]]
    BY <1>7 DEF NewList, FreeFrom
  <2>2. id \notin Lists
    BY FreeFacts DEF TypeOK
  <2> HIDE DEF id
  <2> QED BY <1>1, <2>1, <2>2
<1> QED BY <1>2, <1>3, <1>4, <1>5, <1>6, <1>7, RestartFacts DEF Change, SetFilter

GhostStep ==
    /\ \A l \in Lists \ Lists' :
          (\E w \in ToSet(queue') : w.list = l) => TwinsIn(queue, LAMBDA w : w.list = l)
    /\ \A e \in Library \ Library' :
          /\ (\E w \in ToSet(queue') : w.entry = e) => TwinsIn(queue, LAMBDA w : w.entry = e)
          /\ (\E w \in ToSet(history') : w.entry = e) => TwinsIn(history, LAMBDA w : w.entry = e)

LEMMA GhostsStep == QueueInv /\ [Next]_vars => GhostStep
<1> SUFFICES ASSUME QueueInv, [Next]_vars PROVE GhostStep
  OBVIOUS
<1>1. TypeOK /\ queue \in Seq(Wanted) /\ history \in Seq(Wanted)
  BY DEF QueueInv, TypeOK
<1>2. ASSUME NEW l \in Lists \ Lists', \E w \in ToSet(queue') : w.list = l
      PROVE  TwinsIn(queue, LAMBDA w : w.list = l)
  <2>1. ListTwins(queue, l)
    BY <1>1, <1>2, ListsGo, RemovedTwins
  <2> QED BY <2>1 DEF ListTwins, TwinsIn
<1>3. ASSUME NEW e \in Library \ Library', \E w \in ToSet(queue') : w.entry = e
      PROVE  TwinsIn(queue, LAMBDA w : w.entry = e)
  <2>1. EntryTwins(queue, e)
    BY <1>1, <1>3, EntriesGo, RemovedTwins
  <2> QED BY <2>1 DEF EntryTwins, TwinsIn
<1>4. ASSUME NEW e \in Library \ Library', \E w \in ToSet(history') : w.entry = e
      PROVE  TwinsIn(history, LAMBDA w : w.entry = e)
  <2>1. EntryTwins(history, e)
    BY <1>1, <1>4, EntriesGo, RemovedTwins
  <2> QED BY <2>1 DEF EntryTwins, TwinsIn
<1> QED BY <1>2, <1>3, <1>4 DEF GhostStep

\* The removals leave a wish for what is gone only where two of them stood together.
THEOREM GhostsComeFromTwins == Spec => GhostsOnlyFromTwins
<1>1. QueueInv /\ [Next]_vars => [GhostStep]_vars
  BY GhostsStep
<1> QED BY <1>1, QueueInvariant, PTL DEF Spec, GhostsOnlyFromTwins, GhostStep

----------------------------------------------------------------------------
(***************************************************************************)
(* What goes from the queue.                                               *)
(***************************************************************************)

\* A list shows none but its entries.
ShownIn == \A l \in Lists : ToSet(shown[l]) \subseteq ToSet(items[l])

LEMMA SelectedIn ==
    ASSUME NEW S, NEW s \in Seq(S), NEW I \in SUBSET DOMAIN s
    PROVE  \A x \in ToSet(Selected(s, I)) : \E i \in I : s[i] = x
  BY SelectedFacts DEF ToSet

LEMMA WithoutShown ==
    ASSUME TypeOK, ShownIn, NEW ids, NEW e, NEW l \in Lists,
           NEW x \in ToSet(Without(shown, ids, e)[l])
    PROVE  x \in ToSet(Without(items, ids, e)[l])
<1> DEFINE I == {i \in DOMAIN shown[l] : shown[l][i] # e}
<1>1. Without(shown, ids, e)[l] = IF l \in ids THEN Selected(shown[l], I) ELSE shown[l]
  BY DEF Without, Kept
<1>2. CASE l \in ids
  <2>1. x \in ToSet(Selected(shown[l], I))
    BY <1>1, <1>2
  <2>2. \E i \in I : shown[l][i] = x
    <3>1. shown[l] \in Seq(Songs) /\ I \in SUBSET DOMAIN shown[l]
      BY ListFacts
    <3> HIDE DEF I
    <3> QED BY <2>1, <3>1, SelectedIn
  <2>3. x \in ToSet(shown[l]) /\ x # e
    BY <2>2 DEF ToSet
  <2> QED BY <2>3, WithoutKeeps DEF ShownIn
<1>3. CASE l \notin ids
  <2>1. x \in ToSet(items[l])
    BY <1>1, <1>3 DEF ShownIn
  <2>2. Without(items, ids, e)[l] = items[l]
    BY <1>3 DEF Without
  <2> QED BY <2>1, <2>2
<1> QED BY <1>2, <1>3

LEMMA ShownInStep == QueueInv /\ ShownIn /\ [Next]_vars => ShownIn'
<1> SUFFICES ASSUME QueueInv, ShownIn, [Next]_vars PROVE ShownIn'
  OBVIOUS
<1>0. TypeOK
  BY DEF QueueInv
<1>1. ASSUME UNCHANGED <<items, shown>> PROVE ShownIn'
  BY <1>1 DEF ShownIn, Lists
<1>2. CASE Play \/ GoOn
  BY <1>0, <1>1, <1>2, PlayOrGoOn DEF PlaysOn
<1>3. CASE Ask
  BY <1>0, <1>1, <1>3, AskStep DEF listVars
<1>4. CASE UNCHANGED vars
  BY <1>1, <1>4 DEF vars, listVars
<1>5. ASSUME NEW l \in Lists, NEW hide, SetFilter(l, hide) PROVE ShownIn'
  <2> DEFINE I == {i \in DOMAIN items[l] : items[l][i] \notin hide}
  <2>1. /\ UNCHANGED items /\ shown' = [shown EXCEPT ![l] = Selected(items[l], I)]
    BY <1>5 DEF SetFilter, Kept
  <2>2. ToSet(Selected(items[l], I)) \subseteq ToSet(items[l])
    <3>1. items[l] \in Seq(Songs) /\ I \in SUBSET DOMAIN items[l]
      BY <1>0, ListFacts
    <3> HIDE DEF I
    <3>2. \A x \in ToSet(Selected(items[l], I)) : \E i \in I : items[l][i] = x
      BY <3>1, SelectedIn
    <3> QED BY <3>1, <3>2 DEF ToSet
  <2> DEFINE s == Selected(items[l], I)
  <2> HIDE DEF s
  <2>3. ASSUME NEW k \in Lists PROVE ToSet(shown'[k]) \subseteq ToSet(items[k])
    <3>1. shown' = [shown EXCEPT ![l] = s] /\ l \in DOMAIN shown
      BY <1>0, <2>1 DEF TypeOK, s
    <3>2. shown'[k] = IF k = l THEN s ELSE shown[k]
      BY <1>0, <3>1 DEF TypeOK
    <3>3. CASE k = l
      BY <2>2, <3>2, <3>3 DEF s
    <3>4. CASE k # l
      BY <3>2, <3>4 DEF ShownIn
    <3> QED BY <3>3, <3>4
  <2> QED BY <2>1, <2>3 DEF ShownIn, Lists
<1>6. ASSUME NEW ids, NEW e, items' = Without(items, ids, e), shown' = Without(shown, ids, e)
      PROVE  ShownIn'
  <2>1. Lists' = Lists
    BY <1>6 DEF Without, Lists
  <2>2. \A l \in Lists : ToSet(shown'[l]) \subseteq ToSet(items'[l])
    BY <1>0, <1>6, WithoutShown
  <2> QED BY <2>1, <2>2 DEF ShownIn
<1>7. ASSUME NEW l \in Lists, DeleteList(l) PROVE ShownIn'
  <2>1. /\ items' = [k \in Lists \ {l} |-> items[k]]
        /\ shown' = [k \in Lists \ {l} |-> shown[k]]
    BY <1>7 DEF DeleteList
  <2>2. Lists' = Lists \ {l}
    BY <2>1 DEF Lists
  <2> QED BY <2>1, <2>2 DEF ShownIn
<1>8. ASSUME NEW l \in Lists, NewList(shown[l]) PROVE ShownIn'
  <2> DEFINE id == Min(FreeFrom(newestID))
  <2>1. /\ items' = [k \in Lists \cup {id} |-> IF k = id THEN shown[l] ELSE items[k]]
        /\ shown' = [k \in Lists \cup {id} |-> IF k = id THEN shown[l] ELSE shown[k]]
    BY <1>8 DEF NewList, FreeFrom
  <2> HIDE DEF id
  <2>2. Lists' = Lists \cup {id}
    BY <2>1 DEF Lists
  <2> QED BY <2>1, <2>2 DEF ShownIn
<1>9. CASE Change
  <2>1. Restart => UNCHANGED <<items, shown>>
    BY <1>0, RestartFacts
  <2> QED BY <1>1, <1>5, <1>6, <1>7, <1>8, <1>9, <2>1
      DEF Change, RemoveFromList, RemoveFromLibrary
<1> QED BY <1>2, <1>3, <1>4, <1>9 DEF Next

LEMMA ShownInvariant == Spec => [](QueueInv /\ ShownIn)
<1>1. Init => ShownIn
  BY DEF Init, ShownIn
<1> QED BY <1>1, InvInit, InvStep, ShownInStep, PTL DEF Spec

WishesGo ==
    (Len(queue') < Len(queue) /\ repeat # "AllQueued") =>
        \/ queue' = <<>> /\ UNCHANGED playVars
        \/ UNCHANGED <<items, playVars>>
        \/ items' # items
        \/ LET k == Len(queue) - Len(queue') IN
           /\ queue' = SubSeq(queue, k + 1, Len(queue))
           /\ \/ queue[k].entry = playing'.entry
              \/ Place(playing'.list, playing'.entry) = 0
                 /\ Place(playing'.list, queue[k].entry) = 0

LEMMA WishesGoStep == QueueInv /\ ShownIn /\ [Next]_vars => WishesGo
<1> SUFFICES ASSUME QueueInv, ShownIn, [Next]_vars, Len(queue') < Len(queue), repeat # "AllQueued",
                    ~UNCHANGED <<items, playVars>>, items' = items
             PROVE  LET k == Len(queue) - Len(queue') IN
                    /\ queue' = SubSeq(queue, k + 1, Len(queue))
                    /\ \/ queue[k].entry = playing'.entry
                       \/ Place(playing'.list, playing'.entry) = 0
                          /\ Place(playing'.list, queue[k].entry) = 0
  BY DEF WishesGo
<1>0. TypeOK /\ Len(queue) \in Nat
  BY QueueFacts DEF QueueInv
<1>1. ASSUME UNCHANGED queue PROVE FALSE
  BY <1>0, <1>1
<1>2. CASE Play \/ GoOn
  <2>1. PICK l \in Lists : \E e \in Songs \ Broken : SongStarts(l, e)
    BY <1>0, <1>1, <1>2, PlayOrGoOn DEF PlaysOn, SongFails, NothingStarts, NothingFollows
  <2>2. PICK e \in Songs \ Broken : SongStarts(l, e)
    BY <2>1
  <2>3. playing'.list = l /\ playing'.entry = e /\ queue' = QueueAfter(l, e)
    BY <2>2 DEF SongStarts, Wish
  <2>4. PICK i \in 1 .. Len(queue) :
           TakenAt(l, e, i) /\ queue' = SubSeq(queue, i + 1, Len(queue)) \o Backs(l, i)
    BY <1>0, <1>1, <2>3, QueueAfterFacts
  <2>5. queue' = SubSeq(queue, i + 1, Len(queue)) /\ Len(queue') = Len(queue) - i
    <3> DEFINE a == SubSeq(queue, i + 1, Len(queue))
    <3>1. a \in Seq(Wanted) /\ Len(a) = Len(queue) - i
      BY <1>0, RestOfQueue
    <3>2. Backs(l, i) = <<>>
      BY DEF Backs
    <3> HIDE DEF a
    <3>3. a \o <<>> = a
      BY <3>1, ConcatEmptySeq
    <3> QED BY <2>4, <3>1, <3>2, <3>3 DEF a
  <2>6. Len(queue) - Len(queue') = i
    BY <1>0, <2>5
  <2>7. Place(l, queue[i].entry) = Place(l, e)
    BY <2>4 DEF TakenAt
  <2>8. Place(l, e) # 0 => queue[i].entry = e
    BY <1>0, <2>7, PlaceFacts
  <2> QED BY <2>3, <2>5, <2>6, <2>7, <2>8
<1>3. CASE UNCHANGED vars
  BY <1>1, <1>3 DEF vars
<1>4. CASE Ask
  BY <1>1, <1>4 DEF Ask, PlayNext, AppendQueue, QueueByField, ClearQueue, Enqueue,
                    SetRepeat, SelectToPlay, SwitchTo, PlayNothing, MakeActive
<1>5. CASE Change
  <2>1. ASSUME NEW e \in Songs, RemoveFromLibrary(e) PROVE FALSE
    <3> DEFINE I == {i \in DOMAIN items[0] : items[0][i] # e}
    <3>1. 0 \in Lists /\ e \in ToSet(shown[0]) /\ items' = Without(items, Lists, e)
      BY <1>0, <2>1 DEF RemoveFromLibrary, TypeOK
    <3>2. e \in ToSet(items[0])
      BY <3>1 DEF ShownIn
    <3>3. items[0] = Selected(items[0], I)
      BY <3>1 DEF Without, Kept
    <3>4. items[0] \in Seq(Songs) /\ I \in SUBSET DOMAIN items[0]
      BY <1>0, <3>1, ListFacts
    <3>5. \A i \in I : items[0][i] # e
      OBVIOUS
    <3> HIDE DEF I
    <3>6. \A x \in ToSet(Selected(items[0], I)) : \E i \in I : items[0][i] = x
      BY <3>4, SelectedIn
    <3> QED BY <3>2, <3>3, <3>5, <3>6
  <2>2. ASSUME NEW l \in Lists, DeleteList(l) PROVE FALSE
    <3>1. items' = [k \in Lists \ {l} |-> items[k]]
      BY <2>2 DEF DeleteList
    <3>2. l \notin DOMAIN items' /\ l \in DOMAIN items
      BY <3>1 DEF Lists
    <3> QED BY <3>2
  <2>3. ASSUME \/ \E l \in Lists, hide \in Filters : SetFilter(l, hide)
               \/ \E l \in Lists, e \in Songs : RemoveFromList(l, e)
               \/ \E l \in Lists : NewList(shown[l])
               \/ Restart
        PROVE  FALSE
    <3>1. UNCHANGED queue
      BY <1>0, <2>3, RestartFacts DEF SetFilter, RemoveFromList, NewList
    <3> QED BY <1>1, <3>1
  <2> QED BY <1>5, <2>1, <2>2, <2>3 DEF Change
<1> QED BY <1>2, <1>3, <1>4, <1>5 DEF Next

\* A wish goes because the user had the queue cleared, because what it named is
\* gone, or because a song starts that it is taken for.
THEOREM WishesGoForAReason == Spec => OnlyHeardWishesGo
<1>1. QueueInv /\ ShownIn /\ [Next]_vars => [WishesGo]_vars
  BY WishesGoStep
<1> QED BY <1>1, ShownInvariant, PTL DEF Spec, OnlyHeardWishesGo, WishesGo

----------------------------------------------------------------------------
(***************************************************************************)
(* What is foretold.                                                       *)
(***************************************************************************)

LEMMA SelectedFirst ==
    ASSUME NEW S, NEW s \in Seq(S), NEW I \in SUBSET DOMAIN s, 1 \in I
    PROVE  Len(Selected(s, I)) # 0 /\ Selected(s, I)[1] = s[1]
<1> DEFINE t == Selected(s, I)
<1>1. t \in Seq(S)
  BY SelectedPicks
<1>2. PICK h : Picks(h, t, s, I) /\ \A i \in I : \E k \in 1 .. Len(t) : h[k] = i
  BY SelectedPicks
<1> HIDE DEF t
<1>3. Len(t) \in Nat /\ DOMAIN s = 1 .. Len(s) /\ Len(s) \in Nat
  BY <1>1, LenProperties
<1>4. PICK k \in 1 .. Len(t) : h[k] = 1
  BY <1>2
<1>5. 1 \in 1 .. Len(t)
  BY <1>3
<1>6. k = 1
  <2>1. SUFFICES ASSUME 1 < k PROVE FALSE
    BY <1>3
  <2>2. h[1] < h[k]
    BY <1>2, <1>5, <2>1 DEF Picks
  <2>3. h[1] \in 1 .. Len(s)
    BY <1>2, <1>3, <1>5 DEF Picks
  <2> QED BY <1>4, <2>2, <2>3
<1>7. t[1] = s[h[1]]
  BY <1>2, <1>5 DEF Picks
<1> QED BY <1>3, <1>4, <1>6, <1>7 DEF t

LEMMA FirstOfConcat ==
    ASSUME NEW S, NEW s \in Seq(S), NEW t \in Seq(S), s # <<>>
    PROVE  s \o t # <<>> /\ (s \o t)[1] = s[1]
<1>1. Len(s) \in Nat /\ Len(s) # 0 /\ Len(t) \in Nat
  BY LenProperties, EmptySeq
<1>2. 1 \in 1 .. Len(s) + Len(t) /\ 1 <= Len(s) /\ Len(s) + Len(t) # 0
  BY <1>1
<1>3. /\ s \o t \in Seq(S) /\ Len(s \o t) = Len(s) + Len(t)
      /\ \A i \in 1 .. Len(s) + Len(t) : (s \o t)[i] = IF i <= Len(s) THEN s[i] ELSE t[i - Len(s)]
  BY ConcatProperties
<1>4. (s \o t)[1] = s[1]
  BY <1>2, <1>3
<1>5. s \o t # <<>>
  BY <1>2, <1>3, EmptySeq
<1> QED BY <1>4, <1>5

\* The future list begins as what was asked for does.
LEMMA AskedFirst ==
    ASSUME TypeOK, NEW l, NEW e, NEW asked \in Seq(Here), Len(asked) <= FutureSize, asked # <<>>
    PROVE  FutureWith(l, e, asked) # <<>> /\ FutureWith(l, e, asked)[1] = asked[1]
<1> DEFINE last == Last(asked)
           n == Place(last.list, last.entry)
           room == FutureSize - Len(asked)
           first == <<Wish(last.list, EntryAt(last.list, 1))>>
<1>1. Len(asked) \in Nat /\ FutureSize \in Nat /\ room \in Nat
  BY LenProperties, PlayQueueAssumption
<1>2. last.list \in Lists
  <2>1. Len(asked) \in 1 .. Len(asked)
    BY <1>1, EmptySeq
  <2>2. Last(asked) \in Here
    BY <2>1, ElementOfSeq DEF Last
  <2> QED BY <2>2 DEF Here
<1>3. FutureWith(l, e, asked) = IF n = 0 /\ room > 0 THEN asked \o first \o FutureOwn(last.list, 1, room - 1)
                          ELSE asked \o FutureOwn(last.list, n, room)
  BY DEF FutureWith
<1>4. first \in Seq(Here)
  <2> DEFINE x == Wish(last.list, EntryAt(last.list, 1))
  <2>1. x \in Here
    <3> HIDE DEF last
    <3> QED BY <1>2, HereFacts
  <2> HIDE DEF x
  <2>2. first = <<x>>
    BY DEF x
  <2> QED BY <2>1, <2>2
<1> HIDE DEF last, first
<1>5. CASE n = 0 /\ room > 0
  <2> DEFINE own == FutureOwn(last.list, 1, room - 1)
  <2>1. room - 1 \in Nat
    BY <1>1, <1>5
  <2>2. own \in Seq(Here)
    BY <1>2, <2>1, FutureOwnFacts
  <2> HIDE DEF own
  <2>3. asked \o first \in Seq(Here) /\ asked \o first # <<>> /\ (asked \o first)[1] = asked[1]
    BY <1>4, ConcatProperties, FirstOfConcat
  <2>4. (asked \o first) \o own # <<>> /\ ((asked \o first) \o own)[1] = (asked \o first)[1]
    <3> DEFINE b == asked \o first
    <3> HIDE DEF b
    <3>1. b \in Seq(Here) /\ b # <<>>
      BY <2>3 DEF b
    <3>2. b \o own # <<>> /\ (b \o own)[1] = b[1]
      BY <2>2, <3>1, FirstOfConcat
    <3> QED BY <3>2 DEF b
  <2> QED BY <1>3, <1>5, <2>3, <2>4 DEF own
<1>6. CASE ~(n = 0 /\ room > 0)
  <2>1. FutureOwn(last.list, n, room) \in Seq(Here)
    BY <1>1, <1>2, FutureOwnFacts
  <2> QED BY <1>3, <1>6, <2>1, FirstOfConcat
<1> QED BY <1>5, <1>6

\* A song chosen with Alt comes first.
LEMMA SelectedForetold ==
    ASSUME TypeOK, selected # <<>>, EntryAt(activeList, Head(selected)) # NoSong
    PROVE  FutureSelected(activeList) # <<>>
           /\ FutureSelected(activeList)[1] = Wish(activeList, EntryAt(activeList, Head(selected)))
<1> DEFINE there == Selected(ChosenWishes(activeList), ThereAt(activeList))
<1>0. activeList \in Lists
  BY DEF TypeOK
<1>1. /\ ChosenWishes(activeList) \in Seq(Here) /\ Len(ChosenWishes(activeList)) = Len(selected)
      /\ there \in Seq(Here)
      /\ FutureSelected(activeList) = SubSeq(there, 1, Min({FutureSize, Len(there)}))
  BY <1>0, ChosenFacts
<1>2. selected \in Seq(Nat \ {0}) /\ Len(selected) \in Nat /\ Len(selected) # 0
  BY LenProperties, EmptySeq DEF TypeOK
<1>3. 1 \in DOMAIN ChosenWishes(activeList) /\ 1 \in DOMAIN selected
  <2>1. 1 \in 1 .. Len(selected)
    BY <1>2
  <2> QED BY <1>1, <1>2, <2>1, LenProperties
<1>4. ChosenWishes(activeList)[1] = Wish(activeList, EntryAt(activeList, Head(selected)))
  <2>1. Head(selected) = selected[1]
    BY <1>2
  <2> QED BY <1>3, <2>1 DEF ChosenWishes
<1>5. 1 \in ThereAt(activeList) /\ ThereAt(activeList) \in SUBSET DOMAIN ChosenWishes(activeList)
  <2>1. Shows(ChosenWishes(activeList)[1])
    BY <1>4 DEF Shows, Wish
  <2> QED BY <1>3, <2>1 DEF ThereAt
<1>6. Len(there) # 0 /\ there[1] = ChosenWishes(activeList)[1]
  BY <1>1, <1>5, SelectedFirst
<1> HIDE DEF there
<1>7. FutureSize \in Nat /\ FutureSize # 0
  BY PlayQueueAssumption
<1>8. /\ Len(FutureSelected(activeList)) = Min({FutureSize, Len(there)})
      /\ FutureSelected(activeList) \in Seq(Here)
      /\ \A i \in 1 .. Len(FutureSelected(activeList)) : FutureSelected(activeList)[i] = there[i]
  <2> DEFINE f == FutureSelected(activeList)
  <2>1. f = SubSeq(there, 1, Min({FutureSize, Len(there)})) /\ there \in Seq(Here)
    BY <1>1
  <2> HIDE DEF f
  <2>2. /\ Len(f) = Min({FutureSize, Len(there)}) /\ f \in Seq(Here)
        /\ \A i \in 1 .. Len(f) : f[i] = there[i]
    BY <1>7, <2>1, PrefixFacts
  <2> QED BY <2>2 DEF f
<1>9. Len(FutureSelected(activeList)) \in Nat /\ Len(FutureSelected(activeList)) # 0
  <2>1. Len(there) \in Nat
    BY <1>1, LenProperties
  <2> QED BY <1>6, <1>7, <1>8, <2>1, MinOfTwo
<1>10. 1 \in 1 .. Len(FutureSelected(activeList))
  BY <1>9
<1> QED BY <1>4, <1>6, <1>8, <1>9, <1>10, EmptySeq

\* Without such a song the queue comes first.
LEMMA NoneChosen ==
    ASSUME TypeOK, selected = <<>>
    PROVE  FutureSelected(activeList) = <<>>
<1> DEFINE there == Selected(ChosenWishes(activeList), ThereAt(activeList))
<1>1. FutureSelected(activeList) = SubSeq(there, 1, Min({FutureSize, Len(there)}))
      /\ there \in Seq(Here) /\ Len(there) <= Len(selected)
  <2>1. activeList \in Lists
    BY DEF TypeOK
  <2> QED BY <2>1, ChosenFacts, SelectedFacts DEF ThereAt
<1>2. Len(there) = 0
  <2> HIDE DEF there
  <2>1. Len(selected) = 0 /\ Len(there) \in Nat
    BY <1>1, LenProperties
  <2> QED BY <1>1, <2>1
<1> HIDE DEF there
<1>3. FutureSize \in Nat
  BY PlayQueueAssumption
<1>4. FutureSelected(activeList) \in Seq(Here) /\ Len(FutureSelected(activeList)) <= Len(there)
  BY <1>1, <1>3, PrefixFacts
<1>5. Len(FutureSelected(activeList)) = 0
  BY <1>2, <1>4, LenProperties
<1> QED BY <1>4, <1>5, EmptySeq

LEMMA QueueForetold ==
    ASSUME TypeOK, queue # <<>>, Playable(Head(queue)), NEW room \in Nat, room # 0
    PROVE  FutureQueue(room) # <<>> /\ FutureQueue(room)[1] = Head(queue)
<1>1. 1 \in DOMAIN queue /\ Head(queue) = queue[1] /\ queue \in Seq(Wanted)
  <2>1. Len(queue) \in Nat /\ Len(queue) # 0 /\ DOMAIN queue = 1 .. Len(queue)
    BY QueueFacts
  <2>2. 1 \in 1 .. Len(queue)
    BY <2>1
  <2> QED BY <2>1, <2>2, QueueFacts DEF TypeOK
<1>2. 1 \in ListedAt /\ ListedAt \in SUBSET DOMAIN queue
  BY <1>1 DEF ListedAt
<1>3. Listed = Selected(queue, ListedAt) /\ Listed \in Seq(Here)
  BY ListedFacts
<1>4. Len(Listed) # 0 /\ Listed[1] = Head(queue)
  BY <1>1, <1>2, <1>3, SelectedFirst
<1>5. Len(Listed) \in Nat /\ 1 \in 1 .. room
  BY <1>3, LenProperties
<1>6. CASE Restarts
  <2> DEFINE c == [k \in 1 .. room |-> Listed[((k - 1) % Len(Listed)) + 1]]
  <2>1. FutureQueue(room) = c
    BY <1>6 DEF FutureQueue
  <2>2. ((1 - 1) % Len(Listed)) + 1 = 1
    BY <1>4, <1>5
  <2>3. c[1] = Listed[1] /\ DOMAIN c = 1 .. room
    BY <1>5, <2>2
  <2>4. c # <<>>
    <3>1. DOMAIN <<>> = {}
      OBVIOUS
    <3> QED BY <1>5, <2>3, <3>1
  <2> QED BY <1>4, <2>1, <2>3, <2>4
<1>7. CASE ~Restarts
  <2> DEFINE t == SubSeq(Listed, 1, Min({room, Len(Listed)}))
  <2>1. FutureQueue(room) = t
    BY <1>7 DEF FutureQueue
  <2>2. /\ t \in Seq(Here) /\ Len(t) = Min({room, Len(Listed)})
        /\ \A i \in 1 .. Len(t) : t[i] = Listed[i]
    BY <1>3, PrefixFacts
  <2> HIDE DEF t
  <2>3. Len(t) \in Nat /\ Len(t) # 0
    BY <1>4, <1>5, <2>2, MinOfTwo
  <2>4. 1 \in 1 .. Len(t)
    BY <2>3
  <2> QED BY <1>4, <2>1, <2>2, <2>3, <2>4, EmptySeq
<1> QED BY <1>6, <1>7

LEMMA NoneQueued ==
    ASSUME TypeOK, queue = <<>>, NEW room \in Nat
    PROVE  FutureQueue(room) = <<>>
<1>1. FutureQueue(room) = SubSeq(Listed, 1, Min({room, Len(Listed)}))
  BY DEF FutureQueue, Restarts
<1>2. Listed \in Seq(Here) /\ Len(Listed) <= Len(queue)
  BY ListedFacts, SelectedFacts DEF TypeOK, ListedAt
<1>3. /\ FutureQueue(room) \in Seq(Here) /\ Len(FutureQueue(room)) <= Len(Listed)
  BY <1>1, <1>2, PrefixFacts
<1>4. Len(FutureQueue(room)) = 0
  <2>1. Len(queue) = 0 /\ Len(Listed) \in Nat /\ Len(FutureQueue(room)) \in Nat
    BY <1>2, <1>3, LenProperties, EmptySeq
  <2> QED BY <1>2, <1>3, <2>1
<1> QED BY <1>3, <1>4, EmptySeq

\* Otherwise the future list goes on from the active entry.
LEMMA PlaceAfterType ==
    ASSUME TypeOK, NEW l \in Lists, NEW n \in Nat
    PROVE  PlaceAfter(l, n) \in Nat
<1> DEFINE m == Len(shown[l])
<1>1. m \in Nat /\ DOMAIN shown[l] = 1 .. m
  BY ListFacts
<1>2. PlaceAfter(l, n) = CASE n \notin 1 .. m -> 1
                           [] n \in 1 .. m /\ repeat = "One" -> n
                           [] n \in 1 .. m - 1 /\ repeat # "One" -> n + 1
                           [] n = m /\ n # 0 /\ repeat # "One" -> 1
  BY <1>1 DEF PlaceAfter
<1> HIDE DEF m
<1>3. CASE n \notin 1 .. m
  <2>1. ~(n \in 1 .. m - 1) /\ ~(n = m /\ n # 0)
    BY <1>1, <1>3
  <2> QED BY <1>2, <1>3, <2>1
<1>4. CASE n \in 1 .. m /\ n # m
  <2>1. n \in 1 .. m - 1
    BY <1>1, <1>4
  <2> QED BY <1>2, <1>4, <2>1
<1>5. CASE n \in 1 .. m /\ n = m
  <2>1. n # 0 /\ ~(n \in 1 .. m - 1)
    BY <1>1, <1>5
  <2> QED BY <1>2, <1>5, <2>1
<1> QED BY <1>3, <1>4, <1>5

LEMMA OwnForetold ==
    ASSUME TypeOK, NEW l \in Lists, NEW n \in Nat, NEW room \in Nat, room # 0, shown[l] # <<>>
    PROVE  /\ FutureOwn(l, n, room) # <<>>
           /\ FutureOwn(l, n, room)[1] = Wish(l, EntryAt(l, PlaceAfter(l, n)))
<1> DEFINE Rec(f) == f = [k \in 0 .. room |-> IF k = 0 THEN n ELSE PlaceAfter(l, f[k - 1])]
           p == CHOOSE f : Rec(f)
           step == [k \in 1 .. room |-> [m \in Nat |-> PlaceAfter(l, m)]]
<1>1. \A m \in Nat : PlaceAfter(l, m) \in Nat
  BY PlaceAfterType
<1>2. step \in [1 .. room -> [Nat -> Nat]]
  BY <1>1
<1>3. \A k \in 1 .. room : \A m \in Nat : step[k][m] = PlaceAfter(l, m)
  OBVIOUS
<1> HIDE DEF step
<1>4. PICK f : Follows(f, room, Nat, n, step)
  BY ONLY n \in Nat, room \in Nat, <1>2, StepsExist
<1>5. /\ f \in [0 .. room -> Nat] /\ f[0] = n
      /\ \A k \in 1 .. room : f[k] = step[k][f[k - 1]]
  BY <1>4 DEF Follows
<1>6. Rec(f)
  <2>1. ASSUME NEW k \in 0 .. room
        PROVE  f[k] = IF k = 0 THEN n ELSE PlaceAfter(l, f[k - 1])
    <3>1. CASE k = 0
      BY <1>5, <3>1
    <3>2. CASE k # 0
      <4>1. k \in 1 .. room /\ k - 1 \in 0 .. room
        BY <3>2
      <4>2. f[k - 1] \in Nat
        BY <1>5, <4>1
      <4> QED BY <1>3, <1>5, <3>2, <4>1, <4>2
    <3> QED BY <3>1, <3>2
  <2>2. f = [k \in 0 .. room |-> f[k]]
    BY <1>5
  <2> QED BY <2>1, <2>2, Zenon
<1>7. Rec(p)
  BY <1>6
<1>8. FutureOwn(l, n, room) = [k \in 1 .. room |-> Wish(l, EntryAt(l, p[k]))]
  BY DEF FutureOwn
<1> HIDE DEF p
<1>9. p[0] = n /\ p[1] = PlaceAfter(l, p[0])
  <2>1. \A k \in 0 .. room : p[k] = IF k = 0 THEN n ELSE PlaceAfter(l, p[k - 1])
    BY <1>7, Zenon
  <2>2. 0 \in 0 .. room /\ 1 \in 0 .. room /\ 1 # 0 /\ 1 - 1 = 0
    OBVIOUS
  <2> QED BY <2>1, <2>2
<1>10. 1 \in 1 .. room
  OBVIOUS
<1> DEFINE c == [k \in 1 .. room |-> Wish(l, EntryAt(l, p[k]))]
<1>11. c[1] = Wish(l, EntryAt(l, p[1])) /\ DOMAIN c = 1 .. room
  BY <1>10
<1>12. c # <<>>
  <2>1. DOMAIN <<>> = {}
    OBVIOUS
  <2> QED BY <1>10, <1>11, <2>1
<1> QED BY <1>8, <1>9, <1>11, <1>12

\* The place that the active list's own order gives the command for the next song:
\* it starts over where there is no next.
OwnSkip == IF OwnNext = 0 THEN 1 ELSE OwnNext

LEMMA OwnSkipFacts ==
    ASSUME TypeOK, shown[activeList] # <<>>
    PROVE  LET a == Place(activeList, at[activeList]) IN
           /\ OwnSkip \in DOMAIN shown[activeList]
           /\ a = 0 => OwnSkip = 1
           /\ a # 0 => PlaceAfter(activeList, a) = OwnSkip
<1> DEFINE a == Place(activeList, at[activeList])
           n == Len(shown[activeList])
<1>1. activeList \in Lists /\ repeat \in {"None", "One", "All", "AllQueued"}
  BY DEF TypeOK, Repeats
<1>2. /\ a \in Nat /\ a <= n /\ n \in Nat /\ DOMAIN shown[activeList] = 1 .. n
      /\ n # 0
  BY <1>1, PlaceFacts, ListFacts
<1>3. OwnNext = CASE a = 0 -> 1
                  [] a # 0 /\ repeat = "One" -> a
                  [] a \in 1 .. n - 1 /\ repeat # "One" -> a + 1
                  [] a # 0 /\ a = n /\ repeat = "All" -> 1
                  [] a # 0 /\ a = n /\ repeat \in {"None", "AllQueued"} -> 0
  BY DEF OwnNext
<1>4. PlaceAfter(activeList, a) = CASE a \notin 1 .. n -> 1
                           [] a \in 1 .. n /\ repeat = "One" -> a
                           [] a \in 1 .. n - 1 /\ repeat # "One" -> a + 1
                           [] a = n /\ a # 0 /\ repeat # "One" -> 1
  BY <1>2 DEF PlaceAfter
<1> HIDE DEF a, n
<1>5. 1 \in 1 .. n /\ (a # 0 => a \in 1 .. n)
  BY <1>2
<1>6. CASE a = 0
  <2>1. OwnNext = 1
    BY <1>2, <1>3, <1>6
  <2> QED BY <1>2, <1>5, <1>6, <2>1 DEF OwnSkip, a
<1>7. CASE a # 0 /\ repeat = "One"
  <2>1. OwnNext = a
    BY <1>2, <1>3, <1>7
  <2>2. PlaceAfter(activeList, a) = a
    BY <1>4, <1>5, <1>7
  <2> QED BY <1>2, <1>5, <1>7, <2>1, <2>2 DEF OwnSkip, a
<1>8. CASE a # 0 /\ repeat # "One" /\ a # n
  <2>1. a \in 1 .. n - 1 /\ a + 1 \in 1 .. n /\ a + 1 # 0
    BY <1>2, <1>8
  <2>2. OwnNext = a + 1
    BY <1>3, <1>8, <2>1
  <2>3. PlaceAfter(activeList, a) = a + 1
    BY <1>4, <1>5, <1>8, <2>1
  <2> QED BY <1>2, <1>8, <2>1, <2>2, <2>3 DEF OwnSkip, a
<1>9. CASE a # 0 /\ repeat # "One" /\ a = n
  <2>1. ~(a \in 1 .. n - 1)
    BY <1>2, <1>9
  <2>2. OwnNext \in {0, 1}
    BY <1>1, <1>3, <1>9, <2>1
  <2>3. PlaceAfter(activeList, a) = 1
    BY <1>4, <1>5, <1>9, <2>1
  <2> QED BY <1>2, <1>5, <1>9, <2>2, <2>3 DEF OwnSkip, a
<1> QED BY <1>6, <1>7, <1>8, <1>9

LEMMA OwnFirst ==
    ASSUME TypeOK, shown[activeList] # <<>>
    PROVE  /\ FutureWith(activeList, at[activeList], <<>>) # <<>>
           /\ FutureWith(activeList, at[activeList], <<>>)[1] = Wish(activeList, EntryAt(activeList, OwnSkip))
<1> DEFINE l == activeList
           n == Place(l, at[l])
           x == Wish(l, EntryAt(l, 1))
<1>1. l \in Lists
  BY DEF TypeOK
<1>2. FutureSize \in Nat /\ FutureSize # 0 /\ FutureSize > 0 /\ Len(<<>>) = 0
      /\ FutureSize - 0 = FutureSize /\ FutureSize - 1 \in Nat
  BY PlayQueueAssumption
<1>3. FutureWith(activeList, at[activeList], <<>>) = IF n = 0 THEN <<>> \o <<x>> \o FutureOwn(l, 1, FutureSize - 1)
                         ELSE <<>> \o FutureOwn(l, n, FutureSize)
  BY <1>2 DEF FutureWith, Wish
<1>4. n \in Nat /\ (n = 0 => OwnSkip = 1) /\ (n # 0 => PlaceAfter(l, n) = OwnSkip)
  BY <1>1, PlaceFacts, OwnSkipFacts
<1>5. x \in Here
  BY <1>1, HereFacts
<1>6. FutureOwn(l, 1, FutureSize - 1) \in Seq(Here) /\ FutureOwn(l, n, FutureSize) \in Seq(Here)
  BY <1>1, <1>2, FutureOwnFacts
<1>7. n # 0 => /\ FutureOwn(l, n, FutureSize) # <<>>
               /\ FutureOwn(l, n, FutureSize)[1] = Wish(l, EntryAt(l, PlaceAfter(l, n)))
  BY <1>1, <1>2, <1>4, OwnForetold
<1> DEFINE rest == FutureOwn(l, 1, FutureSize - 1)
           own == FutureOwn(l, n, FutureSize)
<1>8. CASE n = 0
  <2>1. FutureWith(activeList, at[activeList], <<>>) = <<>> \o <<x>> \o rest /\ x = Wish(l, EntryAt(l, OwnSkip))
    BY <1>3, <1>4, <1>8
  <2> HIDE DEF n, rest, x
  <2>2. <<x>> \in Seq(Here) /\ <<>> \o <<x>> = <<x>> /\ <<x>> # <<>> /\ <<x>>[1] = x
    BY ONLY <1>5
  <2>3. rest \in Seq(Here)
    BY <1>6 DEF rest
  <2>4. <<x>> \o rest # <<>> /\ (<<x>> \o rest)[1] = <<x>>[1]
    BY ONLY <2>2, <2>3, FirstOfConcat
  <2> QED BY <2>1, <2>2, <2>4
<1>9. CASE n # 0
  <2>1. FutureWith(activeList, at[activeList], <<>>) = <<>> \o own
    BY <1>3, <1>9
  <2>2. own \in Seq(Here) /\ own # <<>> /\ own[1] = Wish(l, EntryAt(l, OwnSkip))
    BY <1>4, <1>6, <1>7, <1>9
  <2> HIDE DEF own
  <2>3. <<>> \o own = own
    BY ONLY <2>2
  <2> QED BY <2>1, <2>2, <2>3
<1> QED BY <1>8, <1>9

\* The command for the next song plays this one.
Skipped == IF NextSong.place = 0 THEN EntryAt(NextSong.list, 1) ELSE NextSong.entry

InView ==
    /\ shown[activeList] # <<>>
    /\ IF selected # <<>> THEN EntryAt(activeList, Head(selected)) # NoSong
                          ELSE queue # <<>> => Playable(Head(queue))

FutureMenu == FutureWith(activeList, at[activeList], FutureAsked(activeList))

LEMMA MenuForetells ==
    ASSUME TypeOK, ~FutureLoops(activeList), InView
    PROVE  /\ FutureMenu # <<>> /\ FutureMenu[1] = Wish(NextSong.list, Skipped)
           /\ NextSong.list \in Lists /\ Skipped \in Songs
<1>1. activeList \in Lists /\ NoSong \notin Songs /\ FutureSize \in Nat /\ FutureSize # 0
  BY AssumptionFacts, PlayQueueAssumption DEF TypeOK
<1>2. FutureAsked(activeList) \in Seq(Here) /\ Len(FutureAsked(activeList)) <= FutureSize
  BY <1>1, FutureAskedFacts
<1>3. FutureMenu = FutureWith(activeList, at[activeList], FutureAsked(activeList))
      /\ FutureAsked(activeList) = FutureSelected(activeList) \o FutureQueue(FutureSize - Len(FutureSelected(activeList)))
  BY DEF FutureMenu, FutureAsked
<1>4. NextSong.list \in Lists
  BY NextSongFacts
<1>5. CASE selected # <<>>
  <2> DEFINE e == EntryAt(activeList, Head(selected))
             room == FutureSize - Len(FutureSelected(activeList))
             q == FutureQueue(room)
  <2>1. e # NoSong
    BY <1>5 DEF InView
  <2>2. e \in Songs
    BY <1>1, <2>1, EntryFacts
  <2>3. Head(selected) # 0
    <3>1. selected \in Seq(Nat \ {0})
      BY DEF TypeOK
    <3> QED BY ONLY <1>5, <3>1
  <2>4. NextSong = From(activeList, Head(selected))
    BY <1>5 DEF NextSong, InView
  <2>5. NextSong.list = activeList /\ Skipped = e
    BY <2>3, <2>4 DEF From, Skipped
  <2>6. FutureSelected(activeList) # <<>> /\ FutureSelected(activeList)[1] = Wish(activeList, e)
    BY <1>5, <2>1, SelectedForetold
  <2>7. FutureSelected(activeList) \in Seq(Here) /\ Len(FutureSelected(activeList)) \in Nat /\ Len(FutureSelected(activeList)) <= FutureSize
    BY <1>1, FutureSelectedFacts
  <2>8. room \in Nat
    BY <1>1, <2>7
  <2>9. Restarts /\ room # 0 => Listed # <<>>
    <3>1. SUFFICES ASSUME Restarts, room # 0 PROVE Listed # <<>>
      OBVIOUS
    <3>2. Len(FutureSelected(activeList)) < FutureSize
      BY <1>1, <2>7, <2>8, <3>1
    <3>3. \E i \in DOMAIN queue : Playable(queue[i])
      BY <3>1, <3>2 DEF FutureLoops
    <3> QED BY <3>3, ListedFacts
  <2>10. q \in Seq(Here)
    BY <2>8, <2>9, FutureQueueFacts
  <2>11. FutureAsked(activeList) = FutureSelected(activeList) \o q
    BY <1>3
  <2> HIDE DEF e, q
  <2>12. FutureSelected(activeList) \o q # <<>> /\ (FutureSelected(activeList) \o q)[1] = FutureSelected(activeList)[1]
    BY ONLY <2>6, <2>7, <2>10, FirstOfConcat
  <2>13. FutureAsked(activeList) # <<>> /\ FutureAsked(activeList)[1] = Wish(activeList, e)
    BY <2>6, <2>11, <2>12
  <2>14. FutureMenu # <<>> /\ FutureMenu[1] = FutureAsked(activeList)[1]
    BY <1>2, <1>3, <2>13, AskedFirst
  <2> QED BY <1>4, <2>2, <2>5, <2>13, <2>14
<1>6. CASE selected = <<>>
  <2>1. FutureSelected(activeList) = <<>> /\ Len(FutureSelected(activeList)) = 0
    BY <1>6, NoneChosen
  <2>2. FutureSize - Len(FutureSelected(activeList)) = FutureSize
    BY <1>1, <2>1
  <2>3. FutureAsked(activeList) = <<>> \o FutureQueue(FutureSize)
    BY <1>3, <2>1, <2>2
  <2>4. CASE queue # <<>>
    <3> DEFINE w == Head(queue)
    <3>1. Playable(w)
      BY <1>6, <2>4 DEF InView
    <3>2. NextSong.list = w.list /\ NextSong.entry = w.entry /\ NextSong.place # 0
          /\ NextSong.entry \in Songs
      BY <1>6, <2>4, <3>1, NextSongCases DEF InView
    <3>3. w = Wish(w.list, w.entry)
      <4>1. w \in Wanted
        <5>1. Len(queue) \in Nat /\ Len(queue) # 0 /\ w = queue[1]
          BY <2>4, QueueFacts
        <5>2. 1 \in 1 .. Len(queue)
          BY <5>1
        <5> QED BY <5>1, <5>2, QueueFacts
      <4> QED BY <4>1 DEF Wanted, Wish
    <3>4. FutureQueue(FutureSize) # <<>> /\ FutureQueue(FutureSize)[1] = w
      BY <1>1, <2>4, <3>1, QueueForetold
    <3>5. FutureQueue(FutureSize) \in Seq(Here)
      <4>1. 1 \in DOMAIN queue
        <5>1. Len(queue) \in Nat /\ Len(queue) # 0 /\ DOMAIN queue = 1 .. Len(queue)
          BY <2>4, QueueFacts
        <5> QED BY <5>1
      <4>2. w = queue[1]
        BY <2>4, QueueFacts
      <4>3. Listed # <<>>
        BY <3>1, <4>1, <4>2, ListedFacts
      <4> QED BY <1>1, <4>3, FutureQueueFacts
    <3> DEFINE q == FutureQueue(FutureSize)
    <3> HIDE DEF q
    <3>6. <<>> \o q = q
      <4>1. q \in Seq(Here)
        BY <3>5 DEF q
      <4> QED BY ONLY <4>1
    <3>7. FutureAsked(activeList) # <<>> /\ FutureAsked(activeList)[1] = w
      BY <2>3, <3>4, <3>6 DEF q
    <3>8. FutureMenu # <<>> /\ FutureMenu[1] = w
      BY <1>2, <1>3, <3>7, AskedFirst
    <3>9. Skipped = w.entry
      BY <3>2 DEF Skipped
    <3> QED BY <1>4, <3>2, <3>3, <3>8, <3>9
  <2>5. CASE queue = <<>>
    <3>1. FutureQueue(FutureSize) = <<>>
      BY <1>1, <2>5, NoneQueued
    <3>2. FutureAsked(activeList) = <<>>
      BY <2>3, <3>1
    <3>3. FutureMenu # <<>> /\ FutureMenu[1] = Wish(activeList, EntryAt(activeList, OwnSkip))
      BY <1>3, <3>2, OwnFirst DEF InView
    <3>4. NextSong = From(activeList, OwnNext)
      BY <1>6, <2>5 DEF NextSong, NextInOwnList, InView
    <3>5. NextSong.list = activeList /\ Skipped = EntryAt(activeList, OwnSkip)
      BY <3>4 DEF From, Skipped, OwnSkip
    <3>6. Skipped \in Songs
      BY <1>1, <3>5, OwnSkipFacts, EntryFacts DEF InView
    <3> QED BY <1>4, <3>3, <3>5, <3>6
  <2> QED BY <2>4, <2>5
<1> QED BY <1>5, <1>6

\* The command for the next song finds one.
LEMMA SkipFacts ==
    ASSUME TypeOK, InView
    PROVE  /\ OrFirst(NextSong) = Wish(NextSong.list, Skipped)
           /\ NextSong.list \in Lists /\ Skipped \in Songs
<1>1. activeList \in Lists /\ NoSong \notin Songs /\ NextSong.list \in Lists
  BY AssumptionFacts, NextSongFacts DEF TypeOK
<1>2. CASE selected # <<>>
  <2>1. Head(selected) # 0
    <3>1. selected \in Seq(Nat \ {0})
      BY DEF TypeOK
    <3> QED BY ONLY <1>2, <3>1
  <2>2. NextSong = From(activeList, Head(selected))
    BY <1>2 DEF NextSong, InView
  <2>3. Skipped = EntryAt(activeList, Head(selected)) /\ Skipped # NoSong
    BY <1>2, <2>1, <2>2 DEF From, Skipped, InView
  <2> QED BY <1>1, <2>3, EntryFacts DEF OrFirst, Skipped
<1>3. CASE selected = <<>> /\ queue # <<>>
  <2>1. NextSong.place # 0 /\ NextSong.entry \in Songs
    BY <1>3, NextSongCases DEF InView
  <2> QED BY <1>1, <2>1 DEF OrFirst, Skipped
<1>4. CASE selected = <<>> /\ queue = <<>>
  <2>1. NextSong = From(activeList, OwnNext)
    BY <1>4 DEF NextSong, NextInOwnList, InView
  <2>2. Skipped = EntryAt(activeList, OwnSkip)
    BY <2>1 DEF From, Skipped, OwnSkip
  <2>3. Skipped \in Songs
    BY <1>1, <2>2, OwnSkipFacts, EntryFacts DEF InView
  <2> QED BY <1>1, <2>3 DEF OrFirst, Skipped
<1> QED BY <1>2, <1>3, <1>4

\* The menu that is built now has the next song first.
LEMMA BuiltForetells ==
    ASSUME TypeOK, ~FutureLoops(activeList), InView
    PROVE  \A m \in FutureMenus(activeList, at[activeList]) : Head(m) = OrFirst(NextSong)
<1>1. activeList \in Lists
  BY DEF TypeOK
<1>2. /\ FutureMenus(activeList, at[activeList]) = {FutureMenu}
      /\ FutureMenu \in Seq(Asking)
  BY <1>1, MenuFacts DEF FutureMenu
<1>3. FutureMenu # <<>> /\ FutureMenu[1] = OrFirst(NextSong)
  BY MenuForetells, SkipFacts
<1>4. Head(FutureMenu) = FutureMenu[1]
  BY ONLY <1>2, <1>3
<1> QED BY <1>2, <1>3, <1>4

ForetoldStep ==
    /\ (SkipToNext /\ Clear /\ (outdated = {} \/ Foretold))
           => Head(Future) = Wish(activeList', at'[activeList'])
    /\ (outdated' # {} /\ Clear' /\ ~Foretold') =>
           \/ Clear /\ ~Foretold
           \/ failing'
           \/ Lists' # Lists
           \/ steps' # steps /\ activeList' # activeList /\ UNCHANGED playing

LEMMA ForetoldSkip ==
    ASSUME TypeOK, SkipToNext, Clear, outdated = {} \/ Foretold
    PROVE  Head(Future) = Wish(activeList', at'[activeList'])
<1>1. activeList \in Lists /\ NoSong \notin Songs /\ InView
  BY AssumptionFacts DEF TypeOK, Clear, InView
<1>2. /\ OrFirst(NextSong) = Wish(NextSong.list, Skipped)
      /\ NextSong.list \in Lists /\ Skipped \in Songs
  BY <1>1, SkipFacts
<1>3. \A m \in Menus : Head(m) = OrFirst(NextSong)
  <2>1. CASE outdated = {}
    <3>1. ~FutureLoops(activeList)
      BY <2>1 DEF Clear, Hung
    <3> QED BY <1>1, <2>1, <3>1, BuiltForetells DEF Menus
  <2>2. CASE outdated # {}
    BY <2>2 DEF Foretold
  <2> QED BY <2>1, <2>2
<1>4. Menus # {}
  BY DEF Menus, FutureMenus
<1>5. Head(Future) = OrFirst(NextSong)
  BY <1>3, <1>4 DEF Future
<1>6. Choose(NextSong.list, Skipped, history)
  <2>1. Choose(OrFirst(NextSong).list, OrFirst(NextSong).entry, history)
    BY DEF SkipToNext
  <2> QED BY <1>2, <2>1 DEF Wish
<1>7. PlayEntry(NextSong.list, Skipped, history, playing, TRUE, retries)
  BY <1>1, <1>2, <1>6 DEF Choose
<1>8. /\ activeList' = NextSong.list
      /\ at' = [AtOnceActive(NextSong.list) EXCEPT ![NextSong.list] = Skipped]
  BY <1>7 DEF PlayEntry, CannotOpen, Starts
<1>9. at'[NextSong.list] = Skipped
  BY <1>2, <1>8, ActiveFacts
<1> QED BY <1>2, <1>5, <1>8, <1>9

\* A step that keeps the menu and all that the next song depends on
LEMMA NextSame ==
    ASSUME UNCHANGED <<items, shown>>, UNCHANGED <<at, activeList, queue, selected, repeat>>
    PROVE  /\ OrFirst(NextSong)' = OrFirst(NextSong)
           /\ InView' <=> InView
<1>1. ASSUME NEW l, NEW e PROVE Place(l, e)' = Place(l, e)
  BY DEF Place, FirstOf
<1>2. ASSUME NEW l, NEW n PROVE EntryAt(l, n)' = EntryAt(l, n)
  BY DEF EntryAt
<1>3. ASSUME NEW w PROVE Playable(w)' = Playable(w)
  BY <1>1 DEF Playable, Lists
<1>4. OwnNext' = OwnNext
  BY <1>1 DEF OwnNext
<1>5. NextSong' = NextSong
  BY <1>1, <1>2, <1>3, <1>4 DEF NextSong, NextInOwnList, From
<1>6. OrFirst(NextSong)' = OrFirst(NextSong)
  BY <1>2, <1>5 DEF OrFirst
<1>7. InView' <=> InView
  BY <1>2, <1>3 DEF InView
<1> QED BY <1>6, <1>7

\* A wish that can be played and comes first is the next song, whatever list is active.
HeadIsNext ==
    (/\ shown[activeList] # <<>> /\ selected = <<>>
     /\ queue # <<>> /\ Playable(Head(queue)))
        => OrFirst(NextSong) = Head(queue)

LEMMA HeadNext == TypeOK => HeadIsNext
<1> SUFFICES ASSUME TypeOK, shown[activeList] # <<>>, selected = <<>>,
                    queue # <<>>, Playable(Head(queue))
             PROVE  OrFirst(NextSong) = Head(queue)
  BY DEF HeadIsNext
<1> DEFINE w == Head(queue)
<1>1. NextSong.list = w.list /\ NextSong.entry = w.entry /\ NextSong.place # 0
  BY NextSongCases
<1>2. w \in Wanted
  <2>1. Len(queue) \in Nat /\ Len(queue) # 0 /\ w = queue[1]
    BY QueueFacts
  <2>2. 1 \in 1 .. Len(queue)
    BY <2>1
  <2> QED BY <2>1, <2>2, QueueFacts
<1> HIDE DEF w
<1>3. OrFirst(NextSong) = Wish(w.list, w.entry)
  BY <1>1 DEF OrFirst
<1> QED BY <1>2, <1>3 DEF Wish, Wanted, w

LEMMA ForetoldSame ==
    ASSUME TypeOK, ~Hung, UNCHANGED <<items, shown>>,
           UNCHANGED <<at, activeList, queue, selected, repeat>>,
           KeepFutureMenu, outdated' # {}, Clear', ~Foretold'
    PROVE  Clear /\ ~Foretold
<1>1. OrFirst(NextSong)' = OrFirst(NextSong) /\ (InView' <=> InView)
  BY NextSame
<1>2. Menus' = Menus
  BY DEF KeepFutureMenu, Menus
<1>3. InView'
  BY DEF Clear, InView
<1>4. Clear
  BY <1>1, <1>3 DEF Clear, InView
<1> QED BY <1>1, <1>2, <1>4 DEF Foretold

\* A list is made active and nothing is played.
LEMMA ForetoldNothing ==
    ASSUME TypeOK, ~Hung, NEW h, UNCHANGED <<items, shown>>, UNCHANGED repeat,
           PlayNothing(activeList, h), outdated' # {}, Clear', ~Foretold'
    PROVE  Clear /\ ~Foretold
<1>1. KeepFutureMenu /\ UNCHANGED <<activeList, queue, selected>>
  BY DEF PlayNothing, MakeActive
<1>2. UNCHANGED at
  BY DEF PlayNothing, MakeActive, AtOnceActive, TypeOK
<1> QED BY <1>1, <1>2, ForetoldSame

\* What an entry that is played leaves of the menu, unless it cannot be opened
LEMMA EntryRebuilds ==
    ASSUME NEW l, NEW e, NEW h, NEW old, NEW reset, NEW tried,
           PlayEntry(l, e, h, old, reset, tried)
    PROVE  failing' \/ outdated' = {}
  BY DEF PlayEntry, CannotOpen, Starts, RebuildFutureMenu

ForetoldSpoilt ==
    (outdated' # {} /\ Clear' /\ ~Foretold') =>
        \/ Clear /\ ~Foretold
        \/ failing'
        \/ Lists' # Lists
        \/ steps' # steps /\ activeList' # activeList /\ UNCHANGED playing

LEMMA ChooseForetold ==
    ASSUME TypeOK, Command, NEW l, NEW e, NEW h, Choose(l, e, h)
    PROVE  ForetoldSpoilt
<1>1. ~Hung /\ steps' # steps /\ UNCHANGED <<items, shown>> /\ UNCHANGED repeat
  BY CommandFacts DEF Choose, listVars
<1>2. CASE e = NoSong
  <2>1. PlayNothing(l, h) /\ UNCHANGED playing
    BY <1>2 DEF Choose
  <2>2. CASE l = activeList
    BY <1>1, <2>1, <2>2, ForetoldNothing DEF ForetoldSpoilt
  <2>3. CASE l # activeList
    BY <1>1, <2>1, <2>3 DEF ForetoldSpoilt, PlayNothing, MakeActive
  <2> QED BY <2>2, <2>3
<1>3. CASE e # NoSong
  <2>1. PlayEntry(l, e, h, playing, TRUE, retries)
    BY <1>3 DEF Choose
  <2> QED BY <2>1, EntryRebuilds DEF ForetoldSpoilt
<1> QED BY <1>2, <1>3

LEMMA PlayForetold ==
    ASSUME TypeOK, Play
    PROVE  ForetoldSpoilt
<1>1. Command
  BY PlayChooses
<1>2. ASSUME NEW e, NEW h, PlayFromLibrary(e, h)
      PROVE  ForetoldSpoilt
  <2>1. CASE Choose(0, e, h)
    BY <1>1, <2>1, ChooseForetold
  <2>2. CASE ~Choose(0, e, h)
    <3>1. outdated' = {} \/ failing'
      BY <1>2, <2>2 DEF PlayFromLibrary, RebuildFutureMenu, CannotOpen
    <3> QED BY <3>1 DEF ForetoldSpoilt
  <2> QED BY <2>1, <2>2
<1> QED BY <1>1, <1>2, PlayChooses, ChooseForetold

LEMMA GoOnForetold ==
    ASSUME TypeOK, TypeOK', GoOn
    PROVE  ForetoldSpoilt
<1> DEFINE n == NextSong
<1>1. /\ ~Hung /\ UNCHANGED listVars /\ UNCHANGED <<repeat, crossfade>>
      /\ SongEnds(n) \/ MixPoint(n) \/ StreamEnds(n) \/ HandleFailed(n)
  BY GoOnFacts
<1>2. UNCHANGED <<items, shown>> /\ UNCHANGED repeat
  BY <1>1 DEF listVars
<1>3. n.entry = NoSong => n.list = activeList
  <2>1. NoSong \notin Songs
    BY AssumptionFacts
  <2> QED BY <2>1, NextSongCases DEF From
<1>4. ASSUME PlayNothing(activeList, history)
      PROVE  ForetoldSpoilt
  BY <1>1, <1>2, <1>4, ForetoldNothing DEF ForetoldSpoilt
<1>5. ASSUME NEW old, NEW reset, NEW tried, PlayEntry(n.list, n.entry, history, old, reset, tried)
      PROVE  ForetoldSpoilt
  BY <1>5, EntryRebuilds DEF ForetoldSpoilt
<1>6. CASE StreamEnds(n)
  <2>1. PlayNothing(n.list, history)
    BY <1>6 DEF StreamEnds
  <2>2. CASE n.list = activeList
    BY <1>4, <2>1, <2>2
  <2>3. CASE n.list # activeList
    <3>1. SUFFICES ASSUME outdated' # {}, ~Foretold' PROVE Clear /\ ~Foretold
      BY DEF ForetoldSpoilt
    <3>2. /\ shown[activeList] # <<>> /\ selected = <<>> /\ queue # <<>>
          /\ Playable(Head(queue)) /\ n.list = Head(queue).list
      BY <2>3, NextSongCases DEF From
    <3>3. /\ activeList' = Head(queue).list /\ UNCHANGED <<queue, selected>>
          /\ Menus' = Menus
      BY <2>1, <3>1, <3>2 DEF PlayNothing, MakeActive, KeepFutureMenu, Menus
    <3>4. OrFirst(NextSong) = Head(queue)
      BY <3>2, HeadNext DEF HeadIsNext
    <3>5. HeadIsNext'
      BY HeadNext, PTL
    <3>6. Playable(Head(queue))' /\ shown'[activeList'] # <<>>
      <4>1. CanPlay(Head(queue), shown)
        BY <3>2, CanPlayFacts
      <4> QED BY <1>2, <3>2, <3>3, <4>1 DEF CanPlay, Playable, Place, FirstOf, Lists
    <3>7. OrFirst(NextSong)' = Head(queue)
      BY <3>2, <3>3, <3>5, <3>6 DEF HeadIsNext
    <3>8. Clear
      BY <1>1, <3>2 DEF Clear
    <3> QED BY <3>1, <3>3, <3>4, <3>7, <3>8 DEF Foretold
  <2> QED BY <2>2, <2>3
<1>7. CASE SongEnds(n)
  BY <1>3, <1>4, <1>5, <1>7 DEF SongEnds
<1>8. CASE MixPoint(n)
  BY <1>3, <1>4, <1>5, <1>8 DEF MixPoint
<1>9. CASE HandleFailed(n)
  BY <1>3, <1>4, <1>5, <1>9 DEF HandleFailed
<1> QED BY <1>1, <1>6, <1>7, <1>8, <1>9

LEMMA AskForetold ==
    ASSUME TypeOK, Ask
    PROVE  ForetoldSpoilt
<1>1. CASE \E l \in Lists : SwitchTo(l)
  <2>1. PICK l \in Lists : SwitchTo(l)
    BY <1>1
  <2>2. /\ ~Hung /\ steps' # steps /\ UNCHANGED <<items, shown>> /\ UNCHANGED repeat
        /\ UNCHANGED playing /\ Command
    BY <2>1, CommandFacts DEF SwitchTo, listVars
  <2>3. CASE PlayNothing(l, history)
    <3>1. CASE l = activeList
      BY <2>2, <2>3, <3>1, ForetoldNothing DEF ForetoldSpoilt
    <3>2. CASE l # activeList
      BY <2>2, <2>3, <3>2 DEF ForetoldSpoilt, PlayNothing, MakeActive
    <3> QED BY <3>1, <3>2
  <2>4. CASE /\ ~FutureLoops(activeList) /\ MakeActive(l, history)
             /\ outdated' = FutureMenus(activeList, at[activeList])
    <3>1. CASE l # activeList
      BY <2>2, <2>4, <3>1 DEF ForetoldSpoilt, MakeActive
    <3>2. CASE l = activeList
      <4>1. UNCHANGED <<at, activeList, queue, selected, repeat>>
        BY <2>2, <2>4, <3>2 DEF MakeActive, AtOnceActive, TypeOK
      <4>2. SUFFICES ASSUME outdated' # {}, Clear' PROVE Foretold'
        BY DEF ForetoldSpoilt
      <4>3. OrFirst(NextSong)' = OrFirst(NextSong) /\ (InView' <=> InView)
        BY <2>2, <4>1, NextSame
      <4>4. InView
        BY <4>2, <4>3 DEF Clear, InView
      <4>5. \A m \in FutureMenus(activeList, at[activeList]) : Head(m) = OrFirst(NextSong)
        BY <2>4, <4>4, BuiltForetells
      <4>6. Menus' = FutureMenus(activeList, at[activeList])
        BY <2>4, <4>2 DEF Menus
      <4> QED BY <4>3, <4>5, <4>6 DEF Foretold
    <3> QED BY <3>1, <3>2
  <2>5. CASE RebuildFutureMenu
    BY <2>5 DEF RebuildFutureMenu, ForetoldSpoilt
  <2> QED BY <2>1, <2>3, <2>4, <2>5 DEF SwitchTo
<1>2. CASE ~\E l \in Lists : SwitchTo(l)
  <2>1. RebuildFutureMenu
    BY <1>2 DEF Ask, PlayNext, AppendQueue, QueueByField, ClearQueue, Enqueue, SetRepeat, SelectToPlay
  <2> QED BY <2>1 DEF RebuildFutureMenu, ForetoldSpoilt
<1> QED BY <1>1, <1>2

LEMMA ChangeForetold ==
    ASSUME QueueInv, Change
    PROVE  ForetoldSpoilt
<1>1. CASE \E l \in Lists : DeleteList(l)
  <2>1. PICK l \in Lists : DeleteList(l)
    BY <1>1
  <2>2. Lists' = Lists \ {l}
    BY <2>1 DEF DeleteList, Lists
  <2> QED BY <2>2 DEF ForetoldSpoilt
<1>2. CASE \E l \in Lists : NewList(shown[l])
  <2>1. PICK l \in Lists : NewList(shown[l])
    BY <1>2
  <2> DEFINE id == Min(FreeFrom(newestID))
  <2>2. id \notin Lists
    BY FreeFacts DEF QueueInv, TypeOK
  <2>3. Lists' = Lists \cup {id}
    BY <2>1 DEF NewList, Lists, FreeFrom
  <2> HIDE DEF id
  <2> QED BY <2>2, <2>3 DEF ForetoldSpoilt
<1>3. CASE /\ ~\E l \in Lists : DeleteList(l)
           /\ ~\E l \in Lists : NewList(shown[l])
  <2>1. RebuildFutureMenu
    BY <1>3 DEF Change, SetFilter, RemoveFromList, RemoveFromLibrary, Restart
  <2> QED BY <2>1 DEF RebuildFutureMenu, ForetoldSpoilt
<1> QED BY <1>1, <1>2, <1>3

LEMMA ForetoldKept == QueueInv /\ [Next]_vars => ForetoldStep
<1> SUFFICES ASSUME QueueInv, [Next]_vars PROVE ForetoldStep
  OBVIOUS
<1>1. TypeOK /\ TypeOK'
  BY InvStep DEF QueueInv
<1>2. ForetoldSpoilt
  <2>1. CASE UNCHANGED vars
    <3>1. /\ UNCHANGED <<items, shown>> /\ UNCHANGED <<at, activeList, queue, selected, repeat>>
          /\ UNCHANGED outdated
      BY <2>1 DEF vars, listVars, playVars
    <3>2. SUFFICES ASSUME outdated' # {}, Clear', ~Foretold' PROVE Clear /\ ~Foretold
      BY DEF ForetoldSpoilt
    <3>3. ~Hung /\ KeepFutureMenu
      BY <3>1, <3>2 DEF Hung, KeepFutureMenu, Menus
    <3> QED BY <1>1, <3>1, <3>2, <3>3, ForetoldSame
  <2> QED BY <1>1, <2>1, PlayForetold, AskForetold, ChangeForetold, GoOnForetold DEF Next
<1> QED BY <1>1, <1>2, ForetoldSkip DEF ForetoldStep, ForetoldSpoilt

\* What stands first in the future list, whenever it was built, is what the command
\* for the next song plays or tries to (BuildFuturePlaylistArray walks the lists as
\* Next does), while the head of what was asked for is shown; and the list comes to
\* begin with another song only in the three ways that the property names.
THEOREM ForetoldIsHeard == Spec => ForetoldIsPlayed
<1>1. QueueInv /\ [Next]_vars => [ForetoldStep]_vars
  BY ForetoldKept
<1> QED BY <1>1, QueueInvariant, PTL DEF Spec, ForetoldIsPlayed, ForetoldStep

----------------------------------------------------------------------------
(***************************************************************************)
(* The history over a restart.                                             *)
(***************************************************************************)

LEMMA SelectedAll ==
    ASSUME NEW S, NEW s \in Seq(S)
    PROVE  Selected(s, DOMAIN s) = s
<1> DEFINE t == Selected(s, DOMAIN s)
           n == Len(s)
<1>1. DOMAIN s \in SUBSET DOMAIN s
  OBVIOUS
<1>2. t \in Seq(S)
  BY <1>1, SelectedPicks
<1>3. PICK h : Picks(h, t, s, DOMAIN s) /\ \A i \in DOMAIN s : \E k \in 1 .. Len(t) : h[k] = i
  BY <1>1, SelectedPicks
<1>4. Len(t) <= n
  BY <1>1, SelectedFacts
<1> HIDE DEF t
<1>5. n \in Nat /\ DOMAIN s = 1 .. n /\ Len(t) \in Nat
  BY <1>2, LenProperties
<1> HIDE DEF n
<1>6. /\ h \in [1 .. Len(t) -> 1 .. n]
      /\ \A i, j \in 1 .. Len(t) : i < j => h[i] < h[j]
      /\ \A i \in 1 .. Len(t) : t[i] = s[h[i]]
      /\ \A i \in 1 .. n : \E k \in 1 .. Len(t) : h[k] = i
  BY <1>3, <1>5 DEF Picks
<1> DEFINE T == {m \in Nat : m <= n => m <= Len(t) /\ \A j \in 1 .. m : h[j] = j}
<1>7. 0 \in T
  BY <1>5
<1>8. ASSUME NEW m \in T PROVE m + 1 \in T
  <2>1. SUFFICES ASSUME m + 1 <= n
                 PROVE  m + 1 <= Len(t) /\ \A j \in 1 .. m + 1 : h[j] = j
    <3>1. m + 1 \in Nat
      OBVIOUS
    <3> QED BY <3>1
  <2>2. m \in Nat /\ m <= n /\ m + 1 \in 1 .. n
    BY <1>5, <2>1
  <2>3. m <= Len(t) /\ \A j \in 1 .. m : h[j] = j
    BY <2>2
  <2>4. PICK k \in 1 .. Len(t) : h[k] = m + 1
    BY <1>6, <2>2
  <2>5. k > m
    <3>1. SUFFICES ASSUME k <= m PROVE FALSE
      BY <2>2
    <3>2. k \in 1 .. m
      BY <2>2, <3>1
    <3>3. h[k] = k
      BY <2>3, <3>2
    <3> QED BY <2>2, <2>4, <3>1, <3>3
  <2>6. m + 1 \in 1 .. Len(t)
    BY <1>5, <2>2, <2>5
  <2>7. h[m + 1] \in 1 .. n
    BY <1>6, <2>6
  <2>8. m # 0 => h[m] = m /\ h[m] < h[m + 1]
    <3>1. SUFFICES ASSUME m # 0 PROVE h[m] = m /\ h[m] < h[m + 1]
      OBVIOUS
    <3>2. m \in 1 .. m /\ m \in 1 .. Len(t) /\ m < m + 1
      BY <1>5, <2>2, <2>3, <3>1
    <3> QED BY <1>6, <2>3, <2>6, <3>2
  <2>9. h[m + 1] >= m + 1
    BY <2>2, <2>7, <2>8
  <2>10. k = m + 1
    <3>1. SUFFICES ASSUME m + 1 < k PROVE FALSE
      BY <2>2, <2>5
    <3>2. h[m + 1] < h[k]
      BY <1>6, <2>6, <3>1
    <3> QED BY <2>2, <2>4, <2>7, <2>9, <3>2
  <2>11. \A j \in 1 .. m + 1 : j \in 1 .. m \/ j = m + 1
    BY <2>2
  <2> QED BY <2>3, <2>4, <2>6, <2>10, <2>11
<1> HIDE DEF T
<1>9. T = Nat
  <2>1. T \in SUBSET Nat
    BY DEF T
  <2> QED BY <1>7, <1>8, <2>1, SetInduction
<1>10. n <= Len(t) /\ \A j \in 1 .. n : h[j] = j
  <2>1. n \in T /\ n <= n
    BY <1>5, <1>9
  <2> QED BY <2>1 DEF T
<1>11. Len(t) = n
  BY <1>4, <1>5, <1>10
<1>12. \A i \in 1 .. Len(t) : t[i] = s[i]
  BY <1>6, <1>10, <1>11
<1>13. t = s
  BY <1>2, <1>11, <1>12, SeqEqual DEF n
<1> QED BY <1>13 DEF t

\* An item that is not the latest is put before the others.
LEMMA ItemAdded ==
    ASSUME NEW h \in Histories, NEW w \in Wanted, ~(h # <<>> /\ Head(h) = w)
    PROVE  LET g == AddHistoryItem(h, w) IN
           /\ g \in Seq(Wanted)
           /\ Len(g) = IF HistorySize <= Len(h) + 1 THEN HistorySize ELSE Len(h) + 1
           /\ g[1] = w
           /\ \A j \in 2 .. Len(g) : g[j] = h[j - 1]
<1> DEFINE u == <<w>> \o h
           c == Min({HistorySize, Len(u)})
           g == SubSeq(u, 1, c)
<1>1. HistorySize \in Nat /\ HistorySize # 0 /\ h \in Seq(Wanted) /\ Len(h) \in Nat
  BY PlayQueueAssumption, LenProperties DEF Histories
<1>2. <<w>> \in Seq(Wanted) /\ Len(<<w>>) = 1 /\ <<w>>[1] = w
  OBVIOUS
<1>3. /\ u \in Seq(Wanted) /\ Len(u) = Len(<<w>>) + Len(h)
      /\ \A i \in 1 .. Len(<<w>>) + Len(h) : u[i] = IF i <= Len(<<w>>) THEN <<w>>[i] ELSE h[i - Len(<<w>>)]
  BY <1>1, <1>2, ConcatProperties
<1>4. /\ Len(u) = Len(h) + 1
      /\ \A i \in 1 .. Len(h) + 1 : u[i] = IF i <= 1 THEN <<w>>[i] ELSE h[i - 1]
  BY <1>1, <1>2, <1>3
<1>5. AddHistoryItem(h, w) = g
  BY <1>4 DEF AddHistoryItem
<1> HIDE DEF u
<1>6. /\ g \in Seq(Wanted) /\ Len(g) = c
      /\ \A i \in 1 .. Len(g) : g[i] = u[i]
  <2>1. u \in Seq(Wanted) /\ HistorySize \in Nat
    BY <1>1, <1>3
  <2> QED BY ONLY <2>1, PrefixFacts
<1>7. c = IF HistorySize <= Len(h) + 1 THEN HistorySize ELSE Len(h) + 1
  <2>1. Len(h) + 1 \in Nat
    BY <1>1
  <2> QED BY <1>1, <1>4, <2>1, MinOfTwo
<1> HIDE DEF c, g
<1>8. Len(g) \in Nat /\ Len(g) # 0 /\ Len(g) <= Len(h) + 1
  BY <1>1, <1>6, <1>7
<1>9. g[1] = w
  <2>1. 1 \in 1 .. Len(g) /\ 1 \in 1 .. Len(h) + 1 /\ 1 <= 1
    BY <1>1, <1>8
  <2>2. u[1] = <<w>>[1]
    BY <1>4, <2>1
  <2> QED BY <1>2, <1>6, <2>1, <2>2
<1>10. ASSUME NEW j \in 2 .. Len(g) PROVE g[j] = h[j - 1]
  <2>1. j \in 1 .. Len(g) /\ j \in 1 .. Len(h) + 1 /\ ~(j <= 1)
    BY <1>1, <1>8
  <2> QED BY <1>4, <1>6, <2>1
<1> QED BY <1>5, <1>6, <1>7, <1>9, <1>10

\* Read from its end, a history in which no song stands twice running is what it
\* was, down to the song that was opened.
LEMMA ReadBack ==
    ASSUME NEW H \in Histories, ~Stutters(H), NEW o \in Histories,
           NEW f, Reads(f, o, Reverse(H))
    PROVE  /\ Len(f[Len(H)]) >= Len(H)
           /\ \A j \in 1 .. Len(H) : f[Len(H)][j] = H[j]
<1> DEFINE n == Len(H)
           s == Reverse(H)
<1>1. /\ H \in Seq(Wanted) /\ n \in Nat /\ HistorySize \in Nat /\ n <= HistorySize
      /\ Len(s) = n /\ \A i \in 1 .. n : s[i] = H[(n - i) + 1]
  BY ReverseFacts, AssumptionFacts DEF Histories
<1>2. \A i \in 1 .. n - 1 : H[i] # H[i + 1]
  BY DEF Stutters
<1>3. \A i \in 1 .. n : H[i] \in Wanted
  BY <1>1, ElementOfSeq
<1>4. /\ f \in [0 .. n -> Histories] /\ f[0] = o
      /\ \A k \in 1 .. n : f[k] = AddHistoryItem(f[k - 1], s[k])
  BY <1>1 DEF Reads
<1> HIDE DEF n, s
<1> DEFINE T == {m \in Nat : m <= n => /\ Len(f[m]) >= m
                                       /\ \A j \in 1 .. m : f[m][j] = H[(n - m) + j]}
<1>5. 0 \in T
  <2>1. Len(f[0]) \in Nat
    BY <1>4, LenProperties DEF Histories
  <2>2. Len(f[0]) >= 0 /\ 1 .. 0 = {}
    BY <2>1
  <2> QED BY <2>2
<1>6. ASSUME NEW m \in T PROVE m + 1 \in T
  <2>1. SUFFICES ASSUME m + 1 <= n
                 PROVE  /\ Len(f[m + 1]) >= m + 1
                        /\ \A j \in 1 .. m + 1 : f[m + 1][j] = H[(n - (m + 1)) + j]
    <3>1. m + 1 \in Nat
      OBVIOUS
    <3> QED BY <3>1
  <2>2. /\ m \in Nat /\ m <= n /\ m + 1 \in 1 .. n /\ m \in 0 .. n /\ (m + 1) - 1 = m
        /\ n - m \in 1 .. n /\ (n - (m + 1)) + 1 = n - m
    BY <1>1, <2>1
  <2>3. Len(f[m]) >= m /\ \A j \in 1 .. m : f[m][j] = H[(n - m) + j]
    BY <2>2
  <2> DEFINE h == f[m]
             w == H[n - m]
             g == f[m + 1]
  <2>4. h \in Histories /\ h \in Seq(Wanted) /\ Len(h) \in Nat /\ w \in Wanted
    BY <1>3, <1>4, <2>2, LenProperties DEF Histories
  <2>5. g = AddHistoryItem(h, w)
    <3>1. s[m + 1] = w
      BY <1>1, <2>2
    <3> QED BY <1>4, <2>2, <3>1
  <2>6. Len(h) >= m /\ \A j \in 1 .. m : h[j] = H[(n - m) + j]
    BY <2>3
  <2> HIDE DEF h, w, g
  <2>7. CASE h # <<>> /\ Head(h) = w
    <3>1. g = h
      BY <2>5, <2>7 DEF AddHistoryItem
    <3>2. h[1] = w /\ Len(h) # 0
      BY ONLY <2>4, <2>7
    <3>3. m = 0
      <4>1. SUFFICES ASSUME m # 0 PROVE FALSE
        OBVIOUS
      <4>2. 1 \in 1 .. m /\ n - m \in 1 .. n - 1
        BY <1>1, <2>2, <4>1
      <4>3. h[1] = H[(n - m) + 1]
        BY <2>6, <4>2
      <4>4. H[n - m] # H[(n - m) + 1]
        BY <1>2, <4>2
      <4> QED BY <3>2, <4>3, <4>4 DEF w
    <3>4. Len(g) >= m + 1
      BY <2>4, <3>1, <3>2, <3>3
    <3>5. ASSUME NEW j \in 1 .. m + 1 PROVE g[j] = H[(n - (m + 1)) + j]
      <4>1. j = 1
        BY <3>3
      <4> QED BY <2>2, <3>1, <3>2, <4>1 DEF w
    <3> QED BY <3>4, <3>5 DEF g
  <2>8. CASE ~(h # <<>> /\ Head(h) = w)
    <3>1. /\ Len(g) = IF HistorySize <= Len(h) + 1 THEN HistorySize ELSE Len(h) + 1
          /\ g[1] = w /\ \A j \in 2 .. Len(g) : g[j] = h[j - 1]
      BY <2>4, <2>5, <2>8, ItemAdded
    <3>2. Len(g) >= m + 1 /\ Len(g) \in Nat
      BY <1>1, <2>1, <2>2, <2>4, <2>6, <3>1
    <3>3. ASSUME NEW j \in 1 .. m + 1 PROVE g[j] = H[(n - (m + 1)) + j]
      <4>1. CASE j = 1
        BY <2>2, <3>1, <4>1 DEF w
      <4>2. CASE j # 1
        <5>1. /\ j \in 2 .. Len(g) /\ j - 1 \in 1 .. m
              /\ (n - m) + (j - 1) = (n - (m + 1)) + j
          BY <1>1, <2>2, <3>2, <4>2
        <5>2. g[j] = h[j - 1]
          BY <3>1, <5>1
        <5>3. h[j - 1] = H[(n - m) + (j - 1)]
          BY <2>6, <5>1
        <5> QED BY <5>1, <5>2, <5>3
      <4> QED BY <4>1, <4>2
    <3> QED BY <3>2, <3>3 DEF g
  <2> QED BY <2>7, <2>8
<1> HIDE DEF T
<1>7. T = Nat
  <2>1. T \in SUBSET Nat
    BY DEF T
  <2> QED BY <1>5, <1>6, <2>1, SetInduction
<1>8. Len(f[n]) >= n /\ \A j \in 1 .. n : f[n][j] = H[(n - n) + j]
  <2>1. n \in T /\ n <= n
    BY <1>1, <1>7
  <2> QED BY <2>1 DEF T
<1>9. \A j \in 1 .. n : f[n][j] = H[j]
  <2>1. \A j \in 1 .. n : (n - n) + j = j
    BY <1>1
  <2> QED BY <1>8, <2>1
<1> QED BY <1>8, <1>9 DEF n

KeepsStep ==
    (/\ Restart /\ ~Stutters(history)
     /\ \A w \in ToSet(history) : w.list \in Lists /\ w.entry \in ToSet(items[w.list]))
        => SubSeq(history', 1, Len(history)) = history

LEMMA RestartReads == TypeOK => KeepsStep
<1> SUFFICES ASSUME TypeOK, Restart, ~Stutters(history),
                    \A w \in ToSet(history) : w.list \in Lists /\ w.entry \in ToSet(items[w.list])
             PROVE  SubSeq(history', 1, Len(history)) = history
  BY DEF KeepsStep
<1> DEFINE n == Len(history)
<1>1. history \in Seq(Wanted) /\ n \in Nat /\ history \in Histories
  BY LenProperties DEF TypeOK, Histories
<1>2. /\ Reverse(history) \in Seq(Wanted) /\ Len(Reverse(history)) = n
      /\ \A i \in 1 .. n : Reverse(history)[i] = history[(n - i) + 1]
  BY <1>1, ReverseFacts
<1>3. KnownAt = DOMAIN Reverse(history)
  <2>1. ASSUME NEW i \in DOMAIN Reverse(history)
        PROVE  /\ Reverse(history)[i].list \in Lists
               /\ Reverse(history)[i].entry \in ToSet(items[Reverse(history)[i].list])
    <3>1. i \in 1 .. n
      BY <1>2, LenProperties
    <3>2. (n - i) + 1 \in 1 .. n
      BY <1>1, <3>1
    <3>3. history[(n - i) + 1] \in ToSet(history)
      <4>1. (n - i) + 1 \in DOMAIN history
        BY <1>1, <3>2, LenProperties
      <4> QED BY <4>1 DEF ToSet
    <3> QED BY <1>2, <3>1, <3>3
  <2> QED BY <2>1 DEF KnownAt
<1>4. Known = Reverse(history)
  BY <1>2, <1>3, SelectedAll DEF Known
<1>5. history' = ReadHistory(Opened, Known) /\ Opened \in Histories
  BY RestartFacts
<1>6. PICK f : Reads(f, Opened, Reverse(history)) /\ history' = f[n]
  BY <1>2, <1>4, <1>5, ReadFacts
<1>7. Len(history') >= n /\ \A j \in 1 .. n : history'[j] = history[j]
  BY <1>1, <1>5, <1>6, ReadBack
<1>8. history' \in Seq(Wanted)
  <2>1. n \in 0 .. n
    BY <1>1
  <2> QED BY <1>2, <1>6, <2>1 DEF Reads, Histories
<1> DEFINE t == SubSeq(history', 1, n)
<1>9. \A j \in 1 .. n : history[j] \in Wanted
  BY <1>1, ElementOfSeq
<1> HIDE DEF n
<1>10. 1 \in Int /\ n \in Int /\ (1 <= n => n - 1 + 1 = n) /\ (~(1 <= n) => n = 0)
       /\ n - 1 + 1 = n
  BY <1>1
<1>11. /\ t \in Seq(Wanted) /\ Len(t) = IF 1 <= n THEN n - 1 + 1 ELSE 0
       /\ \A i \in 1 .. n - 1 + 1 : t[i] = history'[1 + i - 1]
  BY <1>7, <1>9, <1>10, SubSeqProperties
<1> HIDE DEF t
<1>12. Len(t) = n
  BY <1>10, <1>11
<1>13. ASSUME NEW i \in 1 .. n PROVE t[i] = history[i]
  <2>1. i \in 1 .. n - 1 + 1 /\ 1 + i - 1 = i
    BY <1>1
  <2> QED BY <1>7, <1>11, <2>1
<1>14. t = history
  BY <1>1, <1>11, <1>12, <1>13, SeqEqual DEF n
<1> QED BY <1>14 DEF t, n

\* A restart reads the history item by item and gives it as it was: what the
\* comparison with the latest item leaves out is a song that stood twice running,
\* and the song opened at the start comes to stand below
\* (CPlaylistManager::LoadPlaylistLibrary, CHistory::AddHistoryItem).
THEOREM RestartReadsHistory == Spec => RestartKeepsHistory
<1>1. TypeOK /\ [Next]_vars => [KeepsStep]_vars
  BY RestartReads
<1> QED BY <1>1, QueueTypes, PTL DEF Spec, RestartKeepsHistory, KeepsStep
============================================================================
