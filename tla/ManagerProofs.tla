--------------------------- MODULE ManagerProofs ---------------------------
(***************************************************************************)
(* Proofs about Manager, for any number of drives and playlists.           *)
(***************************************************************************)
EXTENDS Manager, SequenceTheorems, TLAPS

(***************************************************************************)
(* The sequence of the user's playlists.                                   *)
(***************************************************************************)

\* The greatest number of an interval from 0
LEMMA MaxOfInterval ==
    ASSUME NEW n \in Nat
    PROVE  Max(0 .. n) = n
<1>1. n \in 0 .. n /\ \A k \in 0 .. n : n >= k
  OBVIOUS
<1>2. \A x \in 0 .. n : (\A k \in 0 .. n : x >= k) => x = n
  OBVIOUS
<1> QED BY <1>1, <1>2 DEF Max

\* Without removes the element at i and keeps the others.
LEMMA WithoutSeq ==
    ASSUME NEW S, NEW s \in Seq(S), NEW i \in DOMAIN s
    PROVE  /\ Without(s, i) \in Seq(S) /\ Len(Without(s, i)) = Len(s) - 1
           /\ IsInjective(s) => /\ IsInjective(Without(s, i))
                                /\ ToSet(Without(s, i)) = ToSet(s) \ {s[i]}
<1> DEFINE at(k) == IF k < i THEN k ELSE k + 1
<1>1. Len(s) \in Nat /\ i \in 1 .. Len(s) /\ DOMAIN s = 1 .. Len(s)
  OBVIOUS
<1>2. \A k \in 1 .. Len(s) - 1 : at(k) \in 1 .. Len(s) /\ at(k) # i
  BY <1>1
<1>3. Without(s, i) = [k \in 1 .. Len(s) - 1 |-> s[at(k)]]
  BY DEF Without
<1>4. Without(s, i) \in Seq(S) /\ Len(Without(s, i)) = Len(s) - 1
      /\ DOMAIN Without(s, i) = 1 .. Len(s) - 1
  BY <1>1, <1>2, <1>3
<1>5. \A k \in 1 .. Len(s) - 1 : Without(s, i)[k] = s[at(k)]
  BY <1>3
<1>6. ASSUME IsInjective(s) PROVE IsInjective(Without(s, i))
  <2>1. \A j, k \in 1 .. Len(s) - 1 : at(j) = at(k) => j = k
    BY <1>1
  <2>2. \A j, k \in 1 .. Len(s) - 1 : s[at(j)] = s[at(k)] => at(j) = at(k)
    BY <1>1, <1>2, <1>6 DEF IsInjective
  <2> HIDE DEF at
  <2> QED BY <1>4, <1>5, <2>1, <2>2 DEF IsInjective
<1>7. ASSUME IsInjective(s) PROVE ToSet(Without(s, i)) = ToSet(s) \ {s[i]}
  <2>1. \A j \in 1 .. Len(s) : j # i => \E k \in 1 .. Len(s) - 1 : at(k) = j
    <3>1. TAKE j \in 1 .. Len(s)
    <3>2. CASE j < i
      BY <1>1, <3>2
    <3>3. CASE j > i
      <4>1. j - 1 \in 1 .. Len(s) - 1 /\ at(j - 1) = j
        BY <1>1, <3>3
      <4> QED BY <4>1
    <3> QED BY <1>1, <3>2, <3>3
  <2>2. \A k \in 1 .. Len(s) - 1 : s[at(k)] # s[i]
    BY <1>1, <1>2, <1>7 DEF IsInjective
  <2>3. \A k \in 1 .. Len(s) - 1 : at(k) \in DOMAIN s /\ Without(s, i)[k] = s[at(k)]
    BY <1>1, <1>2, <1>5
  <2> HIDE DEF at
  <2>4. ToSet(Without(s, i)) \subseteq ToSet(s) \ {s[i]}
    BY <1>4, <2>2, <2>3 DEF ToSet
  <2>5. ASSUME NEW j \in DOMAIN s, s[j] # s[i] PROVE s[j] \in ToSet(Without(s, i))
    <3>1. PICK k \in 1 .. Len(s) - 1 : at(k) = j
      BY <1>1, <2>1, <2>5
    <3> QED BY <1>4, <2>3, <3>1 DEF ToSet
  <2> QED BY <2>4, <2>5 DEF ToSet
<1> QED BY <1>4, <1>6, <1>7

\* With puts an element at i and keeps the others.
LEMMA WithSeq ==
    ASSUME NEW S, NEW s \in Seq(S), NEW i \in 1 .. Len(s) + 1, NEW e \in S
    PROVE  /\ With(s, i, e) \in Seq(S)
           /\ ToSet(With(s, i, e)) = ToSet(s) \cup {e}
           /\ IsInjective(s) /\ e \notin ToSet(s) => IsInjective(With(s, i, e))
<1> DEFINE t == With(s, i, e)
<1>1. Len(s) \in Nat /\ DOMAIN s = 1 .. Len(s)
  OBVIOUS
<1>2. t = [k \in 1 .. Len(s) + 1 |-> IF k < i THEN s[k] ELSE IF k = i THEN e ELSE s[k - 1]]
  BY DEF With
<1>3. \A k \in 1 .. Len(s) + 1 :
         /\ k < i => k \in DOMAIN s /\ t[k] = s[k]
         /\ k = i => t[k] = e
         /\ k > i => k - 1 \in DOMAIN s /\ t[k] = s[k - 1]
  BY <1>1, <1>2
<1>4. t \in Seq(S) /\ DOMAIN t = 1 .. Len(s) + 1
  BY <1>1, <1>2, <1>3
<1> HIDE DEF t
<1>5. ToSet(t) = ToSet(s) \cup {e}
  <2>1. \A k \in DOMAIN t : t[k] \in ToSet(s) \cup {e}
    BY <1>3, <1>4 DEF ToSet
  <2>2. \E k \in DOMAIN t : t[k] = e
    BY <1>3, <1>4
  <2>3. ASSUME NEW j \in DOMAIN s PROVE \E k \in DOMAIN t : t[k] = s[j]
    <3>1. CASE j < i
      <4>1. j \in 1 .. Len(s) + 1 /\ t[j] = s[j]
        BY <1>1, <1>3, <3>1
      <4> QED BY <1>4, <4>1
    <3>2. CASE j >= i
      <4>1. j + 1 \in 1 .. Len(s) + 1 /\ t[j + 1] = s[j]
        BY <1>1, <1>3, <3>2
      <4> QED BY <1>4, <4>1
    <3> QED BY <1>1, <3>1, <3>2
  <2> QED BY <2>1, <2>2, <2>3 DEF ToSet
<1>6. ASSUME IsInjective(s), e \notin ToSet(s) PROVE IsInjective(t)
  <2>1. \A j \in DOMAIN s : s[j] # e
    BY <1>6 DEF ToSet
  <2>2. ASSUME NEW j \in DOMAIN t, NEW k \in DOMAIN t, t[j] = t[k], j < k PROVE FALSE
    BY <1>1, <1>3, <1>4, <1>6, <2>1, <2>2 DEF IsInjective
  <2>3. \A j, k \in DOMAIN t : j < k \/ k < j \/ j = k
    BY <1>4
  <2> QED BY <2>2, <2>3 DEF IsInjective
<1> QED BY <1>4, <1>5, <1>6 DEF t

\* Append, in the same terms
LEMMA AppendSeq ==
    ASSUME NEW S, NEW s \in Seq(S), NEW e \in S
    PROVE  /\ Append(s, e) \in Seq(S)
           /\ ToSet(Append(s, e)) = ToSet(s) \cup {e}
           /\ IsInjective(s) /\ e \notin ToSet(s) => IsInjective(Append(s, e))
<1> DEFINE n == Len(s) + 1
<1>1. n \in 1 .. Len(s) + 1
  OBVIOUS
<1>2. Append(s, e) = With(s, n, e)
  <2>1. Append(s, e) \in Seq(S) /\ Len(Append(s, e)) = n
    OBVIOUS
  <2>2. With(s, n, e) \in Seq(S) /\ Len(With(s, n, e)) = n
    BY WithSeq DEF With
  <2>3. \A k \in 1 .. n : Append(s, e)[k] = With(s, n, e)[k]
    BY DEF With
  <2> QED BY <2>1, <2>2, <2>3, SeqEqual
<1> HIDE DEF n
<1>3. /\ With(s, n, e) \in Seq(S)
      /\ ToSet(With(s, n, e)) = ToSet(s) \cup {e}
      /\ IsInjective(s) /\ e \notin ToSet(s) => IsInjective(With(s, n, e))
  BY <1>1, WithSeq
<1> QED BY <1>2, <1>3

\* A move keeps the lists and their number.
LEMMA MovedSeq ==
    ASSUME NEW S, NEW s \in Seq(S), NEW i \in DOMAIN s, NEW k \in Int, IsInjective(s)
    PROVE  /\ Moved(s, i, k) \in Seq(S) /\ IsInjective(Moved(s, i, k))
           /\ ToSet(Moved(s, i, k)) = ToSet(s)
<1> DEFINE rest == Without(s, i)
<1>1. rest \in Seq(S) /\ IsInjective(rest) /\ ToSet(rest) = ToSet(s) \ {s[i]}
  BY WithoutSeq
<1>2. s[i] \in S /\ s[i] \in ToSet(s)
  BY DEF ToSet
<1>3. Moved(s, i, k) = IF k \in 0 .. Len(rest) THEN With(rest, k + 1, s[i])
                                              ELSE Append(rest, s[i])
  BY DEF Moved
<1> HIDE DEF rest
<1>4. CASE k \in 0 .. Len(rest)
  <2> DEFINE n == k + 1
  <2> DEFINE e == s[i]
  <2>1. n \in 1 .. Len(rest) + 1 /\ e \in S /\ e \notin ToSet(rest)
    BY <1>1, <1>2, <1>4
  <2>2. Moved(s, i, k) = With(rest, n, e)
    BY <1>3, <1>4
  <2> HIDE DEF n, e
  <2>3. /\ With(rest, n, e) \in Seq(S) /\ IsInjective(With(rest, n, e))
        /\ ToSet(With(rest, n, e)) = ToSet(rest) \cup {e}
    BY <1>1, <2>1, WithSeq
  <2> QED BY <1>1, <1>2, <2>2, <2>3 DEF e
<1>5. CASE k \notin 0 .. Len(rest)
  <2>1. /\ Append(rest, s[i]) \in Seq(S) /\ IsInjective(Append(rest, s[i]))
        /\ ToSet(Append(rest, s[i])) = ToSet(rest) \cup {s[i]}
    BY <1>1, <1>2, AppendSeq
  <2> QED BY <1>1, <1>2, <1>3, <1>5, <2>1
<1> QED BY <1>4, <1>5
----------------------------------------------------------------------------
(***************************************************************************)
(* Rows.                                                                   *)
(***************************************************************************)

\* What stands in a row is a list, or nothing beyond the rows.
LEMMA RowListType ==
    ASSUME NEW O, Library \in O, MicList \in O, NEW rs \in RowsOf(O), NEW r \in Int
    PROVE  /\ Base(rs) \in Nat \ {0} /\ NumPlaylists(rs) \in Nat \ {0}
           /\ RowList(rs, r) \in O \cup {None}
           /\ r \in 0 .. NumPlaylists(rs) - 1 => RowList(rs, r) \in O
           /\ RowList(rs, 0) = Library
<1>1. /\ rs.mic \in BOOLEAN /\ rs.cds \in Seq([drive : Drives, list : O])
      /\ rs.std \in Seq(O) /\ Len(rs.cds) \in Nat /\ Len(rs.std) \in Nat
  BY DEF RowsOf
<1>2. /\ Base(rs) \in Nat /\ Base(rs) - Len(rs.cds) \in {1, 2}
      /\ rs.mic <=> Base(rs) - Len(rs.cds) = 2
  <2>1. CASE rs.mic
    <3>1. Base(rs) = 1 + 1 + Len(rs.cds)
      BY <2>1 DEF Base
    <3> QED BY <1>1, <2>1, <3>1
  <2>2. CASE ~rs.mic
    <3>1. Base(rs) = 1 + 0 + Len(rs.cds)
      BY <2>2 DEF Base
    <3> QED BY <1>1, <2>2, <3>1
  <2> QED BY <2>1, <2>2
<1>3. NumPlaylists(rs) = Base(rs) + Len(rs.std)
  BY DEF NumPlaylists
<1>4. RowList(rs, 0) = Library
  BY <1>1, <1>2, <1>3 DEF RowList
<1>5. Base(rs) \in Nat \ {0} /\ NumPlaylists(rs) \in Nat \ {0}
  BY <1>1, <1>2, <1>3
<1>6. CASE r = 0
  BY <1>2, <1>3, <1>4, <1>6
<1>7. CASE r = 1 /\ rs.mic
  BY <1>1, <1>2, <1>3, <1>4, <1>7 DEF RowList
<1>8. CASE r \in Base(rs) - Len(rs.cds) .. Base(rs) - 1
  <2>1. r - Base(rs) + Len(rs.cds) + 1 \in DOMAIN rs.cds /\ r # 0 /\ ~(r = 1 /\ rs.mic)
    BY <1>1, <1>2, <1>8
  <2>2. rs.cds[r - Base(rs) + Len(rs.cds) + 1].list \in O
    <3> DEFINE C == [drive : Drives, list : O]
    <3>1. rs.cds \in Seq(C)
      BY <1>1
    <3> HIDE DEF C
    <3>2. rs.cds[r - Base(rs) + Len(rs.cds) + 1] \in C
      BY <2>1, <3>1
    <3> QED BY <3>2 DEF C
  <2>3. RowList(rs, r) = rs.cds[r - Base(rs) + Len(rs.cds) + 1].list
    <3>1. r \notin Base(rs) .. NumPlaylists(rs) - 1 /\ r \in 0 .. NumPlaylists(rs) - 1
      BY <1>1, <1>2, <1>3, <1>8
    <3> QED BY <1>8, <2>1, <3>1 DEF RowList
  <2> QED BY <1>4, <1>5, <2>2, <2>3
<1>9. CASE r \in Base(rs) .. Base(rs) + Len(rs.std) - 1
  <2>1. r - Base(rs) + 1 \in DOMAIN rs.std /\ r # 0 /\ ~(r = 1 /\ rs.mic)
    BY <1>1, <1>2, <1>9
  <2>2. RowList(rs, r) = rs.std[r - Base(rs) + 1]
    BY <1>1, <1>2, <1>3, <1>9, <2>1 DEF RowList
  <2> QED BY <1>1, <1>2, <1>3, <1>4, <2>1, <2>2
<1>10. CASE r \notin 0 .. Base(rs) + Len(rs.std) - 1
  <2>1. RowList(rs, r) = None
    BY <1>1, <1>2, <1>3, <1>10 DEF RowList
  <2> QED BY <1>2, <1>3, <1>4, <1>10, <2>1
<1>11. r = 0 \/ (r = 1 /\ rs.mic) \/ r \in Base(rs) - Len(rs.cds) .. Base(rs) - 1
       \/ r \in Base(rs) .. Base(rs) + Len(rs.std) - 1 \/ r \notin 0 .. Base(rs) + Len(rs.std) - 1
  BY <1>1, <1>2
<1> QED BY <1>4, <1>6, <1>7, <1>8, <1>9, <1>10, <1>11, <1>5

\* Without microphone and CDs the user's lists stand below the library.
LEMMA RowListPlain ==
    ASSUME NEW O, NEW rs \in RowsOf(O), ~rs.mic, rs.cds = <<>>, NEW r \in Int
    PROVE  /\ Base(rs) = 1 /\ NumPlaylists(rs) = 1 + Len(rs.std)
           /\ r \in 1 .. Len(rs.std) => RowList(rs, r) = rs.std[r]
           /\ r \notin 0 .. Len(rs.std) => RowList(rs, r) = None
           /\ RowList(rs, 0) = Library
<1>1. rs.std \in Seq(O) /\ Len(rs.std) \in Nat /\ Len(rs.cds) = 0
  BY DEF RowsOf
<1>2. Base(rs) = 1 /\ NumPlaylists(rs) = 1 + Len(rs.std)
  BY <1>1 DEF Base, NumPlaylists
<1> QED BY <1>1, <1>2 DEF RowList

\* Showing and activating keep the pointers among the lists.
LEMMA ShowType ==
    ASSUME NEW O, Library \in O, MicList \in O, NEW rs \in RowsOf(O),
           NEW act \in [row : Nat, list : O],
           NEW w \in [visible : Int, row : Nat, list : O], NEW r \in Nat
    PROVE  Show(rs, act, w, r) \in [visible : Nat, row : Nat, list : O]
<1>1. ListAt(rs, act, r) \in O \cup {None}
  BY RowListType DEF ListAt
<1> QED BY <1>1 DEF Show

LEMMA SetActiveType ==
    ASSUME NEW O, Library \in O, MicList \in O, NEW rs \in RowsOf(O),
           NEW act \in [row : Nat, list : O], NEW r \in Nat
    PROVE  SetActive(rs, act, r) \in [row : Nat, list : O]
<1>1. RowList(rs, r) \in O \cup {None}
  BY RowListType
<1> QED BY <1>1 DEF SetActive

\* Lists that are made later do not disturb the rows.
LEMMA RowsMonotonic ==
    ASSUME NEW O, NEW P, O \subseteq P
    PROVE  RowsOf(O) \subseteq RowsOf(P)
<1>1. [drive : Drives, list : O] \subseteq [drive : Drives, list : P]
  OBVIOUS
<1>2. Seq(O) \subseteq Seq(P)
  BY SeqMonotonic
<1>3. Seq([drive : Drives, list : O]) \subseteq Seq([drive : Drives, list : P])
  BY <1>1, SeqMonotonic
<1> QED BY <1>2, <1>3 DEF RowsOf
----------------------------------------------------------------------------
(***************************************************************************)
(* Type correctness.                                                       *)
(***************************************************************************)

\* What the type invariant says of the objects
LEMMA TypeFacts ==
    ASSUME TypeOK
    PROVE  /\ Made \in 1 .. MaxMade /\ MaxMade \in Nat /\ Objects = 0 .. Made
           /\ Library \in Objects /\ MicList \in Objects /\ Objects \subseteq Nat
           /\ ids \in [0 .. Made -> Nat] /\ nextID \in Nat
           /\ rows \in RowsOf(Objects) /\ rows.std \in Seq(Objects)
           /\ rows.mic \in BOOLEAN /\ rows.cds \in Seq([drive : Drives, list : Objects])
           /\ active \in [row : Nat, list : Objects]
           /\ window \in [visible : Nat, row : Nat, list : Objects]
           /\ window \in [visible : Int, row : Nat, list : Objects]
<1>1. Made \in 1 .. MaxMade /\ MaxMade \in Nat
  BY ManagerAssumption DEF TypeOK, ManagerAssumption
<1>2. rows \in RowsOf(Objects)
  BY DEF TypeOK
<1>3. rows.std \in Seq(Objects) /\ rows.mic \in BOOLEAN
      /\ rows.cds \in Seq([drive : Drives, list : Objects])
  BY <1>2 DEF RowsOf
<1> QED BY <1>1, <1>2, <1>3 DEF TypeOK, Objects, Library, MicList

\* How the type invariant is shown of the next state with objects 0 .. n
LEMMA TypeFrom ==
    ASSUME NEW n \in Nat, n \in 1 .. MaxMade, ids' \in [0 .. n -> Nat], nextID' \in Nat,
           rows' \in RowsOf(0 .. n), IsInjective(rows'.std),
           ToSet(rows'.std) \cap ({Library, MicList} \cup freed') = {},
           active' \in [row : Nat, list : 0 .. n],
           window' \in [visible : Nat, row : Nat, list : 0 .. n],
           freed' \subseteq (0 .. n) \ {Library, MicList}, plain' \in BOOLEAN
    PROVE  TypeOK'
<1>1. DOMAIN ids' = 0 .. n
  OBVIOUS
<1>2. Made' = n
  BY <1>1, MaxOfInterval DEF Made
<1>3. Objects' = 0 .. n
  BY <1>2 DEF Objects
<1> QED BY <1>2, <1>3 DEF TypeOK

LEMMA TypeInit == Init => TypeOK
<1> SUFFICES ASSUME Init PROVE TypeOK
  OBVIOUS
<1> DEFINE n == StartLists + 1
<1>1. /\ StartLists \in Nat /\ FirstID \in Nat /\ MaxMade \in Nat
      /\ n \in Nat /\ n \in 1 .. MaxMade
  BY ManagerAssumption DEF ManagerAssumption
<1>2. ids \in [0 .. n -> Nat]
  <2>1. \A l \in 0 .. n : ids[l] \in Nat
    BY <1>1 DEF Init, Library, MicList
  <2> QED BY <2>1 DEF Init
<1>3. Made = n /\ Objects = 0 .. n
  BY <1>1, <1>2, MaxOfInterval DEF Made, Objects
<1>4. /\ rows.std = [k \in 1 .. StartLists |-> k + 1] /\ rows.mic = FALSE /\ rows.cds = <<>>
      /\ rows = [mic |-> FALSE, cds |-> <<>>, std |-> rows.std]
  BY DEF Init
<1>5. rows.std \in Seq(0 .. n) /\ IsInjective(rows.std)
      /\ ToSet(rows.std) \cap {Library, MicList} = {}
  BY <1>1, <1>4 DEF IsInjective, ToSet, Library, MicList
<1>6. rows \in RowsOf(0 .. n)
  <2>1. rows.cds \in Seq([drive : Drives, list : 0 .. n])
    BY <1>4
  <2> QED BY <1>4, <1>5, <2>1 DEF RowsOf
<1> HIDE DEF n
<1>7. active \in [row : Nat, list : 0 .. n] /\ window \in [visible : Nat, row : Nat, list : 0 .. n]
  BY <1>1 DEF Init, Library
<1>8. nextID \in Nat /\ freed = {} /\ plain \in BOOLEAN
  BY <1>1 DEF Init
<1> QED BY <1>1, <1>2, <1>3, <1>5, <1>6, <1>7, <1>8 DEF TypeOK

\* Choosing and showing keep the types.
LEMMA TypeChoose ==
    ASSUME TypeOK, Choose
    PROVE  TypeOK'
<1>1. /\ active' \in [row : Nat, list : Objects]
      /\ window' \in [visible : Nat, row : Nat, list : Objects]
      /\ UNCHANGED Lists
  <2>1. Rows \subseteq Nat
    BY TypeFacts, RowListType DEF Rows
  <2>2. CASE \E r \in Rows : ShowRow(r)
    <3>1. PICK r \in Rows : ShowRow(r)
      BY <2>2
    <3>2. r \in Nat
      BY <2>1
    <3>3. Show(rows, active, window, r) \in [visible : Nat, row : Nat, list : Objects]
      BY <3>2, TypeFacts, ShowType
    <3> QED BY <3>1, <3>3, TypeFacts DEF ShowRow
  <2>3. CASE PlayFromView
    BY <2>3, TypeFacts, SetActiveType DEF PlayFromView
  <2>4. CASE \E r \in Rows : SwitchTo(r)
    <3>1. PICK r \in Rows : SwitchTo(r)
      BY <2>4
    <3>2. r \in Nat
      BY <2>1
    <3>3. /\ Show(rows, active, window, r) \in [visible : Nat, row : Nat, list : Objects]
          /\ SetActive(rows, active, r) \in [row : Nat, list : Objects]
      BY <3>2, TypeFacts, ShowType, SetActiveType
    <3> QED BY <3>1, <3>3 DEF SwitchTo
  <2>5. CASE \E id \in Range(ids) : SwitchToID(id)
    <3>1. PICK r \in Rows : active' = SetActive(rows, active, r) /\ UNCHANGED <<Lists, window>>
      BY <2>5 DEF SwitchToID
    <3>2. r \in Nat
      BY <2>1
    <3>3. SetActive(rows, active, r) \in [row : Nat, list : Objects]
      BY <3>2, TypeFacts, SetActiveType
    <3> QED BY <3>1, <3>3, TypeFacts
  <2> QED BY <2>2, <2>3, <2>4, <2>5 DEF Choose
<1> QED BY <1>1 DEF TypeOK, Lists, Made, Objects

\* The user's lists keep the types.
LEMMA TypeNewList ==
    ASSUME TypeOK, NEW shown \in BOOLEAN, NewList(shown)
    PROVE  TypeOK'
<1> DEFINE n == Made + 1
<1>1. n \in Nat /\ n \in 1 .. MaxMade /\ Objects \subseteq 0 .. n
      /\ n \in 0 .. n /\ n \notin Objects
  <2>1. Made < MaxMade
    BY DEF NewList
  <2>2. Made \in 1 .. MaxMade /\ MaxMade \in Nat /\ Objects = 0 .. Made
    BY TypeFacts
  <2> QED BY <2>1, <2>2
<1>2. PICK id \in Above(nextID) :
         nextID' = id /\ ids' = [l \in 0 .. n |-> IF l <= Made THEN ids[l] ELSE id]
  BY DEF NewList
<1>3. id \in Nat
  BY <1>2, TypeFacts DEF Above
<1>4. ids' \in [0 .. n -> Nat] /\ nextID' \in Nat
  <2>1. \A l \in 0 .. n : l <= Made => l \in 0 .. Made
    BY <1>1
  <2> QED BY <1>2, <1>3, <2>1, TypeFacts
<1>5. rows \in RowsOf(0 .. n)
  BY <1>1, TypeFacts, RowsMonotonic
<1>6. rows' = [rows EXCEPT !.std = Append(@, n)]
  BY DEF NewList
<1>7. rows.std \in Seq(0 .. n) /\ IsInjective(rows.std) /\ n \notin ToSet(rows.std)
  <2>1. rows.std \in Seq(Objects)
    BY TypeFacts
  <2>2. \A i \in DOMAIN rows.std : rows.std[i] \in Objects
    BY <2>1
  <2> QED BY <1>1, <1>5, <2>2 DEF RowsOf, TypeOK, ToSet
<1> HIDE DEF n
<1>8. /\ Append(rows.std, n) \in Seq(0 .. n) /\ IsInjective(Append(rows.std, n))
      /\ ToSet(Append(rows.std, n)) = ToSet(rows.std) \cup {n}
  BY <1>1, <1>7, AppendSeq
<1>9. rows' \in RowsOf(0 .. n) /\ rows'.std = Append(rows.std, n)
  BY <1>5, <1>6, <1>8 DEF RowsOf
<1>10. n \notin {Library, MicList} \cup freed
  BY <1>1, TypeFacts DEF TypeOK
<1>11. ToSet(rows'.std) \cap ({Library, MicList} \cup freed') = {}
  BY <1>8, <1>9, <1>10 DEF TypeOK, NewList
<1>12. active \in [row : Nat, list : 0 .. n]
       /\ window \in [visible : Nat, row : Nat, list : 0 .. n]
       /\ window \in [visible : Int, row : Nat, list : 0 .. n]
  BY <1>1, TypeFacts
<1>13. window' \in [visible : Nat, row : Nat, list : 0 .. n]
  <2> DEFINE r == NumPlaylists(rows') - 1
  <2>1. Library \in 0 .. n /\ MicList \in 0 .. n
    BY <1>1, TypeFacts
  <2>2. r \in Nat
    <3>1. 0 \in Int
      OBVIOUS
    <3>2. NumPlaylists(rows') \in Nat \ {0}
      BY <1>9, <2>1, <3>1, RowListType
    <3> QED BY <3>2
  <2> HIDE DEF r
  <2>3. Show(rows', active, window, r) \in [visible : Nat, row : Nat, list : 0 .. n]
    BY <1>9, <1>12, <2>1, <2>2, ShowType
  <2> QED BY <1>12, <2>3 DEF NewList, r
<1>14. active' = active /\ freed' = freed /\ plain' = plain
  BY DEF NewList
<1>15. freed' \subseteq (0 .. n) \ {Library, MicList} /\ plain' \in BOOLEAN
  BY <1>1, <1>14 DEF TypeOK
<1> QED BY <1>1, <1>4, <1>8, <1>9, <1>11, <1>12, <1>13, <1>14, <1>15, TypeFrom

\* Where a row goes is a row, and so is what becomes of the active row.
LEMMA RowsAfterDrag ==
    ASSUME TypeOK, NEW from \in Nat, NEW hit \in Nat \cup {None}
    PROVE  /\ DropRow(from, hit) \in Nat
           /\ \A row, to \in Nat : RowAfterMove(row, from, to) \in Nat
<1>1. Len(rows.std) \in Nat
  BY TypeFacts
<1>2. DropRow(from, hit) \in Nat
  BY <1>1 DEF DropRow, None
<1>3. ASSUME NEW row \in Nat, NEW to \in Nat PROVE RowAfterMove(row, from, to) \in Nat
  BY DEF RowAfterMove
<1> QED BY <1>2, <1>3

LEMMA TypeDrag ==
    ASSUME TypeOK, NEW from \in Rows, NEW hit \in Rows \cup {None}, Drag(from, hit)
    PROVE  TypeOK'
<1> DEFINE w  == Show(rows, active, window, from)
           to == DropRow(from, hit)
           i  == from - Base(rows) + 1
<1>1. Base(rows) \in Nat \ {0} /\ NumPlaylists(rows) \in Nat \ {0}
  <2>1. 0 \in Int
    OBVIOUS
  <2> QED BY <2>1, TypeFacts, RowListType
<1>2. from \in Nat /\ hit \in Nat \cup {None}
  BY <1>1 DEF Rows
<1>3. w \in [visible : Nat, row : Nat, list : Objects] /\ to \in Nat
  BY <1>2, TypeFacts, ShowType, RowsAfterDrag
<1>4. to - Base(rows) \in Int
  BY <1>1, <1>3
<1>5. /\ window' = Show(rows', active', w, to)
      /\ UNCHANGED <<ids, nextID, freed, plain>>
      /\ \/ /\ i \in DOMAIN rows.std
            /\ rows' = [rows EXCEPT !.std = Moved(@, i, to - Base(rows))]
            /\ active' = [active EXCEPT !.row = RowAfterMove(@, from, to)]
         \/ UNCHANGED <<rows, active>>
  BY DEF Drag
<1> HIDE DEF w, to, i
<1>6. /\ rows' \in RowsOf(Objects) /\ IsInjective(rows'.std)
      /\ ToSet(rows'.std) = ToSet(rows.std)
      /\ active' \in [row : Nat, list : Objects]
  <2>1. CASE UNCHANGED <<rows, active>>
    BY <2>1 DEF TypeOK
  <2>2. CASE /\ i \in DOMAIN rows.std
             /\ rows' = [rows EXCEPT !.std = Moved(@, i, to - Base(rows))]
             /\ active' = [active EXCEPT !.row = RowAfterMove(@, from, to)]
    <3> DEFINE std == Moved(rows.std, i, to - Base(rows))
    <3>1. rows.std \in Seq(Objects) /\ IsInjective(rows.std)
      BY TypeFacts DEF TypeOK
    <3>2. std \in Seq(Objects) /\ IsInjective(std) /\ ToSet(std) = ToSet(rows.std)
      BY <1>4, <2>2, <3>1, MovedSeq
    <3>3. rows' = [rows EXCEPT !.std = std]
      BY <2>2
    <3> HIDE DEF std
    <3>4. rows' \in RowsOf(Objects) /\ rows'.std = std
      BY <3>2, <3>3, TypeFacts DEF RowsOf
    <3>5. RowAfterMove(active.row, from, to) \in Nat
      BY <1>2, <1>3, TypeFacts, RowsAfterDrag
    <3>6. active' \in [row : Nat, list : Objects]
      BY <2>2, <3>5, TypeFacts
    <3> QED BY <3>2, <3>4, <3>6
  <2> QED BY <1>5, <2>1, <2>2
<1>7. w \in [visible : Int, row : Nat, list : Objects]
  BY <1>3
<1>8. Show(rows', active', w, to) \in [visible : Nat, row : Nat, list : Objects]
  BY <1>3, <1>6, <1>7, TypeFacts, ShowType
<1> QED BY <1>5, <1>6, <1>8 DEF TypeOK, Made, Objects

\* Making the library active in place of a list keeps the types.
LEMMA LibraryIfActiveType ==
    ASSUME TypeOK, NEW r \in Nat
    PROVE  LibraryIfActive(r) \in [row : Nat, list : Objects]
<1>1. SetActive(rows, active, 0) \in [row : Nat, list : Objects]
  <2>1. 0 \in Nat
    OBVIOUS
  <2> QED BY <2>1, TypeFacts, SetActiveType
<1> QED BY <1>1, TypeFacts DEF LibraryIfActive

LEMMA TypeDeleteRow ==
    ASSUME TypeOK, NEW r \in Rows, DeleteRow(r)
    PROVE  TypeOK'
<1> DEFINE act == LibraryIfActive(r)
           i   == r - Base(rows) + 1
<1>1. Base(rows) \in Nat \ {0} /\ NumPlaylists(rows) \in Nat \ {0}
  <2>1. 0 \in Int
    OBVIOUS
  <2> QED BY <2>1, TypeFacts, RowListType
<1>2. r \in Nat /\ r > 0 /\ r - 1 \in Nat
  BY <1>1 DEF Rows, DeleteRow
<1>3. act \in [row : Nat, list : Objects]
  BY <1>2, LibraryIfActiveType
<1>4. /\ \/ /\ i \in DOMAIN rows.std
            /\ rows' = [rows EXCEPT !.std = Without(@, i)]
            /\ active' = [act EXCEPT !.row = RowAfterDelete(@, i)]
            /\ freed' = freed \cup {rows.std[i]}
         \/ active' = act /\ UNCHANGED <<rows, freed>>
      /\ \/ window' = window
         \/ window' = Show(rows', active', NoneVisible(window), r - 1)
         \/ window' = Show(rows', active', NoneVisible(window), r)
      /\ UNCHANGED <<ids, nextID, plain>>
  BY DEF DeleteRow
<1> HIDE DEF act, i
<1>5. /\ rows' \in RowsOf(Objects) /\ IsInjective(rows'.std)
      /\ ToSet(rows'.std) \cap ({Library, MicList} \cup freed') = {}
      /\ freed' \subseteq Objects \ {Library, MicList}
      /\ active' \in [row : Nat, list : Objects]
  <2>1. CASE active' = act /\ UNCHANGED <<rows, freed>>
    BY <1>3, <2>1 DEF TypeOK
  <2>2. CASE /\ i \in DOMAIN rows.std
             /\ rows' = [rows EXCEPT !.std = Without(@, i)]
             /\ active' = [act EXCEPT !.row = RowAfterDelete(@, i)]
             /\ freed' = freed \cup {rows.std[i]}
    <3> DEFINE std == Without(rows.std, i)
    <3>1. rows.std \in Seq(Objects) /\ IsInjective(rows.std)
      BY TypeFacts DEF TypeOK
    <3>2. std \in Seq(Objects) /\ IsInjective(std)
          /\ ToSet(std) = ToSet(rows.std) \ {rows.std[i]}
      BY <2>2, <3>1, WithoutSeq
    <3>3. rows' = [rows EXCEPT !.std = std]
      BY <2>2
    <3> HIDE DEF std
    <3>4. rows' \in RowsOf(Objects) /\ rows'.std = std
      BY <3>2, <3>3, TypeFacts DEF RowsOf
    <3>5. rows.std[i] \in Objects /\ rows.std[i] \in ToSet(rows.std)
      BY <2>2, <3>1 DEF ToSet
    <3>6. ToSet(rows'.std) \cap ({Library, MicList} \cup freed') = {}
          /\ freed' \subseteq Objects \ {Library, MicList}
      BY <2>2, <3>2, <3>4, <3>5 DEF TypeOK
    <3>7. i \in Nat /\ i >= 1
      BY <2>2, <3>1
    <3>8. RowAfterDelete(act.row, i) \in Nat
      BY <1>3, <3>7 DEF RowAfterDelete
    <3>9. active' \in [row : Nat, list : Objects]
      BY <1>3, <2>2, <3>8
    <3> QED BY <3>2, <3>4, <3>6, <3>9
  <2> QED BY <1>4, <2>1, <2>2
<1>6. NoneVisible(window) \in [visible : Int, row : Nat, list : Objects]
  <2>1. window \in [visible : Nat, row : Nat, list : Objects]
    BY TypeFacts
  <2>2. None \in Int
    BY DEF None
  <2> QED BY <2>1, <2>2 DEF NoneVisible
<1>7. /\ Show(rows', active', NoneVisible(window), r - 1)
            \in [visible : Nat, row : Nat, list : Objects]
      /\ Show(rows', active', NoneVisible(window), r)
            \in [visible : Nat, row : Nat, list : Objects]
  BY <1>2, <1>5, <1>6, TypeFacts, ShowType
<1>8. window' \in [visible : Nat, row : Nat, list : Objects]
  BY <1>4, <1>7, TypeFacts
<1> QED BY <1>4, <1>5, <1>8 DEF TypeOK, Made, Objects

\* The microphone and the CDs keep the types.
LEMMA TypeEnableMic ==
    ASSUME TypeOK, EnableMic
    PROVE  TypeOK'
<1>1. rows' = [rows EXCEPT !.mic = TRUE] /\ plain' = FALSE
      /\ UNCHANGED <<active, window, ids, nextID, freed>>
  BY DEF EnableMic
<1>2. rows' \in RowsOf(Objects) /\ rows'.std = rows.std
  BY <1>1, TypeFacts DEF RowsOf
<1> QED BY <1>1, <1>2 DEF TypeOK, Made, Objects

LEMMA TypeDisableMic ==
    ASSUME TypeOK, DisableMic
    PROVE  TypeOK'
<1> DEFINE act == SetActive(rows, active, 0)
<1>1. /\ rows' = [rows EXCEPT !.mic = FALSE]
      /\ window' = window \/ window' = Show(rows, active, window, 0)
      /\ active' = active \/ active' = act \/ \E r \in Rows : active' = SetActive(rows, act, r)
      /\ UNCHANGED <<ids, nextID, freed, plain>>
  BY DEF DisableMic, QueueLeads
<1>2. rows' \in RowsOf(Objects) /\ rows'.std = rows.std
  BY <1>1, TypeFacts DEF RowsOf
<1>3. /\ Show(rows, active, window, 0) \in [visible : Nat, row : Nat, list : Objects]
      /\ act \in [row : Nat, list : Objects]
  <2>1. 0 \in Nat
    OBVIOUS
  <2> QED BY <2>1, TypeFacts, ShowType, SetActiveType
<1> HIDE DEF act
<1>4. \A r \in Rows : SetActive(rows, act, r) \in [row : Nat, list : Objects]
  <2>1. \A r \in Rows : r \in Nat
    BY TypeFacts DEF Rows
  <2> QED BY <1>3, <2>1, TypeFacts, SetActiveType
<1>5. window' \in [visible : Nat, row : Nat, list : Objects]
  BY <1>1, <1>3, TypeFacts
<1>6. active' \in [row : Nat, list : Objects]
  BY <1>1, <1>3, <1>4, TypeFacts
<1> QED BY <1>1, <1>2, <1>5, <1>6 DEF TypeOK, Made, Objects

LEMMA TypeCDLeaves ==
    ASSUME TypeOK, NEW x \in DOMAIN rows.cds, CDLeaves(x)
    PROVE  TypeOK'
<1> DEFINE cds == Without(rows.cds, x)
           C   == [drive : Drives, list : Objects]
<1>1. /\ rows' = [rows EXCEPT !.cds = cds]
      /\ window' = window \/ window' = Show(rows', active, window, 0)
      /\ active' = active \/ active' = SetActive(rows', active, 0)
      /\ UNCHANGED <<ids, nextID, freed, plain>>
  BY DEF CDLeaves
<1>2. rows.cds \in Seq(C)
  BY TypeFacts
<1> HIDE DEF C
<1>3. cds \in Seq(C)
  BY <1>2, WithoutSeq
<1> HIDE DEF cds
<1>4. rows' \in RowsOf(Objects) /\ rows'.std = rows.std
  BY <1>1, <1>3, TypeFacts DEF RowsOf, C
<1>5. /\ Show(rows', active, window, 0) \in [visible : Nat, row : Nat, list : Objects]
      /\ SetActive(rows', active, 0) \in [row : Nat, list : Objects]
  <2>1. 0 \in Nat
    OBVIOUS
  <2> QED BY <1>4, <2>1, TypeFacts, ShowType, SetActiveType
<1>6. /\ window' \in [visible : Nat, row : Nat, list : Objects]
      /\ active' \in [row : Nat, list : Objects]
  BY <1>1, <1>5, TypeFacts
<1> QED BY <1>1, <1>4, <1>6 DEF TypeOK, Made, Objects

LEMMA TypeCDArrives ==
    ASSUME TypeOK, NEW d \in Drives, CDArrives(d)
    PROVE  TypeOK'
<1> DEFINE n == Made + 1
           C == [drive : Drives, list : 0 .. n]
           e == [drive |-> d, list |-> n]
<1>1. n \in Nat /\ n \in 1 .. MaxMade /\ Objects \subseteq 0 .. n /\ n \in 0 .. n
  <2>1. Made < MaxMade
    BY DEF CDArrives
  <2>2. Made \in 1 .. MaxMade /\ MaxMade \in Nat /\ Objects = 0 .. Made
    BY TypeFacts
  <2> QED BY <2>1, <2>2
<1>2. PICK id \in Above(nextID) :
         nextID' = id /\ ids' = [l \in 0 .. n |-> IF l <= Made THEN ids[l] ELSE id]
  BY DEF CDArrives
<1>3. id \in Nat
  BY <1>2, TypeFacts DEF Above
<1>4. ids' \in [0 .. n -> Nat] /\ nextID' \in Nat
  <2>1. \A l \in 0 .. n : l <= Made => l \in 0 .. Made
    BY <1>1
  <2> QED BY <1>2, <1>3, <2>1, TypeFacts
<1>5. rows \in RowsOf(0 .. n)
  BY <1>1, TypeFacts, RowsMonotonic
<1>6. /\ rows' = [rows EXCEPT !.cds = Append(@, e)]
      /\ window' = window \/ window' = Show(rows', active, window, window.visible + 1)
      /\ plain' = FALSE /\ UNCHANGED <<active, freed>>
  BY DEF CDArrives
<1>7. rows.cds \in Seq(C) /\ e \in C
  BY <1>1, <1>5 DEF RowsOf
<1> HIDE DEF e, C
<1>8. Append(rows.cds, e) \in Seq(C)
  BY <1>7
<1>9. rows' \in RowsOf(0 .. n) /\ rows'.std = rows.std
  BY <1>5, <1>6, <1>8 DEF RowsOf, C
<1>10. active \in [row : Nat, list : 0 .. n]
       /\ window \in [visible : Nat, row : Nat, list : 0 .. n]
       /\ window \in [visible : Int, row : Nat, list : 0 .. n]
  BY <1>1, TypeFacts
<1> HIDE DEF n
<1>11. Library \in 0 .. n /\ MicList \in 0 .. n
  BY <1>1, TypeFacts
<1>12. window.visible + 1 \in Nat
  BY <1>10
<1>13. Show(rows', active, window, window.visible + 1)
          \in [visible : Nat, row : Nat, list : 0 .. n]
  BY <1>9, <1>10, <1>11, <1>12, ShowType
<1>14. window' \in [visible : Nat, row : Nat, list : 0 .. n]
  BY <1>6, <1>10, <1>13
<1>15. /\ freed' \subseteq (0 .. n) \ {Library, MicList} /\ plain' \in BOOLEAN
       /\ IsInjective(rows'.std)
       /\ ToSet(rows'.std) \cap ({Library, MicList} \cup freed') = {}
  BY <1>1, <1>6, <1>9 DEF TypeOK
<1> QED BY <1>1, <1>4, <1>6, <1>9, <1>10, <1>14, <1>15, TypeFrom

\* The next start keeps the types.
LEMMA TypeRestart ==
    ASSUME TypeOK, NEW discs \in Discs, Restart(discs)
    PROVE  TypeOK'
<1> DEFINE n   == Made + Len(discs)
           C   == [drive : Drives, list : 0 .. n]
           cds == [k \in DOMAIN discs |-> [drive |-> discs[k], list |-> Made + k]]
           rs  == [mic |-> FALSE, std |-> rows.std, cds |-> cds]
           now == [l \in 0 .. n |-> IF l <= Made THEN ids[l] ELSE FirstID + l - Made - 1]
<1>1. discs \in Seq(Drives) /\ Len(discs) \in Nat
  <2>1. PICK m \in 0 .. MaxMade : discs \in [1 .. m -> Drives]
    BY DEF Discs, BoundedSeq, SeqOf
  <2>2. m \in Nat
    BY <2>1, TypeFacts
  <2> QED BY <2>1, <2>2
<1>2. n \in Nat /\ n \in 1 .. MaxMade /\ Objects \subseteq 0 .. n
  <2>1. n <= MaxMade
    BY DEF Restart
  <2>2. Made \in 1 .. MaxMade /\ MaxMade \in Nat /\ Objects = 0 .. Made
    BY TypeFacts
  <2> QED BY <1>1, <2>1, <2>2
<1>3. Library \in 0 .. n /\ MicList \in 0 .. n
  BY <1>2, TypeFacts
<1>4. cds \in Seq(C)
  <2>1. \A k \in DOMAIN discs : discs[k] \in Drives /\ Made + k \in 0 .. n
    <3>1. DOMAIN discs = 1 .. Len(discs) /\ \A k \in DOMAIN discs : discs[k] \in Drives
      BY <1>1
    <3>2. Made \in Nat
      BY TypeFacts
    <3>3. \A k \in 1 .. Len(discs) : Made + k \in 0 .. Made + Len(discs)
      BY <1>1, <3>2
    <3> QED BY <3>1, <3>3
  <2>2. \A k \in DOMAIN discs : [drive |-> discs[k], list |-> Made + k] \in C
    BY <2>1
  <2> HIDE DEF C
  <2> QED BY <1>1, <2>2
<1>5. rows \in RowsOf(0 .. n)
  BY <1>2, TypeFacts, RowsMonotonic
<1>6. rows.std \in Seq(0 .. n) /\ rows.mic \in BOOLEAN
  BY <1>5 DEF RowsOf
<1>7. now \in [0 .. n -> Nat]
  <2>1. \A l \in 0 .. n : now[l] \in Nat
    <3>1. FirstID \in Nat /\ Made \in Nat /\ ids \in [0 .. Made -> Nat]
      BY ManagerAssumption, TypeFacts DEF ManagerAssumption
    <3>2. ASSUME NEW l \in 0 .. n, l <= Made PROVE ids[l] \in Nat
      BY <1>2, <3>1, <3>2
    <3>3. ASSUME NEW l \in 0 .. n, ~(l <= Made) PROVE FirstID + l - Made - 1 \in Nat
      BY <1>2, <3>1, <3>3
    <3> QED BY <3>2, <3>3
  <2> QED BY <2>1
<1>8. /\ rows' = [rs EXCEPT !.mic = rows.mic]
      /\ \E row \in 0 .. NumPlaylists(rs) - 1 :
            /\ active' = [row |-> row, list |-> RowList(rs, row)]
            /\ window' = [visible |-> row, row |-> row, list |-> RowList(rs, row)]
      /\ \E id \in Above(FirstID) : nextID' = id /\ ids' = [now EXCEPT ![MicList] = id]
      /\ plain' = (plain /\ discs = <<>>)
      /\ UNCHANGED freed
  BY DEF Restart
<1> HIDE DEF now, cds, C
<1>9. rs \in RowsOf(0 .. n)
  BY <1>4, <1>6 DEF RowsOf, C
<1>10. rows' \in RowsOf(0 .. n) /\ rows'.std = rows.std
  BY <1>4, <1>6, <1>8 DEF RowsOf, C
<1> HIDE DEF rs, n
<1>11. /\ active' \in [row : Nat, list : 0 .. n]
       /\ window' \in [visible : Nat, row : Nat, list : 0 .. n]
  <2>1. PICK row \in 0 .. NumPlaylists(rs) - 1 :
            /\ active' = [row |-> row, list |-> RowList(rs, row)]
            /\ window' = [visible |-> row, row |-> row, list |-> RowList(rs, row)]
    BY <1>8
  <2>2. row \in Int
    OBVIOUS
  <2>3. NumPlaylists(rs) \in Nat \ {0} /\ RowList(rs, row) \in 0 .. n
    BY <1>3, <1>9, <2>2, RowListType
  <2>4. row \in Nat
    BY <2>3
  <2> QED BY <2>1, <2>3, <2>4
<1>12. nextID' \in Nat /\ ids' \in [0 .. n -> Nat]
  <2>1. PICK id \in Above(FirstID) : nextID' = id /\ ids' = [now EXCEPT ![MicList] = id]
    BY <1>8
  <2>2. id \in Nat
    BY ManagerAssumption DEF ManagerAssumption, Above
  <2> QED BY <1>7, <2>1, <2>2
<1>13. /\ freed' \subseteq (0 .. n) \ {Library, MicList} /\ plain' \in BOOLEAN
       /\ IsInjective(rows'.std)
       /\ ToSet(rows'.std) \cap ({Library, MicList} \cup freed') = {}
  BY <1>2, <1>8, <1>10 DEF TypeOK
<1> QED BY <1>2, <1>10, <1>11, <1>12, <1>13, TypeFrom

LEMMA TypeStep == TypeOK /\ [Next]_vars => TypeOK'
<1> SUFFICES ASSUME TypeOK, [Next]_vars PROVE TypeOK'
  OBVIOUS
<1>1. CASE Choose
  BY <1>1, TypeChoose
<1>2. CASE Arrange
  BY <1>2, TypeNewList, TypeDrag, TypeDeleteRow DEF Arrange
<1>3. CASE Devices
  BY <1>3, TypeEnableMic, TypeDisableMic, TypeCDLeaves, TypeCDArrives DEF Devices
<1>4. CASE \E discs \in Discs : Restart(discs)
  BY <1>4, TypeRestart
<1>5. CASE UNCHANGED vars
  BY <1>5 DEF TypeOK, Made, Objects, vars
<1> QED BY <1>1, <1>2, <1>3, <1>4, <1>5 DEF Next

\* Whatever the user does and whatever devices come and go, the rows of the user's
\* lists hold distinct lists that exist, and the remembered rows are numbers of rows.
THEOREM TypeCorrect == Spec => []TypeOK
BY TypeInit, TypeStep, PTL DEF Spec
----------------------------------------------------------------------------
(***************************************************************************)
(* The active list, and the IDs, while there are neither microphone nor    *)
(* CDs.                                                                    *)
(***************************************************************************)

\* The active row may be wrong, but never so as to be the library's row when
\* another list is active: that is why a delete finds the active list.
PlainOK ==
    plain => /\ ~rows.mic /\ rows.cds = <<>>
             /\ active.row = 0 => active.list = Library
             /\ active.list \in Extended(rows)

\* What activating a row leaves true
LEMMA SetActivePlain ==
    ASSUME NEW O, NEW rs \in RowsOf(O), ~rs.mic, rs.cds = <<>>,
           NEW act \in [row : Nat, list : O], act.row = 0 => act.list = Library,
           act.list \in Extended(rs), NEW r \in Nat
    PROVE  /\ SetActive(rs, act, r).row = 0 => SetActive(rs, act, r).list = Library
           /\ SetActive(rs, act, r).list \in Extended(rs)
<1>1. /\ r \in 1 .. Len(rs.std) => RowList(rs, r) = rs.std[r]
      /\ r \notin 0 .. Len(rs.std) => RowList(rs, r) = None
      /\ RowList(rs, 0) = Library
  <2>1. r \in Int
    OBVIOUS
  <2> QED BY <2>1, RowListPlain
<1>2. RowList(rs, r) = None \/ RowList(rs, r) \in Extended(rs)
  <2>1. rs.std \in Seq(O) /\ Len(rs.std) \in Nat
    BY DEF RowsOf
  <2>2. CASE r \in 1 .. Len(rs.std)
    BY <1>1, <2>1, <2>2 DEF Extended, ToSet
  <2>3. CASE r = 0
    BY <1>1, <2>3 DEF Extended
  <2>4. CASE r \notin 0 .. Len(rs.std)
    BY <1>1, <2>4
  <2> QED BY <2>1, <2>2, <2>3, <2>4
<1>3. Library # None
  BY DEF Library, None
<1>4. CASE r = act.row
  BY <1>4 DEF SetActive
<1>5. CASE r # act.row
  <2>1. SetActive(rs, act, r) =
          [row |-> r, list |-> IF RowList(rs, r) = None THEN act.list ELSE RowList(rs, r)]
    BY <1>5 DEF SetActive
  <2>2. r = 0 => RowList(rs, r) = Library
    BY <1>1
  <2> QED BY <1>2, <1>3, <2>1, <2>2
<1> QED BY <1>4, <1>5

LEMMA PlainInit == Init => PlainOK /\ IDsUnique
<1> SUFFICES ASSUME Init PROVE PlainOK /\ IDsUnique
  OBVIOUS
<1>1. StartLists \in Nat /\ FirstID \in Nat \ {0}
  BY ManagerAssumption DEF ManagerAssumption
<1>2. /\ ~rows.mic /\ rows.cds = <<>> /\ active.row = 0 /\ active.list = Library
      /\ rows.std = [k \in 1 .. StartLists |-> k + 1]
  BY DEF Init
<1>3. PlainOK
  BY <1>2 DEF PlainOK, Extended
<1>4. Listed(rows) \subseteq {Library} \cup 2 .. StartLists + 1
  <2>1. ToSet(rows.cds) = {}
    BY <1>2 DEF ToSet
  <2>2. ToSet(rows.std) \subseteq 2 .. StartLists + 1
    BY <1>1, <1>2 DEF ToSet
  <2> QED BY <1>2, <2>1, <2>2 DEF Listed
<1>5. /\ ids[Library] = 0
      /\ \A l \in 2 .. StartLists + 1 : ids[l] = FirstID + l - 2
  BY <1>1 DEF Init, Library, MicList
<1>6. IDsUnique
  BY <1>1, <1>4, <1>5 DEF IDsUnique, Library
<1> QED BY <1>3, <1>6

\* What the invariant says where the history variable tells that all is plain
LEMMA PlainFacts ==
    ASSUME TypeOK, PlainOK, plain
    PROVE  /\ ~rows.mic /\ rows.cds = <<>>
           /\ active.row = 0 => active.list = Library
           /\ active.list \in Extended(rows)
           /\ Base(rows) = 1 /\ NumPlaylists(rows) = 1 + Len(rows.std)
           /\ Listed(rows) = {Library} \cup ToSet(rows.std)
           /\ \A r \in Nat : /\ SetActive(rows, active, r).row = 0 =>
                                     SetActive(rows, active, r).list = Library
                             /\ SetActive(rows, active, r).list \in Extended(rows)
<1>1. /\ ~rows.mic /\ rows.cds = <<>>
      /\ active.row = 0 => active.list = Library
      /\ active.list \in Extended(rows)
  BY DEF PlainOK
<1>2. Base(rows) = 1 /\ NumPlaylists(rows) = 1 + Len(rows.std)
  <2>1. 0 \in Int
    OBVIOUS
  <2> QED BY <1>1, <2>1, TypeFacts, RowListPlain
<1>3. ToSet(rows.cds) = {}
  BY <1>1 DEF ToSet
<1> QED BY <1>1, <1>2, <1>3, TypeFacts, SetActivePlain DEF Listed

\* Choosing and showing keep the invariant.
LEMMA PlainChoose ==
    ASSUME TypeOK, PlainOK, plain, Choose
    PROVE  PlainOK'
<1>1. /\ UNCHANGED Lists
      /\ \/ active' = active
         \/ \E r \in Nat : active' = SetActive(rows, active, r)
  <2>1. Rows \subseteq Nat
    BY TypeFacts, RowListType DEF Rows
  <2>2. window.row \in Nat
    BY TypeFacts
  <2> QED BY <2>1, <2>2 DEF Choose, ShowRow, PlayFromView, SwitchTo, SwitchToID
<1> QED BY <1>1, PlainFacts DEF Lists, PlainOK

\* A list that is made stands below the others and has an ID of its own.
LEMMA PlainNewList ==
    ASSUME TypeOK, PlainOK, plain, NEW shown \in BOOLEAN, NewList(shown)
    PROVE  PlainOK' /\ (IDsUnique => IDsUnique')
<1> DEFINE n == Made + 1
<1>1. /\ rows' = [rows EXCEPT !.std = Append(@, n)]
      /\ UNCHANGED <<active, plain>>
  BY DEF NewList
<1>2. rows.std \in Seq(Nat) /\ n \in Nat
  <2>1. rows.std \in Seq(Objects) /\ Objects \subseteq Nat /\ Made \in Nat
    BY TypeFacts
  <2>2. rows.std \in Seq(Nat)
    BY <2>1, SeqMonotonic
  <2> QED BY <2>1, <2>2
<1> HIDE DEF n
<1>3. ToSet(Append(rows.std, n)) = ToSet(rows.std) \cup {n}
  BY <1>2, AppendSeq
<1>4. /\ rows'.std = Append(rows.std, n) /\ rows'.mic = rows.mic /\ rows'.cds = rows.cds
  <2>1. rows \in RowsOf(Objects)
    BY TypeFacts
  <2> QED BY <1>1, <2>1 DEF RowsOf
<1>5. PlainOK'
  BY <1>1, <1>3, <1>4, PlainFacts DEF PlainOK, Extended
<1>6. Listed(rows') = Listed(rows) \cup {n}
  BY <1>3, <1>4, PlainFacts DEF Listed, ToSet
<1>7. ASSUME IDsUnique PROVE IDsUnique'
  <2>1. PICK id \in Above(nextID) :
           /\ FreeID(rows, ids, nextID, id)
           /\ ids' = [l \in 0 .. n |-> IF l <= Made THEN ids[l] ELSE id]
    BY DEF NewList, n
  <2>2. \A l \in Listed(rows) : ids[l] # id
    BY <2>1 DEF FreeID, FirstFree
  <2>3. Made \in Nat /\ n = Made + 1 /\ Listed(rows) \subseteq 0 .. Made
    <3>1. rows.std \in Seq(Objects) /\ Objects = 0 .. Made /\ Library \in Objects
          /\ Made \in Nat
      BY TypeFacts
    <3>2. ToSet(rows.std) \subseteq Objects
      BY <3>1 DEF ToSet
    <3> QED BY <3>1, <3>2, PlainFacts DEF n
  <2>4. \A l \in Listed(rows) : ids'[l] = ids[l]
    BY <2>1, <2>3
  <2>5. ids'[n] = id
    BY <2>1, <2>3
  <2> QED BY <1>6, <1>7, <2>2, <2>4, <2>5 DEF IDsUnique
<1> QED BY <1>5, <1>7

\* A dragged list is one of the user's, and none comes to stand in the library's row.
LEMMA PlainDrag ==
    ASSUME TypeOK, PlainOK, plain, NEW from \in Rows, NEW hit \in Rows \cup {None},
           Drag(from, hit)
    PROVE  PlainOK' /\ (IDsUnique => IDsUnique')
<1> DEFINE to == DropRow(from, hit)
           i  == from - Base(rows) + 1
<1>1. Base(rows) = 1 /\ NumPlaylists(rows) = 1 + Len(rows.std)
      /\ rows.std \in Seq(Objects) /\ Len(rows.std) \in Nat /\ DOMAIN rows.std = 1 .. Len(rows.std)
      /\ active.row \in Nat
  BY TypeFacts, PlainFacts
<1>2. from \in Nat /\ hit \in Nat \cup {None} /\ i = from
  BY <1>1 DEF Rows
<1>3. /\ UNCHANGED <<ids, plain>>
      /\ hit = None \/ ListAt(rows, active, hit) \in ToSet(rows.std)
      /\ \/ /\ i \in DOMAIN rows.std
            /\ rows' = [rows EXCEPT !.std = Moved(@, i, to - Base(rows))]
            /\ active' = [active EXCEPT !.row = RowAfterMove(@, from, to)]
         \/ UNCHANGED <<rows, active>>
  BY DEF Drag
<1> HIDE DEF i
<1>4. CASE UNCHANGED <<rows, active>>
  BY <1>3, <1>4 DEF PlainOK, IDsUnique
<1>5. CASE /\ i \in DOMAIN rows.std
           /\ rows' = [rows EXCEPT !.std = Moved(@, i, to - Base(rows))]
           /\ active' = [active EXCEPT !.row = RowAfterMove(@, from, to)]
  <2>1. from \in 1 .. Len(rows.std)
    BY <1>1, <1>2, <1>5
  <2>2. hit # 0
    <3>1. Library \notin ToSet(rows.std)
      BY DEF TypeOK
    <3>2. ListAt(rows, active, 0) = Library
      <4>1. 0 \in Int
        OBVIOUS
      <4>2. RowList(rows, 0) = Library
        BY <4>1, TypeFacts, RowListType
      <4> QED BY <4>2, PlainFacts DEF ListAt
    <3> QED BY <1>3, <3>1, <3>2 DEF None
  <2>3. to \in Nat \ {0}
    BY <1>1, <1>2, <2>1, <2>2 DEF DropRow, None
  <2> HIDE DEF to
  <2>4. RowAfterMove(active.row, from, to) = 0 => active.row = 0
    BY <1>1, <1>2, <2>1, <2>3 DEF RowAfterMove
  <2>5. to - Base(rows) \in Int /\ IsInjective(rows.std)
    BY <1>1, <2>3 DEF TypeOK
  <2> DEFINE std == Moved(rows.std, i, to - Base(rows))
  <2>6. std \in Seq(Objects) /\ ToSet(std) = ToSet(rows.std)
    BY <1>1, <1>5, <2>5, MovedSeq
  <2>7. rows' = [rows EXCEPT !.std = std]
    BY <1>5
  <2> HIDE DEF std
  <2>8. rows'.std = std /\ rows'.mic = rows.mic /\ rows'.cds = rows.cds
    <3>1. rows \in RowsOf(Objects)
      BY TypeFacts
    <3> QED BY <2>7, <3>1 DEF RowsOf
  <2>9. active'.row = RowAfterMove(active.row, from, to) /\ active'.list = active.list
    <3>1. active \in [row : Nat, list : Objects]
      BY TypeFacts
    <3> QED BY <1>5, <3>1
  <2>10. PlainOK'
    BY <1>3, <2>4, <2>6, <2>8, <2>9, PlainFacts DEF PlainOK, Extended
  <2>11. Listed(rows') = Listed(rows)
    BY <2>6, <2>8 DEF Listed
  <2> QED BY <1>3, <2>10, <2>11 DEF IDsUnique
<1> QED BY <1>3, <1>4, <1>5

\* If the list that goes was the active one, the library is active.
LEMMA PlainDeleteRow ==
    ASSUME TypeOK, PlainOK, plain, NEW r \in Rows, DeleteRow(r)
    PROVE  PlainOK' /\ (IDsUnique => IDsUnique')
<1> DEFINE act == LibraryIfActive(r)
           i   == r - Base(rows) + 1
<1>1. Base(rows) = 1 /\ NumPlaylists(rows) = 1 + Len(rows.std)
      /\ rows.std \in Seq(Objects) /\ Len(rows.std) \in Nat /\ DOMAIN rows.std = 1 .. Len(rows.std)
      /\ active.row \in Nat
  BY TypeFacts, PlainFacts
<1>2. r \in Nat /\ r > 0 /\ i = r /\ r \in Int
  BY <1>1 DEF Rows, DeleteRow
<1>3. act \in [row : Nat, list : Objects]
  BY <1>2, LibraryIfActiveType
<1>4. /\ act.row = 0 => act.list = Library
      /\ act.list \in Extended(rows)
  <2>1. /\ SetActive(rows, active, 0).row = 0 => SetActive(rows, active, 0).list = Library
        /\ SetActive(rows, active, 0).list \in Extended(rows)
    <3>1. 0 \in Nat
      OBVIOUS
    <3> QED BY <3>1, PlainFacts
  <2> QED BY <2>1, PlainFacts DEF LibraryIfActive
<1>5. /\ \/ /\ i \in DOMAIN rows.std
            /\ rows' = [rows EXCEPT !.std = Without(@, i)]
            /\ active' = [act EXCEPT !.row = RowAfterDelete(@, i)]
         \/ active' = act /\ UNCHANGED rows
      /\ UNCHANGED <<ids, plain>>
  BY DEF DeleteRow
<1>6. CASE active' = act /\ UNCHANGED rows
  BY <1>4, <1>5, <1>6, PlainFacts DEF PlainOK, IDsUnique
<1>7. CASE /\ i \in DOMAIN rows.std
           /\ rows' = [rows EXCEPT !.std = Without(@, i)]
           /\ active' = [act EXCEPT !.row = RowAfterDelete(@, i)]
  <2>1. r \in 1 .. Len(rows.std)
    BY <1>2, <1>7
  <2>2. act.list # rows.std[r] /\ (act.row = r => act.row = 0)
    <3>1. RowList(rows, r) = rows.std[r]
      <4>1. ~rows.mic /\ rows.cds = <<>> /\ rows \in RowsOf(Objects)
        BY TypeFacts, PlainFacts
      <4> QED BY <1>2, <2>1, <4>1, RowListPlain
    <3>2. rows.std[r] # Library
      BY <1>1, <2>1 DEF TypeOK, ToSet
    <3>3. CASE ListAt(rows, active, r) = active.list
      <4>1. act = SetActive(rows, active, 0)
        BY <3>3 DEF LibraryIfActive
      <4>2. SetActive(rows, active, 0).row = 0
        BY DEF SetActive
      <4> QED BY <1>4, <3>2, <4>1, <4>2
    <3>4. CASE ListAt(rows, active, r) # active.list
      <4>1. act = active /\ r # active.row
        BY <3>4 DEF LibraryIfActive, ListAt
      <4> QED BY <3>1, <3>4, <4>1 DEF ListAt
    <3> QED BY <3>3, <3>4
  <2> HIDE DEF act
  <2>3. RowAfterDelete(act.row, i) = 0 => act.row = 0
    BY <1>2, <1>3, <2>2 DEF RowAfterDelete
  <2> DEFINE std == Without(rows.std, r)
  <2>4. ToSet(std) = ToSet(rows.std) \ {rows.std[r]}
    <3>1. IsInjective(rows.std)
      BY DEF TypeOK
    <3> QED BY <1>1, <2>1, <3>1, WithoutSeq
  <2>5. rows' = [rows EXCEPT !.std = std]
    BY <1>2, <1>7
  <2> HIDE DEF std
  <2>6. rows'.std = std /\ rows'.mic = rows.mic /\ rows'.cds = rows.cds
    <3>1. rows \in RowsOf(Objects)
      BY TypeFacts
    <3> QED BY <2>5, <3>1 DEF RowsOf
  <2>7. active'.row = RowAfterDelete(act.row, i) /\ active'.list = act.list
    BY <1>3, <1>7
  <2>8. PlainOK'
    BY <1>4, <1>5, <2>2, <2>3, <2>4, <2>6, <2>7, PlainFacts DEF PlainOK, Extended
  <2>9. Listed(rows') \subseteq Listed(rows)
    BY <2>4, <2>6 DEF Listed
  <2> QED BY <1>5, <2>8, <2>9 DEF IDsUnique
<1> QED BY <1>5, <1>6, <1>7

\* Without CDs in the drives the next start finds the lists as they were saved.
LEMMA PlainRestart ==
    ASSUME TypeOK, PlainOK, NEW discs \in Discs, Restart(discs), plain'
    PROVE  PlainOK' /\ (IDsUnique => IDsUnique')
<1> DEFINE rs  == [mic |-> FALSE, std |-> rows.std,
                   cds |-> [k \in DOMAIN discs |-> [drive |-> discs[k], list |-> Made + k]]]
           now == [l \in 0 .. Made + Len(discs) |->
                      IF l <= Made THEN ids[l] ELSE FirstID + l - Made - 1]
<1>1. plain /\ discs = <<>>
  BY DEF Restart
<1>2. /\ rows' = [rs EXCEPT !.mic = rows.mic]
      /\ \E row \in 0 .. NumPlaylists(rs) - 1 :
            active' = [row |-> row, list |-> RowList(rs, row)]
      /\ \E id \in Above(FirstID) : ids' = [now EXCEPT ![MicList] = id]
  BY DEF Restart
<1>3. rs = [mic |-> FALSE, std |-> rows.std, cds |-> <<>>]
  BY <1>1
<1>4. \A l \in 0 .. Made : now[l] = ids[l] /\ l \in DOMAIN now
  <2>1. Made \in Nat /\ Len(discs) = 0
    BY <1>1, TypeFacts
  <2> QED BY <2>1
<1> HIDE DEF rs, now
<1>5. ~rows.mic /\ rs.std = rows.std /\ ~rs.mic /\ rs.cds = <<>> /\ rows.std \in Seq(Objects)
      /\ rs \in RowsOf(Objects)
  BY <1>1, <1>3, TypeFacts, PlainFacts DEF RowsOf
<1>6. rows'.std = rows.std /\ ~rows'.mic /\ rows'.cds = <<>>
  BY <1>2, <1>3, <1>5
<1>7. PICK row \in 0 .. NumPlaylists(rs) - 1 : active' = [row |-> row, list |-> RowList(rs, row)]
  BY <1>2
<1>8. RowList(rs, 0) = Library /\ RowList(rs, row) \in {Library} \cup ToSet(rows.std)
  <2>1. row \in Int /\ Len(rs.std) \in Nat /\ DOMAIN rs.std = 1 .. Len(rs.std)
    BY <1>5
  <2>2. /\ NumPlaylists(rs) = 1 + Len(rs.std) /\ RowList(rs, 0) = Library
        /\ row \in 1 .. Len(rs.std) => RowList(rs, row) = rs.std[row]
    BY <1>5, <2>1, RowListPlain
  <2>3. row = 0 \/ row \in 1 .. Len(rs.std)
    BY <2>1, <2>2
  <2> QED BY <1>5, <2>1, <2>2, <2>3 DEF ToSet
<1>9. PlainOK'
  BY <1>6, <1>7, <1>8 DEF PlainOK, Extended
<1>10. Listed(rows') = Listed(rows)
  BY <1>1, <1>5, <1>6, PlainFacts DEF Listed, ToSet
<1>11. \A l \in Listed(rows) : ids'[l] = ids[l]
  <2>1. PICK id \in Above(FirstID) : ids' = [now EXCEPT ![MicList] = id]
    BY <1>2
  <2>2. Listed(rows) \subseteq 0 .. Made /\ MicList \notin Listed(rows)
    <3>1. ToSet(rows.std) \subseteq Objects /\ MicList \notin ToSet(rows.std)
      BY <1>5 DEF ToSet, TypeOK
    <3>2. Objects = 0 .. Made /\ Library \in Objects /\ Library # MicList
      BY TypeFacts DEF Library, MicList
    <3> QED BY <1>1, <3>1, <3>2, PlainFacts
  <2> QED BY <1>4, <2>1, <2>2
<1> QED BY <1>9, <1>10, <1>11 DEF IDsUnique

\* While the user has had neither microphone nor CDs, the active list is never one
\* that was deleted, however the lists were moved, and no two lists have one ID.
Inv == TypeOK /\ PlainOK /\ (plain => IDsUnique)

LEMMA InvInductive == Spec => []Inv
<1>1. Init => Inv
  BY TypeInit, PlainInit DEF Inv
<1>2. Inv /\ [Next]_vars => Inv'
  <2> SUFFICES ASSUME Inv, [Next]_vars PROVE PlainOK' /\ (plain' => IDsUnique')
    <3>1. TypeOK /\ [Next]_vars => TypeOK'
      BY TypeStep
    <3> QED BY <3>1 DEF Inv
  <2>1. CASE Choose
    <3>1. UNCHANGED <<rows, ids, plain>>
      BY <2>1 DEF Choose, ShowRow, PlayFromView, SwitchTo, SwitchToID, Lists
    <3>2. CASE plain
      BY <2>1, <3>1, <3>2, PlainChoose DEF Inv, IDsUnique
    <3>3. CASE ~plain
      BY <3>1, <3>3 DEF PlainOK
    <3> QED BY <3>2, <3>3
  <2>2. CASE Arrange
    <3>1. plain' = plain
      BY <2>2 DEF Arrange, NewList, Drag, DeleteRow
    <3>2. CASE plain
      BY <2>2, <3>1, <3>2, PlainNewList, PlainDrag, PlainDeleteRow DEF Arrange, Inv
    <3>3. CASE ~plain
      BY <3>1, <3>3 DEF PlainOK
    <3> QED BY <3>2, <3>3
  <2>3. CASE Devices
    <3>1. CASE plain
      <4>1. ~rows.mic /\ DOMAIN rows.cds = {}
        BY <3>1, PlainFacts DEF Inv
      <4>2. plain' = FALSE
        BY <2>3, <4>1 DEF Devices, EnableMic, DisableMic, CDArrives
      <4> QED BY <4>2 DEF PlainOK
    <3>2. CASE ~plain
      <4>1. ~plain'
        BY <2>3, <3>2 DEF Devices, EnableMic, DisableMic, CDLeaves, CDArrives
      <4> QED BY <4>1 DEF PlainOK
    <3> QED BY <3>1, <3>2
  <2>4. CASE \E discs \in Discs : Restart(discs)
    <3>1. PICK discs \in Discs : Restart(discs)
      BY <2>4
    <3>2. CASE plain'
      <4>1. plain
        BY <3>1, <3>2 DEF Restart
      <4> QED BY <3>1, <3>2, <4>1, PlainRestart DEF Inv
    <3>3. CASE ~plain'
      BY <3>3 DEF PlainOK
    <3> QED BY <3>2, <3>3
  <2>5. CASE UNCHANGED vars
    BY <2>5 DEF Inv, PlainOK, IDsUnique, vars
  <2> QED BY <2>1, <2>2, <2>3, <2>4, <2>5 DEF Next
<1> QED BY <1>1, <1>2, PTL DEF Spec

\* Playback never goes on in a list that was deleted: the two delete commands look
\* at the row and at the pointer, and the row of the library is never another's.
THEOREM ActiveNeverDeleted == Spec => []ActiveAlive
<1>1. Inv => ActiveAlive
  <2> SUFFICES ASSUME Inv, plain PROVE active.list \notin freed
    BY DEF ActiveAlive
  <2>1. active.list \in {Library} \cup ToSet(rows.std)
    BY PlainFacts DEF Inv, Extended
  <2> QED BY <2>1 DEF Inv, TypeOK
<1> QED BY <1>1, InvInductive, PTL

\* The loop of CreateNewStandardPlaylist gives an ID of its own to every list, and
\* deleting, moving and the next start keep it so.
THEOREM IDsAreUnique == Spec => [](plain => IDsUnique)
<1>1. Inv => (plain => IDsUnique)
  BY DEF Inv
<1> QED BY <1>1, InvInductive, PTL
============================================================================
