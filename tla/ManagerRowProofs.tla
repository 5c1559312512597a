-------------------------- MODULE ManagerRowProofs --------------------------
(***************************************************************************)
(* Proofs that the remembered rows and the IDs of Manager come to stand    *)
(* for other lists only in the cases that its properties name, for any     *)
(* number of drives and playlists.                                         *)
(***************************************************************************)
EXTENDS ManagerProofs

(***************************************************************************)
(* Where the elements of a sequence go.                                    *)
(***************************************************************************)

\* A removal moves up what stood below.
LEMMA WithoutAt ==
    ASSUME NEW S, NEW s \in Seq(S), NEW i \in DOMAIN s
    PROVE  /\ \A j \in 1 .. i - 1 : Without(s, i)[j] = s[j]
           /\ \A j \in i + 1 .. Len(s) : Without(s, i)[j - 1] = s[j]
<1>1. Len(s) \in Nat /\ i \in 1 .. Len(s)
  OBVIOUS
<1>2. \A k \in 1 .. Len(s) - 1 : Without(s, i)[k] = s[IF k < i THEN k ELSE k + 1]
  BY DEF Without
<1>3. \A j \in 1 .. i - 1 : j \in 1 .. Len(s) - 1 /\ j < i
  BY <1>1
<1>4. \A j \in i + 1 .. Len(s) : j - 1 \in 1 .. Len(s) - 1 /\ ~(j - 1 < i) /\ j - 1 + 1 = j
  BY <1>1
<1> QED BY <1>2, <1>3, <1>4

\* An insertion moves down what stands at its place and below.
LEMMA WithAt ==
    ASSUME NEW S, NEW s \in Seq(S), NEW n \in 1 .. Len(s) + 1, NEW e \in S
    PROVE  /\ With(s, n, e)[n] = e
           /\ \A j \in 1 .. n - 1 : With(s, n, e)[j] = s[j]
           /\ \A j \in n .. Len(s) : With(s, n, e)[j + 1] = s[j]
<1>1. Len(s) \in Nat /\ n \in Nat
  OBVIOUS
<1>2. \A k \in 1 .. Len(s) + 1 :
          With(s, n, e)[k] = IF k < n THEN s[k] ELSE IF k = n THEN e ELSE s[k - 1]
  BY DEF With
<1>3. \A j \in 1 .. n - 1 : j \in 1 .. Len(s) + 1 /\ j < n
  BY <1>1
<1>4. \A j \in n .. Len(s) :
          j + 1 \in 1 .. Len(s) + 1 /\ ~(j + 1 < n) /\ j + 1 # n /\ j + 1 - 1 = j
  BY <1>1
<1>5. ~(n < n)
  BY <1>1
<1> QED BY <1>2, <1>3, <1>4, <1>5

\* Where a move takes the element at j, if that is not the one that is moved
Passed(j, from, to) == IF j < from THEN IF j < to THEN j ELSE j + 1
                                   ELSE IF j - 1 < to THEN j - 1 ELSE j

LEMMA MovedAt ==
    ASSUME NEW S, NEW s \in Seq(S), NEW from \in 1 .. Len(s), NEW to \in 1 .. Len(s)
    PROVE  /\ Len(Moved(s, from, to - 1)) = Len(s)
           /\ Moved(s, from, to - 1)[to] = s[from]
           /\ \A j \in 1 .. Len(s) :
                 j # from => Moved(s, from, to - 1)[Passed(j, from, to)] = s[j]
<1> DEFINE rest == Without(s, from)
           e    == s[from]
<1>1. Len(s) \in Nat /\ from \in Nat /\ to \in Nat /\ e \in S /\ DOMAIN s = 1 .. Len(s)
  OBVIOUS
<1>2. rest \in Seq(S) /\ Len(rest) = Len(s) - 1
  BY <1>1, WithoutSeq
<1>3. /\ \A j \in 1 .. from - 1 : rest[j] = s[j]
      /\ \A j \in from + 1 .. Len(s) : rest[j - 1] = s[j]
  BY <1>1, WithoutAt
<1> HIDE DEF rest
<1>4. Moved(s, from, to - 1) = With(rest, to, e)
  <2>1. to - 1 \in 0 .. Len(rest) /\ to - 1 + 1 = to
    BY <1>1, <1>2
  <2> QED BY <2>1 DEF Moved, rest
<1>5. to \in 1 .. Len(rest) + 1
  BY <1>1, <1>2
<1> HIDE DEF e
<1>6. /\ With(rest, to, e)[to] = e
      /\ \A j \in 1 .. to - 1 : With(rest, to, e)[j] = rest[j]
      /\ \A j \in to .. Len(rest) : With(rest, to, e)[j + 1] = rest[j]
  BY <1>1, <1>2, <1>5, WithAt
<1>7. Len(With(rest, to, e)) = Len(s)
  <2>1. DOMAIN With(rest, to, e) = 1 .. Len(s) /\ With(rest, to, e) \in Seq(S)
    BY <1>1, <1>2, <1>5, WithSeq DEF With
  <2> QED BY <1>1, <2>1
<1>8. ASSUME NEW j \in 1 .. Len(s), j # from
      PROVE  With(rest, to, e)[Passed(j, from, to)] = s[j]
  <2>1. CASE j < from /\ j < to
    <3>1. j \in 1 .. from - 1 /\ j \in 1 .. to - 1
      BY <1>1, <2>1
    <3> QED BY <1>3, <1>6, <2>1, <3>1 DEF Passed
  <2>2. CASE j < from /\ ~(j < to)
    <3>1. j \in 1 .. from - 1 /\ j \in to .. Len(rest)
      BY <1>1, <1>2, <2>2
    <3> QED BY <1>3, <1>6, <2>2, <3>1 DEF Passed
  <2>3. CASE ~(j < from) /\ j - 1 < to
    <3>1. j \in from + 1 .. Len(s) /\ j - 1 \in 1 .. to - 1
      BY <1>1, <1>8, <2>3
    <3> QED BY <1>3, <1>6, <2>3, <3>1 DEF Passed
  <2>4. CASE ~(j < from) /\ ~(j - 1 < to)
    <3>1. j \in from + 1 .. Len(s) /\ j - 1 \in to .. Len(rest) /\ j - 1 + 1 = j
      BY <1>1, <1>2, <1>8, <2>4
    <3> QED BY <1>3, <1>6, <2>4, <3>1 DEF Passed
  <2> QED BY <2>1, <2>2, <2>3, <2>4
<1> QED BY <1>4, <1>6, <1>7, <1>8 DEF e
----------------------------------------------------------------------------
(***************************************************************************)
(* The active row.                                                         *)
(***************************************************************************)

\* With no device before them the user's lists stand in the rows from 1.
LEMMA BaseOneRows ==
    ASSUME NEW O, NEW rs \in RowsOf(O), Base(rs) = 1
    PROVE  /\ ~rs.mic /\ rs.cds = <<>>
           /\ rs.std \in Seq(O) /\ Len(rs.std) \in Nat /\ DOMAIN rs.std = 1 .. Len(rs.std)
           /\ NumPlaylists(rs) = 1 + Len(rs.std)
           /\ RowList(rs, 0) = Library
           /\ \A r \in 1 .. Len(rs.std) : RowList(rs, r) = rs.std[r]
           /\ \A r \in Int : r \notin 0 .. Len(rs.std) => RowList(rs, r) = None
<1>1. /\ rs.mic \in BOOLEAN /\ rs.cds \in Seq([drive : Drives, list : O])
      /\ rs.std \in Seq(O) /\ Len(rs.cds) \in Nat /\ Len(rs.std) \in Nat
  BY DEF RowsOf
<1>2. ~rs.mic /\ Len(rs.cds) = 0
  <2>1. CASE rs.mic
    <3>1. Base(rs) = 1 + 1 + Len(rs.cds)
      BY <2>1 DEF Base
    <3> QED BY <1>1, <3>1
  <2>2. CASE ~rs.mic
    <3>1. Base(rs) = 1 + 0 + Len(rs.cds)
      BY <2>2 DEF Base
    <3> QED BY <1>1, <2>2, <3>1
  <2> QED BY <2>1, <2>2
<1>3. rs.cds = <<>>
  <2> DEFINE C == [drive : Drives, list : O]
  <2>1. rs.cds \in Seq(C)
    BY <1>1
  <2> HIDE DEF C
  <2> QED BY <1>2, <2>1
<1>4. /\ NumPlaylists(rs) = 1 + Len(rs.std) /\ RowList(rs, 0) = Library
      /\ \A r \in Int : /\ r \in 1 .. Len(rs.std) => RowList(rs, r) = rs.std[r]
                        /\ r \notin 0 .. Len(rs.std) => RowList(rs, r) = None
  <2>1. 0 \in Int
    OBVIOUS
  <2> QED BY <1>2, <1>3, <2>1, RowListPlain
<1>5. 1 .. Len(rs.std) \subseteq Int /\ DOMAIN rs.std = 1 .. Len(rs.std)
  BY <1>1
<1> QED BY <1>1, <1>2, <1>3, <1>4, <1>5

\* The facts about the rows before a step, and those after it
LEMMA RowsBefore ==
    ASSUME TypeOK, Base(rows) = 1
    PROVE  /\ rows \in RowsOf(Objects) /\ ~rows.mic /\ rows.cds = <<>>
           /\ rows.std \in Seq(Objects) /\ IsInjective(rows.std)
           /\ Len(rows.std) \in Nat /\ DOMAIN rows.std = 1 .. Len(rows.std)
           /\ Rows = 0 .. Len(rows.std)
           /\ RowList(rows, 0) = Library /\ Library \notin ToSet(rows.std)
           /\ \A r \in 1 .. Len(rows.std) : RowList(rows, r) = rows.std[r]
           /\ \A r \in Int : r \notin 0 .. Len(rows.std) => RowList(rows, r) = None
           /\ Objects \subseteq Nat /\ None \notin Objects /\ None \notin Nat
<1>1. rows \in RowsOf(Objects) /\ Objects \subseteq Nat
  BY TypeFacts
<1>2. IsInjective(rows.std) /\ Library \notin ToSet(rows.std)
  BY DEF TypeOK
<1>3. None \notin Nat
  BY DEF None
<1>4. NumPlaylists(rows) = 1 + Len(rows.std) /\ Len(rows.std) \in Nat
  BY <1>1, BaseOneRows
<1>5. Rows = 0 .. Len(rows.std)
  BY <1>4 DEF Rows
<1> QED BY <1>1, <1>2, <1>3, <1>5, BaseOneRows

LEMMA RowsAfter ==
    ASSUME TypeOK', Base(rows') = 1
    PROVE  /\ Len(rows'.std) \in Nat
           /\ RowList(rows', 0) = Library
           /\ \A r \in 1 .. Len(rows'.std) : RowList(rows', r) = rows'.std[r]
<1>1. rows' \in RowsOf(Objects')
  BY DEF TypeOK
<1> QED BY <1>1, BaseOneRows

\* An active row that is right is one of the rows.
LEMMA ActiveRowRange ==
    ASSUME TypeOK, Base(rows) = 1, ActiveRight
    PROVE  /\ active \in [row : Nat, list : Objects]
           /\ active.row \in 0 .. Len(rows.std)
           /\ active.row = 0 => active.list = Library
           /\ active.row # 0 => /\ active.row \in 1 .. Len(rows.std)
                                /\ active.list = rows.std[active.row]
<1>1. active \in [row : Nat, list : Objects] /\ active.row \in Int
  BY TypeFacts
<1>2. active.row \in 0 .. Len(rows.std)
  BY <1>1, RowsBefore DEF ActiveRight
<1>3. active.row # 0 => active.row \in 1 .. Len(rows.std)
  BY <1>2
<1> QED BY <1>1, <1>2, <1>3, RowsBefore DEF ActiveRight

\* A row where a list stands becomes active with that list.
LEMMA ActiveChoose ==
    ASSUME TypeOK, ActiveRight, Choose, RowList(rows, window.row) # None
    PROVE  ActiveRight'
<1>1. \A r \in Rows : RowList(rows, r) # None
  <2>1. Rows \subseteq Int /\ \A r \in Rows : RowList(rows, r) \in Objects
    <3>1. NumPlaylists(rows) \in Nat
      BY TypeFacts, RowListType
    <3>2. Rows \subseteq Int /\ Rows = 0 .. NumPlaylists(rows) - 1
      BY <3>1 DEF Rows
    <3> QED BY <3>2, TypeFacts, RowListType
  <2> QED BY <2>1, TypeFacts DEF None
<1>2. \A r : RowList(rows, r) # None =>
         RowList(rows, SetActive(rows, active, r).row) = SetActive(rows, active, r).list
  BY DEF SetActive, ActiveRight
<1>3. /\ rows' = rows
      /\ \/ active' = active
         \/ \E r : RowList(rows, r) # None /\ active' = SetActive(rows, active, r)
  BY <1>1 DEF Choose, ShowRow, PlayFromView, SwitchTo, SwitchToID, Lists
<1> QED BY <1>2, <1>3 DEF ActiveRight

\* A new list stands below the others.
LEMMA ActiveNewList ==
    ASSUME TypeOK, TypeOK', Base(rows) = 1, Base(rows') = 1, ActiveRight,
           NEW shown \in BOOLEAN, NewList(shown)
    PROVE  ActiveRight'
<1> DEFINE n == Made + 1
<1>1. rows' = [rows EXCEPT !.std = Append(@, n)] /\ active' = active
  BY DEF NewList
<1> HIDE DEF n
<1>2. rows'.std = Append(rows.std, n)
  BY <1>1, RowsBefore DEF RowsOf
<1>3. \A r \in 1 .. Len(rows.std) : r \in 1 .. Len(rows'.std) /\ rows'.std[r] = rows.std[r]
  BY <1>2, RowsBefore
<1> QED BY <1>1, <1>3, ActiveRowRange, RowsBefore, RowsAfter DEF ActiveRight

\* A drag within the user's lists, when the active row is right: from row to row.
LEMMA DragRows ==
    ASSUME TypeOK, Base(rows) = 1,
           NEW from \in Rows, NEW hit \in Rows \cup {None}, Drag(from, hit)
    PROVE  LET to == DropRow(from, hit) IN
           /\ from \in 0 .. Len(rows.std) /\ to \in 0 .. Len(rows.std)
           /\ \/ /\ from \in 1 .. Len(rows.std) /\ from # to
                 /\ rows'.std = Moved(rows.std, from, to - 1)
                 /\ active' = [active EXCEPT !.row = RowAfterMove(@, from, to)]
              \/ UNCHANGED <<rows, active>>
           /\ (ActiveRight /\ from \in 1 .. Len(rows.std)) => to # 0
<1> DEFINE to == DropRow(from, hit)
<1>1. Len(rows.std) \in Nat /\ from \in 0 .. Len(rows.std)
      /\ hit \in 0 .. Len(rows.std) \cup {None} /\ from \in Nat
  BY RowsBefore
<1>2. to \in 0 .. Len(rows.std)
  BY <1>1 DEF DropRow, None
<1>3. /\ hit = None \/ ListAt(rows, active, hit) \in ToSet(rows.std)
      /\ \/ /\ from # to /\ from - Base(rows) + 1 \in DOMAIN rows.std
            /\ rows' = [rows EXCEPT !.std = Moved(@, from - Base(rows) + 1, to - Base(rows))]
            /\ active' = [active EXCEPT !.row = RowAfterMove(@, from, to)]
         \/ UNCHANGED <<rows, active>>
  BY DEF Drag
<1>4. from - Base(rows) + 1 = from
  BY <1>1
<1>5. ASSUME ActiveRight, from \in 1 .. Len(rows.std) PROVE to # 0
  <2>1. ListAt(rows, active, 0) = Library
    BY <1>5, RowsBefore DEF ListAt, ActiveRight
  <2>2. hit # 0
    BY <1>3, <2>1, RowsBefore DEF None
  <2> QED BY <1>1, <1>5, <2>2 DEF DropRow, None
<1> HIDE DEF to
<1>6. \/ /\ from \in 1 .. Len(rows.std) /\ from # to
         /\ rows'.std = Moved(rows.std, from, to - 1)
         /\ active' = [active EXCEPT !.row = RowAfterMove(@, from, to)]
      \/ UNCHANGED <<rows, active>>
  <2>1. CASE UNCHANGED <<rows, active>>
    BY <2>1
  <2>2. CASE /\ from # to /\ from \in DOMAIN rows.std
             /\ rows' = [rows EXCEPT !.std = Moved(@, from, to - 1)]
             /\ active' = [active EXCEPT !.row = RowAfterMove(@, from, to)]
    <3> DEFINE std == Moved(rows.std, from, to - 1)
    <3>1. rows' = [rows EXCEPT !.std = std]
      BY <2>2
    <3> HIDE DEF std
    <3>2. rows'.std = std
      BY <3>1, RowsBefore DEF RowsOf
    <3> QED BY <2>2, <3>2, RowsBefore DEF std
  <2> QED BY <1>3, <1>4, <2>1, <2>2
<1> QED BY <1>1, <1>2, <1>5, <1>6 DEF to

\* The active row follows its list, but for a list from above that is dropped right
\* below the active one.
LEMMA ActiveDrag ==
    ASSUME TypeOK, TypeOK', Base(rows) = 1, Base(rows') = 1, ActiveRight,
           NEW from \in Rows, NEW hit \in Rows \cup {None}, Drag(from, hit)
    PROVE  \/ ActiveRight'
           \/ /\ rows'.std # rows.std /\ Len(rows'.std) = Len(rows.std)
              /\ from \in 1 .. active.row - 1
              /\ rows'.std = Moved(rows.std, from, active.row - 1)
<1> DEFINE to == DropRow(from, hit)
           j  == active.row
           n  == Len(rows.std)
<1>1. CASE UNCHANGED <<rows, active>>
  BY <1>1 DEF ActiveRight
<1>2. CASE /\ from \in 1 .. n /\ from # to
           /\ rows'.std = Moved(rows.std, from, to - 1)
           /\ active' = [active EXCEPT !.row = RowAfterMove(@, from, to)]
  <2>1. n \in Nat /\ to \in 1 .. n /\ j \in 0 .. n
    <3>1. n \in Nat /\ to \in 0 .. n /\ to # 0
      BY <1>2, DragRows, RowsBefore
    <3> QED BY <3>1, ActiveRowRange
  <2> HIDE DEF to, n
  <2>2. active'.row = RowAfterMove(j, from, to) /\ active'.list = active.list
    BY <1>2, ActiveRowRange
  <2>3. /\ Len(rows'.std) = n /\ rows'.std[to] = rows.std[from]
        /\ \A k \in 1 .. n : k # from => rows'.std[Passed(k, from, to)] = rows.std[k]
    BY <1>2, <2>1, RowsBefore, MovedAt DEF n
  <2>4. RowList(rows', 0) = Library /\ \A r \in 1 .. n : RowList(rows', r) = rows'.std[r]
    BY <2>3, RowsAfter
  <2>5. CASE j = 0
    <3>1. RowAfterMove(j, from, to) = 0
      BY <1>2, <2>1, <2>5 DEF RowAfterMove
    <3> QED BY <2>2, <2>4, <2>5, <3>1, ActiveRowRange DEF ActiveRight
  <2>6. CASE j = from
    <3>1. RowAfterMove(j, from, to) = to
      BY <1>2, <2>1, <2>6 DEF RowAfterMove
    <3>2. active.list = rows.std[from]
      BY <1>2, <2>1, <2>6, ActiveRowRange
    <3> QED BY <2>1, <2>2, <2>3, <2>4, <3>1, <3>2 DEF ActiveRight
  <2>7. CASE j # 0 /\ j # from /\ ~(from < j /\ to = j)
    <3>1. RowAfterMove(j, from, to) = Passed(j, from, to)
      BY <1>2, <2>1, <2>7 DEF RowAfterMove, Passed
    <3>2. Passed(j, from, to) \in 1 .. n /\ j \in 1 .. n
      BY <1>2, <2>1, <2>7 DEF Passed
    <3>3. active.list = rows.std[j]
      BY <2>7, ActiveRowRange
    <3> QED BY <2>2, <2>3, <2>4, <2>7, <3>1, <3>2, <3>3 DEF ActiveRight
  <2>8. CASE from < j /\ to = j
    <3>1. from \in 1 .. j - 1
      BY <1>2, <2>1, <2>8
    <3>2. rows.std[to] # rows.std[from]
      BY <1>2, <2>1, RowsBefore DEF IsInjective, n
    <3>3. rows'.std # rows.std
      BY <2>3, <3>2
    <3> QED BY <1>2, <2>3, <2>8, <3>1, <3>3 DEF n
  <2> QED BY <2>5, <2>6, <2>7, <2>8
<1> QED BY <1>1, <1>2, DragRows

\* With no device before the rows, an index among the user's lists that is less
\* than the active row is a row above it.
LEMMA ActiveDeleteRow ==
    ASSUME TypeOK, TypeOK', Base(rows) = 1, Base(rows') = 1, ActiveRight,
           NEW r \in Rows, DeleteRow(r)
    PROVE  ActiveRight'
<1> DEFINE act == LibraryIfActive(r)
           i   == r - Base(rows) + 1
           n   == Len(rows.std)
<1>1. n \in Nat /\ r \in 0 .. n /\ r > 0 /\ i = r /\ r \in Nat
  BY RowsBefore DEF DeleteRow
<1>2. /\ act \in [row : Nat, list : Objects]
      /\ act.row \in 0 .. n
      /\ act.row = 0 => act.list = Library
      /\ act.row # 0 => act.list = rows.std[act.row] /\ act.row # r
  <2>1. SetActive(rows, active, 0) = [row |-> 0, list |-> Library]
    <3>1. Library # None
      BY DEF Library, None
    <3>2. CASE active.row = 0
      BY <3>2, ActiveRowRange DEF SetActive
    <3>3. CASE active.row # 0
      BY <3>1, <3>3, RowsBefore DEF SetActive
    <3> QED BY <3>2, <3>3
  <2>2. CASE ListAt(rows, active, r) = active.list
    <3>1. act = [row |-> 0, list |-> Library]
      BY <2>1, <2>2 DEF LibraryIfActive
    <3> QED BY <1>1, <3>1, TypeFacts
  <2>3. CASE ListAt(rows, active, r) # active.list
    <3>1. act = active /\ r # active.row
      BY <2>3 DEF LibraryIfActive, ListAt
    <3> QED BY <3>1, ActiveRowRange
  <2> QED BY <2>2, <2>3
<1>5. \/ /\ i \in DOMAIN rows.std
         /\ rows' = [rows EXCEPT !.std = Without(@, i)]
         /\ active' = [act EXCEPT !.row = RowAfterDelete(@, i)]
      \/ active' = act /\ UNCHANGED rows
  BY DEF DeleteRow
<1> HIDE DEF act
<1>3. CASE /\ i \in DOMAIN rows.std
           /\ rows' = [rows EXCEPT !.std = Without(@, i)]
           /\ active' = [act EXCEPT !.row = RowAfterDelete(@, i)]
  <2>1. r \in 1 .. n /\ active'.row = RowAfterDelete(act.row, r) /\ active'.list = act.list
    BY <1>1, <1>2, <1>3
  <2> DEFINE std == Without(rows.std, r)
  <2>2. rows'.std = std
    <3>1. rows' = [rows EXCEPT !.std = std]
      BY <1>1, <1>3
    <3> HIDE DEF std
    <3> QED BY <3>1, RowsBefore DEF RowsOf
  <2>3. /\ Len(std) = n - 1
        /\ \A j \in 1 .. r - 1 : std[j] = rows.std[j]
        /\ \A j \in r + 1 .. n : std[j - 1] = rows.std[j]
    <3>1. rows.std \in Seq(Objects) /\ r \in DOMAIN rows.std
      BY <2>1, RowsBefore
    <3> QED BY <3>1, WithoutSeq, WithoutAt
  <2> HIDE DEF std
  <2>4. RowList(rows', 0) = Library /\ \A k \in 1 .. n - 1 : RowList(rows', k) = std[k]
    BY <2>2, <2>3, RowsAfter
  <2> HIDE DEF n
  <2>5. CASE act.row = 0
    <3>1. RowAfterDelete(act.row, r) = 0
      BY <1>1, <2>5 DEF RowAfterDelete
    <3> QED BY <1>2, <2>1, <2>4, <2>5, <3>1 DEF ActiveRight
  <2>6. CASE act.row # 0 /\ act.row < r
    <3>1. RowAfterDelete(act.row, r) = act.row
      BY <1>1, <1>2, <2>6 DEF RowAfterDelete
    <3>2. act.row \in 1 .. r - 1 /\ act.row \in 1 .. n - 1
      BY <1>1, <1>2, <2>6
    <3> QED BY <1>2, <2>1, <2>3, <2>4, <2>6, <3>1, <3>2 DEF ActiveRight
  <2>7. CASE act.row # 0 /\ ~(act.row < r)
    <3>1. RowAfterDelete(act.row, r) = act.row - 1
      BY <1>1, <1>2, <2>7 DEF RowAfterDelete
    <3>2. act.row \in r + 1 .. n /\ act.row - 1 \in 1 .. n - 1
      BY <1>1, <1>2, <2>7
    <3> QED BY <1>2, <2>1, <2>3, <2>4, <2>7, <3>1, <3>2 DEF ActiveRight
  <2> QED BY <2>5, <2>6, <2>7
<1>4. CASE active' = act /\ UNCHANGED rows
  <2>1. act.row # 0 => act.row \in 1 .. n
    BY <1>1, <1>2
  <2> QED BY <1>2, <1>4, <2>1, RowsBefore DEF ActiveRight
<1> QED BY <1>3, <1>4, <1>5

\* The facts about the rows with or without devices, before a step and after it
LEMMA TypeBefore ==
    ASSUME TypeOK
    PROVE  /\ rows \in RowsOf(Objects) /\ Library \in Objects /\ MicList \in Objects
           /\ None \notin Objects /\ active \in [row : Nat, list : Objects]
           /\ window \in [visible : Nat, row : Nat, list : Objects]
           /\ rows.std \in Seq(Objects) /\ Len(rows.std) \in Nat
           /\ DOMAIN rows.std = 1 .. Len(rows.std)
           /\ Base(rows) \in Nat \ {0} /\ NumPlaylists(rows) = Base(rows) + Len(rows.std)
           /\ Rows = 0 .. NumPlaylists(rows) - 1
<1>1. /\ rows \in RowsOf(Objects) /\ Library \in Objects /\ MicList \in Objects
      /\ Objects \subseteq Nat /\ active \in [row : Nat, list : Objects]
      /\ window \in [visible : Nat, row : Nat, list : Objects]
  BY TypeFacts
<1>2. None \notin Objects
  BY <1>1 DEF None
<1>3. rows.std \in Seq(Objects) /\ Len(rows.std) \in Nat /\ DOMAIN rows.std = 1 .. Len(rows.std)
  BY <1>1 DEF RowsOf
<1>4. Base(rows) \in Nat \ {0}
  <2>1. 0 \in Int
    OBVIOUS
  <2> QED BY <1>1, <2>1, RowListType
<1> QED BY <1>1, <1>2, <1>3, <1>4 DEF NumPlaylists, Rows

LEMMA TypeAfter ==
    ASSUME TypeOK'
    PROVE  /\ rows' \in RowsOf(Objects') /\ Library \in Objects' /\ MicList \in Objects'
           /\ None \notin Objects' /\ active' \in [row : Nat, list : Objects']
           /\ Base(rows') \in Nat \ {0} /\ Len(rows'.std) \in Nat
           /\ NumPlaylists(rows') = Base(rows') + Len(rows'.std)
<1>1. /\ rows' \in RowsOf(Objects') /\ active' \in [row : Nat, list : Objects']
      /\ Made' \in 1 .. MaxMade
  BY DEF TypeOK
<1>2. Objects' = 0 .. Made' /\ MaxMade \in Nat
  BY ManagerAssumption DEF Objects, ManagerAssumption
<1>3. Library \in Objects' /\ MicList \in Objects' /\ None \notin Objects'
  BY <1>1, <1>2 DEF Library, MicList, None
<1>4. Base(rows') \in Nat \ {0}
  <2>1. 0 \in Int
    OBVIOUS
  <2> QED BY <1>1, <1>3, <2>1, RowListType
<1>5. Len(rows'.std) \in Nat /\ NumPlaylists(rows') = Base(rows') + Len(rows'.std)
  BY <1>1 DEF RowsOf, NumPlaylists
<1> QED BY <1>1, <1>3, <1>4, <1>5

\* A CD stands before the user's lists.
LEMMA ArrivalBase ==
    ASSUME TypeOK, TypeOK', NEW d \in Drives, CDArrives(d)
    PROVE  Base(rows') # 1
<1> SUFFICES ASSUME Base(rows') = 1 PROVE FALSE
  OBVIOUS
<1>1. rows'.cds = <<>>
  BY TypeAfter, BaseOneRows
<1> DEFINE c == [drive |-> d, list |-> Made + 1]
           C == [drive : Drives, list : Objects]
<1>2. rows' = [rows EXCEPT !.cds = Append(@, c)]
  BY DEF CDArrives
<1> HIDE DEF c
<1>3. rows'.cds = Append(rows.cds, c)
  BY <1>2, TypeBefore DEF RowsOf
<1>4. rows.cds \in Seq(C)
  BY TypeFacts
<1> HIDE DEF C
<1>5. Append(rows.cds, c) # <<>>
  BY <1>4
<1> QED BY <1>1, <1>3, <1>5

\* A device that comes or goes stands before the user's lists.
LEMMA DevicesMove ==
    ASSUME TypeOK, TypeOK', Devices
    PROVE  Base(rows) # 1 \/ Base(rows') # 1
<1> SUFFICES ASSUME Base(rows) = 1, Base(rows') = 1 PROVE FALSE
  OBVIOUS
<1>1. ~rows.mic /\ rows.cds = <<>> /\ DOMAIN rows.cds = {}
  BY RowsBefore
<1>2. ~rows'.mic /\ rows'.cds = <<>>
  <2>1. rows' \in RowsOf(Objects')
    BY DEF TypeOK
  <2> QED BY <2>1, BaseOneRows
<1>3. CASE EnableMic
  <2>1. rows' = [rows EXCEPT !.mic = TRUE]
    BY <1>3 DEF EnableMic
  <2> QED BY <1>2, <2>1, RowsBefore DEF RowsOf
<1>4. CASE \E d \in Drives : CDArrives(d)
  BY <1>4, ArrivalBase
<1> QED BY <1>1, <1>3, <1>4 DEF Devices, DisableMic

\* The next start finds the active row by the ID and takes the list from it.
LEMMA ActiveRestart ==
    ASSUME TypeOK, TypeOK', Base(rows') = 1, NEW discs \in Discs, Restart(discs)
    PROVE  ActiveRight' /\ active'.row = window'.row /\ active'.list = window'.list
           /\ window'.visible = window'.row
<1> DEFINE rs == [mic |-> FALSE, std |-> rows.std,
                  cds |-> [k \in DOMAIN discs |-> [drive |-> discs[k], list |-> Made + k]]]
<1>1. /\ rows' = [rs EXCEPT !.mic = rows.mic]
      /\ \E row \in 0 .. NumPlaylists(rs) - 1 :
            /\ active' = [row |-> row, list |-> RowList(rs, row)]
            /\ window' = [visible |-> row, row |-> row, list |-> RowList(rs, row)]
  BY DEF Restart
<1>2. rows' = rs
  <2>1. ~rows'.mic
    <3>1. rows' \in RowsOf(Objects')
      BY DEF TypeOK
    <3> QED BY <3>1, BaseOneRows
  <2>2. rs.mic = FALSE /\ rows'.mic = rows.mic /\ rows.mic \in BOOLEAN
    BY <1>1, TypeFacts
  <2> QED BY <1>1, <2>1, <2>2
<1> HIDE DEF rs
<1> QED BY <1>1, <1>2 DEF ActiveRight

\* The row of the active list, on which GetPlaylistByIndex, the delete commands and
\* the list's highlight rely, is corrected by every operation on the user's lists
\* but the named one.
THEOREM ActiveRowIsKept == Spec => ActiveRowKept
<1>1. TypeOK /\ TypeOK' /\ [Next]_vars =>
         [(ActiveRight /\ ~ActiveRight') =>
             \/ Base(rows) # 1 \/ Base(rows') # 1
             \/ rows'.std # rows.std /\ Len(rows'.std) = Len(rows.std)
                /\ \E from \in 1 .. active.row - 1 : rows'.std = Moved(rows.std, from, active.row - 1)
             \/ RowList(rows, window.row) = None]_vars
  <2> SUFFICES ASSUME TypeOK, TypeOK', Next, ActiveRight, ~ActiveRight',
                      Base(rows) = 1, Base(rows') = 1, RowList(rows, window.row) # None
               PROVE  /\ rows'.std # rows.std /\ Len(rows'.std) = Len(rows.std)
                      /\ \E from \in 1 .. active.row - 1 :
                            rows'.std = Moved(rows.std, from, active.row - 1)
    OBVIOUS
  <2>1. CASE Choose
    BY <2>1, ActiveChoose
  <2>2. CASE Arrange
    BY <2>2, ActiveNewList, ActiveDrag, ActiveDeleteRow DEF Arrange
  <2>3. CASE Devices
    BY <2>3, DevicesMove
  <2>4. CASE \E discs \in Discs : Restart(discs)
    BY <2>4, ActiveRestart
  <2> QED BY <2>1, <2>2, <2>3, <2>4 DEF Next
<1> QED BY <1>1, TypeCorrect, PTL DEF Spec, ActiveRowKept
----------------------------------------------------------------------------
(***************************************************************************)
(* The IDs.                                                                *)
(***************************************************************************)

\* Every list that stands in a row was made.
LEMMA ListedMade ==
    ASSUME TypeOK
    PROVE  Listed(rows) \subseteq Objects
<1> DEFINE C == [drive : Drives, list : Objects]
<1>1. rows.cds \in Seq(C)
  BY TypeFacts
<1>2. \A c \in C : c.list \in Objects
  OBVIOUS
<1> HIDE DEF C
<1>3. ToSet(rows.cds) \subseteq C
  BY <1>1 DEF ToSet
<1>4. ToSet(rows.std) \subseteq Objects
  <2>1. rows.std \in Seq(Objects)
    BY TypeFacts
  <2> QED BY <2>1 DEF ToSet
<1> QED BY <1>2, <1>3, <1>4, TypeFacts DEF Listed

\* The loop over m_ulPlaylistID gives a new list an ID that no list in a row has.
LEMMA NewIDUnique ==
    ASSUME TypeOK, IDsUnique, NEW id, FreeID(rows, ids, nextID, id),
           ids' = [l \in 0 .. Made + 1 |-> IF l <= Made THEN ids[l] ELSE id],
           Listed(rows') \subseteq Listed(rows) \cup {Made + 1}
    PROVE  IDsUnique'
<1>1. Made \in Nat /\ Listed(rows) \subseteq 0 .. Made
  BY TypeFacts, ListedMade
<1>2. \A l \in Listed(rows) : ids'[l] = ids[l] /\ ids[l] # id
  BY <1>1 DEF FreeID, FirstFree
<1>3. ids'[Made + 1] = id
  BY <1>1
<1> QED BY <1>2, <1>3 DEF IDsUnique

LEMMA IDsArrange ==
    ASSUME TypeOK, IDsUnique, Arrange
    PROVE  IDsUnique'
<1>1. rows \in RowsOf(Objects) /\ rows.std \in Seq(Objects) /\ IsInjective(rows.std)
  BY TypeFacts DEF TypeOK
<1>2. CASE \E shown \in BOOLEAN : NewList(shown)
  <2> DEFINE n == Made + 1
  <2>1. /\ rows' = [rows EXCEPT !.std = Append(@, n)]
        /\ \E id \in Above(nextID) :
              /\ FreeID(rows, ids, nextID, id)
              /\ ids' = [l \in 0 .. n |-> IF l <= Made THEN ids[l] ELSE id]
    BY <1>2 DEF NewList
  <2>2. rows.std \in Seq(Nat) /\ n \in Nat
    <3>1. Objects \subseteq Nat /\ Made \in Nat
      BY TypeFacts
    <3>2. rows.std \in Seq(Nat)
      BY <1>1, <3>1, SeqMonotonic
    <3> QED BY <3>1, <3>2
  <2> HIDE DEF n
  <2>3. ToSet(Append(rows.std, n)) = ToSet(rows.std) \cup {n}
    BY <2>2, AppendSeq
  <2>4. /\ rows'.std = Append(rows.std, n) /\ rows'.mic = rows.mic /\ rows'.cds = rows.cds
    BY <1>1, <2>1 DEF RowsOf
  <2>5. Listed(rows') \subseteq Listed(rows) \cup {n}
    BY <2>3, <2>4 DEF Listed
  <2> QED BY <2>1, <2>5, NewIDUnique DEF n
<1>3. CASE \E from \in Rows, hit \in Rows \cup {None} : Drag(from, hit)
  <2>1. PICK from \in Rows, hit \in Rows \cup {None} : Drag(from, hit)
    BY <1>3
  <2> DEFINE to == DropRow(from, hit)
             i  == from - Base(rows) + 1
             k  == to - Base(rows)
  <2>2. /\ ids' = ids
        /\ \/ i \in DOMAIN rows.std /\ rows' = [rows EXCEPT !.std = Moved(@, i, k)]
           \/ rows' = rows
    BY <2>1 DEF Drag
  <2>3. k \in Int
    <3>1. Base(rows) \in Nat /\ NumPlaylists(rows) \in Nat
      <4>1. 0 \in Int
        OBVIOUS
      <4> QED BY <4>1, TypeFacts, RowListType
    <3>2. from \in Nat /\ hit \in Nat \cup {None}
      BY <3>1 DEF Rows
    <3>3. to \in Nat
      BY <3>2, RowsAfterDrag
    <3> HIDE DEF to
    <3> QED BY <3>1, <3>3
  <2> HIDE DEF i, k
  <2>4. CASE i \in DOMAIN rows.std /\ rows' = [rows EXCEPT !.std = Moved(@, i, k)]
    <3> DEFINE std == Moved(rows.std, i, k)
    <3>1. ToSet(std) = ToSet(rows.std)
      BY <1>1, <2>3, <2>4, MovedSeq
    <3>2. rows' = [rows EXCEPT !.std = std]
      BY <2>4
    <3> HIDE DEF std
    <3>3. rows'.std = std /\ rows'.mic = rows.mic /\ rows'.cds = rows.cds
      BY <1>1, <3>2 DEF RowsOf
    <3>4. Listed(rows') = Listed(rows)
      BY <3>1, <3>3 DEF Listed
    <3> QED BY <2>2, <3>4 DEF IDsUnique
  <2> QED BY <2>2, <2>4 DEF IDsUnique
<1>4. CASE \E r \in Rows : DeleteRow(r)
  <2>1. PICK r \in Rows : DeleteRow(r)
    BY <1>4
  <2> DEFINE i == r - Base(rows) + 1
  <2>2. /\ ids' = ids
        /\ \/ i \in DOMAIN rows.std /\ rows' = [rows EXCEPT !.std = Without(@, i)]
           \/ rows' = rows
    BY <2>1 DEF DeleteRow
  <2> HIDE DEF i
  <2>3. CASE i \in DOMAIN rows.std /\ rows' = [rows EXCEPT !.std = Without(@, i)]
    <3> DEFINE std == Without(rows.std, i)
    <3>1. ToSet(std) \subseteq ToSet(rows.std)
      BY <1>1, <2>3, WithoutSeq
    <3>2. rows' = [rows EXCEPT !.std = std]
      BY <2>3
    <3> HIDE DEF std
    <3>3. rows'.std = std /\ rows'.mic = rows.mic /\ rows'.cds = rows.cds
      BY <1>1, <3>2 DEF RowsOf
    <3>4. Listed(rows') \subseteq Listed(rows)
      BY <3>1, <3>3 DEF Listed
    <3> QED BY <2>2, <3>4 DEF IDsUnique
  <2> QED BY <2>2, <2>3 DEF IDsUnique
<1> QED BY <1>2, <1>3, <1>4 DEF Arrange

\* A device that leaves, or a microphone that is disabled, takes its ID along; a CD
\* that arrives is given a new one.
LEMMA IDsDevices ==
    ASSUME TypeOK, IDsUnique, Devices, ~(rows'.mic /\ ~rows.mic)
    PROVE  IDsUnique'
<1> DEFINE C == [drive : Drives, list : Objects]
<1>1. rows \in RowsOf(Objects) /\ rows.mic \in BOOLEAN /\ rows.cds \in Seq(C)
  BY TypeFacts
<1> HIDE DEF C
<1>2. ~EnableMic
  BY <1>1 DEF EnableMic, RowsOf
<1>3. CASE DisableMic
  <2>1. rows' = [rows EXCEPT !.mic = FALSE] /\ ids' = ids
    BY <1>3 DEF DisableMic
  <2>2. rows'.std = rows.std /\ rows'.cds = rows.cds /\ ~rows'.mic
    BY <1>1, <2>1 DEF RowsOf
  <2>3. Listed(rows') \subseteq Listed(rows)
    BY <2>2 DEF Listed
  <2> QED BY <2>1, <2>3 DEF IDsUnique
<1>4. CASE \E x \in DOMAIN rows.cds : CDLeaves(x)
  <2>1. PICK x \in DOMAIN rows.cds : rows' = [rows EXCEPT !.cds = Without(@, x)] /\ ids' = ids
    BY <1>4 DEF CDLeaves
  <2> DEFINE cds == Without(rows.cds, x)
  <2>2. rows' = [rows EXCEPT !.cds = cds]
    BY <2>1
  <2>3. ToSet(cds) \subseteq ToSet(rows.cds)
    <3>1. Len(rows.cds) \in Nat /\ DOMAIN rows.cds = 1 .. Len(rows.cds) /\ x \in 1 .. Len(rows.cds)
      BY <1>1
    <3>2. DOMAIN cds = 1 .. Len(rows.cds) - 1
      BY DEF Without
    <3>3. \A k \in 1 .. Len(rows.cds) - 1 : \E j \in DOMAIN rows.cds : cds[k] = rows.cds[j]
      <4>1. TAKE k \in 1 .. Len(rows.cds) - 1
      <4>2. cds[k] = rows.cds[IF k < x THEN k ELSE k + 1]
        BY DEF Without
      <4>3. (IF k < x THEN k ELSE k + 1) \in DOMAIN rows.cds
        BY <3>1
      <4> QED BY <4>2, <4>3
    <3> HIDE DEF cds
    <3> QED BY <3>2, <3>3 DEF ToSet
  <2> HIDE DEF cds
  <2>4. rows'.std = rows.std /\ rows'.cds = cds /\ rows'.mic = rows.mic
    BY <1>1, <2>2 DEF RowsOf
  <2>5. Listed(rows') \subseteq Listed(rows)
    BY <2>3, <2>4 DEF Listed
  <2> QED BY <2>1, <2>5 DEF IDsUnique
<1>5. CASE \E d \in Drives : CDArrives(d)
  <2>1. PICK d \in Drives :
           /\ rows' = [rows EXCEPT !.cds = Append(@, [drive |-> d, list |-> Made + 1])]
           /\ \E id \in Above(nextID) :
                 /\ FreeID(rows, ids, nextID, id)
                 /\ ids' = [l \in 0 .. Made + 1 |-> IF l <= Made THEN ids[l] ELSE id]
    BY <1>5 DEF CDArrives
  <2> DEFINE c == [drive |-> d, list |-> Made + 1]
             n == Made + 1
             E == C \cup {c}
  <2>2. c.list = n
    OBVIOUS
  <2>3. rows.cds \in Seq(E) /\ c \in E
    <3> HIDE DEF c
    <3> QED BY <1>1, SeqMonotonic
  <2>4. rows' = [rows EXCEPT !.cds = Append(@, c)]
    BY <2>1
  <2> HIDE DEF c, n, E
  <2>5. ToSet(Append(rows.cds, c)) = ToSet(rows.cds) \cup {c}
    BY <2>3, AppendSeq
  <2>6. rows'.std = rows.std /\ rows'.cds = Append(rows.cds, c) /\ rows'.mic = rows.mic
    BY <1>1, <2>4 DEF RowsOf
  <2>7. Listed(rows') \subseteq Listed(rows) \cup {n}
    BY <2>2, <2>5, <2>6 DEF Listed
  <2> QED BY <2>1, <2>7, NewIDUnique DEF n
<1> QED BY <1>2, <1>3, <1>4, <1>5 DEF Devices

\* At a start without CDs the saved lists have the IDs they had, and the microphone
\* is given one that none of them has.
LEMMA IDsRestart ==
    ASSUME TypeOK, IDsUnique, Restart(<<>>)
    PROVE  IDsUnique'
<1> DEFINE rs  == [mic |-> FALSE, std |-> rows.std,
                   cds |-> [k \in DOMAIN <<>> |-> [drive |-> <<>>[k], list |-> Made + k]]]
           now == [l \in 0 .. Made + Len(<<>>) |->
                      IF l <= Made THEN ids[l] ELSE FirstID + l - Made - 1]
<1>1. /\ rows' = [rs EXCEPT !.mic = rows.mic]
      /\ \E id \in Above(FirstID) :
            FirstFree(rs, now, FirstID, id) /\ ids' = [now EXCEPT ![MicList] = id]
  BY DEF Restart
<1>2. rs = [mic |-> FALSE, std |-> rows.std, cds |-> <<>>]
  OBVIOUS
<1>3. now = [l \in 0 .. Made |-> ids[l]]
  <2>1. Made \in Nat /\ Len(<<>>) = 0
    BY TypeFacts
  <2> QED BY <2>1
<1> HIDE DEF rs, now
<1>4. rows'.mic = rows.mic /\ rows'.std = rows.std /\ rows'.cds = <<>> /\ rows.mic \in BOOLEAN
  BY <1>1, <1>2, TypeFacts
<1> DEFINE kept == {Library} \cup ToSet(rows.std)
<1>5. ToSet(<<>>) = {}
  BY DEF ToSet
<1>6. Listed(rs) = kept
  BY <1>2, <1>5 DEF Listed
<1>7. /\ kept \subseteq Listed(rows) /\ MicList \notin kept
      /\ Listed(rows') \subseteq kept \cup {MicList}
  <2>1. MicList \notin kept
    BY DEF TypeOK, Library, MicList
  <2> QED BY <1>4, <1>5, <2>1 DEF Listed
<1>8. kept \subseteq 0 .. Made /\ MicList \in 0 .. Made
  BY <1>7, ListedMade, TypeFacts
<1> HIDE DEF kept
<1>9. PICK id : FirstFree(rs, now, FirstID, id) /\ ids' = [now EXCEPT ![MicList] = id]
  BY <1>1
<1>10. ids'[MicList] = id /\ \A l \in kept : ids'[l] = ids[l] /\ ids[l] # id
  <2>1. \A l \in kept : now[l] = ids[l]
    BY <1>3, <1>8
  <2>2. \A l \in kept : now[l] # id
    BY <1>6, <1>9 DEF FirstFree
  <2>3. DOMAIN now = 0 .. Made
    BY <1>3
  <2> QED BY <1>7, <1>8, <1>9, <2>1, <2>2, <2>3
<1> QED BY <1>7, <1>10 DEF IDsUnique

\* The queue, the history and the playlist file know a list by its ID: two lists come
\* to share one only through a microphone that is enabled or a CD at the start.
THEOREM IDsAreKept == Spec => IDsStayUnique
<1>1. TypeOK /\ [Next]_vars =>
         [(IDsUnique /\ ~IDsUnique') =>
             \/ rows'.mic /\ ~rows.mic
             \/ \E discs \in Discs \ {<<>>} : Restart(discs)]_vars
  <2> SUFFICES ASSUME TypeOK, Next, IDsUnique, ~(rows'.mic /\ ~rows.mic),
                      ~ \E discs \in Discs \ {<<>>} : Restart(discs)
               PROVE  IDsUnique'
    OBVIOUS
  <2>1. CASE Choose
    <3>1. rows' = rows /\ ids' = ids
      BY <2>1 DEF Choose, ShowRow, PlayFromView, SwitchTo, SwitchToID, Lists
    <3> QED BY <3>1 DEF IDsUnique
  <2>2. CASE Arrange
    BY <2>2, IDsArrange
  <2>3. CASE Devices
    BY <2>3, IDsDevices
  <2>4. CASE \E discs \in Discs : Restart(discs)
    BY <2>4, IDsRestart
  <2> QED BY <2>1, <2>2, <2>3, <2>4 DEF Next
<1> QED BY <1>1, TypeCorrect, PTL DEF Spec, IDsStayUnique
----------------------------------------------------------------------------
(***************************************************************************)
(* The row of the view.                                                    *)
(***************************************************************************)

\* To show a row that is there makes it the row of the window and of the view.
LEMMA ShowInRows ==
    ASSUME NEW O, Library \in O, MicList \in O, None \notin O, NEW rs \in RowsOf(O),
           NEW act \in [row : Nat, list : O], NEW w,
           NEW r \in 0 .. NumPlaylists(rs) - 1, r # w.visible
    PROVE  Show(rs, act, w, r) = [visible |-> r, row |-> r, list |-> ListAt(rs, act, r)]
<1>1. NumPlaylists(rs) \in Nat
  <2>1. 0 \in Int
    OBVIOUS
  <2> QED BY <2>1, RowListType
<1>2. r \in Int
  BY <1>1
<1>3. ListAt(rs, act, r) \in O
  BY <1>2, RowListType DEF ListAt
<1> QED BY <1>3 DEF Show

\* What is shown is what stands in the row, unless the row is an active one that is
\* wrong.
LEMMA ShowRight ==
    ASSUME NEW rs, NEW act, NEW w, NEW r,
           r = act.row => RowList(rs, r) = act.list, RowList(rs, w.row) = w.list
    PROVE  RowList(rs, Show(rs, act, w, r).row) = Show(rs, act, w, r).list
<1>1. ListAt(rs, act, r) = RowList(rs, r)
  BY DEF ListAt
<1>2. CASE r = w.visible
  BY <1>2 DEF Show
<1>3. CASE r # w.visible /\ ListAt(rs, act, r) = None
  <2>1. Show(rs, act, w, r) = [w EXCEPT !.visible = r]
    BY <1>3 DEF Show
  <2>2. [w EXCEPT !.visible = r].row = w.row /\ [w EXCEPT !.visible = r].list = w.list
    OBVIOUS
  <2> QED BY <2>1, <2>2
<1>4. CASE r # w.visible /\ ListAt(rs, act, r) # None
  BY <1>1, <1>4 DEF Show
<1> QED BY <1>2, <1>3, <1>4

\* A move keeps the number of lists, and a drop names a row that is there.
LEMMA DragInRows ==
    ASSUME TypeOK, TypeOK',
           NEW from \in Rows, NEW hit \in Rows \cup {None}, Drag(from, hit)
    PROVE  /\ Rows = 0 .. NumPlaylists(rows) - 1 /\ NumPlaylists(rows) \in Nat
           /\ DropRow(from, hit) \in Rows
           /\ NumPlaylists(rows') = NumPlaylists(rows)
           /\ from = DropRow(from, hit) => UNCHANGED <<rows, active>>
<1> DEFINE to == DropRow(from, hit)
           i  == from - Base(rows) + 1
           k  == to - Base(rows)
<1>1. /\ rows.std \in Seq(Objects) /\ Len(rows.std) \in Nat /\ Base(rows) \in Nat \ {0}
      /\ NumPlaylists(rows) = Base(rows) + Len(rows.std)
  <2>1. rows \in RowsOf(Objects) /\ Library \in Objects /\ MicList \in Objects /\ 0 \in Int
    BY TypeFacts
  <2>2. Base(rows) \in Nat \ {0}
    BY <2>1, RowListType
  <2>3. rows.std \in Seq(Objects) /\ Len(rows.std) \in Nat
    BY <2>1 DEF RowsOf
  <2> QED BY <2>2, <2>3 DEF NumPlaylists
<1>2. Rows = 0 .. NumPlaylists(rows) - 1
  BY DEF Rows
<1>3. to \in Rows
  BY <1>1, <1>2 DEF DropRow, None
<1>4. \/ /\ from # to /\ i \in DOMAIN rows.std
         /\ rows' = [rows EXCEPT !.std = Moved(@, i, k)]
      \/ UNCHANGED <<rows, active>>
  BY DEF Drag
<1>5. k \in Int
  BY <1>1, <1>2, <1>3
<1> HIDE DEF i, k, to
<1>6. ASSUME i \in DOMAIN rows.std, rows' = [rows EXCEPT !.std = Moved(@, i, k)]
      PROVE  NumPlaylists(rows') = NumPlaylists(rows)
  <2> DEFINE rest == Without(rows.std, i)
             e    == rows.std[i]
             std  == Moved(rows.std, i, k)
  <2>1. rest \in Seq(Objects) /\ Len(rest) = Len(rows.std) - 1 /\ e \in Objects
    <3>1. rows.std \in Seq(Objects) /\ i \in DOMAIN rows.std
      BY <1>1, <1>6
    <3>2. rows.std[i] \in Objects
      BY <3>1
    <3> QED BY <3>1, <3>2, WithoutSeq
  <2>2. std = IF k \in 0 .. Len(rest) THEN With(rest, k + 1, e) ELSE Append(rest, e)
    BY DEF Moved
  <2> HIDE DEF rest, e
  <2>3. Len(Append(rest, e)) = Len(rows.std)
    BY <1>1, <2>1
  <2>4. ASSUME k \in 0 .. Len(rest) PROVE Len(With(rest, k + 1, e)) = Len(rows.std)
    <3> DEFINE n == k + 1
    <3>1. n \in 1 .. Len(rest) + 1
      BY <1>1, <2>1, <2>4
    <3> HIDE DEF n
    <3>2. With(rest, n, e) \in Seq(Objects)
      BY <2>1, <3>1, WithSeq
    <3>3. DOMAIN With(rest, n, e) = 1 .. Len(rows.std)
      BY <1>1, <2>1 DEF With
    <3>4. Len(With(rest, n, e)) = Len(rows.std)
      BY <1>1, <3>2, <3>3
    <3> QED BY <3>4 DEF n
  <2>5. Len(std) = Len(rows.std)
    BY <2>2, <2>3, <2>4
  <2>6. rows' = [rows EXCEPT !.std = std]
    BY <1>6
  <2> HIDE DEF std
  <2>7. rows'.std = std /\ rows'.mic = rows.mic /\ rows'.cds = rows.cds
    BY <2>6, TypeFacts DEF RowsOf
  <2> QED BY <2>5, <2>7 DEF NumPlaylists, Base
<1> QED BY <1>1, <1>2, <1>3, <1>4, <1>6 DEF to

\* The row of the window is another one than the view's only after a CD has come
\* while the last row was shown; the list that the view shows stands above.
ViewBelow(std, w) ==
    w.visible = w.row \/ \A p \in DOMAIN std : std[p] = w.list => p < w.row
VisibleOK == ViewBelow(rows.std, window)

\* Showing a row that is there changes nothing or makes them the same row.
LEMMA ShowVisible ==
    ASSUME NEW O, Library \in O, MicList \in O, None \notin O, NEW rs \in RowsOf(O),
           NEW act \in [row : Nat, list : O], NEW w, NEW r \in 0 .. NumPlaylists(rs) - 1
    PROVE  LET s == Show(rs, act, w, r) IN
           (s = w /\ r = w.visible) \/ (s.visible = r /\ s.row = r)
<1>1. CASE r = w.visible
  <2>1. Show(rs, act, w, r) = w
    BY <1>1 DEF Show
  <2> QED BY <1>1, <2>1
<1>2. CASE r # w.visible
  <2>1. Show(rs, act, w, r) = [visible |-> r, row |-> r, list |-> ListAt(rs, act, r)]
    BY <1>2, ShowInRows
  <2> QED BY <2>1
<1> QED BY <1>1, <1>2

LEMMA VisibleChoose ==
    ASSUME TypeOK, VisibleOK, Choose
    PROVE  VisibleOK'
<1>1. rows' = rows
      /\ (window' = window \/ \E r \in Rows : window' = Show(rows, active, window, r))
  BY DEF Choose, ShowRow, PlayFromView, SwitchTo, SwitchToID, Lists
<1>2. CASE window' = window
  BY <1>1, <1>2 DEF VisibleOK, ViewBelow
<1>3. ASSUME NEW r \in Rows, window' = Show(rows, active, window, r) PROVE VisibleOK'
  <2>1. window' = window \/ window'.visible = window'.row
    BY <1>3, TypeBefore, ShowVisible
  <2> QED BY <1>1, <2>1 DEF VisibleOK, ViewBelow
<1> QED BY <1>1, <1>2, <1>3

LEMMA VisibleNewList ==
    ASSUME TypeOK, TypeOK', VisibleOK, NEW shown \in BOOLEAN, NewList(shown)
    PROVE  VisibleOK'
<1> DEFINE n == Made + 1
           last == NumPlaylists(rows') - 1
<1>1. /\ rows' = [rows EXCEPT !.std = Append(@, n)] /\ active' = active
      /\ window' = window \/ window' = Show(rows', active, window, last)
  BY DEF NewList
<1>2. n \notin Objects
  BY TypeFacts
<1> HIDE DEF n
<1>3. rows'.std = Append(rows.std, n)
  BY <1>1, TypeBefore DEF RowsOf
<1>4. window' = window \/ window'.visible = window'.row
  <2>1. last \in 0 .. NumPlaylists(rows') - 1
    BY TypeAfter
  <2> HIDE DEF last
  <2>2. CASE window' = Show(rows', active', window, last)
    BY <2>1, <2>2, TypeAfter, ShowVisible
  <2> QED BY <1>1, <2>2
<1>5. CASE window' = window
  <2>1. ASSUME NEW p \in DOMAIN rows'.std, rows'.std[p] = window.list
        PROVE  p \in DOMAIN rows.std /\ rows.std[p] = window.list
    <3>1. p \in 1 .. Len(rows.std) + 1
      BY <1>3, TypeBefore
    <3>2. p # Len(rows.std) + 1
      BY <1>2, <1>3, <2>1, TypeBefore
    <3>3. p \in 1 .. Len(rows.std)
      BY <3>1, <3>2, TypeBefore
    <3> QED BY <1>3, <2>1, <3>3, TypeBefore
  <2> QED BY <1>5, <2>1 DEF VisibleOK, ViewBelow
<1> QED BY <1>4, <1>5 DEF VisibleOK, ViewBelow

LEMMA VisibleDrag ==
    ASSUME TypeOK, TypeOK', VisibleOK,
           NEW from \in Rows, NEW hit \in Rows \cup {None}, Drag(from, hit)
    PROVE  VisibleOK'
<1> DEFINE to == DropRow(from, hit)
           w  == Show(rows, active, window, from)
<1>1. window' = Show(rows', active', w, to)
  BY DEF Drag
<1>2. w = window \/ w.visible = w.row
  BY TypeBefore, ShowVisible
<1>3. to \in 0 .. NumPlaylists(rows') - 1 /\ (from = to => UNCHANGED <<rows, active>>)
      /\ w.visible = from
  BY DragInRows, TypeBefore, ShowVisible
<1> HIDE DEF to, w
<1>4. (window' = w /\ to = w.visible) \/ window'.visible = window'.row
  BY <1>1, <1>3, TypeAfter, ShowVisible
<1> QED BY <1>2, <1>3, <1>4 DEF VisibleOK, ViewBelow

LEMMA VisibleDeleteRow ==
    ASSUME TypeOK, TypeOK', VisibleOK, NEW r \in Rows, DeleteRow(r)
    PROVE  VisibleOK'
<1> DEFINE i == r - Base(rows) + 1
           q == IF r >= NumPlaylists(rows') THEN r - 1 ELSE r
<1>1. /\ \/ i \in DOMAIN rows.std /\ rows' = [rows EXCEPT !.std = Without(@, i)]
         \/ rows' = rows
      /\ window' = IF r # window.visible THEN window
                   ELSE Show(rows', active', NoneVisible(window), q)
      /\ r > 0
  BY DEF DeleteRow
<1> HIDE DEF i
<1>2. \/ rows' = rows
      \/ /\ i \in DOMAIN rows.std /\ NumPlaylists(rows') = NumPlaylists(rows) - 1
         /\ \A p \in DOMAIN rows'.std :
               /\ p \in DOMAIN rows.std /\ p + 1 \in Nat
               /\ rows'.std[p] = rows.std[p]
                  \/ (p + 1 \in DOMAIN rows.std /\ rows'.std[p] = rows.std[p + 1])
  <2> SUFFICES ASSUME i \in DOMAIN rows.std, rows' = [rows EXCEPT !.std = Without(@, i)]
               PROVE  /\ NumPlaylists(rows') = NumPlaylists(rows) - 1
                      /\ \A p \in DOMAIN rows'.std :
                            /\ p \in DOMAIN rows.std /\ p + 1 \in Nat
                            /\ rows'.std[p] = rows.std[p]
                               \/ (p + 1 \in DOMAIN rows.std /\ rows'.std[p] = rows.std[p + 1])
    BY <1>1
  <2> DEFINE std == Without(rows.std, i)
  <2>1. rows.std \in Seq(Objects)
    BY TypeBefore
  <2>2. std \in Seq(Objects) /\ Len(std) = Len(rows.std) - 1
    BY <2>1, WithoutSeq
  <2>3. \A p \in 1 .. Len(rows.std) - 1 : std[p] = rows.std[IF p < i THEN p ELSE p + 1]
    BY DEF Without
  <2> HIDE DEF std
  <2>4. rows' = [rows EXCEPT !.std = std]
    BY DEF std
  <2>5. rows'.std = std /\ rows'.mic = rows.mic /\ rows'.cds = rows.cds
    BY <2>4, TypeBefore DEF RowsOf
  <2>6. NumPlaylists(rows') = NumPlaylists(rows) - 1
    <3>1. Base(rows') = Base(rows)
      BY <2>5 DEF Base
    <3>2. NumPlaylists(rows') = Base(rows') + Len(rows'.std)
      BY TypeAfter
    <3>3. /\ NumPlaylists(rows) = Base(rows) + Len(rows.std)
          /\ Base(rows) \in Nat /\ Len(rows.std) \in Nat
      BY TypeBefore
    <3>4. Len(rows'.std) = Len(rows.std) - 1
      BY <2>2, <2>5
    <3> QED BY <3>1, <3>2, <3>3, <3>4
  <2>7. \A p \in DOMAIN rows'.std :
           /\ p \in DOMAIN rows.std /\ p + 1 \in DOMAIN rows.std /\ p + 1 \in Nat
           /\ p \in 1 .. Len(rows.std) - 1
    <3>1. DOMAIN rows'.std = 1 .. Len(rows.std) - 1
      BY <2>2, <2>5
    <3>2. Len(rows.std) \in Nat /\ DOMAIN rows.std = 1 .. Len(rows.std)
      BY TypeBefore
    <3> QED BY <3>1, <3>2
  <2>8. \A p \in DOMAIN rows'.std : rows'.std[p] = rows.std[IF p < i THEN p ELSE p + 1]
    BY <2>3, <2>5, <2>7
  <2>9. \A p \in DOMAIN rows'.std : rows'.std[p] = rows.std[p] \/ rows'.std[p] = rows.std[p + 1]
    BY <2>8
  <2> QED BY <2>6, <2>7, <2>9
<1>3. CASE r # window.visible
  <2>1. window' = window
    BY <1>1, <1>3
  <2>2. ASSUME NEW p \in DOMAIN rows'.std, rows'.std[p] = window.list,
               \A j \in DOMAIN rows.std : rows.std[j] = window.list => j < window.row
        PROVE  p < window.row
    <3>1. p \in Nat /\ window.row \in Nat
      BY <1>2, TypeBefore
    <3> QED BY <1>2, <2>2, <3>1
  <2> QED BY <2>1, <2>2 DEF VisibleOK, ViewBelow
<1>4. CASE r = window.visible
  <2>1. q \in 0 .. NumPlaylists(rows') - 1
    <3>1. NumPlaylists(rows') = NumPlaylists(rows) \/ NumPlaylists(rows') = NumPlaylists(rows) - 1
      BY <1>2
    <3>2. NumPlaylists(rows) \in Nat /\ r \in 0 .. NumPlaylists(rows) - 1 /\ r > 0
      BY <1>1, TypeBefore
    <3> QED BY <3>1, <3>2
  <2> HIDE DEF q
  <2>2. q # NoneVisible(window).visible
    BY <2>1, TypeBefore DEF NoneVisible, None
  <2>3. window' = Show(rows', active', NoneVisible(window), q)
    BY <1>1, <1>4
  <2>4. window'.visible = window'.row
    BY <2>1, <2>2, <2>3, TypeAfter, ShowVisible
  <2> QED BY <2>4 DEF VisibleOK, ViewBelow
<1> QED BY <1>3, <1>4

\* What devices do to the window: they leave it, show the first row, or, when one
\* comes, the row below the visible one.
LEMMA VisibleDevices ==
    ASSUME TypeOK, TypeOK', VisibleOK, Devices
    PROVE  VisibleOK'
<1>1. rows'.std = rows.std
  <2>1. CASE EnableMic
    <3>1. rows' = [rows EXCEPT !.mic = TRUE]
      BY <2>1 DEF EnableMic
    <3> QED BY <3>1, TypeBefore DEF RowsOf
  <2>2. CASE DisableMic
    <3>1. rows' = [rows EXCEPT !.mic = FALSE]
      BY <2>2 DEF DisableMic
    <3> QED BY <3>1, TypeBefore DEF RowsOf
  <2>3. ASSUME NEW x \in DOMAIN rows.cds, CDLeaves(x) PROVE rows'.std = rows.std
    <3> DEFINE cds == Without(rows.cds, x)
    <3>1. rows' = [rows EXCEPT !.cds = cds]
      BY <2>3 DEF CDLeaves
    <3> HIDE DEF cds
    <3> QED BY <3>1, TypeBefore DEF RowsOf
  <2>4. ASSUME NEW d \in Drives, CDArrives(d) PROVE rows'.std = rows.std
    <3> DEFINE cds == Append(rows.cds, [drive |-> d, list |-> Made + 1])
    <3>1. rows' = [rows EXCEPT !.cds = cds]
      BY <2>4 DEF CDArrives
    <3> HIDE DEF cds
    <3> QED BY <3>1, TypeBefore DEF RowsOf
  <2> QED BY <2>1, <2>2, <2>3, <2>4 DEF Devices
<1>2. CASE window' = window \/ window'.visible = window'.row
  BY <1>1, <1>2 DEF VisibleOK, ViewBelow
<1>3. CASE EnableMic
  BY <1>2, <1>3 DEF EnableMic
<1>4. CASE DisableMic
  <2>1. window' = window \/ window' = Show(rows, active, window, 0)
    BY <1>4 DEF DisableMic
  <2>2. 0 \in 0 .. NumPlaylists(rows) - 1
    BY TypeBefore
  <2> QED BY <1>2, <2>1, <2>2, TypeBefore, ShowVisible
<1>5. ASSUME NEW x \in DOMAIN rows.cds, CDLeaves(x) PROVE VisibleOK'
  <2>1. /\ window' = window \/ window' = Show(rows', active, window, 0)
        /\ ids' = ids
    BY <1>5 DEF CDLeaves
  <2>2. 0 \in 0 .. NumPlaylists(rows') - 1
    BY TypeAfter
  <2>3. Objects' = Objects
    BY <2>1 DEF Objects, Made
  <2>4. rows' \in RowsOf(Objects)
    BY <2>3, TypeAfter
  <2> QED BY <1>2, <2>1, <2>2, <2>4, TypeBefore, ShowVisible
<1>6. ASSUME NEW d \in Drives, CDArrives(d) PROVE VisibleOK'
  <2> DEFINE r == window.visible + 1
  <2>1. /\ window' = window \/ window' = Show(rows', active', window, r)
        /\ rows' = [rows EXCEPT !.cds = Append(@, [drive |-> d, list |-> Made + 1])]
    BY <1>6 DEF CDArrives
  <2>2. r \in Nat /\ r # window.visible
    BY TypeBefore
  <2>3. CASE r \in 0 .. NumPlaylists(rows') - 1 /\ window' = Show(rows', active', window, r)
    <3>1. window' = window \/ window'.visible = window'.row
      <4> HIDE DEF r
      <4> QED BY <2>3, TypeAfter, ShowVisible
    <3> QED BY <1>2, <3>1
  <2>4. CASE r \notin 0 .. NumPlaylists(rows') - 1 /\ window' = Show(rows', active', window, r)
    <3>1. window' = [window EXCEPT !.visible = r] \/ window'.visible = window'.row
      <4> HIDE DEF r
      <4> QED BY <2>2, <2>4 DEF Show
    <3>2. \A p \in DOMAIN rows.std : rows.std[p] = window.list => p < window.row
      <4>1. CASE window.visible = window.row
        <5>1. Base(rows') # 1
          BY <1>6, ArrivalBase
        <5>2. /\ Base(rows') \in Nat \ {0, 1} /\ Len(rows.std) \in Nat
              /\ NumPlaylists(rows') = Base(rows') + Len(rows.std)
          BY <1>1, <5>1, TypeAfter, TypeBefore
        <5>3. window.row > Len(rows.std)
          BY <2>2, <2>4, <4>1, <5>2, TypeBefore
        <5>4. \A p \in DOMAIN rows.std : p \in Nat /\ p <= Len(rows.std)
          BY TypeBefore
        <5> QED BY <5>2, <5>3, <5>4, TypeBefore
      <4> QED BY <4>1 DEF VisibleOK, ViewBelow
    <3>3. CASE window' = [window EXCEPT !.visible = r]
      <4>1. window'.row = window.row /\ window'.list = window.list
        BY <3>3, TypeBefore
      <4> QED BY <1>1, <3>2, <4>1 DEF VisibleOK, ViewBelow
    <3> QED BY <1>2, <3>1, <3>3
  <2> QED BY <1>2, <2>1, <2>3, <2>4
<1> QED BY <1>3, <1>4, <1>5, <1>6 DEF Devices

LEMMA VisibleInv == Spec => []VisibleOK
<1>1. Init => VisibleOK
  BY DEF Init, VisibleOK, ViewBelow
<1>2. TypeOK /\ TypeOK' /\ VisibleOK /\ [Next]_vars => VisibleOK'
  <2> SUFFICES ASSUME TypeOK, TypeOK', VisibleOK, [Next]_vars PROVE VisibleOK'
    OBVIOUS
  <2>1. CASE Choose
    BY <2>1, VisibleChoose
  <2>2. CASE Arrange
    BY <2>2, VisibleNewList, VisibleDrag, VisibleDeleteRow DEF Arrange
  <2>3. CASE Devices
    BY <2>3, VisibleDevices
  <2>4. ASSUME NEW discs \in Discs, Restart(discs) PROVE VisibleOK'
    <3>1. \E row, l : window' = [visible |-> row, row |-> row, list |-> l]
      BY <2>4 DEF Restart
    <3>2. window'.visible = window'.row
      BY <3>1
    <3> QED BY <3>2 DEF VisibleOK, ViewBelow
  <2>5. CASE UNCHANGED vars
    BY <2>5 DEF vars, VisibleOK, ViewBelow
  <2> QED BY <2>1, <2>2, <2>3, <2>4, <2>5 DEF Next
<1> QED BY <1>1, <1>2, TypeCorrect, PTL DEF Spec

\* The view's row is one of the rows.
LEMMA ViewRowRange ==
    ASSUME TypeOK, Base(rows) = 1, ViewRight
    PROVE  /\ window \in [visible : Nat, row : Nat, list : Objects]
           /\ window.row \in 0 .. Len(rows.std)
           /\ window.row = 0 => window.list = Library
           /\ window.row # 0 => /\ window.row \in 1 .. Len(rows.std)
                                /\ window.list = rows.std[window.row]
<1>1. window \in [visible : Nat, row : Nat, list : Objects] /\ window.row \in Int
  BY TypeFacts
<1>2. window.row \in 0 .. Len(rows.std)
  BY <1>1, RowsBefore DEF ViewRight
<1>3. window.row # 0 => window.row \in 1 .. Len(rows.std)
  BY <1>2
<1> QED BY <1>1, <1>2, <1>3, RowsBefore DEF ViewRight

\* A list that is chosen from the menu is looked up before it becomes active, which
\* matters only if it was active already.
LEMMA ViewChoose ==
    ASSUME ViewRight, ActiveRight', Choose
    PROVE  ViewRight'
<1>1. rows' = rows
  BY DEF Choose, ShowRow, PlayFromView, SwitchTo, SwitchToID, Lists
<1>2. CASE window' = window
  BY <1>1, <1>2 DEF ViewRight
<1>3. ASSUME NEW r, window' = Show(rows, active, window, r),
             active' = active \/ active' = SetActive(rows, active, r)
      PROVE  ViewRight'
  <2>1. r = active.row => active' = active
    BY <1>3 DEF SetActive
  <2>2. r = active.row => RowList(rows, r) = active.list
    BY <1>1, <2>1 DEF ActiveRight
  <2> QED BY <1>1, <1>3, <2>2, ShowRight DEF ViewRight
<1> QED BY <1>2, <1>3 DEF Choose, ShowRow, PlayFromView, SwitchTo, SwitchToID, Lists

LEMMA ViewNewList ==
    ASSUME TypeOK, TypeOK', Base(rows) = 1, Base(rows') = 1, ViewRight, ActiveRight',
           NEW shown \in BOOLEAN, NewList(shown)
    PROVE  ViewRight'
<1> DEFINE n == Made + 1
           last == NumPlaylists(rows') - 1
<1>1. /\ rows' = [rows EXCEPT !.std = Append(@, n)] /\ active' = active
      /\ window' = window \/ window' = Show(rows', active, window, last)
  BY DEF NewList
<1> HIDE DEF n, last
<1>2. rows'.std = Append(rows.std, n)
  BY <1>1, RowsBefore DEF RowsOf
<1>3. \A r \in 1 .. Len(rows.std) : r \in 1 .. Len(rows'.std) /\ rows'.std[r] = rows.std[r]
  BY <1>2, RowsBefore
<1>4. RowList(rows', window.row) = window.list
  BY <1>3, ViewRowRange, RowsBefore, RowsAfter
<1>5. last = active'.row => RowList(rows', last) = active'.list
  BY DEF ActiveRight
<1> QED BY <1>1, <1>4, <1>5, ShowRight DEF ViewRight

\* The window shows the row of the dragged list and then the row it is dropped on.
LEMMA ViewDrag ==
    ASSUME TypeOK, TypeOK', ViewRight, ActiveRight',
           NEW from \in Rows, NEW hit \in Rows \cup {None}, Drag(from, hit)
    PROVE  ViewRight'
<1> DEFINE to == DropRow(from, hit)
           w  == Show(rows, active, window, from)
<1>1. window' = Show(rows', active', w, to)
  BY DEF Drag
<1>2. to \in 0 .. NumPlaylists(rows') - 1 /\ (from = to => UNCHANGED <<rows, active>>)
      /\ w.visible = from
  BY DragInRows, TypeBefore, ShowVisible
<1>3. CASE from = to
  <2>1. RowList(rows, active.row) = active.list
    BY <1>2, <1>3 DEF ActiveRight
  <2>2. RowList(rows, w.row) = w.list
    BY <2>1, ShowRight DEF ViewRight
  <2> HIDE DEF to, w
  <2>3. window' = w
    BY <1>1, <1>2, <1>3 DEF Show
  <2> QED BY <1>2, <1>3, <2>2, <2>3 DEF ViewRight
<1>4. CASE from # to
  <2> HIDE DEF to, w
  <2>1. window' = [visible |-> to, row |-> to, list |-> ListAt(rows', active', to)]
    BY <1>1, <1>2, <1>4, TypeAfter, ShowInRows
  <2>2. ListAt(rows', active', to) = RowList(rows', to)
    BY DEF ListAt, ActiveRight
  <2> QED BY <2>1, <2>2 DEF ViewRight
<1> QED BY <1>3, <1>4

\* A row that is deleted is taken for the view's row if it is the window's.
LEMMA ViewDeleteRow ==
    ASSUME TypeOK, TypeOK', VisibleOK, Base(rows) = 1, Base(rows') = 1, ViewRight,
           ActiveRight', NEW r \in Rows, DeleteRow(r)
    PROVE  \/ ViewRight'
           \/ /\ Len(rows'.std) < Len(rows.std)
              /\ r \in 1 .. window.row - 1 /\ rows'.std = Without(rows.std, r)
<1> DEFINE n == Len(rows.std)
           i == r - Base(rows) + 1
           q == IF r >= NumPlaylists(rows') THEN r - 1 ELSE r
           v == window.row
<1>1. n \in Nat /\ r \in 1 .. n /\ i = r
  BY RowsBefore DEF DeleteRow
<1>2. /\ \/ rows' = [rows EXCEPT !.std = Without(@, i)]
         \/ rows' = rows
      /\ window' = IF r # window.visible THEN window
                   ELSE Show(rows', active', NoneVisible(window), q)
  BY DEF DeleteRow
<1> HIDE DEF i
<1>3. /\ v \in 0 .. n /\ (v = 0 => window.list = Library)
      /\ v # 0 => v \in 1 .. n /\ window.list = rows.std[v]
  BY ViewRowRange
<1> DEFINE std == Without(rows.std, r)
<1>4. std \in Seq(Objects) /\ Len(std) = n - 1
      /\ \A j \in 1 .. r - 1 : std[j] = rows.std[j]
  <2>1. rows.std \in Seq(Objects) /\ r \in DOMAIN rows.std
    BY <1>1, RowsBefore
  <2> QED BY <2>1, WithoutSeq, WithoutAt
<1>5. rows' = rows \/ rows'.std = std
  <2> HIDE DEF std
  <2>1. rows' = rows \/ rows' = [rows EXCEPT !.std = std]
    BY <1>1, <1>2 DEF std
  <2> QED BY <2>1, RowsBefore DEF RowsOf
<1> HIDE DEF std
<1>6. CASE r = window.visible
  <2>1. q \in 0 .. NumPlaylists(rows') - 1
    <3>1. NumPlaylists(rows') = 1 + Len(rows'.std) /\ Len(rows'.std) \in {n, n - 1}
      BY <1>4, <1>5, TypeAfter
    <3> QED BY <1>1, <3>1
  <2> HIDE DEF q
  <2>2. q # NoneVisible(window).visible
    BY <2>1, TypeBefore DEF NoneVisible, None
  <2>3. window' = [visible |-> q, row |-> q, list |-> ListAt(rows', active', q)]
    BY <1>2, <1>6, <2>1, <2>2, TypeAfter, ShowInRows
  <2>4. ListAt(rows', active', q) = RowList(rows', q)
    BY DEF ListAt, ActiveRight
  <2> QED BY <2>3, <2>4 DEF ViewRight
<1>7. CASE r # window.visible /\ rows' = rows
  BY <1>2, <1>7 DEF ViewRight
<1>8. CASE r # window.visible /\ rows'.std = std
  <2>1. window' = window /\ Len(rows'.std) < n
    BY <1>1, <1>2, <1>4, <1>8
  <2>2. v # r
    <3> SUFFICES ASSUME v = r PROVE FALSE
      OBVIOUS
    <3>1. r \in DOMAIN rows.std /\ rows.std[r] = window.list
      BY <1>1, <1>3, RowsBefore
    <3>2. r < window.row
      BY <1>8, <3>1 DEF VisibleOK, ViewBelow
    <3> QED BY <1>1, <3>2
  <2>3. CASE v = 0
    BY <1>3, <2>1, <2>3, RowsAfter DEF ViewRight
  <2>4. CASE v # 0 /\ v < r
    <3>1. v \in 1 .. r - 1 /\ v \in 1 .. Len(rows'.std)
      BY <1>1, <1>3, <1>4, <1>8, <2>4
    <3> QED BY <1>3, <1>4, <1>8, <2>1, <2>4, <3>1, RowsAfter DEF ViewRight
  <2>5. CASE v > r
    <3>1. r \in 1 .. v - 1
      BY <1>1, <1>3, <2>5
    <3> QED BY <1>8, <2>1, <3>1 DEF std
  <2> QED BY <1>1, <1>3, <2>2, <2>3, <2>4, <2>5
<1> QED BY <1>5, <1>6, <1>7, <1>8

\* What a double click in the view makes active, and the commands on the shown row
\* work on, is what the view shows: an operation on the user's lists breaks that
\* only by deleting a row above the view's, or through a wrong active row.
THEOREM ViewRowIsKept == Spec => ViewRowKept
<1>1. TypeOK /\ TypeOK' /\ VisibleOK /\ [Next]_vars =>
         [(ViewRight /\ ~ViewRight') =>
             \/ Base(rows) # 1 \/ Base(rows') # 1
             \/ Len(rows'.std) < Len(rows.std)
                /\ \E r \in 1 .. window.row - 1 : rows'.std = Without(rows.std, r)
             \/ ~ActiveRight']_vars
  <2> SUFFICES ASSUME TypeOK, TypeOK', VisibleOK, Next, ViewRight, ~ViewRight',
                      Base(rows) = 1, Base(rows') = 1, ActiveRight'
               PROVE  /\ Len(rows'.std) < Len(rows.std)
                      /\ \E r \in 1 .. window.row - 1 : rows'.std = Without(rows.std, r)
    OBVIOUS
  <2>1. CASE Choose
    BY <2>1, ViewChoose
  <2>2. CASE Arrange
    BY <2>2, ViewNewList, ViewDrag, ViewDeleteRow DEF Arrange
  <2>3. CASE Devices
    BY <2>3, DevicesMove
  <2>4. CASE \E discs \in Discs : Restart(discs)
    <3>1. active'.row = window'.row /\ active'.list = window'.list
      BY <2>4, ActiveRestart
    <3> QED BY <3>1 DEF ActiveRight, ViewRight
  <2> QED BY <2>1, <2>2, <2>3, <2>4 DEF Next
<1> QED BY <1>1, TypeCorrect, VisibleInv, PTL DEF Spec, ViewRowKept
=============================================================================
