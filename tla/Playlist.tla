------------------------------ MODULE Playlist ------------------------------
(***************************************************************************)
(* One of Tuniac's playlists (CBasePlaylist as a standard playlist): the   *)
(* array of its items, the normal and the shuffled order of those that     *)
(* pass the text filter, the active item, and what the views do to them.   *)
(*                                                                         *)
(* It is the active playlist, and the play queue is empty.  Everything     *)
(* runs on the UI thread, so every command is one action.  The code counts *)
(* from 0; here indexes start at 1 and 0 is INVALID_PLAYLIST_INDEX.        *)
(* Entries are the library's IDs, which start at 0, the value              *)
(* GetActiveEntryID also uses for "no active entry".                       *)
(***************************************************************************)
EXTENDS Integers, Sequences, SequencesExt, FiniteSetsExt, Selection

CONSTANTS
    Entries,      \* entry IDs of the media library
    Key,          \* Key[f][e]: what entry e shows in column f
    Filters,      \* what a text filter may let pass; Entries is no filter
    Loaded,       \* the lists a playlist file may hold
    MaxItems,     \* bound on the length of the list
    MaxSelected,  \* bound on the rows of one selection
    MaxWork       \* bound on commands and items: short lists see more commands

ASSUME PlaylistAssumption ==
    /\ Entries \subseteq Nat
    /\ \A f \in DOMAIN Key : Key[f] \in [Entries -> Nat]
    /\ Filters \subseteq SUBSET Entries
    /\ MaxItems \in Nat /\ MaxSelected \in Nat /\ MaxWork \in Nat
    /\ \A l \in Loaded : l \in Seq(Entries) /\ Len(l) <= MaxItems

Fields      == DOMAIN Key
RepeatModes == {"None", "One", "All"}

VARIABLES
    cells,     \* memory of m_PlaylistArray; an Array never clears what it drops
    count,     \* items in it
    normal,    \* m_NormalIndexArray
    random,    \* m_RandomIndexArray
    active,    \* m_ActiveRealIndex
    filter,    \* the entries that pass m_szTextFilter
    sortBy,    \* m_LastSortBy
    sortType,  \* m_SortType
    saved,     \* m_SavedPlaylistArray
    shuffle,   \* Preferences: GetShuffleState
    library,   \* the entries the media library has
    fresh,     \* history: the orders were rebuilt after the last change
    heard,     \* history: entries played since then, or before a chosen one in the order
    steps      \* commands so far

orders    == <<normal, random, fresh, heard>>
sortVars  == <<sortBy, sortType>>
otherVars == <<filter, saved, shuffle, library>>
vars      == <<cells, count, active, orders, sortVars, otherVars, steps>>
----------------------------------------------------------------------------
Item == [id : Entries, out : BOOLEAN]

\* What the commands change: the array and the active item.
Listing  == [cells |-> cells, count |-> count, active |-> active]
ItemsOf(l) == SubSeq(l.cells, 1, l.count)
Items      == ItemsOf(Listing)

\* l's array once it holds s: what lies beyond stays as it was.
Write(l, s) == [l EXCEPT !.cells = s \o SubSeq(@, Len(s) + 1, Len(@)),
                         !.count = Len(s)]

Becomes(l) == cells' = l.cells /\ count' = l.count /\ active' = l.active

\* The first of positions 1 .. n with property P, or 0.
FirstOf(n, P(_)) ==
    IF \E i \in 1 .. n : P(i) THEN Min({i \in 1 .. n : P(i)}) ELSE 0

RealIndexOf(s, e) == FirstOf(Len(s), LAMBDA i : s[i].id = e)

\* What passes the filter, in the order of the list.
AllIndexes(s)     == [i \in DOMAIN s |-> i]
PassingIndexes(s) == Selected(AllIndexes(s), {i \in DOMAIN s : ~s[i].out})

\* The active item comes first in the shuffled order.
AnyShuffle(n, a) == SetToSeqs(ToSet(n))
Shuffles(n, a)   == {p \in SetToSeqs(ToSet(n)) : a \in ToSet(n) => p[1] = a}

\* RebuildPlaylistArrays, for a list that becomes l
Rebuild(l) ==
    LET n == PassingIndexes(ItemsOf(l)) IN
    /\ normal' = n
    /\ random' \in Shuffles(n, l.active)
    /\ fresh' = TRUE
    /\ heard' = IF l.active \in ToSet(n) THEN {l.cells[l.active].id} ELSE {}

\* ApplyFilter, for a list that becomes l
ApplyFilter(l, pass) ==
    LET s      == ItemsOf(l)
        judged == [i \in DOMAIN s |-> [s[i] EXCEPT !.out = s[i].id \notin pass]] IN
    Becomes(Write(l, judged)) /\ Rebuild(Write(l, judged))

\* The list, or an order made of it, names an entry that is destroyed: any use
\* of it is undefined, and here nothing follows.
Named    == (1 .. count) \cup ToSet(normal) \cup ({active} \ {0})
Dangling == \E i \in Named : cells[i].id \notin library

Command == ~Dangling /\ steps + count <= MaxWork /\ steps' = steps + 1

PlayOrder == IF shuffle THEN random ELSE normal

\* GetActiveFilteredIndex
ActivePlace == FirstOf(Len(PlayOrder), LAMBDA i : PlayOrder[i] = active)

\* Next and Previous of a list that is no library, with an empty play queue;
\* r is the repeat mode
NextPlace(r) ==
    CASE normal = <<>> -> 0
      [] normal # <<>> /\ ActivePlace = 0 -> 1
      [] ActivePlace # 0 /\ r = "One" -> ActivePlace
      [] ActivePlace \in 1 .. Len(normal) - 1 /\ r # "One" -> ActivePlace + 1
      [] ActivePlace # 0 /\ ActivePlace = Len(normal) /\ r = "All" -> 1
      [] ActivePlace # 0 /\ ActivePlace = Len(normal) /\ r = "None" -> 0

PreviousPlace(r) ==
    CASE normal = <<>> -> 0
      [] normal # <<>> /\ ActivePlace = 0 -> 1
      [] ActivePlace # 0 /\ r = "One" -> ActivePlace
      [] ActivePlace > 1 /\ r # "One" -> ActivePlace - 1
      [] ActivePlace = 1 /\ r = "All" -> Len(normal)
      [] ActivePlace = 1 /\ r = "None" -> 0
----------------------------------------------------------------------------
(***************************************************************************)
(* Sorting.                                                                *)
(***************************************************************************)

\* order < 1: the left item goes first
LeftBefore(x, y, f) == Key[f][x.id] < Key[f][y.id]
LeftFirst(x, y, f)  == Key[f][x.id] <= Key[f][y.id]

MergeUp(a, b, f) ==
    LET n == Len(a) + Len(b)
        \* scratch and the items of a that it holds, after k rounds of the loop
        Round(d, k) ==
          LET i == d.left + 1
              j == k - d.left IN
          IF i <= Len(a) /\ (j <= Len(b) => LeftFirst(a[i], b[j], f))
          THEN [scratch |-> Append(d.scratch, a[i]), left |-> i]
          ELSE [scratch |-> Append(d.scratch, b[j]), left |-> d.left]
        done[k \in 0 .. n] == IF k = 0 THEN [scratch |-> <<>>, left |-> 0]
                                       ELSE Round(done[k - 1], k)
    IN  done[n].scratch

\* Sort_Merge.  Two halves that meet in order are left alone; a reverse merge
\* takes all of the right half before the left one.
Merged(a, b, f, reverse) ==
    LET x == Key[f][Last(a).id]
        y == Key[f][Head(b).id] IN
    CASE reverse /\ x < y -> b \o a
      [] ~reverse /\ x > y -> MergeUp(a, b, f)
      [] OTHER -> a \o b

\* Sort_Algorithm
MergeSort(s, f, reverse) ==
    LET ms[part \in (DOMAIN s) \X (DOMAIN s)] ==
          LET h   == part[1]
              t   == part[2]
              mid == (h + t) \div 2 IN
          IF h < t THEN Merged(ms[<<h, mid>>], ms[<<mid + 1, t>>], f, reverse)
                   ELSE <<s[h]>>
    IN  ms[<<1, Len(s)>>]

\* Sort: the same column twice turns the order round.  With no active item
\* GetActiveEntryID returns NULL, the ID of an entry.
Sort(f) ==
    /\ Command
    /\ sortBy' = f
    /\ sortType' = IF sortBy = f /\ sortType = "ASCENDING" THEN "DESCENDING"
                                                          ELSE "ASCENDING"
    /\ IF count < 2 THEN UNCHANGED <<cells, count, active, orders>>
       ELSE LET s  == MergeSort(Items, f, sortType' = "DESCENDING")
                id == IF active = 0 THEN 0 ELSE cells[active].id
                l  == [Write(Listing, s) EXCEPT !.active = RealIndexOf(s, id)] IN
            Becomes(l) /\ Rebuild(l)
    /\ UNCHANGED otherVars
----------------------------------------------------------------------------
(***************************************************************************)
(* Adding, moving and deleting.                                            *)
(***************************************************************************)

\* A selection in the list view: places in the normal order, from the top down.
Selections == {Selected(AllIndexes(normal), T) : T \in {S \in SUBSET (DOMAIN normal) :
                                                  Cardinality(S) \in 1 .. MaxSelected}}
RealIndexes(places) == [k \in DOMAIN places |-> normal[places[k]]]
Valid(indexes)      == \A k \in DOMAIN indexes : indexes[k] \in 1 .. count

\* AddEntryArray
Add(e) ==
    /\ Command
    /\ count < MaxItems /\ e \in library
    /\ ApplyFilter(Write(Listing, Append(Items, [id |-> e, out |-> FALSE])), filter)
    /\ UNCHANGED <<sortVars, otherVars>>

\* MoveNormalFilteredIndexArray: the selected items, whose real indexes are
\* "indexes", go together to where the item at place "to" is.  The place after
\* the last is the end of the list, unless the filter hides something: then
\* nothing moves.
MoveTarget(to, indexes) ==
    LET real == IF to = count + 1 THEN to ELSE normal[to] IN
    IF to = 1 THEN real
    ELSE real - Cardinality({k \in DOMAIN indexes : indexes[k] < real})

Moved(indexes, target) ==
    LET others == Selected(AllIndexes(Items), DOMAIN Items \ ToSet(indexes)) IN
    SubSeq(others, 1, target - 1) \o indexes \o SubSeq(others, target, Len(others))

Move(to, indexes) ==
    /\ Command
    /\ Valid(indexes) /\ (to \in DOMAIN normal => normal[to] \in 1 .. count)
    /\ IF to > Len(normal) /\ to # count + 1
       THEN UNCHANGED <<cells, count, active, orders>>
       ELSE LET order == Moved(indexes, MoveTarget(to, indexes))
                a     == FirstOf(Len(order), LAMBDA k : order[k] = active)
                l     == [Write(Listing, [k \in DOMAIN order |-> cells[order[k]]])
                             EXCEPT !.active = IF a = 0 THEN @ ELSE a] IN
            Becomes(l) /\ Rebuild(l)
    /\ UNCHANGED <<sortVars, otherVars>>

\* DeleteRealIndex
ActiveAfterKept(a, i) == IF a = i THEN 0 ELSE a
ActiveAfter(a, i)     == CASE a = i -> 0 [] a > i -> a - 1 [] a < i -> a

DeleteRealIndex(l, i) ==
    [cells  |-> [k \in DOMAIN l.cells |->
                    l.cells[IF k \in i .. l.count - 1 THEN k + 1 ELSE k]],
     count  |-> l.count - 1,
     active |-> ActiveAfter(l.active, i)]

\* DeleteRealIndexArray: the indexes to come move down as items go.
DeletedUncorrected(l, indexes) ==
    LET done[k \in 0 .. Len(indexes)] ==
          IF k = 0 THEN l ELSE DeleteRealIndex(done[k - 1], indexes[k])
    IN  done[Len(indexes)]
DeleteRealIndexArray(l, indexes) ==
    LET Round(d, i) ==
          [list |-> DeleteRealIndex(d.list, i),
           left |-> [j \in DOMAIN indexes |-> IF i < d.left[j] THEN d.left[j] - 1
                                                               ELSE d.left[j]]]
        done[k \in 0 .. Len(indexes)] ==
          IF k = 0 THEN [list |-> l, left |-> indexes]
                   ELSE Round(done[k - 1], done[k - 1].left[k])
    IN  done[Len(indexes)].list

\* ID_DELETE: the selection goes, then the filter is applied again.
DeleteSelected(sel) ==
    /\ Command
    /\ Valid(RealIndexes(sel))
    /\ ApplyFilter(DeleteRealIndexArray(Listing, RealIndexes(sel)), filter)
    /\ UNCHANGED <<sortVars, otherVars>>

\* ID_REMOVEDUPLICATES: of two that are alike the later one goes, or the earlier
\* one when they are like the active entry.  No filter is applied afterwards:
\* both orders are those of the list as it was, and so is the search for the
\* active entry.
RemoveDuplicates ==
    LET IdAt(k)     == cells[normal[k]].id
        Earlier(k)  == FirstOf(k - 1, LAMBDA j : IdAt(j) = IdAt(k))
        IsActive(e) == active # 0 /\ e = cells[active].id
        doubles == Selected(AllIndexes(normal), {k \in DOMAIN normal : Earlier(k) # 0})
        places  == [k \in DOMAIN doubles |->
                       IF IsActive(IdAt(doubles[k])) THEN Earlier(doubles[k])
                                                        ELSE doubles[k]]
        l     == DeleteRealIndexArray(Listing, RealIndexes(places))
        again == FirstOf(Len(normal), LAMBDA k : IsActive(l.cells[normal[k]].id)) IN
    /\ Command /\ doubles # <<>> /\ Valid(normal)
    /\ Becomes([l EXCEPT !.active = IF again = 0 THEN @ ELSE normal[again]])
    /\ fresh' = FALSE
    /\ UNCHANGED <<normal, random, heard, sortVars, otherVars>>

\* DeleteAllItemsWhereEntryIDEquals deletes one item.
DeletedButTheLast(l, e) ==
    LET i == RealIndexOf(Front(ItemsOf(l)), e) IN
    IF i = 0 THEN l ELSE DeleteRealIndex(l, i)
DeleteAllItemsWhereEntryIDEquals(l, e) ==
    LET i == RealIndexOf(ItemsOf(l), e) IN
    IF i = 0 THEN l ELSE DeleteRealIndex(l, i)

\* The library drops an entry, then every list applies its filter.
LibraryRemoves(e) ==
    /\ Command
    /\ e \in library /\ library' = library \ {e}
    /\ ApplyFilter(DeleteAllItemsWhereEntryIDEquals(Listing, e), filter)
    /\ UNCHANGED <<filter, saved, shuffle, sortVars>>
----------------------------------------------------------------------------
(***************************************************************************)
(* The filter, the saved order, the shuffle switch and playing.            *)
(***************************************************************************)

\* SetTextFilter, then ApplyFilter
SetFilter(pass) ==
    /\ Command
    /\ filter' = pass
    /\ ApplyFilter(Listing, pass)
    /\ UNCHANGED <<saved, shuffle, library, sortVars>>

Ids == [k \in DOMAIN Items |-> Items[k].id]

SavedOntoTheOld == saved' = saved \o Ids
SavedAnew       == saved' = Ids

SaveOrder ==
    /\ Command
    /\ SavedAnew
    /\ UNCHANGED <<cells, count, active, orders, filter, shuffle, library, sortVars>>

\* RestoreOrder: the active index stays what it was.
RestoreOrder ==
    /\ Command
    /\ saved # <<>>
    /\ ApplyFilter(Write(Listing, [k \in DOMAIN saved |-> [id |-> saved[k], out |-> FALSE]]),
                   filter)
    /\ UNCHANGED <<sortVars, otherVars>>

\* SetShuffleState: switching it on makes a new order.
ToggleShuffle ==
    /\ Command
    /\ shuffle' = ~shuffle
    /\ IF shuffle THEN UNCHANGED orders ELSE Rebuild(Listing)
    /\ UNCHANGED <<cells, count, active, filter, saved, library, sortVars>>

\* PlayEntry finds the item from its entry: the first one in the normal order,
\* or else, as the history may ask for what the filter hides, in the list.
PlayEntry(e) ==
    LET place == FirstOf(Len(normal), LAMBDA k : cells[normal[k]].id = e) IN
    /\ Command
    /\ active' = IF place # 0 THEN normal[place] ELSE RealIndexOf(Items, e)
    /\ UNCHANGED <<cells, count, normal, random, fresh, sortVars, otherVars>>

EntryAt(place) == cells[PlayOrder[place]].id

\* The entries of the order up to the active song
Reached == {EntryAt(place) : place \in 1 .. ActivePlace}

\* The song ends, or ID_PLAYBACK_NEXT, which starts over at the end.
NextSong(r) ==
    /\ normal # <<>>
    /\ LET e == EntryAt(IF NextPlace(r) = 0 THEN 1 ELSE NextPlace(r)) IN
       PlayEntry(e) /\ heard' = heard \cup {e}

\* ID_PLAYBACK_PREVIOUS at the start of a song
PreviousSong(r) ==
    /\ normal # <<>>
    /\ PlayEntry(EntryAt(IF PreviousPlace(r) = 0 THEN Len(normal) ELSE PreviousPlace(r)))
    /\ heard' = heard \cup Reached'

\* A row, a queue or the history names the entry.
Play(e) == e \in ToSet(Ids) /\ PlayEntry(e) /\ heard' = heard \cup Reached'
----------------------------------------------------------------------------
\* LoadPlaylistLibrary applies the filter, then PlayEntry makes active the entry
\* that was; the orders are made anew only if that fails.
Init ==
    \E ids \in Loaded, pass \in Filters :
        /\ cells = [k \in DOMAIN ids |-> [id |-> ids[k], out |-> ids[k] \notin pass]]
        /\ count = Len(ids) /\ filter = pass
        /\ normal = PassingIndexes(cells) /\ fresh = TRUE
        /\ \/ active = 0 /\ random \in Shuffles(normal, 0)
           \/ /\ active \in {RealIndexOf(cells, e) : e \in pass} \ {0}
              /\ random \in Shuffles(normal, 0)
           \/ /\ normal # <<>> /\ active = normal[1]
              /\ random \in Shuffles(normal, active)
        /\ shuffle \in BOOLEAN /\ heard = Reached
        /\ library = Entries /\ saved = <<>>
        /\ sortBy = "none" /\ sortType = "UNSORTED" /\ steps = 0

Edit ==
    \/ \E f \in Fields : Sort(f)
    \/ \E e \in Entries : Add(e)
    \/ \E to \in 1 .. Len(normal) + 1, sel \in Selections : Move(to, RealIndexes(sel))
    \/ \E sel \in Selections : DeleteSelected(sel)
    \/ RemoveDuplicates
    \/ \E e \in Entries : LibraryRemoves(e)
    \/ \E pass \in Filters : SetFilter(pass)
    \/ SaveOrder
    \/ ToggleShuffle

PlayASong ==
    \/ \E r \in RepeatModes : NextSong(r)
    \/ \E r \in RepeatModes : PreviousSong(r)
    \/ \E e \in Entries : Play(e)

Next == Edit \/ RestoreOrder \/ PlayASong

Spec == Init /\ [][Next]_vars
----------------------------------------------------------------------------
\* Indexes stay inside the array's memory, and an order holds no more than it.
TypeOK ==
    /\ cells \in Seq(Item) /\ Len(cells) <= MaxItems /\ count \in 0 .. Len(cells)
    /\ normal \in Seq(DOMAIN cells) /\ random \in Seq(DOMAIN cells)
    /\ active \in 0 .. Len(cells)
    /\ filter \in Filters \cup {Entries} /\ library \subseteq Entries
    /\ sortBy \in Fields \cup {"none"}
    /\ sortType \in {"ASCENDING", "DESCENDING", "UNSORTED"}
    /\ saved \in Seq(Entries) /\ Len(saved) <= MaxItems
    /\ shuffle \in BOOLEAN /\ fresh \in BOOLEAN /\ heard \subseteq Entries

\* Once the orders are rebuilt, the view and the player reach exactly the items
\* whose entries the filter lets pass, each once in either order, and the view
\* shows them in the order of the list, whatever edits came between.
IndexesExact ==
    fresh =>
        /\ ToSet(normal) = {i \in 1 .. count : cells[i].id \in filter}
        /\ \A j, k \in DOMAIN normal : j < k => normal[j] < normal[k]
        /\ Len(random) = Len(normal) /\ ToSet(random) = ToSet(normal)

Occurs(e) == Cardinality({i \in 1 .. count : cells[i].id = e})
ActiveEntry == cells[active].id

\* Only playing, and restoring an order, change which song is the active one:
\* every edit leaves it active wherever its item goes, until that item is deleted.
\* And no song becomes active by an edit, except that a sort with none active
\* makes active the one whose ID is NULL, and that the active index may be beyond
\* the end of a filtered list whose duplicates were removed.
ActiveFollows ==
    [][\/ active # 0 /\ active' # 0 /\ ActiveEntry' = ActiveEntry
       \/ active # 0 /\ active' = 0 /\ \E e \in {ActiveEntry} : Occurs(e)' < Occurs(e)
       \/ active = 0 /\ active' = 0
       \/ active = 0 /\ sortVars' # sortVars /\ ActiveEntry' = 0
       \/ active > count
       \/ RestoreOrder \/ PlayASong]_vars

Passing == {cells[normal[k]].id : k \in DOMAIN normal}
Distinct == Cardinality(Passing) = Len(normal)

\* In a shuffled list with no duplicates the songs come to their end only when
\* each that passes the filter has been played since the order was made, except
\* those that in it lie before a song the user chose, or the program at its start.
ShufflePlaysAll ==
    (shuffle /\ fresh /\ Distinct /\ normal # <<>> /\ NextPlace("None") = 0)
        => Passing \subseteq heard

\* The items that a stable sort by column f puts before item i.
Ahead(f, Before(_, _), i) ==
    {j \in 1 .. count : \/ Before(Key[f][cells[j].id], Key[f][cells[i].id])
                        \/ Key[f][cells[j].id] = Key[f][cells[i].id] /\ j < i}

\* A sort upwards gives the list in the order of the column, with those that are
\* alike there in the order they had, whatever the list was.
AscendingSorts ==
    [][(sortVars' # sortVars /\ sortType' = "ASCENDING")
           => /\ count' = count
              /\ \A i \in 1 .. count :
                    cells'[Cardinality(Ahead(sortBy', <, i)) + 1] = cells[i]]_vars

\* A sort downwards, by a second click on the column, gives the list in the
\* opposite order of the column, whatever was done to the list since the first.
DescendingSorts ==
    [][(sortVars' # sortVars /\ sortType' = "DESCENDING")
           => \A i, j \in 1 .. count' :
                 i < j => Key[sortBy'][cells'[i].id] >= Key[sortBy'][cells'[j].id]]_vars

\* Removing duplicates leaves one item of each entry that passes the filter and
\* touches no other, unless the active entry is there three times or more: then
\* the same index is deleted twice, and what came after it goes too.  The orders
\* must be those of the list: a second removal works on what the first one left
\* of them.
DuplicatesGo ==
    [][(fresh /\ ~fresh' /\ (active # 0 => Occurs(ActiveEntry) < 3)) =>
           /\ \A e \in Passing : Occurs(e)' = 1
           /\ \A e \in Entries \ Passing : Occurs(e)' = Occurs(e)]_vars

\* The list comes to name a destroyed entry in three ways only: the library drops
\* one that the list has twice, or that the active index finds beyond the list's
\* end, or an order is restored that was saved before the entry went.
OnlyTheseDangle ==
    [][Dangling' => \/ \E e \in library \ library' : Occurs(e) > 1
                    \/ active > count
                    \/ library' = library /\ ~(ToSet(saved) \subseteq library)]_vars
============================================================================
