------------------------------ MODULE Manager ------------------------------
(***************************************************************************)
(* The playlist manager and the two windows that show its playlists        *)
(* (CPlaylistManager, CMicPlaylist, CSourceSelectorWindow and the source   *)
(* views).  The playlists stand in rows: the library, the microphone if it *)
(* is enabled, the audio CDs and the user's own.  The code remembers the   *)
(* active playlist by its row and by a pointer, the shown one by a row     *)
(* twice and by a pointer, and the queue, the history and the playlist     *)
(* file by an ID; here is how these come apart.                            *)
(*                                                                         *)
(* Rows count from 0, as in the code.  Entries and playback are the        *)
(* subject of Playlist and PlayQueue.  A step of the UI thread, or of the  *)
(* thread that hears of devices, is one action.                            *)
(***************************************************************************)
EXTENDS Integers, Sequences, SequencesExt, FiniteSetsExt, Functions

CONSTANTS
    Drives,     \* CD drives, numbered as their letters are ordered
    FirstID,    \* the first ID for a playlist (10 in the code)
    StartLists, \* the user's playlists at the start
    MaxMade     \* bound on the playlist objects ever made

ASSUME ManagerAssumption ==
    /\ Drives \subseteq Nat
    /\ FirstID \in Nat \ {0} /\ StartLists \in Nat
    /\ MaxMade \in Nat /\ MaxMade > StartLists

\* The objects: two that are members of the manager, then those made by new.
Library == 0
MicList == 1
None    == -1      \* a NULL pointer, an INVALID row

VARIABLES
    rows,    \* the mic is enabled; m_CDPlaylists; m_StandardPlaylists
    active,  \* m_ulActivePlaylistIndex and m_ActivePlaylist
    window,  \* m_ulVisiblePlaylistIndex; the row and the list of the view
    ids,     \* the IDs of the objects made so far
    nextID,  \* m_ulPlaylistID
    freed,   \* history: the playlist objects that were deleted
    plain    \* history: there has been neither microphone nor CD

vars == <<rows, active, window, ids, nextID, freed, plain>>
----------------------------------------------------------------------------
\* The row that the user's own playlists start at
Base(rs)  == 1 + (IF rs.mic THEN 1 ELSE 0) + Len(rs.cds)
\* GetNumPlaylists
NumPlaylists(rs) == Base(rs) + Len(rs.std)

\* The list that stands in row r
RowList(rs, r) ==
    CASE r = 0                              -> Library
      [] r = 1 /\ rs.mic                    -> MicList
      [] r \in Base(rs) - Len(rs.cds) .. Base(rs) - 1 ->
            rs.cds[r - Base(rs) + Len(rs.cds) + 1].list
      [] r \in Base(rs) .. NumPlaylists(rs) - 1       -> rs.std[r - Base(rs) + 1]
      [] r \notin 0 .. NumPlaylists(rs) - 1 -> None

\* GetPlaylistByIndex: the active row shows the active list, whatever stands there.
ListAt(rs, act, r) == IF r = act.row THEN act.list ELSE RowList(rs, r)

Listed(rs) == {Library} \cup {l \in {MicList} : rs.mic}
              \cup {c.list : c \in ToSet(rs.cds)} \cup ToSet(rs.std)
\* PLAYLIST_FLAGS_EXTENDED
Extended(rs) == {Library} \cup ToSet(rs.std)

\* SetActivePlaylistByIndex: a row where no list stands leaves the pointer alone.
SetActive(rs, act, r) ==
    IF r = act.row THEN act
    ELSE [row |-> r, list |-> IF RowList(rs, r) = None THEN act.list ELSE RowList(rs, r)]

\* ShowPlaylistAtIndex, and SetPlaylistSource of the view for that kind of list
Show(rs, act, w, r) ==
    IF r = w.visible THEN w
    ELSE IF ListAt(rs, act, r) = None THEN [w EXCEPT !.visible = r]
    ELSE [visible |-> r, row |-> r, list |-> ListAt(rs, act, r)]

\* GetPlaylistIndexByID: the first row whose list has the ID
HasID(rs, idOf, r, id) == RowList(rs, r) # None /\ idOf[RowList(rs, r)] = id
FirstWithID(rs, idOf, r, id) ==
    HasID(rs, idOf, r, id) /\ \A q \in 0 .. r - 1 : ~HasID(rs, idOf, q, id)

\* The loop over m_ulPlaylistID stops at the first ID that no list has.
FirstFree(rs, idOf, from, id) ==
    /\ id >= from
    /\ \A l \in Listed(rs) : idOf[l] # id
    /\ \A n \in from .. id - 1 : \E l \in Listed(rs) : idOf[l] = n
FreeAnyhow(rs, idOf, from, id) == id = from
FreeID(rs, idOf, from, id) == FirstFree(rs, idOf, from, id)
Above(n) == n .. n + MaxMade

Rows == 0 .. NumPlaylists(rows) - 1
Made == Max(DOMAIN ids)
\* While no pointer to a deleted list is about; what follows is undefined.
Sound == active.list \notin freed /\ window.list \notin freed
----------------------------------------------------------------------------
(***************************************************************************)
(* Choosing and showing.                                                   *)
(***************************************************************************)
Lists == <<rows, ids, nextID, freed, plain>>

\* A click on a row, ShowCurrentlyPlaying, or a song from the library's file
ShowRow(r) ==
    /\ Sound
    /\ window' = Show(rows, active, window, r)
    /\ UNCHANGED <<Lists, active>>

\* A double click in the view
PlayFromView ==
    /\ Sound
    /\ active' = SetActive(rows, active, window.row)
    /\ UNCHANGED <<Lists, window>>

\* The playlist menu, the tray menu and ID_PLAYPLAYLIST
SwitchTo(r) ==
    /\ Sound
    /\ window' = Show(rows, active, window, r)
    /\ active' = SetActive(rows, active, r)
    /\ UNCHANGED Lists

\* The queue, the history and the future list go by the ID.
ByID(act, id, r) ==
    FirstWithID(rows, ids, r, id) /\ ListAt(rows, act, r) \in Extended(rows)
SwitchToID(id) ==
    /\ Sound
    /\ \E r \in Rows : ByID(active, id, r) /\ active' = SetActive(rows, active, r)
    /\ UNCHANGED <<Lists, window>>
----------------------------------------------------------------------------
(***************************************************************************)
(* The user's playlists.                                                   *)
(***************************************************************************)
Without(s, i)   == [k \in 1 .. Len(s) - 1 |-> s[IF k < i THEN k ELSE k + 1]]
With(s, i, e)   == [k \in 1 .. Len(s) + 1 |->
                        IF k < i THEN s[k] ELSE IF k = i THEN e ELSE s[k - 1]]

\* CreateNewStandardPlaylist; the view may show the new list.
NewList(shown) ==
    /\ Sound /\ Made < MaxMade
    /\ \E id \in Above(nextID) :
          /\ FreeID(rows, ids, nextID, id)
          /\ nextID' = id
          /\ ids' = [l \in 0 .. Made + 1 |-> IF l <= Made THEN ids[l] ELSE id]
    /\ rows' = [rows EXCEPT !.std = Append(@, Made + 1)]
    /\ window' = IF shown THEN Show(rows', active, window, NumPlaylists(rows') - 1)
                          ELSE window
    /\ UNCHANGED <<active, freed, plain>>

\* MoveStandardPlaylist: where the moved list goes, among the others.  A row
\* above the user's lists wraps to a huge index and means the end.
MovedCopy(std, i, k) == IF k \in 0 .. Len(std) THEN With(std, k + 1, std[i]) ELSE std
Moved(std, i, k) ==
    LET rest == Without(std, i) IN
    IF k \in 0 .. Len(rest) THEN With(rest, k + 1, std[i]) ELSE Append(rest, std[i])

\* How it keeps the active row.
RowAfterMove(row, from, to) ==
    CASE from = row                          -> to
      [] from > row /\ to <= row             -> row + 1
      [] from < row /\ to > row              -> row - 1
      [] from # row /\ ~(from > row /\ to <= row) /\ ~(from < row /\ to > row) -> row

\* A row is dragged, which shows it, and dropped on row hit, or below the last:
\* then the code takes the number of the user's playlists for the row.
DropRow(from, hit) == IF hit = None THEN Len(rows.std)
                      ELSE IF hit > 0 /\ from < hit THEN hit - 1 ELSE hit
Drag(from, hit) ==
    LET w  == Show(rows, active, window, from)
        to == DropRow(from, hit)
        i  == from - Base(rows) + 1 IN
    /\ Sound
    /\ hit = None \/ {ListAt(rows, active, hit), ListAt(rows, active, from)} \subseteq ToSet(rows.std)
    /\ IF from # to /\ i \in DOMAIN rows.std
       THEN /\ rows' = [rows EXCEPT !.std = Moved(@, i, to - Base(rows))]
            /\ active' = [active EXCEPT !.row = RowAfterMove(@, from, to)]
       ELSE UNCHANGED <<rows, active>>
    /\ window' = Show(rows', active', w, to)
    /\ UNCHANGED <<ids, nextID, freed, plain>>

\* DeletePlaylistByIndex: the index among the user's lists is compared with the
\* row of the active one.
RowStays(row, i)       == row
RowAfterDelete(row, i) == IF i - 1 < row THEN row - 1 ELSE row

\* IDC_SOURCE_DELPLAYLIST and ID_REMOVE: playback is reset and the library made
\* active if the row shows the active list.
LibraryIfRow(r) == IF r = active.row THEN SetActive(rows, active, 0) ELSE active
LibraryIfActive(r) == IF ListAt(rows, active, r) = active.list
                      THEN SetActive(rows, active, 0) ELSE active

\* If the row was the shown one, what stands there now is to be shown.
StillVisible(w) == w
NoneVisible(w)  == [w EXCEPT !.visible = None]
DeleteRow(r) ==
    LET act == LibraryIfActive(r)
        i   == r - Base(rows) + 1 IN
    /\ Sound
    /\ r > 0 /\ ListAt(rows, active, r) \in {MicList} \cup ToSet(rows.std)
    /\ IF i \in DOMAIN rows.std
       THEN /\ rows' = [rows EXCEPT !.std = Without(@, i)]
            /\ active' = [act EXCEPT !.row = RowAfterDelete(@, i)]
            /\ freed' = freed \cup {rows.std[i]}
       ELSE active' = act /\ UNCHANGED <<rows, freed>>
    /\ window' = IF r # window.visible THEN window
                 ELSE Show(rows', active', NoneVisible(window),
                           IF r >= NumPlaylists(rows') THEN r - 1 ELSE r)
    /\ UNCHANGED <<ids, nextID, plain>>
----------------------------------------------------------------------------
(***************************************************************************)
(* The microphone and the CD drives.                                       *)
(***************************************************************************)

\* CMicPlaylist::SetEnabled
EnableMic ==
    /\ Sound
    /\ ~rows.mic
    /\ rows' = [rows EXCEPT !.mic = TRUE] /\ plain' = FALSE
    /\ UNCHANGED <<active, window, ids, nextID, freed>>

\* The library takes over from the microphone and is asked for its next song, for
\* which a list that leads the queue may take over in turn: the microphone still
\* has its row.
QueueLeads(act, next) ==
    \E id \in Range(ids), r \in Rows :
        /\ act.list \in Extended(rows) /\ id # ids[act.list]
        /\ ByID(act, id, r) /\ next = SetActive(rows, act, r)
DisableMic ==
    LET shows == ListAt(rows, active, window.visible)
        w     == IF ids[shows] = ids[MicList] THEN Show(rows, active, window, 0) ELSE window
        act   == SetActive(rows, active, 0) IN
    /\ Sound
    /\ rows.mic /\ shows \notin freed \cup {None}
    /\ window' = w
    /\ IF ids[active.list] = ids[MicList]
       THEN active' = act \/ QueueLeads(act, active')
       ELSE active' = active
    /\ rows' = [rows EXCEPT !.mic = FALSE]
    /\ UNCHANGED <<ids, nextID, freed, plain>>

\* DeleteCDWithDriveLetter: after the removal at x, the CD looked at is the next
\* one; if there is none the array still holds the removed one.
CDLookedAt(cds, x) == IF x < Len(cds) THEN cds[x + 1].list ELSE cds[x].list
CDLeaves(x) ==
    LET gone == [rows EXCEPT !.cds = Without(@, x)]
        hit  == ids[CDLookedAt(rows.cds, x)] = ids[active.list] IN
    /\ Sound
    /\ rows' = gone
    /\ window' = IF hit THEN Show(gone, active, window, 0) ELSE window
    /\ active' = IF hit THEN SetActive(gone, active, 0) ELSE active
    /\ UNCHANGED <<ids, nextID, freed, plain>>

\* DBT_DEVICEARRIVAL for a drive that holds no CD that we know of
CDArrives(d) ==
    /\ Sound /\ Made < MaxMade
    /\ \A c \in ToSet(rows.cds) : c.drive # d
    /\ \E id \in Above(nextID) :
          /\ FreeID(rows, ids, nextID, id)
          /\ nextID' = id
          /\ ids' = [l \in 0 .. Made + 1 |-> IF l <= Made THEN ids[l] ELSE id]
    /\ rows' = [rows EXCEPT !.cds = Append(@, [drive |-> d, list |-> Made + 1])]
    /\ window' = IF window.visible > 2 + Len(rows'.cds)
                 THEN Show(rows', active, window, window.visible + 1) ELSE window
    /\ plain' = FALSE
    /\ UNCHANGED <<active, freed>>
----------------------------------------------------------------------------
(***************************************************************************)
(* The end of the program and the next start.                              *)
(***************************************************************************)

\* The CDs in the drives are listed first and take the first IDs; the user's
\* lists have the IDs that were saved; the microphone gets the next free one and
\* its row when all is shown.
SavedID == IF active.list \in Extended(rows) THEN ids[active.list] ELSE None
Restart(discs) ==
    LET rs  == [mic |-> FALSE, std |-> rows.std,
                cds |-> [k \in DOMAIN discs |-> [drive |-> discs[k], list |-> Made + k]]]
        now == [l \in 0 .. Made + Len(discs) |->
                   IF l <= Made THEN ids[l] ELSE FirstID + l - Made - 1] IN
    /\ Sound /\ Made + Len(discs) <= MaxMade
    /\ rows' = [rs EXCEPT !.mic = rows.mic]
    /\ \E row \in 0 .. NumPlaylists(rs) - 1 :
          /\ \/ FirstWithID(rs, now, row, SavedID)
             \/ row = 0 /\ \A r \in 0 .. NumPlaylists(rs) - 1 : ~HasID(rs, now, r, SavedID)
          /\ active' = [row |-> row, list |-> RowList(rs, row)]
          /\ window' = [visible |-> row, row |-> row, list |-> RowList(rs, row)]
    /\ \E id \in Above(FirstID) :
          /\ FirstFree(rs, now, FirstID, id)
          /\ nextID' = id
          /\ ids' = [now EXCEPT ![MicList] = id]
    /\ plain' = (plain /\ discs = <<>>)
    /\ UNCHANGED freed
----------------------------------------------------------------------------
Init ==
    /\ rows = [mic |-> FALSE, cds |-> <<>>, std |-> [k \in 1 .. StartLists |-> k + 1]]
    /\ active = [row |-> 0, list |-> Library]
    /\ window = [visible |-> 0, row |-> 0, list |-> Library]
    /\ nextID = FirstID + StartLists
    /\ ids = [l \in 0 .. StartLists + 1 |->
                 CASE l = Library -> 0
                   [] l = MicList -> FirstID + StartLists
                   [] l \notin {Library, MicList} -> FirstID + l - 2]
    /\ freed = {} /\ plain = TRUE

Choose ==
    \/ \E r \in Rows : ShowRow(r)
    \/ PlayFromView
    \/ \E r \in Rows : SwitchTo(r)
    \/ \E id \in Range(ids) : SwitchToID(id)

Arrange ==
    \/ \E shown \in BOOLEAN : NewList(shown)
    \/ \E from \in Rows, hit \in Rows \cup {None} : Drag(from, hit)
    \/ \E r \in Rows : DeleteRow(r)

Devices ==
    \/ EnableMic
    \/ DisableMic
    \/ \E x \in DOMAIN rows.cds : CDLeaves(x)
    \/ \E d \in Drives : CDArrives(d)

\* The drives with a disc, in the order of their letters
Discs == {s \in BoundedSeq(Drives, MaxMade) : \A i, k \in DOMAIN s : i < k => s[i] < s[k]}

Next == Choose \/ Arrange \/ Devices \/ \E discs \in Discs : Restart(discs)

Spec == Init /\ [][Next]_vars
----------------------------------------------------------------------------
Objects == 0 .. Made
RowsOf(O) == [mic : BOOLEAN, cds : Seq([drive : Drives, list : O]), std : Seq(O)]

\* The user's rows hold distinct lists that were made and not deleted; the rows
\* that are remembered are in range, and so are the pointers.
TypeOK ==
    /\ Made \in 1 .. MaxMade /\ ids \in [Objects -> Nat] /\ nextID \in Nat
    /\ rows \in RowsOf(Objects)
    /\ IsInjective(rows.std) /\ ToSet(rows.std) \cap ({Library, MicList} \cup freed) = {}
    /\ active \in [row : Nat, list : Objects]
    /\ window \in [visible : Nat, row : Nat, list : Objects]
    /\ freed \subseteq Objects \ {Library, MicList}
    /\ plain \in BOOLEAN

\* Without microphone and CDs the active list is never one that was deleted,
\* although its row may be wrong: deleting a list looks at the row and at the
\* pointer (CSourceSelectorWindow's two delete commands).
ActiveAlive == plain => active.list \notin freed

ActiveRight == RowList(rows, active.row) = active.list
ViewRight   == RowList(rows, window.row) = window.list

\* The row of the active list becomes wrong only when a list from above it is
\* dropped right below, when the row of the view does not exist any more, or with a
\* microphone or CDs: where they are present, come or go.  From then on its row
\* hides the list that stands there.
ActiveRowKept ==
    [][(ActiveRight /\ ~ActiveRight') =>
           \/ Base(rows) # 1 \/ Base(rows') # 1
           \/ rows'.std # rows.std /\ Len(rows'.std) = Len(rows.std)
              /\ \E from \in 1 .. active.row - 1 : rows'.std = Moved(rows.std, from, active.row - 1)
           \/ RowList(rows, window.row) = None]_vars

\* What a double click in the view makes active is the list that it shows, as long
\* as no list above it is deleted, the active list keeps its row, and there is
\* neither microphone nor CD.
ViewRowKept ==
    [][(ViewRight /\ ~ViewRight') =>
           \/ Base(rows) # 1 \/ Base(rows') # 1
           \/ Len(rows'.std) < Len(rows.std)
              /\ \E r \in 1 .. window.row - 1 : rows'.std = Without(rows.std, r)
           \/ ~ActiveRight']_vars

IDsUnique == \A l, k \in Listed(rows) : l # k => ids[l] # ids[k]

\* Two lists come to have one ID only when the microphone is enabled after a list
\* has been given its ID, or at a start with a CD in a drive.
IDsStayUnique ==
    [][(IDsUnique /\ ~IDsUnique') =>
           \/ rows'.mic /\ ~rows.mic
           \/ \E discs \in Discs \ {<<>>} : Restart(discs)]_vars
============================================================================
