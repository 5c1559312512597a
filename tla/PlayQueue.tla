----------------------------- MODULE PlayQueue -----------------------------
(***************************************************************************)
(* The play queue, the history and the future list: what the user has      *)
(* asked to hear next across all playlists, what was heard, and what       *)
(* Tuniac says will be heard (CPlayQueue, CHistory, CTuniacApp::PlayEntry  *)
(* and BuildFuturePlaylistArray, CBasePlaylist::Next).                     *)
(*                                                                         *)
(* Everything runs on the UI thread, so a command or a notification is one *)
(* action.  Shuffle is off and no list has an entry twice: orders and      *)
(* duplicates are the subject of Playlist, the streams and the order of    *)
(* their notifications that of Player.  List 0 is the library.  The code   *)
(* counts from 0; here places start at 1 and 0 is INVALID_PLAYLIST_INDEX.  *)
(***************************************************************************)
EXTENDS Integers, Sequences, SequencesExt, FiniteSetsExt, Functions, Selection

CONSTANTS
    Songs,        \* entries of the media library
    NoSong,       \* no entry: a NULL pointer or an invalid ID
    Content,      \* Content[l]: the entries of list l at the start
    Broken,       \* songs whose files cannot be opened
    Fields,       \* sets of songs that are alike in some column
    Filters,      \* the sets of songs a text filter may hide
    Saved,        \* the queues the playlist file may hold
    Modes,        \* the repeat modes the user may choose
    HistorySize,  \* Preferences: GetHistoryListSize
    FutureSize,   \* Preferences: GetFutureListSize
    MaxRetry,     \* failed songs in a row before giving up (10 in the code)
    FirstID,      \* the first ID for a playlist (10 in the code)
    MaxSelected,  \* bound on the rows of one selection
    MaxQueue,     \* bound on the queue the user makes
    MaxSteps      \* bound on the user's commands

Repeats == {"None", "One", "All", "AllQueued"}

ASSUME PlayQueueAssumption ==
    /\ NoSong \notin Songs /\ Broken \subseteq Songs
    /\ DOMAIN Content \subseteq Nat /\ 0 \in DOMAIN Content
    /\ \E m \in DOMAIN Content : \A l \in DOMAIN Content : l <= m
    /\ Content \in [DOMAIN Content -> Seq(Songs)]
    /\ Fields \subseteq SUBSET Songs /\ Filters \subseteq SUBSET Songs
    /\ Modes \subseteq Repeats
    /\ {MaxRetry, FirstID, MaxSelected, MaxQueue, MaxSteps} \subseteq Nat
    \* The preferences allow no less than 2.
    /\ {HistorySize, FutureSize} \subseteq Nat \ {0}
    /\ \A q \in Saved : q \in Seq([list : Nat, entry : Songs]) /\ Len(q) <= MaxQueue

VARIABLES
    items,       \* the lists that exist, by ID: their entries in order
    shown,       \* shown[l]: m_NormalIndexArray, what l's text filter shows, as entries
    at,          \* at[l]: l's active entry
    newestID,    \* PlaylistManager: m_ulPlaylistID
    activeList,  \* PlaylistManager: the ID of m_ActivePlaylist
    queue,       \* m_Queue: wishes for an entry of a list
    history,     \* m_History, the latest first
    selected,    \* m_PlaySelected: places chosen with the Alt key
    repeat,      \* Preferences: GetRepeatMode
    crossfade,   \* Preferences: CrossfadingEnabled
    outdated,    \* m_FutureMenu, if it is not what would be built now
    playing,     \* the song of the last stream, if there is one
    ending,      \* with crossfade: the stream that is mixed and has yet to end
    failing,     \* PLAYBACKFAILED waits for the window procedure
    retries,     \* m_iFailedSongRetry
    steps        \* the user's commands so far

listVars   == <<items, shown, newestID>>
playVars   == <<at, activeList, playing, ending, failing, retries, history, selected>>
vars == <<listVars, playVars, queue, repeat, crossfade, outdated, steps>>
----------------------------------------------------------------------------
Lists   == DOMAIN items
Library == ToSet(items[0])
Wish(l, e) == [list |-> l, entry |-> e]
Silence    == Wish(0, NoSong)

\* The first of positions 1 .. n with property P, or 0.
FirstOf(n, P(_)) ==
    IF \E i \in 1 .. n : P(i) THEN Min({i \in 1 .. n : P(i)}) ELSE 0

\* GetFilteredIndexforEntryID and GetNormalFilteredIndexforEntryID
Place(l, e)   == FirstOf(Len(shown[l]), LAMBDA i : shown[l][i] = e)
\* GetEntryAtFilteredIndex
EntryAt(l, n) == IF n \in DOMAIN shown[l] THEN shown[l][n] ELSE NoSong

\* The list of the wish exists and shows its entry.
Playable(w) == w.list \in Lists /\ Place(w.list, w.entry) # 0

\* Next, after the play queue: the active list's own order
OwnNext ==
    LET a == Place(activeList, at[activeList])
        n == Len(shown[activeList]) IN
    CASE a = 0 -> 1
      [] a # 0 /\ repeat = "One" -> a
      [] a \in 1 .. n - 1 /\ repeat # "One" -> a + 1
      [] a # 0 /\ a = n /\ repeat = "All" -> 1
      [] a # 0 /\ a = n /\ repeat \in {"None", "AllQueued"} -> 0

\* Next: the place it returns with its entry, and the list it leaves active.  A
\* head that cannot be played stays where it is.
From(l, n)    == [list |-> l, place |-> n, entry |-> EntryAt(l, n)]
NextInOwnList == From(activeList, OwnNext)
NextOfGivenList ==
    IF shown[activeList] = <<>> THEN From(activeList, 0)
    ELSE IF selected # <<>> THEN From(activeList, Head(selected))
    ELSE IF queue # <<>> /\ Head(queue).list \in Lists
         THEN From(Head(queue).list, Place(Head(queue).list, Head(queue).entry))
    ELSE NextInOwnList
NextSong ==
    IF shown[activeList] = <<>> THEN From(activeList, 0)
    ELSE IF selected # <<>> THEN From(activeList, Head(selected))
    ELSE IF queue # <<>> /\ Playable(Head(queue))
         THEN From(Head(queue).list, Place(Head(queue).list, Head(queue).entry))
    ELSE NextInOwnList
----------------------------------------------------------------------------
(***************************************************************************)
(* BuildFuturePlaylistArray: the songs chosen with Alt, the queue, then    *)
(* the order of the list that the last of them is in.                      *)
(***************************************************************************)

\* l is the active list.
FutureSelected(l) ==
    LET chosen == [k \in DOMAIN selected |-> Wish(l, EntryAt(l, selected[k]))]
        there  == Kept(chosen, LAMBDA w : w.entry # NoSong)
    IN  SubSeq(there, 1, Min({FutureSize, Len(there)}))

Listed   == Kept(queue, Playable)
\* The index goes back to the first wish after the last, if that has a list.
Restarts == repeat = "AllQueued" /\ queue # <<>> /\ Last(queue).list \in Lists

\* Round after round nothing is added.
FutureLoops(l) ==
    /\ Restarts /\ \A i \in DOMAIN queue : ~Playable(queue[i])
    /\ Len(FutureSelected(l)) < FutureSize

FutureQueue(room) ==
    IF Restarts THEN [k \in 1 .. room |-> Listed[((k - 1) % Len(Listed)) + 1]]
                ELSE SubSeq(Listed, 1, Min({room, Len(Listed)}))

\* GetNextFilteredIndexForFilteredIndex
PlaceAfter(l, n) ==
    CASE n \notin DOMAIN shown[l] -> 1
      [] n \in DOMAIN shown[l] /\ repeat = "One" -> n
      [] n \in 1 .. Len(shown[l]) - 1 /\ repeat # "One" -> n + 1
      [] n = Len(shown[l]) /\ n # 0 /\ repeat # "One" -> 1

FutureOwn(l, n, room) ==
    LET p[k \in 0 .. room] == IF k = 0 THEN n ELSE PlaceAfter(l, p[k - 1])
    IN  IF shown[l] = <<>> THEN <<>>
        ELSE [k \in 1 .. room |-> Wish(l, EntryAt(l, p[k]))]

FutureAsked(l) == FutureSelected(l) \o FutureQueue(FutureSize - Len(FutureSelected(l)))
\* e is the active entry of list l.
FutureWith(l, e, asked) ==
    LET last == IF asked = <<>> THEN Wish(l, e) ELSE Last(asked)
        n    == Place(last.list, last.entry)
        room == FutureSize - Len(asked)
    IN  IF n = 0 /\ room > 0
        THEN asked \o <<Wish(last.list, EntryAt(last.list, 1))>>
                   \o FutureOwn(last.list, 1, room - 1)
        ELSE asked \o FutureOwn(last.list, n, room)

\* The menu when e is the active entry of the active list l, a set of one
FutureMenus(l, e) == {FutureWith(l, e, asked) : asked \in {FutureAsked(l)}}

\* The menu as it was built last
Menus             == IF outdated = {} THEN FutureMenus(activeList, at[activeList]) ELSE outdated
Future            == CHOOSE m \in Menus : TRUE
RebuildFutureMenu == outdated' = {}
KeepFutureMenu    == outdated' = Menus
\* It is built anew if the view comes to show another list.
MayRebuildFutureMenu == RebuildFutureMenu \/ KeepFutureMenu

\* The menu was to be built: the UI thread is in an endless loop.
Hung == outdated = {} /\ FutureLoops(activeList)
----------------------------------------------------------------------------
(***************************************************************************)
(* Playing.                                                                *)
(***************************************************************************)

\* The loop leaves out the items that match.  Its index runs on after a removal, so
\* the item that follows a removed one is never looked at.
Dropped(s, match) ==
    LET gone[i \in 0 .. Len(s)] == i \in match /\ ~gone[i - 1]
    IN  Selected(s, {i \in DOMAIN s : ~gone[i]})
EntryKept(s, e)        == s
RemoveEntryID(s, e)    == Dropped(s, {i \in DOMAIN s : s[i].entry = e})
RemovePlaylistID(s, l) == Dropped(s, {i \in DOMAIN s : s[i].list = l})

\* AddHistoryItem; the active list has what was just played.
HistoryUnbounded(h, w) == <<w>> \o h
AddHistoryItem(h, w) ==
    IF h # <<>> /\ Head(h) = w THEN h
    ELSE SubSeq(<<w>> \o h, 1, Min({HistorySize, Len(h) + 1}))

\* The first wish whose entry has the place of e in list l goes, and all before
\* it.  The list of a wish is not asked for; a wish that l does not show has the
\* place of an e that it does not show.
QueueKept(l, e) == queue
QueueWithout(l, e) == Kept(queue, LAMBDA w : w.entry # e)
QueueInOldList(l, e) ==
    LET i == FirstOf(Len(queue), LAMBDA k : Place(l, queue[k].entry) = Place(l, e)) IN
    IF i = 0 THEN queue
    ELSE SubSeq(queue, i + 1, Len(queue))
         \o (IF repeat = "AllQueued" THEN [k \in 1 .. i |-> Wish(activeList, queue[i].entry)]
                                     ELSE <<>>)
QueueAfter(l, e) ==
    LET i == FirstOf(Len(queue), LAMBDA k : Place(l, queue[k].entry) = Place(l, e)) IN
    IF i = 0 THEN queue
    ELSE SubSeq(queue, i + 1, Len(queue))
         \o (IF repeat = "AllQueued" THEN [k \in 1 .. i |-> Wish(l, queue[i].entry)]
                                     ELSE <<>>)

\* SetActivePlaylistByIndex: the list that was active keeps no active entry.
AtOnceActive(l) == [at EXCEPT ![activeList] = IF l = activeList THEN @ ELSE NoSong]

\* PlayEntry for an entry of l, which is made active; h is the history, old what
\* is heard.  A reset stops that first; without it the two are mixed.
CannotOpen(l, e, h, old, reset) ==
    /\ activeList' = l /\ at' = [AtOnceActive(l) EXCEPT ![l] = e] /\ history' = h
    /\ playing' = IF reset THEN Silence ELSE old
    /\ ending' = IF reset \/ old = Silence THEN "none" ELSE "last"
    /\ failing' = TRUE
    /\ UNCHANGED <<queue, selected>>

Starts(l, e, h, old, reset) ==
    /\ activeList' = l /\ at' = [AtOnceActive(l) EXCEPT ![l] = e]
    /\ playing' = Wish(l, e)
    /\ ending' = IF reset \/ old = Silence THEN "none" ELSE "old"
    /\ failing' = FALSE /\ retries' = 0
    /\ history' = AddHistoryItem(h, Wish(l, e))
    /\ selected' = IF selected # <<>> /\ Head(selected) = Place(l, e)
                   THEN Tail(selected) ELSE selected
    /\ queue' = QueueAfter(l, e)
    /\ RebuildFutureMenu

PlayEntry(l, e, h, old, reset, tried) ==
    IF e \in Broken
    THEN CannotOpen(l, e, h, old, reset) /\ retries' = tried /\ KeepFutureMenu
    ELSE Starts(l, e, h, old, reset)

\* l is made active and nothing is played; h is the history.
MakeActive(l, h) ==
    /\ activeList' = l /\ at' = AtOnceActive(l) /\ history' = h
    /\ UNCHANGED <<queue, selected>>

\* PlayEntry of NULL
PlayNothing(l, h) == MakeActive(l, h) /\ KeepFutureMenu

\* The user commands only when no failure waits: a posted message comes first.
Command  == ~Hung /\ ~failing /\ steps < MaxSteps /\ steps' = steps + 1
Notified == UNCHANGED <<steps, listVars, repeat, crossfade>> /\ ~Hung

\* PlayEntry with bResetAudio, as a command calls it
Choose(l, e, h) ==
    /\ UNCHANGED <<listVars, repeat, crossfade>>
    /\ IF e = NoSong
       THEN PlayNothing(l, h) /\ UNCHANGED <<playing, ending, failing, retries>>
       ELSE PlayEntry(l, e, h, playing, TRUE, retries)

\* ID_PLAYBACK_NEXT starts over when there is no next.
OrFirst(n) == Wish(n.list, IF n.place = 0 THEN EntryAt(n.list, 1) ELSE n.entry)
SkipToNext == Command /\ \E w \in {OrFirst(NextSong)} : Choose(w.list, w.entry, history)

\* A double click in the view of list l
PlayFromView(l, e) == Command /\ e \in ToSet(shown[l]) /\ Choose(l, e, history)

\* The library is made active and shown, and then the song is looked for.  If the
\* view showed another list, the future list is built in between, or for ever.
PlayFromLibrary(e, h) ==
    \/ Choose(0, e, h)
    \/ /\ UNCHANGED <<listVars, repeat, crossfade>>
       /\ \/ /\ FutureLoops(0) \/ e = NoSong
             /\ MakeActive(0, h) /\ RebuildFutureMenu
             /\ UNCHANGED <<playing, ending, failing, retries>>
          \/ /\ e \in Broken /\ ~FutureLoops(0)
             /\ CannotOpen(0, e, h, playing, TRUE) /\ UNCHANGED retries
             /\ outdated' = FutureMenus(0, at[0])

\* PlayHistoryIndex: from its list, or else from the library
PlayHistoryIndex(i) ==
    /\ Command
    /\ LET w == history[i]
           h == RemoveAt(history, i) IN
       IF w.list \in Lists /\ w.entry \in ToSet(items[w.list])
       THEN Choose(w.list, w.entry, h)
       ELSE PlayFromLibrary(IF w.entry \in Library THEN w.entry ELSE NoSong, h)

\* A click in the future list
PlayFuture(i) ==
    /\ Command
    /\ Future[i].list \in Lists
    /\ LET w == Future[i] IN
       Choose(w.list, IF w.entry \in ToSet(items[w.list]) THEN w.entry ELSE NoSong, history)

\* PLAYBACKFINISHED without crossfade
SongEnds(n) ==
    /\ ~failing /\ ~crossfade /\ playing # Silence
    /\ Notified
    /\ IF n.entry = NoSong
       THEN PlayNothing(n.list, history) /\ playing' = Silence
            /\ UNCHANGED <<ending, failing, retries>>
       ELSE PlayEntry(n.list, n.entry, history, Silence, TRUE, retries)

\* MIXPOINTREACHED with crossfade: the next song starts while this one fades.
MixPoint(n) ==
    /\ ~failing /\ crossfade /\ playing # Silence /\ ending = "none"
    /\ Notified
    /\ IF n.entry = NoSong
       THEN PlayNothing(n.list, history) /\ ending' = "last"
            /\ UNCHANGED <<playing, failing, retries>>
       ELSE PlayEntry(n.list, n.entry, history, playing, FALSE, retries)

\* PLAYBACKFINISHED with crossfade only asks whether there is a next song; but
\* Next makes the list of the queue's head the active one.
HeardAfterEnd == IF ending = "last" THEN Silence ELSE playing
StreamEnds(n) ==
    /\ ~failing /\ ending # "none"
    /\ Notified
    /\ PlayNothing(n.list, history)
    /\ ending' = "none" /\ playing' = HeardAfterEnd
    /\ UNCHANGED <<failing, retries>>

\* PLAYBACKFAILED: the next song is tried, without a reset.
HandleFailed(n) ==
    /\ failing
    /\ Notified
    /\ IF retries < MaxRetry /\ n.entry # NoSong
       THEN PlayEntry(n.list, n.entry, history, playing, FALSE, retries + 1)
       ELSE /\ PlayNothing(IF retries < MaxRetry THEN n.list ELSE activeList, history)
            /\ failing' = FALSE
            /\ retries' = IF retries < MaxRetry THEN retries + 1 ELSE retries
            /\ UNCHANGED <<playing, ending>>
----------------------------------------------------------------------------
(***************************************************************************)
(* What the user asks for.                                                 *)
(***************************************************************************)

\* A selection in the view of list l, from the top down
Places(l)     == [i \in DOMAIN shown[l] |-> i]
Selections(l) == {Selected(Places(l), T) : T \in {S \in SUBSET (DOMAIN shown[l]) :
                                                      Cardinality(S) \in 1 .. MaxSelected}}
Wishes(l, sel) == [k \in DOMAIN sel |-> Wish(l, shown[l][sel[k]])]

\* The queue becomes q.
EnqueueUnseen(q) ==
    /\ Len(q) <= MaxQueue
    /\ queue' = q
    /\ UNCHANGED <<listVars, playVars, crossfade>>
    /\ KeepFutureMenu
Enqueue(q) ==
    /\ Len(q) <= MaxQueue
    /\ queue' = q
    /\ UNCHANGED <<listVars, playVars, crossfade>>
    /\ RebuildFutureMenu

\* ID_PLAYNEXT and ID_QUEUE
PlayNext(l, sel)    == Command /\ UNCHANGED repeat /\ Enqueue(Wishes(l, sel) \o queue)
AppendQueue(l, sel) == Command /\ UNCHANGED repeat /\ Enqueue(queue \o Wishes(l, sel))

\* ID_QUEUEBYFIELD: what the filter hides is queued too; Ctrl clears first.
QueueByField(l, alike, ctrl) ==
    LET found == Kept(items[l], LAMBDA e : e \in alike) IN
    /\ Command /\ alike \cap ToSet(shown[l]) # {}
    /\ UNCHANGED repeat
    /\ Enqueue((IF ctrl THEN <<>> ELSE queue) \o [k \in DOMAIN found |-> Wish(l, found[k])])

\* ID_PLAYBACK_CLEARQUEUE, which the menu offers for a queue that is not empty
ClearQueue ==
    /\ Command /\ queue # <<>>
    /\ repeat' = IF repeat = "AllQueued" THEN "None" ELSE repeat
    /\ Enqueue(<<>>)

\* ID_REPEAT_OFF to ID_REPEAT_ALLQUEUED and the toggle
SetRepeat(mode) ==
    /\ Command
    /\ mode # repeat /\ (mode = "AllQueued" => queue # <<>>)
    /\ repeat' = mode
    /\ UNCHANGED <<listVars, playVars, queue, crossfade>>
    /\ RebuildFutureMenu

\* Rows of the view are selected with the Alt key, or without it none stays.
SelectToPlay(sel) ==
    /\ Command
    /\ selected' = sel
    /\ UNCHANGED <<listVars, at, activeList, playing, ending, failing, retries, history,
                   queue, repeat, crossfade>>
    /\ RebuildFutureMenu

\* The tray menu makes a list active and plays nothing; if the view comes to show
\* another list, that has the future list built before.
SwitchTo(l) ==
    /\ Command
    /\ \/ PlayNothing(l, history)
       \/ /\ ~FutureLoops(activeList) /\ MakeActive(l, history)
          /\ outdated' = FutureMenus(activeList, at[activeList])
       \/ FutureLoops(activeList) /\ MakeActive(activeList, history) /\ RebuildFutureMenu
    /\ UNCHANGED <<listVars, playing, ending, failing, retries, repeat, crossfade>>
----------------------------------------------------------------------------
(***************************************************************************)
(* What happens to the lists.                                              *)
(***************************************************************************)

SetFilter(l, hide) ==
    /\ Command
    /\ shown' = [shown EXCEPT ![l] = Kept(items[l], LAMBDA e : e \notin hide)]
    /\ UNCHANGED <<items, newestID, playVars, queue, repeat, crossfade>>
    /\ RebuildFutureMenu

\* CCoreAudio::Reset, if the removal leaves the active list with no active entry
ResetIf(cond) ==
    /\ playing' = IF cond THEN Silence ELSE playing
    /\ ending'  = IF cond THEN "none" ELSE ending

Without(f, ids, e) == [l \in Lists |-> IF l \in ids THEN Kept(f[l], LAMBDA x : x # e)
                                                    ELSE f[l]]
AtWithout(ids, e) == [l \in Lists |-> IF l \in ids /\ at[l] = e THEN NoSong ELSE at[l]]

\* ID_REMOVE in the view of a standard playlist
RemoveFromList(l, e) ==
    /\ Command
    /\ l # 0 /\ e \in ToSet(shown[l])
    /\ items' = Without(items, {l}, e) /\ shown' = Without(shown, {l}, e)
    /\ at' = AtWithout({l}, e)
    /\ ResetIf(activeList = l /\ at'[l] = NoSong)
    /\ UNCHANGED <<newestID, activeList, failing, retries, history, selected,
                   queue, repeat, crossfade>>
    /\ RebuildFutureMenu

\* ID_REMOVE in the view of the library: the entry is destroyed.
RemoveFromLibrary(e) ==
    /\ Command
    /\ e \in ToSet(shown[0])
    /\ items' = Without(items, Lists, e) /\ shown' = Without(shown, Lists, e)
    /\ at' = AtWithout(Lists, e)
    /\ queue' = RemoveEntryID(queue, e)
    /\ history' = RemoveEntryID(history, e)
    /\ ResetIf(at'[activeList] = NoSong /\ (activeList = 0 \/ at[activeList] = e))
    /\ UNCHANGED <<newestID, activeList, failing, retries, selected, repeat,
                   crossfade>>
    /\ RebuildFutureMenu

\* Deleting a playlist; the history keeps its ID.
DeleteList(l) ==
    /\ Command
    /\ l # 0
    /\ items' = [k \in Lists \ {l} |-> items[k]]
    /\ shown' = [k \in Lists \ {l} |-> shown[k]]
    /\ at' = [k \in Lists \ {l} |-> at[k]]
    /\ activeList' = IF activeList = l THEN 0 ELSE activeList
    /\ ResetIf(activeList = l)
    /\ queue' = RemovePlaylistID(queue, l)
    /\ UNCHANGED <<newestID, failing, retries, history, selected, repeat, crossfade>>
    /\ MayRebuildFutureMenu

\* CreateNewStandardPlaylistWithIDs: the newest list's ID, if that list is gone.
NewList(s) ==
    LET id == Min({n \in newestID .. newestID + Cardinality(Lists) : n \notin Lists}) IN
    /\ Command
    /\ items' = [l \in Lists \cup {id} |-> IF l = id THEN s ELSE items[l]]
    /\ shown' = [l \in Lists \cup {id} |-> IF l = id THEN s ELSE shown[l]]
    /\ at'    = [l \in Lists \cup {id} |-> IF l = id THEN NoSong ELSE at[l]]
    /\ newestID' = id
    /\ UNCHANGED <<activeList, playing, ending, failing, retries, history, selected,
                   queue, repeat, crossfade>>
    /\ MayRebuildFutureMenu

\* Shutdown and the next start.  The song that was active is opened, or the
\* first one made active; nobody handles that it could not be opened, as there is
\* no window yet.  The queue is read as it was, the history item by item.
HistoryReversed(h) == h
HistoryToRead(h)   == Reverse(h)
ReadHistory(h, s)  ==
    LET read[k \in 0 .. Len(s)] == IF k = 0 THEN h ELSE AddHistoryItem(read[k - 1], s[k])
    IN  read[Len(s)]
Restart ==
    LET l     == activeList
        e     == IF Place(l, at[l]) # 0 THEN at[l] ELSE EntryAt(l, 1)
        opens == e \notin Broken \cup {NoSong}
        known == Kept(HistoryToRead(history),
                           LAMBDA w : w.list \in Lists /\ w.entry \in ToSet(items[w.list])) IN
    /\ Command
    /\ at' = [k \in Lists |-> IF k # l THEN NoSong
                              ELSE IF opens THEN e ELSE EntryAt(l, 1)]
    /\ playing' = IF opens THEN Wish(l, e) ELSE Silence
    /\ history' = ReadHistory(IF opens THEN <<playing'>> ELSE <<>>, known)
    /\ repeat' = IF queue = <<>> /\ repeat = "AllQueued" THEN "None" ELSE repeat
    /\ newestID' = Min({n \in FirstID .. FirstID + Cardinality(Lists) : n \notin Lists})
    /\ selected' = <<>> /\ ending' = "none" /\ retries' = 0
    /\ UNCHANGED <<items, shown, activeList, failing, queue, crossfade>>
    /\ RebuildFutureMenu
----------------------------------------------------------------------------
\* As a start leaves it: the active list is one whose active song was opened, or
\* the library with none.
Init ==
    /\ items = Content /\ newestID = Max(Lists) + 1
    /\ shown = items
    /\ queue \in Saved /\ selected = <<>>
    /\ repeat \in Modes /\ (repeat = "AllQueued" => queue # <<>>)
    /\ crossfade \in BOOLEAN
    /\ \/ activeList = 0 /\ playing = Silence /\ history = <<>>
          /\ at = [l \in Lists |-> NoSong]
       \/ \E l \in Lists : \E e \in ToSet(shown[l]) \ Broken :
            /\ activeList = l /\ playing = Wish(l, e) /\ history = <<Wish(l, e)>>
            /\ at = [k \in Lists |-> IF k = l THEN e ELSE NoSong]
    /\ ending = "none" /\ failing = FALSE /\ retries = 0 /\ steps = 0
    /\ outdated = {}

Play ==
    \/ SkipToNext
    \/ \E l \in Lists : \E e \in ToSet(shown[l]) : PlayFromView(l, e)
    \/ \E i \in DOMAIN history : PlayHistoryIndex(i)
    \/ ~Hung /\ \E i \in DOMAIN Future : PlayFuture(i)

Ask ==
    \/ \E l \in Lists : \E sel \in Selections(l) : PlayNext(l, sel)
    \/ \E l \in Lists : \E sel \in Selections(l) : AppendQueue(l, sel)
    \/ \E l \in Lists, alike \in Fields, ctrl \in BOOLEAN : QueueByField(l, alike, ctrl)
    \/ ClearQueue
    \/ \E mode \in Modes : SetRepeat(mode)
    \/ \E sel \in {<<>>} \cup UNION {Selections(l) : l \in Lists} : SelectToPlay(sel)
    \/ \E l \in Lists : SwitchTo(l)

Change ==
    \/ \E l \in Lists, hide \in Filters : SetFilter(l, hide)
    \/ \E l \in Lists, e \in Songs : RemoveFromList(l, e)
    \/ \E e \in Songs : RemoveFromLibrary(e)
    \/ \E l \in Lists : DeleteList(l)
    \/ \E l \in Lists : NewList(shown[l])
    \/ Restart

GoOn == \E n \in {NextSong} : \/ SongEnds(n) \/ MixPoint(n)
                              \/ StreamEnds(n) \/ HandleFailed(n)

Next == Play \/ Ask \/ Change \/ GoOn

\* Streams come to their mix points and ends, and the messages are handled.
Spec == Init /\ [][Next]_vars /\ WF_vars(GoOn)
----------------------------------------------------------------------------
Wanted == [list : Nat, entry : Songs]

\* Each list that exists has its filter and its active entry; the queue, the
\* history and the future list hold no more than their sizes allow.
TypeOK ==
    /\ 0 \in Lists /\ Lists \subseteq Nat
    /\ items \in [Lists -> Seq(Songs)]
    /\ shown \in [Lists -> Seq(Songs)]
    /\ at \in [Lists -> Songs \cup {NoSong}]
    /\ activeList \in Lists /\ newestID \in Nat
    /\ queue \in Seq(Wanted) /\ Len(queue) <= MaxQueue
    /\ history \in Seq(Wanted) /\ Len(history) <= HistorySize
    /\ \A m \in outdated : m \in Seq([list : Nat, entry : Songs \cup {NoSong}])
    /\ selected \in Seq(Nat \ {0})
    /\ repeat \in Repeats /\ crossfade \in BOOLEAN
    /\ playing \in Wanted \cup {Silence}
    /\ ending \in {"none", "old", "last"}
    /\ failing \in BOOLEAN /\ retries \in 0 .. MaxRetry
    /\ steps \in 0 .. MaxSteps

Ready(w) == Playable(w) /\ w.entry \notin Broken
Asks     == SkipToNext \/ SongEnds(NextSong) \/ MixPoint(NextSong)

\* When the next song is asked for, by a command or by a song's end, the head of
\* the queue is it, from its own list, and no other wish goes; with repeat all
\* queued it goes to the end.  Only songs chosen with Alt come first, and an
\* active list that shows nothing keeps the queue waiting.
QueueInOrder ==
    [][(/\ Asks /\ selected = <<>> /\ shown[activeList] # <<>>
        /\ queue # <<>> /\ Ready(Head(queue)))
           => /\ playing' = Head(queue)
              /\ queue' = Tail(queue) \o (IF repeat = "AllQueued" THEN <<Head(queue)>>
                                                                 ELSE <<>>)]_vars

\* Without repeat all queued, wishes that go were cleared by the user or named
\* what was removed, or a song started that was wished for: then those up to a
\* wish for that song go, whatever list it named, and the rest stays.  A song that
\* the active list hides takes with it wishes for others that it does not show.
OnlyHeardWishesGo ==
    [][(Len(queue') < Len(queue) /\ repeat # "AllQueued") =>
           \/ queue' = <<>> /\ UNCHANGED playVars
           \/ UNCHANGED <<items, playVars>>
           \/ items' # items
           \/ LET k == Len(queue) - Len(queue') IN
              /\ queue' = SubSeq(queue, k + 1, Len(queue))
              /\ \/ queue[k].entry = playing'.entry
                 \/ Place(playing'.list, playing'.entry) = 0
                    /\ Place(playing'.list, queue[k].entry) = 0]_vars

TwinsIn(s, P(_)) == \E i \in 1 .. Len(s) - 1 : P(s[i]) /\ P(s[i + 1])

\* The queue comes to name a list or an entry that is gone only when two such
\* wishes stood next to each other, and so the history an entry.
GhostsOnlyFromTwins ==
    [][/\ \A l \in Lists \ Lists' :
             (\E w \in ToSet(queue') : w.list = l) => TwinsIn(queue, LAMBDA w : w.list = l)
       /\ \A e \in Library \ Library' :
             /\ (\E w \in ToSet(queue') : w.entry = e)
                    => TwinsIn(queue, LAMBDA w : w.entry = e)
             /\ (\E w \in ToSet(history') : w.entry = e)
                    => TwinsIn(history, LAMBDA w : w.entry = e)]_vars

\* The list that is active shows songs, and what was asked for first is shown.
Clear ==
    /\ ~Hung /\ shown[activeList] # <<>>
    /\ IF selected # <<>> THEN EntryAt(activeList, Head(selected)) # NoSong
                          ELSE queue # <<>> => Playable(Head(queue))
Foretold == \A m \in Menus : Head(m) = OrFirst(NextSong)

\* What stands first in the future list, whenever it was built, is what the command
\* for the next song plays, or tries to; unless the queue or the songs chosen with
\* Alt begin with one that is not shown, or the active list shows nothing.  It comes
\* to be another song only when a song cannot be opened, when a list is made or
\* deleted, and when a command makes another list active and plays nothing.
ForetoldIsPlayed ==
    [][/\ (SkipToNext /\ Clear /\ (outdated = {} \/ Foretold))
              => Head(Future) = Wish(activeList', at'[activeList'])
       /\ (outdated' # {} /\ Clear' /\ ~Foretold') =>
              \/ Clear /\ ~Foretold
              \/ failing'
              \/ Lists' # Lists
              \/ steps' # steps /\ activeList' # activeList /\ UNCHANGED playing]_vars

Heard == playing = Silence \/ playing.list = activeList

\* While a song is heard the active list, which the title, the marks of failed
\* files and Next go by, is the list it was played from.  It ceases to be only when
\* a command starts nothing (the user makes another list active, or asks for a song
\* that is gone), when the next song cannot be opened while the last is heard, and
\* when a stream ends after a crossfade and the next wish is for another list.
ActiveListIsHeard ==
    [][(Heard /\ ~Heard') =>
           \/ failing'
           \/ steps' # steps /\ UNCHANGED playing
           \/ /\ ending # "none" /\ ending' = "none"
              /\ queue # <<>> /\ activeList' = Head(queue).list]_vars

Healthy == \A w \in ToSet(queue) : Playable(w)

\* With a queue of songs that can all be played the UI thread comes to loop
\* forever only when the step hides or removes songs, or queues hidden ones, or
\* plays a song that its list hides: then a wish for another song is taken for
\* it and comes back as a wish that its list cannot fulfil.
HangsExplained ==
    [][(~Hung /\ Healthy /\ Hung') =>
           \/ shown' # shown \/ items' # items
           \/ \E l \in Lists, alike \in Fields, ctrl \in BOOLEAN : QueueByField(l, alike, ctrl)
           \/ Place(activeList', at'[activeList']) = 0 /\ playing' = Wish(activeList', at'[activeList'])]_vars

Stutters(h) == \E i \in 1 .. Len(h) - 1 : h[i] = h[i + 1]

\* A restart gives the history as it was, with the song that is opened again
\* below it, if nothing in it is gone and no song is there twice running.
RestartKeepsHistory ==
    [][(/\ Restart /\ ~Stutters(history)
        /\ \A w \in ToSet(history) : w.list \in Lists /\ w.entry \in ToSet(items[w.list]))
           => SubSeq(history', 1, Len(history)) = history]_vars

\* "All Queued: This will replay the files in the queue" (Guide/menu.html): while
\* it is on, a song that starts takes no song from the queue for good.
Asked(q) == {w.entry : w \in ToSet(q)}
ReplaysAll ==
    [][(repeat = "AllQueued" /\ history' # history /\ UNCHANGED <<repeat, items>>)
           => Asked(queue) \subseteq Asked(queue')]_vars

\* Once the user does nothing more, the queue is played to its end, unless it is
\* repeated, or comes to a song that is not shown or cannot be opened, or the music
\* stops or the program hangs.
QueueDrains ==
    <>[](\/ queue = <<>> \/ repeat = "AllQueued" \/ ~Ready(Head(queue))
         \/ playing = Silence \/ Hung)
============================================================================
