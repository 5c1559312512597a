------------------------------- MODULE Player -------------------------------
(***************************************************************************)
(* Tuniac's player: CCoreAudio's list of streams, and the window procedure *)
(* of CTuniacApp that turns the notifications of the streams and the       *)
(* user's commands into the next song.                                     *)
(*                                                                         *)
(* The streams run on threads of their own and post notifications to the   *)
(* application window (WM_APP).  The UI thread handles them one at a time, *)
(* in order; a command (a menu, a hotkey, a timer) may come between any    *)
(* two of them.  A notification does not say which stream posted it.  Each *)
(* handler runs to its end, so it is one action.                           *)
(*                                                                         *)
(* The playlist is a list of N entries played in order.  What a stream     *)
(* does inside is the subject of AudioStream: here it may reach its mix    *)
(* point, be played out, and report its end.                               *)
(***************************************************************************)
EXTENDS Integers, Sequences, SequencesExt, FiniteSets, Selection

CONSTANTS
    N,            \* entries of the playlist
    Short,        \* songs that fit in the crossfade and the voice's buffers
    Readables,    \* sets of entries whose files may be there at the start
    RepeatModes,  \* repeat modes the run starts with
    AutoPauses,   \* values of the preference "pause after each song"
    MaxRetry,     \* failed songs in a row before giving up (10 in the code)
    MaxStreams,   \* bound on the streams that exist at a time
    MaxCommands   \* bound on what the user and the system do

Entries == 1 .. N
Repeats == {"None", "One", "All"}

ASSUME PlayerAssumption ==
    /\ N \in Nat \ {0}
    /\ Short \subseteq Entries
    /\ Readables \subseteq SUBSET Entries
    /\ RepeatModes \subseteq Repeats
    /\ AutoPauses \subseteq BOOLEAN
    /\ MaxRetry \in Nat /\ MaxStreams \in Nat /\ MaxCommands \in Nat

VARIABLES
    active,      \* the playlist's active entry, 0 when there is none
    avail,       \* FIELD_AVAILABILITY of each entry
    readable,    \* entries whose files can be opened now
    streams,     \* CCoreAudio::m_Streams
    msgs,        \* WM_APP messages waiting for the window procedure
    retries,     \* m_iFailedSongRetry
    softNow,     \* m_SoftPause.bNow
    softAt,      \* m_SoftPause.ulEntryID, 0 when there is none
    autoPause,   \* Preferences: pause after each song
    crossfading, \* Preferences: CrossfadingEnabled
    repeat,      \* Preferences: GetRepeatMode
    wasPlaying,  \* m_WasPlaying
    commands,    \* what the user and the system have done so far
    toggled,     \* history: crossfading or repeat has been changed
    overtaken,   \* history: a command came while a song's message was waiting
    advanced,    \* history: the streams that have brought on a next song
    twice,       \* history: one of them has brought on two
    failRow,     \* history: songs skipped in a row because they failed
    failed,      \* history: entries that have failed
    softHeld,    \* history: a soft pause stopped the player
    engine,      \* CCoreAudio::m_pMasteringVoice is there
    gaveUp       \* history: a failure found no retry left, no song was opened since

vars == <<active, avail, readable, streams, msgs, retries, softNow, softAt,
          autoPause, crossfading, repeat, wasPlaying, commands, toggled,
          overtaken, advanced, twice, failRow, failed, softHeld, engine, gaveUp>>

prefVars  == <<autoPause, crossfading, repeat>>
softVars  == <<softNow, softAt, softHeld>>
countVars == <<engine, gaveUp, advanced, twice>>
userVars  == <<readable, wasPlaying, commands, toggled, overtaken>>
----------------------------------------------------------------------------
Stream == [id : Nat, entry : Entries, mixed : BOOLEAN, begun : BOOLEAN,
           playing : BOOLEAN, fading : BOOLEAN, stage : {"play", "over", "done"}]

\* The stream's identity is there for the properties: the code posts none.
SongKinds == {"MIX", "FINISHED", "FAILED"}
Message == [kind : SongKinds, id : Nat]
           \cup [kind : {"STARTED", "RESET"}, id : {0}]

Ids(s) == {s[i].id : i \in DOMAIN s}
\* The least that no stream and no message bears.
UsedIds == Ids(streams) \cup Ids(msgs)
FreshId == CHOOSE id \in 1 .. Cardinality(UsedIds) + 1 : id \notin UsedIds

Waiting == {i \in DOMAIN msgs : msgs[i].kind \in SongKinds}

\* GetState: of the last stream
Playing == streams # <<>> /\ Last(streams).playing

\* CBasePlaylist::Next and Previous without shuffle and queues; 0 is
\* INVALID_PLAYLIST_INDEX.
NextEntry ==
    CASE active = 0                      -> 1
      [] active # 0 /\ repeat = "One"    -> active
      [] active \in 1 .. N-1 /\ repeat # "One" -> active + 1
      [] active = N /\ repeat = "All"    -> 1
      [] active = N /\ repeat = "None"   -> 0

PreviousEntry ==
    CASE active = 0                      -> 1
      [] active # 0 /\ repeat = "One"    -> active
      [] active \in 2 .. N /\ repeat # "One" -> active - 1
      [] active = 1 /\ repeat = "All"    -> N
      [] active = 1 /\ repeat = "None"   -> 0

\* CheckOldStreams
Unfinished(ss) == Selected(ss, {i \in DOMAIN ss : ss[i].stage # "done"})

NotFaded(ss) == ss
FadedOut(ss) == [i \in DOMAIN ss |-> [ss[i] EXCEPT !.fading = TRUE]]
StartedAll(ss) == [i \in DOMAIN ss |-> [ss[i] EXCEPT !.playing = TRUE, !.begun = TRUE]]
StoppedAll(ss) == [i \in DOMAIN ss |-> [ss[i] EXCEPT !.playing = FALSE]]
\* StopLast comes right after Play: the stream has not played.
StoppedLast(ss) == [ss EXCEPT ![Len(ss)].playing = FALSE, ![Len(ss)].begun = FALSE]

Song(kind, id) == [kind |-> kind, id |-> id]
Told(kind)     == [kind |-> kind, id |-> 0]
\* One STARTED for each stream that CAudioStream::Start is called on.
Starteds(n) == [i \in 1 .. n |-> Told("STARTED")]

NewStream(id, e, started) ==
    [id |-> id, entry |-> e, mixed |-> FALSE, begun |-> started,
     playing |-> started, fading |-> FALSE, stage |-> "play"]

\* CCoreAudio::SetSource on top of the streams that bResetAudio leaves: they
\* fade out and the new one is started at once; alone it waits for Play.
Opened(kept, e) == Append(FadedOut(kept), NewStream(FreshId, e, kept # <<>>))

\* The playlist manager opens the song it last played without starting it; when
\* that fails the first entry becomes the active one, and the message that says so
\* is lost: there is no window yet to post it to.
Init ==
    /\ avail = [e \in Entries |-> TRUE]
    /\ readable \in Readables
    /\ \/ active = 0 /\ streams = <<>>
       \/ \E e \in readable : active = e /\ streams = <<NewStream(1, e, FALSE)>>
       \/ readable # Entries /\ active = 1 /\ streams = <<>>
    /\ msgs = <<>> /\ failed = {} /\ overtaken = FALSE
    /\ retries = 0
    /\ autoPause \in AutoPauses /\ softNow = autoPause /\ softAt = 0
    /\ crossfading \in BOOLEAN /\ repeat \in RepeatModes
    /\ wasPlaying = FALSE
    /\ commands = 0 /\ toggled = FALSE
    /\ engine = TRUE /\ gaveUp = FALSE /\ advanced = {} /\ twice = FALSE
    /\ failRow = 0 /\ softHeld = FALSE
----------------------------------------------------------------------------
(***************************************************************************)
(* The streams.                                                            *)
(***************************************************************************)

\* The mix point: of a stream that was started, or of one so short that the
\* packets read ahead reach it.  The bound keeps room for one more stream.
StreamMix(i) ==
    /\ streams[i].stage = "play" /\ ~streams[i].mixed
    /\ streams[i].begun \/ streams[i].entry \in Short
    /\ Len(streams) + Cardinality(Waiting) < MaxStreams
    /\ streams' = [streams EXCEPT ![i].mixed = TRUE]
    /\ msgs' = Append(msgs, Song("MIX", streams[i].id))
    /\ UNCHANGED <<active, avail, retries, softVars, prefVars, userVars, countVars,
                   failRow, failed>>

\* The voice has played all there is: the song's end, or a decoder that stopped.
StreamOver(i) ==
    /\ streams[i].stage = "play" /\ streams[i].playing
    /\ streams' = [streams EXCEPT ![i].stage = "over"]
    /\ UNCHANGED <<active, avail, msgs, retries, softVars, prefVars, userVars,
                   countVars, failRow, failed>>

\* Without its mix point a stream is reported as failed.
VerdictFailed(s) == "FAILED"
Verdict(s) == IF s.mixed THEN "FINISHED" ELSE "FAILED"

\* The output thread posts the end.
StreamEnd(i) ==
    /\ streams[i].stage = "over"
    /\ streams' = [streams EXCEPT ![i].stage = "done"]
    /\ msgs' = Append(msgs, Song(Verdict(streams[i]), streams[i].id))
    /\ failed' = IF streams[i].mixed THEN failed ELSE failed \cup {streams[i].entry}
    /\ UNCHANGED <<active, avail, retries, softVars, prefVars, userVars, countVars,
                   failRow>>
----------------------------------------------------------------------------
(***************************************************************************)
(* CTuniacApp::PlayEntry(e, start, auto, reset), called with the messages  *)
(* rest still waiting, because of stream by (0: the user or the system).   *)
(***************************************************************************)

\* Stream by brings on e; of the streams, kept go on.
BringsOn(by, e, kept, rest) ==
    /\ active' = e /\ gaveUp' = FALSE
    /\ twice' = (twice \/ by \in advanced)
    /\ advanced' = (advanced \cup {by}) \cap ((Ids(kept) \cup Ids(rest)) \ {0})

\* SetSource with a mastering voice, there already or made by Startup
SetSource(e, start, auto, reset, rest, by) ==
    \E kept \in {IF reset THEN <<>> ELSE Unfinished(streams)} :
    LET id   == FreshId
        soft == auto /\ (softNow \/ softAt = e) IN
    /\ BringsOn(by, e, kept, rest)
    /\ engine' = TRUE
    /\ \/ /\ e \notin readable
          /\ streams' = kept
          /\ msgs' = Append(rest, Song("FAILED", id))
          /\ failed' = failed \cup {e}
          /\ softHeld' = (by # 0 /\ softHeld)
          /\ UNCHANGED <<softNow, softAt>>
       \/ /\ e \in readable
          /\ LET opened  == Opened(kept, e)
                 started == IF start THEN StartedAll(opened) ELSE opened IN
             /\ streams' = IF soft THEN StoppedLast(started) ELSE started
             /\ msgs' = rest \o Starteds((IF kept = <<>> THEN 0 ELSE 1)
                                         + (IF start THEN Len(opened) ELSE 0))
          /\ IF soft \/ ~auto THEN softNow' = FALSE /\ softAt' = 0
                              ELSE UNCHANGED <<softNow, softAt>>
          /\ softHeld' = (by # 0 /\ (soft \/ softHeld))
          /\ UNCHANGED failed

\* SetSource when Startup fails: Shutdown has destroyed the streams, and no
\* FAILED is posted.
NoSource(e, rest, by) ==
    /\ BringsOn(by, e, <<>>, rest)
    /\ engine' = FALSE
    /\ streams' = <<>> /\ msgs' = rest
    /\ softHeld' = (by # 0 /\ softHeld)
    /\ UNCHANGED <<softNow, softAt, failed>>

PlayEntry(e, start, auto, reset, rest, by) ==
    \/ SetSource(e, start, auto, reset, rest, by)
    \/ ~engine /\ NoSource(e, rest, by)
----------------------------------------------------------------------------
(***************************************************************************)
(* WM_APP: the notifications.                                              *)
(***************************************************************************)
Handling(kind) == msgs # <<>> /\ Head(msgs).kind = kind

\* NOTIFY_COREAUDIO_MIXPOINTREACHED
HandleMix ==
    /\ Handling("MIX")
    /\ IF crossfading /\ NextEntry # 0
       THEN PlayEntry(NextEntry, TRUE, TRUE, FALSE, Tail(msgs), Head(msgs).id)
       ELSE msgs' = Tail(msgs) /\ UNCHANGED <<active, streams, countVars, failed, softVars>>
    /\ failRow' = 0
    /\ UNCHANGED <<avail, retries, prefVars, userVars>>

\* With crossfading the next song was started at the mix point.
FinishAlwaysAdvances == TRUE
FinishNeverAdvances  == FALSE
FinishAdvances       == ~crossfading

\* NOTIFY_COREAUDIO_PLAYBACKFINISHED
HandleFinished ==
    /\ Handling("FINISHED")
    /\ IF FinishAdvances /\ NextEntry # 0
       THEN PlayEntry(NextEntry, TRUE, TRUE, TRUE, Tail(msgs), Head(msgs).id)
       ELSE /\ msgs' = Tail(msgs) /\ streams' = Unfinished(streams)
            /\ UNCHANGED <<active, countVars, failed, softVars>>
    /\ failRow' = 0
    /\ UNCHANGED <<avail, retries, prefVars, userVars>>

\* m_iFailedSongRetry < 10, and its increment
RetriesLeftAtLimit == retries <= MaxRetry
RetriesLeft   == retries < MaxRetry
RetriesKept   == retries
OneMoreRetry  == retries + 1

\* NOTIFY_COREAUDIO_PLAYBACKFAILED: the active entry is marked unavailable.
HandleFailed ==
    /\ Handling("FAILED")
    /\ avail' = IF active = 0 THEN avail ELSE [avail EXCEPT ![active] = FALSE]
    /\ retries' = IF RetriesLeft THEN OneMoreRetry ELSE retries
    /\ IF RetriesLeft /\ NextEntry # 0
       THEN /\ PlayEntry(NextEntry, TRUE, TRUE, FALSE, Tail(msgs), Head(msgs).id)
            /\ failRow' = IF failRow <= MaxRetry THEN failRow + 1 ELSE failRow
       ELSE /\ msgs' = Tail(msgs)
            /\ streams' = IF RetriesLeft THEN Unfinished(streams) ELSE streams
            /\ gaveUp' = (gaveUp \/ ~RetriesLeft)
            /\ UNCHANGED <<active, engine, advanced, twice, failed, softVars, failRow>>
    /\ UNCHANGED <<prefVars, userVars>>

\* NOTIFY_COREAUDIO_PLAYBACKSTARTED
HandleStarted ==
    /\ Handling("STARTED")
    /\ msgs' = Tail(msgs)
    /\ avail' = IF active = 0 THEN avail ELSE [avail EXCEPT ![active] = TRUE]
    /\ softNow' = (softNow \/ autoPause)
    /\ retries' = 0
    /\ UNCHANGED <<active, streams, softAt, softHeld, prefVars, userVars, countVars,
                   failRow, failed>>

\* NOTIFY_COREAUDIO_RESET: the device was lost.  Shutdown destroys all streams and
\* Startup may find no device; if it was playing the active entry is opened again,
\* with one more Startup when the first failed, and sought in.
HandleReset ==
    /\ Handling("RESET")
    /\ IF Playing /\ active # 0
       THEN \/ SetSource(active, TRUE, FALSE, TRUE, Tail(msgs), 0)
            \/ NoSource(active, Tail(msgs), 0)
       ELSE /\ msgs' = Tail(msgs) /\ streams' = <<>> /\ engine' \in BOOLEAN
            /\ UNCHANGED <<active, gaveUp, advanced, twice, failed, softVars>>
    /\ overtaken' = (overtaken \/ Waiting # {})
    /\ UNCHANGED <<avail, retries, prefVars, readable, wasPlaying, commands, toggled,
                   failRow>>
----------------------------------------------------------------------------
(***************************************************************************)
(* Commands and system events.                                             *)
(***************************************************************************)

\* Bounds: the number of commands, and the messages waiting.
Command ==
    /\ commands < MaxCommands
    /\ Len(msgs) <= MaxStreams
    /\ commands' = commands + 1
    /\ overtaken' = (overtaken \/ Waiting # {})

\* The user or the system opens an entry; what came before is reset.
Open(e, start, auto) ==
    /\ PlayEntry(e, start, auto, TRUE, msgs, 0)
    /\ failRow' = 0
    /\ UNCHANGED <<avail, retries, prefVars, readable, toggled>>

\* ID_PLAYBACK_PLAY, when Play finds a stream
Resume ==
    /\ Command
    /\ Unfinished(streams) # <<>>
    /\ streams' = StartedAll(Unfinished(streams))
    /\ msgs' = msgs \o Starteds(Len(streams'))
    /\ failRow' = 0 /\ softHeld' = FALSE
    /\ UNCHANGED <<active, avail, retries, softNow, softAt, prefVars, readable,
                   wasPlaying, toggled, countVars, failed>>

\* ID_PLAYBACK_PLAY, when there is none
PlayActive ==
    /\ Command
    /\ Unfinished(streams) = <<>> /\ active # 0
    /\ Open(active, TRUE, FALSE)
    /\ UNCHANGED wasPlaying

\* ID_PLAYBACK_PAUSE, also by the screen saver or the locked session
PauseBy(system) ==
    /\ Command
    /\ Playing
    /\ streams' = StoppedAll(Unfinished(streams))
    /\ wasPlaying' = (wasPlaying \/ system)
    /\ UNCHANGED <<active, avail, msgs, retries, softVars, prefVars, readable,
                   toggled, countVars, failRow, failed>>

Pause       == PauseBy(FALSE)
SystemPause == PauseBy(TRUE)

\* CCoreAudio::SetPosition: fading streams go, the last one is sought in.
Sought(ss) == Selected(ss, {i \in DOMAIN ss : ~ss[i].fading /\ ss[i].stage # "done"})

\* A seek by the user, or ID_PLAYBACK_PREVIOUS beyond the first seconds
Seek ==
    /\ Command
    /\ streams # <<>>
    /\ streams' = Sought(streams)
    /\ UNCHANGED <<active, avail, msgs, retries, softVars, prefVars, readable,
                   wasPlaying, toggled, countVars, failRow, failed>>

\* ID_PLAYBACK_STOP
Stop ==
    /\ Command
    /\ streams # <<>>
    /\ streams' = Sought(StoppedAll(Unfinished(streams)))
    /\ UNCHANGED <<active, avail, msgs, retries, softVars, prefVars, readable,
                   wasPlaying, toggled, countVars, failRow, failed>>

\* ID_PLAYBACK_NEXT: from the last entry it goes on at the first.  HIWORD(wParam)
\* is taken for auto: 1 when the command comes from an accelerator key.
NextSong ==
    /\ Command
    /\ \E auto \in BOOLEAN :
          Open(IF NextEntry = 0 THEN 1 ELSE NextEntry, Playing, auto)
    /\ UNCHANGED wasPlaying

\* ID_PLAYBACK_PREVIOUS within the first seconds of a song
PreviousSong ==
    /\ Command
    /\ \E auto \in BOOLEAN :
          Open(IF PreviousEntry = 0 THEN N ELSE PreviousEntry, Playing, auto)
    /\ UNCHANGED wasPlaying

\* An entry chosen in a list, in the history or by a plugin
Choose ==
    /\ Command
    /\ \E e \in Entries : Open(e, TRUE, FALSE)
    /\ UNCHANGED wasPlaying

\* ID_PLAYBACK_SOFTPAUSE
SoftPause ==
    /\ Command
    /\ softNow' = ~softNow
    /\ UNCHANGED <<active, avail, streams, msgs, retries, softAt, softHeld, prefVars,
                   readable, wasPlaying, toggled, countVars, failRow, failed>>

\* ID_PAUSEHERE, ID_PLAYBACK_CLEARPAUSEAT
PauseHere ==
    /\ Command
    /\ \E e \in Entries : softAt' = IF softAt = e THEN 0 ELSE e
    /\ UNCHANGED <<active, avail, streams, msgs, retries, softNow, softHeld, prefVars,
                   readable, wasPlaying, toggled, countVars, failRow, failed>>

\* The preferences' crossfade switch; or a playlist that does not crossfade
ToggleCrossfade ==
    /\ Command
    /\ crossfading' = ~crossfading
    /\ toggled' = TRUE
    /\ UNCHANGED <<active, avail, streams, msgs, retries, softVars, autoPause, repeat,
                   readable, wasPlaying, countVars, failRow, failed>>

\* ID_PLAYBACK_TOGGLE_REPEAT
ToggleRepeat ==
    /\ Command
    /\ repeat' = CASE repeat = "None" -> "One" [] repeat = "One" -> "All"
                   [] repeat = "All" -> "None"
    /\ toggled' = TRUE
    /\ UNCHANGED <<active, avail, streams, msgs, retries, softVars, autoPause,
                   crossfading, readable, wasPlaying, countVars, failRow, failed>>

\* The timer after the screen saver or the locked session: the song is opened
\* again, whether or not it played before.
DelayedPlay ==
    /\ Command
    /\ active # 0
    /\ Open(active, wasPlaying, TRUE)
    /\ wasPlaying' = FALSE

\* OnCriticalError, OnDefaultDeviceChanged
DeviceLost ==
    /\ Command
    /\ msgs' = Append(msgs, Told("RESET"))
    /\ UNCHANGED <<active, avail, streams, retries, softVars, prefVars, readable,
                   wasPlaying, toggled, countVars, failRow, failed>>

\* External: the drive with the files goes away; what plays goes on.
DriveLost ==
    /\ Command
    /\ readable' = {}
    /\ UNCHANGED <<active, avail, streams, msgs, retries, softVars, prefVars,
                   wasPlaying, toggled, countVars, failRow, failed>>
----------------------------------------------------------------------------
Streaming == \E i \in DOMAIN streams : StreamMix(i) \/ StreamOver(i) \/ StreamEnd(i)

Handle == HandleMix \/ HandleFinished \/ HandleFailed \/ HandleStarted \/ HandleReset

User == \/ Resume \/ PlayActive \/ Pause \/ SystemPause \/ Seek \/ Stop
        \/ NextSong \/ PreviousSong \/ Choose \/ SoftPause \/ PauseHere
        \/ ToggleCrossfade \/ ToggleRepeat \/ DelayedPlay \/ DeviceLost \/ DriveLost

Next == Streaming \/ Handle \/ User

Spec == Init /\ [][Next]_vars

\* The window procedure is called as long as messages wait; streams that play
\* come to their end.  Nobody need press a key.
FairSpec == Spec /\ WF_vars(Handle) /\ WF_vars(Streaming)
----------------------------------------------------------------------------
(***************************************************************************)
(* Properties.                                                             *)
(***************************************************************************)

\* Every variable keeps its type; the retry counter never passes its limit.
TypeOK ==
    /\ active \in 0 .. N
    /\ avail \in [Entries -> BOOLEAN] /\ readable \subseteq Entries
    /\ streams \in Seq(Stream) /\ msgs \in Seq(Message)
    /\ retries \in 0 .. MaxRetry
    /\ softNow \in BOOLEAN /\ softAt \in 0 .. N /\ softHeld \in BOOLEAN
    /\ autoPause \in BOOLEAN /\ crossfading \in BOOLEAN /\ repeat \in Repeats
    /\ wasPlaying \in BOOLEAN
    /\ commands \in Nat /\ toggled \in BOOLEAN /\ overtaken \in BOOLEAN
    /\ engine \in BOOLEAN /\ gaveUp \in BOOLEAN
    /\ advanced \subseteq Nat /\ twice \in BOOLEAN
    /\ failRow \in Nat /\ failed \subseteq Entries

\* Never two songs at full volume: every stream but the last one of the list,
\* the one that position, seek and state are asked of, is fading out
\* (CCoreAudio::SetSource, SetPosition, CheckOldStreams).
OnlyLastUnfaded ==
    \A i \in DOMAIN streams : i < Len(streams) => streams[i].fading

\* One song never brings on two: unless crossfading is switched in between, its
\* mix point and its end together start at most one next song (the MIX,
\* FINISHED and FAILED handlers of CTuniacApp::WndProc, each of which may).
AdvanceOnce == ~toggled => ~twice

\* An entry marked unavailable has failed, unless a command overtook a message of
\* a song or crossfading was switched: FAILED marks the entry that is active when
\* it is handled, which need not be the one it was posted for (CTuniacApp::WndProc).
MarksExplained ==
    ~overtaken /\ ~toggled => \A e \in Entries : avail[e] \/ e \in failed

\* When the song that plays has ended and the list has a next one, a song is
\* brought on; only when there is no device, or when as many songs in a row as the
\* counter allows could not be played and it has not tried one since ("after 10
\* failed songs in a row we stop", TuniacApp.cpp), is the player left silent
\* (StreamEnd, the handlers, and CCoreAudio::CheckOldStreams together).
Silent == streams = <<>> \/ Last(streams).stage = "done"
SongFollowsSong ==
    (streams # <<>> /\ Last(streams).stage = "done" /\ Playing /\ NextEntry # 0 /\ ~toggled)
        ~> (~Silent \/ toggled \/ NextEntry = 0 \/ ~engine \/ gaveUp)

\* When the drive is gone the player stops trying: the failures, each of which
\* posts the next, come to an end (the FAILED handler's counter).
GivesUp == readable = {} ~> msgs = <<>>

\* "after 10 failed songs in a row we stop automatically going to the next
\* song" (TuniacApp.cpp).  STARTED, posted before any audio is decoded, resets
\* the counter, so songs that open and then fail are skipped for ever.
TenFailuresInARow == failRow <= MaxRetry

\* "Soft pause is to stop playing after finishing the currently playing song"
\* (Guide/menu.html): once it has stopped the player, the player stays stopped
\* until the user starts it.  A short song that was only opened reaches its mix
\* point all the same, and the MIX handler starts the next one.
SoftPauseHolds == softHeld /\ ~overtaken => ~Playing
============================================================================
