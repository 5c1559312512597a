# A formal model of Tuniac

Tuniac is a Windows music player. The repository holds three trees: `Old/`
(retired plugins and vendored libraries), `Tuniac2/` (an unfinished rewrite)
and `Tuniac1/` (the player that is built and shipped). This project is about
`Tuniac1/`, and in it about `Tuniac1/TuniacApp`, where the program's own logic
lives; paths below are relative to that directory.

The project consists of TLA+ modules, the TLC configurations that check them on
small instances, and proofs that TLAPS checks for every value of the constants.
`PROJECT.json` says which lines of the source each definition stands for, which
run checks which property, and which change of the code each property detects.

| file | what it is |
| --- | --- |
| `AudioStream.tla` | one playing stream: service thread, output thread, voice, UI calls |
| `Playback.tla` | the abstract stream: what a stream promises to the rest of the program |
| `AudioStreamProofs.tla` | theorems about `AudioStream`: types, locks, teardown, notifications |
| `AudioFlowProofs.tla` | theorems about `AudioStream`: the audio itself, and the refinement of `Playback` |
| `Player.tla` | the list of streams and the window procedure that drives it |
| `PlayerProofs.tla` | theorems about `Player` |
| `Selection.tla` | the elements of a list at some of its indexes |
| `SequenceFacts.tla` | lemmas about sequences that the proofs share |
| `Playlist.tla` | one playlist: its items, its two orders, sorting, editing, next and previous |
| `PlaylistProofs.tla` | theorems about `Playlist` |
| `PlayQueue.tla` | the play queue, the history and the future list, over all playlists |
| `PlayQueueProofs.tla` | theorems about `PlayQueue` |
| `Manager.tla` | the rows of playlists, their IDs, and the windows that show them |
| `ManagerProofs.tla` | theorems about `Manager`: its invariants |
| `ManagerRowProofs.tla` | theorems about `Manager`: what a step does to rows and IDs |
| `MCPlaylist.tla`, `MCPlayQueue.tla` | values of the constants for TLC |
| `*.cfg` | the runs |

To repeat a run: `tlc -config Stream.cfg AudioStream`. To repeat the proofs of a
module: `tlapm AudioFlowProofs.tla`, and likewise for the other modules with
`Proofs` in their names and for `SequenceFacts`.

## 1. The system

### 1.1 Components

**Audio stream** (`AudioStream`, `AudioPacketizer`, `AudioOutput`). One object
per song that is open.
*State*: the decoder's position, the decoded buffer that waits to be written,
the pipe of the packetizer, the ring of output buffers, the voice's queue, play
and seek flags, and one flag per notification already posted.
*Operations*: the service thread decodes and writes to the pipe; the output
thread reads packets, posts notifications and submits buffers; XAudio2 plays
them and calls back; the UI thread starts, stops, seeks, destroys.
*Hard*: four threads, two locks, and reads that no lock protects (the room in
the pipe, the end of the stream); a seek in the middle of decoding; posting the
end exactly once, after everything was heard; unsigned arithmetic on positions;
a wait for room that has to end; teardown of memory the threads use.
*Correct when*: every unit is heard once and in order; nothing is overwritten
while it is played; notifications keep their protocol; a playing stream ends; a
destroyed one is used by nobody.

**Player** (`CoreAudio`, and `TuniacApp`'s window procedure and `PlayEntry`).
*State*: the list of streams, the last of which is the current song while the
others fade out; the active playlist's active entry; the counter of failed
songs; soft pause; the message queue of the window.
*Operations*: the handlers of `WM_APP` (mix point, finished, failed, started,
reset), the playback commands, the timers after screen saver and session lock,
the device callbacks.
*Hard*: notifications do not say which stream posted them and may be handled
after the user has changed the song; each of two messages of a song may start
the next one; a failing song starts another that may fail; devices and drives
disappear.
*Correct when*: one song brings on one song; a list does not stop in the middle;
entries are marked unavailable for a reason; a chain of failures ends; at most
one stream is not fading.

**Play queue and history** (`PlayQueue`, `History`, with `PlayEntry`, `Next` and
`BuildFuturePlaylistArray`). *State*: a list of wishes (playlist ID, entry ID), a
list of what was heard, the songs chosen with the Alt key, the future list that
the menu shows, the repeat mode. *Operations*: queueing in front, behind and by
column; clearing; removal by entry or by playlist; what `PlayEntry` removes; going
back to a song of the history or forward to one of the future list; saving and
loading. *Hard*: `Next`, the future list and `PlayEntry` each walk over the queue
in a way of their own; wishes are compared by places in a list that may not show
them; two loops remove or restart while they run. *Correct when* every wish is
served once and in order (or again and again with repeat all queued), what is
foretold is played, and no reference outlives what it refers to.

**Playlists** (`BasePlaylist`, `StandardPlaylist`, `LibraryPlaylist`). The array
of entries, two arrays of indexes into it (normal and shuffled order, both
filtered), the active index; filter, sort, move, delete, next, previous.
*Correct when* the index arrays are permutations of the filtered entries and
the active index follows its entry through every operation.

**Playlist manager** (`PlaylistManager`, `MicPlaylist`, `SourceSelectorWindow`).
*State*: the rows (library, microphone, audio CDs, the user's lists); the active
list as a row and a pointer, the shown one as two rows and a pointer; the next ID.
*Operations*: choosing, showing, making, moving and deleting lists; enabling the
microphone; CDs that arrive and leave; saving and loading. *Hard*: each of these
moves the rows of others; the code corrects some of the remembered rows at some of
them. *Correct when* every remembered row stands for the list it stood for, no
pointer outlives its list, and IDs name one list each.

**Media library** (`MediaLibrary`, `MediaLibraryPlaylistEntry`). Entries with
IDs; batches of additions; removal, which every playlist must follow; save and
load in place.

**Others**: CD and microphone playlists; import and export of m3u and pls;
plugin manager and plugins, each on a thread of its own that receives posted
messages; decoders (BASS, OptimFROG, Shorten, TAK); HTTP, file and memory I/O;
views, skins, tag editor, preferences, log.

### 1.2 How they interact

- A stream posts notifications to the application window
  (`CAudioStream` -> `CCoreAudio` -> `PostMessage(WM_APP)`); nothing else flows
  from the streams to the player.
- The player calls streams directly on the UI thread (start, stop, seek,
  destroy), and destruction waits for the stream's threads.
- `PlayEntry` is the only way to a new song. It asks the playlist to open its
  entry, tells the history, removes the entry from the play queue, and replaces
  or adds a stream.
- `Next` of a playlist asks the play queue first. Deleting library entries
  walks over all playlists, the queue and the history.
- Locks: `m_Lock` of a stream (decoder, pipe, seek), `m_AudioLock` of its output
  (the voice), `m_Lock` of `CCoreAudio` (the list of streams).

### 1.3 Hazards

`PROJECT.json` lists the hazards this code is exposed to, each at its line, with
the properties that cover it; those without a property say why.

## 2. Plan

In order of importance to the listener:

1. `AudioStream`, with `Playback` as its abstract specification. *Done*, and every
   safety property of its run is proved, in `AudioStreamProofs` and
   `AudioFlowProofs`, the refinement included.
2. `Player`: stream list and window procedure. *Done*, and every safety property of
   its run is proved, in `PlayerProofs`.
3. `Playlist`: the items, both index arrays, the active index, filter, merge sort,
   move, delete, saved order. *Done*, and every property of its run is proved, in
   `PlaylistProofs`.
4. `PlayQueue`: queue, history, future list, and the removal loop of `PlayEntry`,
   with the playlists' `Next` asking the queue first. *Done*, and every safety
   property of its run is proved, in `PlayQueueProofs`.
5. `Manager`: rows and IDs of playlists, with the microphone and CDs coming and
   going. *Done*, and every property of its run is proved, in `ManagerProofs` and
   `ManagerRowProofs`.
6. A composition of `Playlist` and `PlayQueue` with `Player`, in which `NextSong` of
   `PlayQueue` takes the place of `NextEntry`; abstract specification: the songs
   started are a walk through the list, interrupted by the queue.
7. The two files written at shutdown, with a crash between them.

## 3. AudioStream

### 3.1 What is modelled

A unit of audio is a record of the seek after which it was decoded and its
position in the song, so properties can tell stale from fresh audio; the samples
are left out. Everything that runs under a lock is one action; what runs outside
one is an action of its own. In particular `ServiceRoom` (the unprotected test
for room) and `ServiceWrite` are two actions, and so are `OutGetPacket` and
`OutSubmit`.

| actor | code | actions |
| --- | --- | --- |
| service thread | `CAudioStream::serviceThread`, `ServiceStream` | `ServiceTop`, `ServiceFill`, `ServiceEnd`, `ServiceRoom`, `ServiceWrite` |
| output thread | `CAudioOutput::ThreadProc`, `CAudioStream::GetBuffer` | `OutGetPacket` (result 1), `OutGetEnd` (-1), `OutNotifyEnd` (0), `OutSubmit`, `OutSubmitEnd`, `OutExit`; with a voice that refuses the buffer `OutRefused`, `BoxClosed`, `OutEndRefused` |
| XAudio2 (external) | the voice and `OnStreamEnd` | `EnginePlay`, `EngineStreamEnd` |
| UI thread | `SetSource`, `Start`, `Stop`, `SetPosition`, `Shutdown` | `Configure`, `Start`, `Stop`, `SeekBegin`, `SeekDone`, `SeekRefused`, `DestroyBegin`, `DestroyStop`, `DestroyTerminate`, `DestroyFree`, `DestroyEnd` |

Three history variables record what properties speak of and no guard reads:
`heard`, the next unit of the current seek to be heard; `late`, that the last seek
came when the decoder had finished; `refused`, that the voice refused a packet
since the last seek. `song` is where the decoder really stops and `length` what it
claims, so songs that break off early, and lengths that are unknown or wrong, are
inputs.

`GetBuffer` fills a slot of the ring and the voice plays from the slots, so
`OutGetPacket` overwrites what a queued buffer at the same slot holds
(`Overwritten`); that there is none (`SlotFree`) is to be shown. When the voice
refuses a packet (`OutRefused`), the code loses it, skips its slot and shows a
message box on the output thread, under `m_AudioLock`: until the user closes it
(`BoxClosed`) a start, a stop, a seek or a destruction waits (`AudioLockFree`). A
slot skipped without a buffer in the queue lets the ring overtake the voice, so
nothing is promised of the order of the audio from a refusal to the next seek,
which empties the queue. A refused end of stream is submitted again at the next round.
The end-of-stream buffer is not quite empty: it plays the first eight bytes of the
slot, one stereo frame, which is less than a unit and counts as nothing.

### 3.2 Runs

| run | question | result |
| --- | --- | --- |
| `stream` | all interleavings of the actors with two seeks and destruction at any time, fairness on | ten invariants hold, `AudioStream` implements `Playback`, streams end and can be destroyed |
| `stream_unexpected` | is a failure always "unexpected", as a comment says | violated |
| `stream_stall` | does the wait for room end | violated for large decoder buffers |

*Bounds.* A packet has two units and the decoder hands out two or three, so a
decoder buffer is as large as a packet or larger and leaves a remainder in the
pipe; the pipe holds two packets (five in the code) and the voice two buffers
(eight), enough for both to be full and empty and for the ring to wrap. A song of
five units is longer than the pipe; its length is unknown or taken for eight, so
that it also ends before its mix point. Two seeks, to the start and near the end,
let audio of three epochs meet. The voice may refuse any packet and any end of
stream. The run visits 1.4 million states in some three minutes.
The pipe has room for a decoder buffer beside the remainder of a packet, as with
the default preferences; `stream_stall` shows what happens when it has not.
`MaxSeeks` and `MaxStarts` bound the user only.

*Fairness.* Weak fairness of the service thread, the output thread and the
engine, since the operating system schedules them, and of a call the UI thread
has begun. The user need do nothing, not even close a message box: `BoxClosed` is
fair in no sense. A voice that is offered an end of stream again and again takes one
in the end (strong fairness of `OutSubmitEnd`). `EndNotified` says "once the voice
is on, no seek is in progress and no message box is up for ever": a paused stream
owes nothing. `DestroyCompletes` supposes that a box does not stay up for ever.

### 3.3 What is proved

`AudioStreamProofs` proves, for all sizes that satisfy `SizesAssumption`:

- `TypeCorrect`: `Spec => []TypeOK`, one lemma per actor.
- `WriteNeverBlocks`: `NoBlockingWrite` is inductive given the types. The service
  thread is the only writer, and every other step makes the pipe shorter. It
  needs no bound on the decoder's buffers, since the test compares with the
  buffer itself.
- `TeardownIsSafe`: `SafeTeardown` is inductive as it stands: a thread that is
  dead stays dead, and the voice is not started once teardown has begun.
- `NotificationsKeepProtocol`: the flags `mixNotify`, `entryPlayed` and
  `finishNotify` say exactly which notifications are in `sent`; the end can be
  posted only when the pipe is empty and the decoder finished, so no packet and
  with it no played or mix point can follow.
- `EndReportedEmpty`: `EndIsEmpty` is not inductive. `EndInv` adds that
  `finished` means a dead service thread with an empty buffer; that from the
  moment an end-of-stream buffer is in sight the pipe is empty and no packet is
  held; and that behind such a buffer the queue holds only such buffers.

`AudioFlowProofs` proves from the same assumption what is said of the audio:

- `AudioStaysIntact`: `Spec => []AudioIntact`. `FlowStep` says what a step may do to
  `Flow`, the voice's queue, the packet in hand, the pipe and the decoder's buffer
  one behind the other: nothing, although a write, a packet or a submission moves
  audio along; the decoder adds to its end; the voice plays its head; a seek leaves
  the packet and the decoder's buffer; all of it is dropped; or, by a refusal, spoilt. It
  needs `EndInv`, that only buffers without audio end the stream (`SizeInv`), and
  that a new packet overwrites no buffer of the voice (`RingInv`). Its promise lapses
  with a refusal and is made anew by a seek. The buffers are
  joined by a recursion over data; `Joins` in `SequenceFacts` characterises it by
  its steps, and the induction is done over the set of numbers for which a fact
  holds (`SetInduction`).
- `StaleAudioBounded`: `Spec => []StaleBounded`, from `FlowStep` and the sizes of the
  packet in hand and of the decoder's buffer (`SizeInv`); `AgeInv`, that nothing held
  back is from a seek still to come, carries it over a seek after a refusal.
- `EndMeansHeard`: `Spec => []EndAfterAllHeard`. When the end is told every buffer is
  empty (`EndIsEmpty`), so by `AudioIntact` what was heard reaches to where the
  decoder is, unless a packet was refused; and it finished at the end of the song
  (`SongDone`), where it still is unless a seek came afterwards. That seek is `late`:
  it moves a decoder that nobody reads any more, so the rest of the song from there is
  neither decoded nor heard, and the theorem does not say it is. `NoteInv` is about
  the end that was told before.
- `SlotStaysFree`: `Spec => []SlotFree`. `RingInv` says where each queued buffer
  lies: at consecutive slots behind `slot`, modulo the size of the ring, up to the
  first end of stream, as long as no packet was refused.
- `StreamKeepsPromise`: `Spec => KeepsPromise`. Initial states map to initial states
  and every step to a step of `Playback` or a stutter; the step that plays a packet
  and the one that tells the end need the invariants above, and `CallInv`: the
  voice is on exactly when the stream plays.

`SizesAssumption` asks, beside what the code's sizes satisfy, that decoder buffers
are bounded: their length is an `unsigned long`.

- `FailuresAreExplained`: `Spec => []FailureExplained`. `MixDue` negates every reason
  for a failure but the place of the decoder. `PaceInv` says that the decoder is
  never further than `Reach` (what was played since the last seek and the packets on
  the voice or about to be), the pipe and the decoder's buffer; and that, while the
  mix point is due and not told, a full voice beyond `Reach` still ends before the
  length. A packet taken without telling the mix point finds more than the crossfade
  time left, which is at least a full voice, so this stays so; and the packet that
  empties the pipe after the decoder's last unit finds less than the crossfade time
  left, so it tells the mix point if none did before. Before the configuration the
  crossfade time is 0 and no mix point is seen, but then nothing has been played
  either. Once an end of stream is in sight (`EndInv`) the pipe is empty and
  `PaceInv` asks nothing more of it. `FailInv` keeps a failure explained after it
  was told: nothing fills the pipe again, so no mix point follows.

The attempt to prove `FailureExplained` as it was first stated showed that it holds
for the sizes of the run only. Its other reasons are of other sizes: a crossfade
shorter than the voice's buffers (2 to 15 seconds against 250 to 5000 milliseconds
in the preferences), where the voice can play on from before the mix point to the
end of the song before the output thread takes its next packet; a song or a length that
fits in the buffers filled before `SetSource` configures the stream; and a seek
behind the end of the decoder's song. For each reason there are sizes at which TLC
finds a failure that has no other.

Only model-checked: the liveness properties `EndNotified` and `DestroyCompletes`.

### 3.4 Left out

Gain, equaliser, fades and the visualisation data, which change no control flow;
the failure of `SetFormat` or `Initialize`, after which there is no stream; a
decoder that returns an empty buffer with success; termination of the output
thread when it does not answer within one second for another reason than its message
box (its only other waits are for locks); a change of the crossfade time while the stream is open
(`CCoreAudio::SetCrossfadeTime`). The engine plays a packet at a time.

## 4. Player

### 4.1 What is modelled

A stream is reduced to what the player sees of it: it may reach its mix point,
be played out and post its end. `Verdict` is the code's choice between finished
and failed; that every song has one is what `AudioStream` establishes. `Short`
songs are those that reach the mix point from the packets read ahead, before
they are played. A stream that was never started posts nothing, unless it is short; a paused one
may still ask for its mix, and comes to no end.

`msgs` is the window's message queue, in order. Each message handler and each
command runs to its end on the UI thread, so each is one action; `PlayEntry`,
common to most, is an operator.

| code | definitions |
| --- | --- |
| `CCoreAudio` (`SetSource`, `Play`, `Stop`, `StopLast`, `SetPosition`, `CheckOldStreams`) | `SetSource`, `Opened`, `StartedAll`, `StoppedAll`, `StoppedLast`, `Sought`, `Unfinished` |
| `CCoreAudio` without a device (`Shutdown`, a failing `Startup`) | `engine`, `NoSource` |
| notifications in `CTuniacApp::WndProc` | `HandleMix`, `HandleFinished`, `HandleFailed`, `HandleStarted`, `HandleReset` |
| playback commands | `Resume`, `PlayActive`, `Pause`, `Seek`, `Stop`, `NextSong`, `PreviousSong`, `Choose`, `SoftPause`, `PauseHere`, `ToggleCrossfade`, `ToggleRepeat` |
| timers, session and device events | `SystemPause`, `DelayedPlay`, `DeviceLost`, `DriveLost` |

`engine` says whether there is a mastering voice. It is lost when the `Startup`
after a device reset finds none; from then on every `SetSource` tries `Startup`
again, and when that fails it returns before it posts FAILED (`NoSource`).

The history variables (`toggled`, `overtaken`, `advanced`, `twice`, `failRow`,
`failed`, `softHeld`, `gaveUp`) are read by no guard. Stream identities are also only for
the properties; the least unused number is taken, which keeps the state space
finite. `Init` includes the three ways the program starts: nothing to open, the
last song opened but not started, and the last song missing, when the first
entry becomes active; the failure of the other is posted to a window that does not
exist yet and is lost.

### 4.2 Runs

| run | question | result |
| --- | --- | --- |
| `player` | two commands anywhere among the notifications of crossfaded, short and failing songs | `OnlyLastUnfaded`, `AdvanceOnce`, `MarksExplained` hold; under fairness the list goes on and a chain of failures ends (`SongFollowsSong`, `GivesUp`) |
| `player_retry` | at most ten failures in a row, as a comment says | violated |
| `player_soft` | a soft pause lasts, as the guide says | violated |

*Bounds.* In `player` three entries, one of them short, and one retry in place of
ten, so that the list can hold more missing songs in a row than there are retries
(`Readables` has one or two missing songs, in every place but the first); two
commands; two streams at a time. The two runs that are violated have two entries,
none missing, and two retries; `player_soft` has three streams, where the third
comes on top of a fading and a stopped one. The counter's only uses are a
comparison, a step and a reset.

*Fairness.* The message loop handles what waits (`WF_vars(Handle)`), and streams
that play come to their mix point and end (`WF_vars(Streaming)`), which is
`EndNotified` of `AudioStream`. Commands are not fair. The runs do not check for
deadlock: a player that has come to the end of its list may rest.

The premises of the properties name the exceptions the code has: `toggled`
(crossfading or repeat was switched between the two messages of a song) and
`overtaken` (a command came while a song's message was waiting, which the
message cannot be told from). `SongFollowsSong` names two more: the device is gone
(`~engine`), and the FAILED handler found no retry left and no song has been opened
since (`gaveUp`), which is what the comment at `TuniacApp.cpp:1202` promises. With
`gaveUp` read off the counter (`retries = MaxRetry`) the property fails: while the
song before still plays out, a press of Play posts STARTED, which resets the counter.

### 4.3 What is proved

`PlayerProofs` proves from `PlayerAssumption`, for any number of entries and any
bounds:

- `PlayerTypes`: `Spec => []TypeOK`. The stream list is filtered by a loop that
  deletes while it walks; `SelectedPicks` says of the filter that its result is the
  list at increasing indexes, none left out. Each step is then shown to have one of
  four shapes (`Quiet`, `Mixing`, `Ending`, `Entering`), in which the later proofs
  go through `PlayEntry` once instead of once for each of its twelve callers.
- `OthersFadeOut`: `Spec => []OnlyLastUnfaded`, inductive on the types.
- `OneSongOneNext`: `Spec => []AdvanceOnce`. `AdvanceOnce` sees only the moment at
  which a song brings on a second one. `IdInv` says who posted what: streams have
  numbers of their own (`FreshId` takes one that neither a stream nor a message
  has), a message of a stream that still exists tells the truth about it, and a
  song has at most one mix point and one end waiting. `OnceInv` adds that a song
  which has brought on its next one has only the message left that brings on none.
- `MarksAreExplained`: `Spec => []MarksExplained`. FAILED is handled for the entry
  that is active by then. `LineInv` says that without a command in between there is
  one place to go on from, the last stream or one message, and that it is the
  active entry's.

Only model-checked: the liveness properties `SongFollowsSong` and `GivesUp`.

### 4.4 Left out

Shuffle (section 5) and the play queue (section 6), volume, equaliser, menus, the
messages that only refresh windows or plugins (played point, playlists changed).
`StopLast` indexes the list of streams after `CheckOldStreams` may have emptied it,
and the played point carries a pointer into a stream that may be gone: both read
memory of the device's or the message's past, which the model does not have. When
`Startup` fails it shows a message box, whose message loop handles notifications and
commands inside `SetSource`; here the box is answered at once.

## 5. Playlist

### 5.1 What is modelled

`cells` is the memory of the array of items and `count` how much of it is in use:
an `Array` is indexed without a check and never clears what it drops, so an index
that is stale reads what was there before. `normal` and `random` are the two index
arrays. A text filter is the set of entries it lets pass, a column a number per
entry, and a shuffle any permutation that starts with the active item. Every
command runs to its end on the UI thread and is one action.

| code | definitions |
| --- | --- |
| `ApplyFilter`, `RebuildPlaylistArrays` | `ApplyFilter`, `Rebuild` |
| `Sort`, `Sort_Algorithm`, `Sort_Merge`, `Sort_CompareItems` | `Sort`, `MergeSort`, `Merged`, `MergeUp`, `LeftFirst` |
| `AddEntryArray`, `MoveNormalFilteredIndexArray`, `Delete...` | `Add`, `Move`, `DeleteRealIndex`, `DeleteRealIndexArray` |
| commands of the views | `DeleteSelected`, `RemoveDuplicates`, `SetFilter`, `SaveOrder`, `RestoreOrder` |
| deletion from the library | `LibraryRemoves` |
| `Next`, `Previous`, `PlayEntry`, the shuffle switch | `NextSong`, `PreviousSong`, `Play`, `ToggleShuffle` |

`Init` is a playlist as it is loaded at startup, with its filter; the song that was
active is opened after the orders are made, unless it cannot be. The repeat mode
is chosen at each step that reads it. Two variables are history: `fresh` says that
the orders were made after the last change of the items, and `heard` which entries
have been active since then or were passed over: once the user (with `Previous` too),
or the startup, has chosen a song, those that lie before it in the order count as
heard, and only those.

When the list comes to name a destroyed entry (`Dangling`) any use of it is
undefined, and the model stops; likewise when a stale row is to be deleted that
the list no longer has. `Move` in the code reads one index past the selection;
the heap block it reads is new and zero there, so the item found is never one
that is still to come, and the model leaves the read out.

### 5.2 Runs

| run | question | result |
| --- | --- | --- |
| `playlist` | all sequences of commands | seven properties hold, with the exceptions below |
| `playlist_sort` | does a second click on a column give its opposite order | violated |

The properties name what the code does not keep:

- `ActiveFollows`: restoring an order leaves the active index where it was, on
  another entry; a sort with no active entry makes active the one with ID 0
  (`NULL`); removing duplicates in a filtered list can leave the active index
  beyond the end, where the next entry added is taken for the active one.
- `DuplicatesGo`: with the active entry three times in a list, one index is deleted
  twice, and an innocent item goes. Removing duplicates also makes no new orders, so
  a second removal looks at the wrong items and can take entries that the filter
  hides; the proof attempt found this, and the property asks that the orders be
  those of the list (`fresh`).
- `OnlyTheseDangle`: the library's deletion removes one item of a list that has the
  entry twice, and an order saved before a deletion brings back what is gone.
- `ShufflePlaysAll`: in a list with duplicates `Next` finds the first item of an
  entry instead of the place it computed, and may never reach the rest, so the
  property asks for no duplicates; the songs that lie in the shuffled order before
  one the user chose, or before the one that is active at the start of the program,
  are not played, and the property excepts those. All others must have been played.

*Bounds.* Lists of three and four items over three entries, two of them with the
same artist, so that sorts meet ties; lists with distinct entries, with an entry
three times, and with duplicates around an item the filter hides. Selections of
one or two rows, which can surround their target. `MaxWork` bounds commands and
items together: lists of four see two commands, of three three, of two four. Each
exception above occurs within these bounds, and removing it from its property
gives a counterexample. There is no deadlock check, as the commands are bounded
and the user may do nothing. No fairness is assumed.

### 5.3 What is proved

`PlaylistProofs` proves, from `PlaylistAssumption` alone, each property of the run
`playlist`: for any entries, columns, filters and saved lists, and any bounds on
items, selections and commands. The assumption asks that entry IDs are numbers, that a column has a number
for each entry, and that the lists at the start keep the bound on items.

The invariant is `PlaylistInv`. Beside the types it says that every item, in either
order or not, has been judged by the present filter; that both orders are without
repetition and the normal one increases, also while they are stale and reach beyond
the list (a stale normal order is still what the next removal starts from); and
`OrderPlayed`, that everything in a shuffled order up to the active item has been
played or passed over.

- `PlaylistTypes`, `OrdersReachAll` and `ShuffleHearsAll`: `Spec => []TypeOK`, and
  likewise `IndexesExact` and `ShufflePlaysAll`, follow from `PlaylistInv`. Each
  command makes a list of items first (`Listings`) and rebuilds the orders from it,
  so what a command does to items, and what `Rebuild` makes of any list, are proved
  apart.
- `SortsUpwards`: `Spec => AscendingSorts`. `MergeUpFacts` and `MergeSortFacts` say
  that the sort permutes the items, gives them in order, and leaves alike ones as
  they stood, by induction over the lengths of the halves. `AheadFacts` counts: in
  such an order the k-th item has k - 1 ahead of it. The property is stated by
  places, for that determines the result without saying how it is found.
- `ActiveStaysActive`: `Spec => ActiveFollows`. A sort looks the active entry up
  again and a move finds its place in the new order; a removal corrects the index by one for each item before it. `Followed`
  says of any number of removals, in any order and with any index among them twice,
  that the active index stands for its entry or that there is one less of it.
- `OneOfEachStays`: `Spec => DuplicatesGo`. `DeleteRounds` is the induction over the
  rounds of `DeleteRealIndexArray`, each of which corrects the indexes still to come.
  `CoveredFits` shows that these always fit into what is left of the list, even when
  an index is listed twice, since every index listed stands at or before a double
  that is counted once. `DeleteExactly` shows that distinct indexes take just their
  items. They are distinct when the active entry is there at most twice
  (`GoneOnce`), and `DoublesCount` counts what is left.
- `DanglingIsExplained`: `Spec => OnlyTheseDangle`. With items that all live, a
  removal from the library that meets its entry once takes it (`OnceOnly`), and no
  other command brings in an entry but an addition, which takes one of the library,
  and the order that is restored.

`DescendingSorts` is no theorem: it is what `playlist_sort` refutes.

### 5.4 Left out

The library's own list, which skips streams when shuffled; updating an entry; the
copying and removing between two lists; the random-next command, which switches
shuffle twice; columns whose comparison may be no order (that of the date last
played also reads the date of entries never played).

## 6. PlayQueue

### 6.1 What is modelled

Every list is the sequence of its entries, with the sequence of those that its
filter shows and its active entry, which it loses when another list becomes active
(`AtOnceActive`); shuffle is off and no list has an entry twice, since orders and
duplicates are the subject of `Playlist`. The streams are reduced to the song that
is heard, whether a crossfade is under way (`ending`), and whether a failure waits
(`failing`); the order of their messages is the subject of `Player`.

| code | definitions |
| --- | --- |
| `CBasePlaylist::Next` | `NextSong`, `OwnNext` |
| `PlayEntry` | `Choose`, `PlayEntry`, `Starts`, `CannotOpen`, `PlayNothing`, `QueueAfter` |
| `SetActivePlaylistByIndex` | `AtOnceActive`, `MakeActive` |
| `BuildFuturePlaylistArray`, `RebuildFutureMenu` | `FutureMenus`, `FutureSelected`, `FutureQueue`, `FutureOwn`, `FutureLoops`; `outdated` keeps a menu that is not rebuilt |
| `CPlayQueue`, `CHistory` | `Enqueue`, `RemovePlaylistID`, `RemoveEntryID`, `AddHistoryItem`, `PlayHistoryIndex`, `PlayFromLibrary` |
| notifications | `SongEnds`, `MixPoint`, `StreamEnds`, `HandleFailed` |
| commands | `SkipToNext`, `PlayFromView`, `PlayFuture`, `PlayNext`, `AppendQueue`, `QueueByField`, `ClearQueue`, `SetRepeat`, `SelectToPlay`, `SwitchTo` |
| changes of the lists | `SetFilter`, `RemoveFromList`, `RemoveFromLibrary`, `DeleteList`, `NewList` |
| shutdown and the next start | `Restart` |

The future list is built in a loop that goes back to the start of the queue with
repeat all queued and never ends when nothing in the queue is shown: `Hung` is that
state, and nothing happens in it. Where a command shows another list in the view the
menu may be built in the middle of it, from what is active by then (`PlayFromLibrary`,
`SwitchTo`). The IDs of deleted lists are given out again, and
the history keeps them; nothing calls `CHistory::RemovePlaylistID`. Songs chosen
with Alt are places, and they are looked up in whatever list is active.

### 6.2 Runs

| run | question | result |
| --- | --- | --- |
| `playqueue` | two commands of any kind among the ends of songs | the type invariant and seven action properties hold, with the exceptions below |
| `playqueue_live` | is the queue played to its end | `QueueDrains` holds under fairness |
| `queue_repeat` | does repeat all queued replay the files in the queue, as the guide says | violated |

What the properties name as exceptions is what the code does not keep:

- `OnlyHeardWishesGo`: wishes are compared by the place of their entry in the list
  that is played, and one that this list does not show has no place; when the song
  that starts has none either, the first such wish goes with all before it.
- `GhostsOnlyFromTwins`: of two neighbours that are removed the second stays.
- `ForetoldIsPlayed`: a failed song, a list that is made or deleted, and a command that
  makes another list active and plays nothing leave a future list that begins with
  another song than the one that will be played. Nothing else does, and no such list
  is made anew; for a first choice that is not shown nothing is claimed.
- `ActiveListIsHeard`: when a stream ends after a crossfade the player asks `Next`
  whether anything follows (`TuniacApp.cpp:1164`), and `Next` makes the list of the
  queue's head active (`BasePlaylist.cpp:454`) while a song of another is heard.
- `HangsExplained`: hiding or removing songs, queueing by column (which also queues
  what the filter hides), or playing a song that its list hides can lead to the
  endless loop.
- `QueueDrains`: a wish that cannot be opened stays at the head and is tried again
  until the player gives up.

*Bounds.* Three songs, one of which cannot be opened, in the library and two lists
that share a song; queues of up to three wishes, read from the file, among them one
with the same wish twice running; histories and future lists of two. Two commands
suffice for each exception above, and without its exception each property has a
counterexample. `playqueue_live` starts from queues of three, of two and of three
lists, and two commands may add to them.

*Fairness.* `WF_vars(GoOn)`: songs end and messages are handled, which is what
`Player` shows under the fairness of the streams. Commands are not fair. There is no
deadlock check: the commands are bounded, and a silent player rests.

### 6.3 What is proved

`PlayQueueProofs` proves, from `PlayQueueAssumption` alone, each property of the run
`playqueue`: for any songs, lists, filters, saved queues and sizes. The assumption
asks for a greatest ID among the lists at the start (`Max(Lists)` is the code's
counter), and that history and future list hold at least one item; the preferences
allow no fewer than two.

- `QueueTypes`: `Spec => []TypeOK`. Not inductive alone: a new list needs an ID that
  no list has, so the lists must be finitely many. `QueueInv` adds that. The future
  list is in type because it is only built when the loop of the code ends
  (`~FutureLoops`), which is when `FutureQueue` has something to repeat.
- `QueueIsServedInOrder`: `NextSongCases` says what `Next` can answer, `HeadTaken`
  that the head of the queue is the first wish at its own place.
- `WishesGoForAReason` needs a second invariant, `ShownIn`: a list shows only entries
  it has. Without it an entry could go from what is shown alone, and the step would
  not be one that changes `items`.
- `GhostsComeFromTwins`: `DroppedFacts` shows of the removal loop, for every list and
  every set of matches, that what it leaves of the matches had a match before it.
- `HeardListIsActive` and `HangsAreExplained`: `PlaysOn` is what all commands and
  notifications that play can do to the lists, the queue and the song, so that
  neither proof looks at them one by one. For the hang, what is queued from a view
  is shown (`WishesPlay`), and a wish that goes to the end of the queue again is one
  that its list shows unless the song that starts is hidden.
- `ForetoldIsHeard`: `MenuForetells` compares the first item of the future list with
  `Next` case by case: the songs chosen with Alt, the queue, the list's own order,
  where the two agree also when nothing follows and the command starts over. That is a
  menu just built; `ForetoldSpoilt` follows one that is kept through the steps. It
  stays true when a stream's end makes the list of the queue's head active, since
  that wish is next whatever list is (`HeadNext`).
- `RestartReadsHistory`: by induction over the items read, the newest `m` items are
  the last `m` of the history that was saved (`ReadBack`).

The recursive functions of the model (`Dropped`, `ReadHistory`, `FutureOwn`) and
`Selected` are first shown to exist (`StepsExist`, `SelectedPicks`); a function given
by a recursion is unknown to the provers until then. Only `QueueDrains` is
model-checked and not proved, as it is about fairness.

### 6.4 Left out

Pause and resume, shuffle, lists with duplicates, and menus.

## 7. Manager

### 7.1 What is modelled

Playlists are numbered objects; `rows` says which stand where, `ids` which ID each
was given. `active` is the row and pointer of `CPlaylistManager`; `window` the row
that `CSourceSelectorWindow` has for the visible one, and the row and pointer of the
view. `ListAt` is `GetPlaylistByIndex`, which answers with the active pointer for
the active row, whatever stands there.

| code | definitions |
| --- | --- |
| `SetActivePlaylistByIndex`, `...ByID`, `ShowPlaylistAtIndex` | `SetActive`, `SwitchToID`, `Show`; `ShowRow`, `SwitchTo`, `PlayFromView` |
| `CreateNewStandardPlaylist...` | `NewList`, `FirstFree` |
| drag and drop, `MoveStandardPlaylist` | `Drag`, `DropRow`, `Moved`, `RowAfterMove` |
| the delete commands, `DeletePlaylistByIndex` | `DeleteRow`, `LibraryIfActive`, `RowAfterDelete` |
| `CMicPlaylist::SetEnabled`, `GetPlaylistByID`, `CBasePlaylist::Next` | `EnableMic`, `DisableMic`, `ByID`, `QueueLeads` |
| `AddCDWithDriveLetter`, `DeleteCDWithDriveLetter` | `CDArrives`, `CDLeaves`, `CDLookedAt` |
| shutdown, `Initialize`, `LoadPlaylistLibrary` | `Restart` |

`freed` and `plain` are history: the lists that were deleted, and that there has
been neither microphone nor CD. Once a pointer names a deleted list what follows is
undefined and the model stops (`Sound`). When the active microphone is taken away the
library becomes active and is sent for its next song while the microphone still has
its row: if the queue is led by a wish for another list, that list becomes active
(`QueueLeads`; any list may lead it here). A drag, which shows the row and drops it
later, is one action; so is a device message, which comes on another thread. The
microphone and the CDs each have a view of their own, which shares the rows.

### 7.2 Run

`manager` checks, with any sequence of these operations and restarts:

- `ActiveAlive`: the active list is never a deleted one. It holds as long as there
  has been neither microphone nor CD; with them the active row can come down to 0
  while another list is active, and deleting that list then leaves its pointer.
- `ActiveRowKept`: the active row comes to stand for another list only when a list
  from above is dropped right below the active one (`PlaylistManager.cpp:1070` says
  `>` where the row moves already at equality), when the view's row no longer
  exists, or with a microphone or CDs: they move the rows, and a delete compares an
  index among the user's lists with a row (line 1107).
- `ViewRowKept`: a double click in the view plays the list that it shows, unless a
  list above it was deleted, or the active row is wrong.
- `IDsStayUnique`: two lists come to have one ID only when the microphone is enabled
  after a list was given the ID set aside for it, or at a start with a CD in a
  drive, which takes its ID before the saved ones are read.

*Bounds.* Two drives; one list at the start; four objects beside the library. Three
of the user's lists, or one with two CDs, are enough to move past the active one
from both sides, to delete above and below it, and to delete all. Each exception was
removed in turn and gives a counterexample. No fairness, no deadlock check: objects
are bounded, and nothing has to happen.

### 7.3 What is proved

`ManagerProofs` proves, from `ManagerAssumption` alone, for any drives, number of
lists and first ID:

- `TypeCorrect`: `Spec => []TypeOK`, one lemma per action. The user's rows hold
  distinct lists, none of them deleted, and remembered rows are never negative. It
  rests on lemmas about `Without`, `With` and `Moved`: a move keeps the set of lists
  and a removal takes just one.
- `ActiveNeverDeleted`: `Spec => []ActiveAlive`. `ActiveAlive` is not inductive:
  deleting looks at the row and at the pointer, so what has to be kept is that the
  pointer names the library or one of the user's lists (`Extended`), and that row 0
  is active only with the library; else the library would not be made active by
  `SetActive(0)`. `PlainOK` says so.
- `IDsAreUnique`: `Spec => [](plain => IDsUnique)`, over any number of restarts:
  the loop stops at an ID that no listed playlist has.

The inductive invariant is `Inv == TypeOK /\ PlainOK /\ (plain => IDsUnique)`.

`ManagerRowProofs` proves the three action properties from the same assumption:

- `ActiveRowIsKept`: `Spec => ActiveRowKept`. With neither microphone nor CD before
  and after a step, rows are positions among the user's lists (`BaseOneRows`).
  `WithoutAt`, `WithAt` and `MovedAt` say where a removal, an insertion and a move
  take each element, and `ActiveDrag` compares that with `RowAfterMove`: they differ
  only where a list from above lands on the active row. A device that comes or goes
  is seen in `Base` (`DevicesMove`).
- `ViewRowIsKept`: `Spec => ViewRowKept`. Deleting a row follows the window's
  remembered row, `m_ulVisiblePlaylistIndex`, while the property is about the
  view's. They differ after a CD came while the last row was shown, and the
  property alone does not exclude that the row deleted next is the view's. The
  strengthening `VisibleOK` does: when they differ, the list that the view shows
  stands above the row that the view remembers. It is invariant over all steps,
  those of devices and restarts included (`VisibleInv`).
- `IDsAreKept`: `Spec => IDsStayUnique`. A new list, a CD that comes, and the
  microphone at a start take an ID that no listed playlist has (`NewIDUnique`,
  `IDsRestart`); the other steps list no other playlist.

No property of the run `manager` is only model-checked.

## 8. Findings

1. `stream_unexpected`: a song whose length is unknown, or that is sought in close
   to its end, is decoded and heard to its end and then posted as failed, since
   the mix point is missed (`AudioStream.cpp:504`, an unsigned difference that
   wraps). Its entry is then marked unavailable.
2. `stream_stall`: a decoder buffer larger than the pipe less the remainder of a
   packet never fits, and the stream falls silent without a notification.
3. `player_retry`: `STARTED` resets the counter of failed songs before any audio is
   decoded, so files that open but do not decode are skipped without limit.
4. `player_soft`: after a soft pause with crossfading the next song is opened and
   stopped; if it is short its mix point is posted all the same and the song
   after it is started.
5. `playlist_sort`: a reverse merge takes all of the right half before the left one
   (`BasePlaylist.cpp:1002`). That turns round a list without ties that is sorted
   upwards; in the run an item is moved after the first click on a column, and the
   second click leaves the list in neither order of the column.
6. `queue_repeat`: with repeat all queued a song started from the middle of the
   queue is appended once for each wish up to its own (`TuniacApp.cpp:3481`), and
   the wishes before it are lost, while the guide says that the files in the queue
   are replayed (`Guide/menu.html:148`).

## 9. Not modelled

| part | why |
| --- | --- |
| media library | the removal of an entry is an action of `PlayQueue` and `Playlist`; adding files and reading their tags is disk I/O and parsing |
| the files of playlists and library | what a restart makes of the state is modelled in `PlayQueue` and `Manager`; the formats, their versions, errors while they are read or written, and a crash between the two are not |
| CD and microphone playlists | `Manager` has their rows and IDs; their entries are read-only lists over a device |
| device messages against a handler of the UI thread | CDs come and go on a thread of its own that changes the arrays without a lock; what a reader of a half-moved array sees is undefined |
| after a deleted list is still pointed to | any use is undefined: `Manager` stops there (`Sound`) |
| import and export | sequential parsing, no shared state |
| plugins and their manager | windows and hooks of other programs; threads that only receive posted messages |
| decoders | third-party libraries; `AudioStream` models what they hand out |
| HTTP, file and memory I/O | blocking reads behind the decoders |
| views, skins, album art, tag editor, preferences | painting, dialogs and registry access; their commands are actions of `Player`, `Playlist`, `PlayQueue` and `Manager` |

Out of reach of the prover, and left to TLC: liveness under fairness, and `ENABLED`
(`EndNotified`, `DestroyCompletes`, `SongFollowsSong`, `GivesUp`, `QueueDrains`). The
library's induction theorems take an operator as a parameter, which the provers
cannot instantiate; the lemmas about recursive functions do without them, by
inductions over the set of numbers for which a fact holds. Every safety property
that a passing run shows has a theorem.
