---------------------------- MODULE AudioStream ----------------------------
(***************************************************************************)
(* One playing stream of Tuniac's audio engine: CAudioStream, the          *)
(* CAudioPacketizer inside it and the CAudioOutput it feeds.               *)
(*                                                                         *)
(* Four actors share it:                                                   *)
(*   - the service thread asks the decoder for buffers and writes them to  *)
(*     the packetizer's pipe        (CAudioStream::serviceThread);         *)
(*   - the output thread turns the pipe into packets, posts notifications  *)
(*     and submits buffers to the voice    (CAudioOutput::ThreadProc);     *)
(*   - the XAudio2 engine plays the voice's queue and calls back;          *)
(*   - the UI thread starts, stops, seeks and destroys the stream.         *)
(*                                                                         *)
(* Audio is counted in units.  A unit carries the seek it was decoded      *)
(* after (ep) and its place in the song (pos), so that a property can tell *)
(* stale audio from fresh.  The sections under m_Lock and m_AudioLock are  *)
(* single actions; what the code does outside a lock is an action of its   *)
(* own.  Gain, equaliser and fades change no control flow and are left out.*)
(***************************************************************************)
EXTENDS Integers, Sequences, SequencesExt, FiniteSets

CONSTANTS
    PacketSize,     \* units in a packet: m_BlockSize
    PipePackets,    \* packets the pipe holds (5 in the code)
    MaxBuffers,     \* MAX_BUFFER_COUNT, buffers queued on the voice (8)
    DecodeSizes,    \* sizes of the buffers decoders hand out
    SongLengths,    \* where the decoder may run out of data
    Lengths,        \* what IAudioSource::GetLength may answer, in units
    Crossfade,      \* the crossfade time of the preferences, in units
    SeekPoints,     \* positions the user seeks to
    MaxSeeks,       \* bound on the number of seeks
    MaxStarts,      \* bound on the number of starts
    UnknownLength   \* LENGTH_UNKNOWN: the decoder cannot tell the length

ASSUME SizesAssumption ==
    /\ PacketSize \in Nat \ {0}
    /\ PipePackets \in Nat \ {0}
    /\ MaxBuffers \in Nat \ {0}
    /\ DecodeSizes \subseteq Nat \ {0}
    /\ \E m \in DecodeSizes : \A n \in DecodeSizes : n <= m
    /\ SongLengths \subseteq Nat
    /\ UnknownLength \notin Nat
    /\ Lengths \subseteq Nat \cup {UnknownLength}
    /\ Crossfade \in Nat
    /\ SeekPoints \subseteq Nat
    /\ MaxSeeks \in Nat
    /\ MaxStarts \in Nat

VARIABLES
    song,        \* the decoder fails from this unit on
    length,      \* GetLength()
    srcPos,      \* next unit the decoder will hand out
    epoch,       \* seeks done by the decoder so far
    late,        \* history: the last seek came after the decoder had finished
    pBuffer,     \* decoded buffer waiting for room in the pipe, <<>> = NULL
    pipe,        \* units in the packetizer's pipe
    finished,    \* CAudioPacketizer::m_bFinished
    svc,         \* the service thread: "top", "fill", "room", "write", "dead"
    svcRun,      \* m_bServiceThreadRun
    seeking,     \* m_bIsSeeking
    lastSeek,    \* m_ulLastSeekMS, in units
    crossfade,   \* m_ulCrossfadeTimeMS, in units; 0 until SetCrossfadePoint
    playState,   \* m_PlayState
    starts,      \* calls of Start so far
    sent,        \* notifications posted to the application window, in order
    mixNotify,   \* m_bMixNotify
    entryPlayed, \* m_bEntryPlayed
    finishNotify,\* m_bFinishNotify and m_bIsFinished, set together
    out,         \* the output thread: "loop", "submit", "box", "eos", "dead"
    outRun,      \* CAudioOutput::m_bThreadRun
    held,        \* the packet GetBuffer returned and the thread still holds
    slot,        \* currentDiskReadBuffer
    queue,       \* buffers submitted to the voice
    voiceOn,     \* CAudioOutput::m_bPlaying: the voice is started
    samplesOut,  \* GetSamplesOut()
    streamEnded, \* CAudioOutput::m_bStreamFinished
    heard,       \* history: the next unit of this epoch to be heard
    refused,     \* history: the voice refused a packet of this epoch
    ui,          \* the UI thread: "setup", "idle", "seek", and in the teardown
                 \* "joinSvc", "joinOut", "freed", "gone"
    target       \* argument of the SetPosition in progress

vars == <<song, length, srcPos, epoch, late, pBuffer, pipe, finished, svc, svcRun,
          seeking, lastSeek, crossfade, playState, starts, sent, mixNotify, entryPlayed,
          finishNotify, out, outRun, held, slot, queue, voiceOn, samplesOut,
          streamEnded, heard, refused, ui, target>>

sourceVars == <<song, length, srcPos, epoch, late>>
svcVars    == <<pBuffer, svc>>
noteVars   == <<sent, mixNotify, entryPlayed, finishNotify>>
outVars    == <<out, held, slot>>
voiceVars  == <<queue, voiceOn, samplesOut, streamEnded, heard, refused>>
uiVars     == <<svcRun, seeking, lastSeek, crossfade, playState, starts, outRun,
                ui, target>>
----------------------------------------------------------------------------
Sample == [ep : Nat, pos : Nat]
Buffer == [data : Seq(Sample), slot : 0 .. MaxBuffers - 1, eos : BOOLEAN]
Note   == {"STARTED", "PLAYED", "MIX", "FINISHED", "FAILED"}

PipeSize == PacketSize * PipePackets

\* CAudioPacketizer::BytesAvailable: the free room, in units.
BytesAvailable == PipeSize - Len(pipe)

\* CAudioStream::GetPosition plus CAudioOutput::GetAudioBufferMS: where the
\* audio now leaving the pipe will be when it is heard.
BufferedPosition == lastSeek + samplesOut + MaxBuffers * PacketSize

\* The 1/4 played point.
PlayedPoint == length # UnknownLength /\ 4 * BufferedPosition > length

\* The mix point.  The subtraction is of unsigned longs: past the end it wraps
\* to a huge number, which is never below the crossfade time.
MixPointExact == length # UnknownLength /\ length - BufferedPosition = crossfade
MixPoint ==
    /\ length # UnknownLength
    /\ \/ length <= crossfade
       \/ BufferedPosition <= length /\ length - BufferedPosition < crossfade

\* The stream as CAudioStream::Initialize leaves it: both threads run, and
\* CCoreAudio::SetSource has not configured it yet.
Init ==
    /\ song \in SongLengths
    /\ length \in Lengths
    /\ srcPos = 0 /\ epoch = 0 /\ late = FALSE
    /\ pBuffer = <<>> /\ pipe = <<>> /\ finished = FALSE
    /\ svc = "top" /\ svcRun = TRUE
    /\ seeking = FALSE /\ lastSeek = 0 /\ crossfade = 0
    /\ playState = "STOPPED" /\ starts = 0
    /\ sent = <<>>
    /\ mixNotify = FALSE /\ entryPlayed = FALSE /\ finishNotify = FALSE
    /\ out = "loop" /\ outRun = TRUE /\ held = <<>> /\ slot = 0
    /\ queue = <<>> /\ voiceOn = FALSE /\ samplesOut = 0
    /\ streamEnded = FALSE /\ heard = 0 /\ refused = FALSE
    /\ ui = "setup" /\ target = 0
----------------------------------------------------------------------------
(***************************************************************************)
(* The service thread.                                                     *)
(***************************************************************************)

\* while(m_bServiceThreadRun)
KeepServingPending == svcRun \/ pBuffer # <<>>
KeepServing == svcRun

\* serviceThread tests its run flag, then ServiceStream the seeking flag.
ServiceTop ==
    /\ svc = "top"
    /\ svc' = IF ~KeepServing THEN "dead"
              ELSE IF seeking THEN "top"
              ELSE IF pBuffer = <<>> THEN "fill" ELSE "room"
    /\ UNCHANGED <<sourceVars, pBuffer, pipe, finished, noteVars, outVars,
                   voiceVars, uiVars>>

\* How much of n units the decoder still has.
Decoded(n) == IF n <= song - srcPos THEN n ELSE song - srcPos

\* The decoder hands out a buffer.  No lock is held.
ServiceFill ==
    /\ svc = "fill"
    /\ srcPos < song
    /\ \E n \in DecodeSizes :
         /\ pBuffer' = [i \in 1 .. Decoded(n) |->
                           [ep |-> epoch, pos |-> srcPos + i - 1]]
         /\ srcPos' = srcPos + Decoded(n)
    /\ svc' = "room"
    /\ UNCHANGED <<song, length, epoch, late, pipe, finished, noteVars, outVars,
                   voiceVars, uiVars>>

\* The decoder has no more: the packetizer is told, the thread returns.
ServiceEnd ==
    /\ svc = "fill"
    /\ srcPos >= song
    /\ finished' = TRUE
    /\ svc' = "dead"
    /\ UNCHANGED <<sourceVars, pBuffer, pipe, noteVars, outVars, voiceVars, uiVars>>

RoomForSome   == BytesAvailable > 0
RoomForBuffer == Len(pBuffer) <= BytesAvailable

\* The test for room reads the pipe before m_Lock is taken.
ServiceRoom ==
    /\ svc = "room"
    /\ svc' = IF RoomForBuffer THEN "write" ELSE "top"
    /\ UNCHANGED <<sourceVars, pBuffer, pipe, finished, noteVars, outVars,
                   voiceVars, uiVars>>

\* pBuffer = NULL
BufferKept  == pBuffer
BufferTaken == <<>>

\* Under m_Lock: WriteData, and the buffer is given up.
ServiceWrite ==
    /\ svc = "write"
    /\ pipe' = pipe \o pBuffer
    /\ pBuffer' = BufferTaken
    /\ svc' = "top"
    /\ UNCHANGED <<sourceVars, finished, noteVars, outVars, voiceVars, uiVars>>
----------------------------------------------------------------------------
(***************************************************************************)
(* The output thread.  GetBuffer runs whole under m_Lock, so it is one     *)
(* action for each of its results; submitting to the voice is another,     *)
(* under m_AudioLock, which the thread keeps while its message box is up.  *)
(***************************************************************************)

\* state.BuffersQueued < MAX_BUFFER_COUNT
VoiceHasRoomAtLimit == Len(queue) <= MaxBuffers
VoiceHasRoom == Len(queue) < MaxBuffers

\* CAudioPacketizer::GetBuffer succeeds: a whole packet, or the tail of the song.
PacketReadyNoTail == Len(pipe) >= PacketSize
PacketReady == pipe # <<>> /\ (Len(pipe) >= PacketSize \/ finished)

Packet == SubSeq(pipe, 1, IF Len(pipe) <= PacketSize THEN Len(pipe) ELSE PacketSize)
RestOffByOne == SubSeq(pipe, PacketSize + 2, Len(pipe))
Rest   == SubSeq(pipe, PacketSize + 1, Len(pipe))

\* CAudioOutput::StreamFinished
VoiceNotAsked == TRUE
VoiceEnded == streamEnded

\* if(!m_bFinishNotify)
EndAlwaysTold == TRUE
EndUntold == ~finishNotify

\* currentDiskReadBuffer++ % MAX_BUFFER_COUNT
NextSlotNoWrap == slot + 1
NextSlot == (slot + 1) % MaxBuffers

\* GetBuffer writes p where m_pfAudioBuffer has the slot, over what a buffer
\* queued from there still holds.
Overwritten(p) ==
    [i \in DOMAIN queue |-> IF queue[i].slot = slot THEN [queue[i] EXCEPT !.data = p]
                            ELSE queue[i]]

\* The thread tests its run flag.
OutExit ==
    /\ out = "loop"
    /\ ~outRun
    /\ out' = "dead"
    /\ UNCHANGED <<sourceVars, svcVars, pipe, finished, noteVars, held, slot,
                   voiceVars, uiVars>>

\* GetBuffer returns 1: a packet, and the notifications whose point is reached.
OutGetPacket ==
    /\ out = "loop" /\ outRun /\ VoiceHasRoom
    /\ PacketReady
    /\ held' = Packet
    /\ pipe' = Rest
    /\ queue' = Overwritten(Packet)
    /\ LET played == PlayedPoint /\ ~entryPlayed
           mix    == MixPoint /\ ~mixNotify
           told   == IF played THEN Append(sent, "PLAYED") ELSE sent IN
       /\ entryPlayed' = (entryPlayed \/ played)
       /\ mixNotify' = (mixNotify \/ mix)
       /\ sent' = IF mix THEN Append(told, "MIX") ELSE told
    /\ out' = "submit"
    /\ UNCHANGED <<sourceVars, svcVars, finished, finishNotify, slot, voiceOn,
                   samplesOut, streamEnded, heard, refused, uiVars>>

\* GetBuffer returns -1: nothing left to read, the voice has not ended yet.
OutGetEnd ==
    /\ out = "loop" /\ outRun /\ VoiceHasRoom
    /\ pipe = <<>> /\ finished /\ ~VoiceEnded
    /\ out' = "eos"
    /\ UNCHANGED <<sourceVars, svcVars, pipe, finished, noteVars, held, slot,
                   voiceVars, uiVars>>

\* GetBuffer returns 0 after the voice has ended: the application is told, once.
OutNotifyEnd ==
    /\ out = "loop" /\ outRun /\ VoiceHasRoom
    /\ pipe = <<>> /\ finished /\ VoiceEnded
    /\ EndUntold
    /\ finishNotify' = TRUE
    /\ sent' = Append(sent, IF mixNotify THEN "FINISHED" ELSE "FAILED")
    /\ UNCHANGED <<sourceVars, svcVars, pipe, finished, mixNotify, entryPlayed,
                   outVars, voiceVars, uiVars>>

\* The packet goes to the voice.
OutSubmit ==
    /\ out = "submit"
    /\ queue' = Append(queue, [data |-> held, slot |-> slot, eos |-> FALSE])
    /\ slot' = NextSlot
    /\ held' = <<>>
    /\ out' = "loop"
    /\ UNCHANGED <<sourceVars, svcVars, pipe, finished, noteVars, voiceOn,
                   samplesOut, streamEnded, heard, refused, uiVars>>

\* SubmitSourceBuffer fails: the packet is lost, and the thread shows a message
\* box with m_AudioLock held.
OutRefused ==
    /\ out = "submit"
    /\ held' = <<>>
    /\ refused' = TRUE
    /\ out' = "box"
    /\ UNCHANGED <<sourceVars, svcVars, pipe, finished, noteVars, slot, queue,
                   voiceOn, samplesOut, streamEnded, heard, uiVars>>

\* The user closes it: the thread goes on with the next slot.
BoxClosed ==
    /\ out = "box"
    /\ slot' = NextSlot
    /\ out' = "loop"
    /\ UNCHANGED <<sourceVars, svcVars, pipe, finished, noteVars, held, voiceVars,
                   uiVars>>

\* A buffer flagged END_OF_STREAM, with the first few bytes of whatever the
\* current slot holds: too few to count.
OutSubmitEnd ==
    /\ out = "eos"
    /\ queue' = Append(queue, [data |-> <<>>, slot |-> slot, eos |-> TRUE])
    /\ out' = "loop"
    /\ UNCHANGED <<sourceVars, svcVars, pipe, finished, noteVars, held, slot,
                   voiceOn, samplesOut, streamEnded, heard, refused, uiVars>>

\* That this call fails goes unnoticed.
OutEndRefused ==
    /\ out = "eos"
    /\ out' = "loop"
    /\ UNCHANGED <<sourceVars, svcVars, pipe, finished, noteVars, held, slot,
                   voiceVars, uiVars>>
----------------------------------------------------------------------------
(***************************************************************************)
(* The XAudio2 engine (external): it plays the queue of a started voice.   *)
(* SamplesPlayed counts the zeros that pad the last packet too.            *)
(***************************************************************************)
EnginePlay ==
    /\ voiceOn /\ queue # <<>> /\ ~Head(queue).eos
    /\ queue' = Tail(queue)
    /\ samplesOut' = samplesOut + PacketSize
    /\ LET d == Head(queue).data
           fresh == d # <<>> /\ d[Len(d)].ep = epoch IN
       heard' = IF fresh THEN d[Len(d)].pos + 1 ELSE heard
    /\ UNCHANGED <<sourceVars, svcVars, pipe, finished, noteVars, outVars,
                   voiceOn, streamEnded, refused, uiVars>>

\* OnStreamEnd
EngineStreamEnd ==
    /\ voiceOn /\ queue # <<>> /\ Head(queue).eos
    /\ queue' = Tail(queue)
    /\ streamEnded' = TRUE
    /\ UNCHANGED <<sourceVars, svcVars, pipe, finished, noteVars, outVars,
                   voiceOn, samplesOut, heard, refused, uiVars>>
----------------------------------------------------------------------------
(***************************************************************************)
(* The UI thread.  Its calls of Start, Stop and Reset wait for m_AudioLock *)
(* while the message box is up.                                            *)
(***************************************************************************)

\* CCoreAudio::SetSource configures the stream after its threads were started.
Configure ==
    /\ ui = "setup"
    /\ crossfade' = Crossfade
    /\ ui' = "idle"
    /\ UNCHANGED <<sourceVars, svcVars, pipe, finished, noteVars, outVars, voiceVars,
                   svcRun, seeking, lastSeek, playState, starts, outRun, target>>

AudioLockFree == out # "box"

Start ==
    /\ ui = "idle" /\ starts < MaxStarts /\ AudioLockFree
    /\ starts' = starts + 1
    /\ playState' = "PLAYING"
    /\ sent' = Append(sent, "STARTED")
    /\ voiceOn' = TRUE
    /\ UNCHANGED <<sourceVars, svcVars, pipe, finished, mixNotify, entryPlayed,
                   finishNotify, outVars, queue, samplesOut, streamEnded, heard, refused,
                   svcRun, seeking, lastSeek, crossfade, outRun, ui, target>>

Stop ==
    /\ ui = "idle" /\ AudioLockFree
    /\ playState' = "STOPPED"
    /\ voiceOn' = FALSE
    /\ UNCHANGED <<sourceVars, svcVars, pipe, finished, noteVars, outVars, queue,
                   samplesOut, streamEnded, heard, refused, svcRun, seeking, lastSeek,
                   crossfade, starts, outRun, ui, target>>

\* SetPosition raises m_bIsSeeking before it takes m_Lock.
SeekBegin ==
    /\ ui = "idle" /\ epoch < MaxSeeks
    /\ \E p \in SeekPoints : target' = p
    /\ seeking' = TRUE
    /\ ui' = "seek"
    /\ UNCHANGED <<sourceVars, svcVars, pipe, finished, noteVars, outVars, voiceVars,
                   svcRun, lastSeek, crossfade, playState, starts, outRun>>

\* What a seek leaves in the packetizer's pipe: it is closed and made anew.
PipeNotReset  == pipe
PipeAfterSeek == <<>>

\* The rest of SetPosition, under m_Lock, when the decoder has moved.  The
\* buffer pBuffer, the held packet, m_bFinished and m_bStreamFinished stay.
SeekDone ==
    /\ ui = "seek" /\ AudioLockFree
    /\ srcPos' = target /\ epoch' = epoch + 1 /\ late' = finished
    /\ pipe' = PipeAfterSeek
    /\ queue' = <<>> /\ samplesOut' = 0 /\ heard' = target /\ refused' = FALSE
    /\ lastSeek' = target
    /\ seeking' = FALSE
    /\ voiceOn' = (playState = "PLAYING")
    /\ ui' = "idle"
    /\ UNCHANGED <<song, length, svcVars, finished, noteVars, outVars, streamEnded,
                   svcRun, crossfade, playState, starts, outRun, target>>

\* The same when the decoder cannot seek.
SeekRefused ==
    /\ ui = "seek" /\ AudioLockFree
    /\ seeking' = FALSE
    /\ voiceOn' = (playState = "PLAYING")
    /\ ui' = "idle"
    /\ UNCHANGED <<sourceVars, svcVars, pipe, finished, noteVars, outVars, queue,
                   samplesOut, streamEnded, heard, refused, svcRun, lastSeek, crossfade,
                   playState, starts, outRun, target>>

\* Shutdown: the service thread is asked to stop and waited for.
DestroyBegin ==
    /\ ui = "idle"
    /\ svcRun' = FALSE
    /\ ui' = "joinSvc"
    /\ UNCHANGED <<sourceVars, svcVars, pipe, finished, noteVars, outVars, voiceVars,
                   seeking, lastSeek, crossfade, playState, starts, outRun, target>>

\* It has returned, or hangs in the decoder and is terminated after 10 s.
\* Then Stop, and CAudioOutput::Destroy up to its wait for the output thread.
DestroyStop ==
    /\ ui = "joinSvc" /\ AudioLockFree
    /\ svc \in {"dead", "fill"}
    /\ svc' = "dead"
    /\ playState' = "STOPPED" /\ voiceOn' = FALSE
    /\ outRun' = FALSE
    /\ ui' = "joinOut"
    /\ UNCHANGED <<sourceVars, pBuffer, pipe, finished, noteVars, outVars, queue,
                   samplesOut, streamEnded, heard, refused, svcRun, seeking, lastSeek,
                   crossfade, starts, target>>

\* TerminateThread, after 1 s: the thread hangs in its message box.
DestroyTerminate ==
    /\ ui = "joinOut"
    /\ out = "box"
    /\ out' = "dead"
    /\ UNCHANGED <<sourceVars, svcVars, pipe, finished, noteVars, held, slot,
                   voiceVars, uiVars>>

\* WaitForSingleObject(m_hThread, 1000)
OutputNotJoined == TRUE
OutputJoined == out = "dead"

\* m_pfAudioBuffer is freed, and the voice's buffers with it.
DestroyFree ==
    /\ ui = "joinOut"
    /\ OutputJoined
    /\ ui' = "freed"
    /\ UNCHANGED <<sourceVars, svcVars, pipe, finished, noteVars, outVars, voiceVars,
                   svcRun, seeking, lastSeek, crossfade, playState, starts, outRun, target>>

\* The voice is destroyed with its queue.
DestroyEnd ==
    /\ ui = "freed"
    /\ queue' = <<>>
    /\ ui' = "gone"
    /\ UNCHANGED <<sourceVars, svcVars, pipe, finished, noteVars, outVars, voiceOn,
                   samplesOut, streamEnded, heard, refused, svcRun, seeking, lastSeek,
                   crossfade, playState, starts, outRun, target>>

Gone == ui = "gone" /\ UNCHANGED vars
----------------------------------------------------------------------------
Service == ServiceTop \/ ServiceFill \/ ServiceEnd \/ ServiceRoom \/ ServiceWrite

Output == \/ OutExit \/ OutGetPacket \/ OutGetEnd \/ OutNotifyEnd
          \/ OutSubmit \/ OutRefused \/ OutSubmitEnd \/ OutEndRefused

Engine == EnginePlay \/ EngineStreamEnd

\* What the UI thread does once it has begun a call.
UIContinue == \/ Configure \/ SeekDone \/ SeekRefused
              \/ DestroyStop \/ DestroyTerminate \/ DestroyFree \/ DestroyEnd

UI == UIContinue \/ Start \/ Stop \/ SeekBegin \/ DestroyBegin \/ Gone

Next == Service \/ Output \/ BoxClosed \/ Engine \/ UI

Spec == Init /\ [][Next]_vars

\* The threads and the engine run; a call the UI thread has begun goes on.
\* The voice takes an end of stream that it is given again and again.  The user
\* need not start, stop, seek or close anything, no message box either.
Fairness == /\ WF_vars(Service) /\ WF_vars(Output) /\ WF_vars(Engine)
            /\ WF_vars(UIContinue) /\ SF_vars(OutSubmitEnd)

FairSpec == Spec /\ Fairness
----------------------------------------------------------------------------
(***************************************************************************)
(* Properties.                                                             *)
(***************************************************************************)

\* Every variable keeps its type.
TypeOK ==
    /\ song \in Nat /\ length \in Nat \cup {UnknownLength}
    /\ srcPos \in Nat /\ epoch \in Nat /\ late \in BOOLEAN
    /\ pBuffer \in Seq(Sample) /\ pipe \in Seq(Sample)
    /\ finished \in BOOLEAN
    /\ svc \in {"top", "fill", "room", "write", "dead"} /\ svcRun \in BOOLEAN
    /\ seeking \in BOOLEAN /\ lastSeek \in Nat /\ crossfade \in Nat
    /\ playState \in {"STOPPED", "PLAYING"} /\ starts \in Nat
    /\ sent \in Seq(Note)
    /\ mixNotify \in BOOLEAN /\ entryPlayed \in BOOLEAN /\ finishNotify \in BOOLEAN
    /\ out \in {"loop", "submit", "box", "eos", "dead"} /\ outRun \in BOOLEAN
    /\ held \in Seq(Sample) /\ slot \in 0 .. MaxBuffers - 1
    /\ queue \in Seq(Buffer)
    /\ voiceOn \in BOOLEAN /\ samplesOut \in Nat /\ streamEnded \in BOOLEAN
    /\ heard \in Nat /\ refused \in BOOLEAN
    /\ ui \in {"setup", "idle", "seek", "joinSvc", "joinOut", "freed", "gone"}
    /\ target \in Nat

QueueAudio == FlattenSeq([i \in DOMAIN queue |-> queue[i].data])

\* All audio decoded and not yet heard, nearest the loudspeaker first.
Flow == QueueAudio \o held \o pipe \o pBuffer

\* s is audio from before seek e, then the units of seek e from one position of
\* the song up to another, each once and in order.
InOrder(s, e, from, to) ==
    LET fresh == to - from
        stale == Len(s) - fresh IN
    /\ fresh \in 0 .. Len(s)
    /\ \A i \in 1 .. stale : s[i].ep < e
    /\ \A i \in 1 .. fresh : s[stale + i] = [ep |-> e, pos |-> from + i - 1]

\* However the threads and the seeks interleave, the audio of the current seek
\* that is on its way is exactly what lies between the last unit heard and the
\* decoder, each unit once and in order, and what an earlier seek left over
\* is heard before it (ServiceStream, GetBuffer, ThreadProc, SetPosition), as
\* long as the voice refuses no packet.
AudioIntact == ui # "gone" /\ ~refused => InOrder(Flow, epoch, heard, srcPos)

\* After a seek at most the packet the output thread holds and the buffer the
\* service thread holds are still to be heard from before the seek
\* (CAudioStream::SetPosition resets the pipe and the voice, not these two).
StaleBounded ==
    ~refused =>
        \A i \in DOMAIN Flow : Flow[i].ep < epoch => i <= PacketSize + Max(DecodeSizes)

\* WriteData never blocks: the room seen before m_Lock was taken is still there
\* when the buffer is written.  A blocked WriteFile would hold m_Lock, and the
\* output thread needs m_Lock to make room (CAudioStream::ServiceStream).
NoBlockingWrite == svc = "write" => Len(pBuffer) <= BytesAvailable

\* The packet being filled in m_pfAudioBuffer is none the voice still has to
\* play (CAudioOutput::ThreadProc).  A packet refused has a slot of the ring but
\* no place in the queue: from then on the ring overtakes the voice.
SlotFree ==
    out \in {"submit", "eos"} /\ ~refused =>
        \A i \in DOMAIN queue : queue[i].eos \/ queue[i].slot # slot

EndNotes  == {"FINISHED", "FAILED"}
Posted(s) == {s[i] : i \in DOMAIN s}
Ended     == Posted(sent) \cap EndNotes # {}

\* s holds each notification but STARTED at most once, one end at most, nothing
\* that needs a packet after the end, and no normal end without a mix point.
Protocol(s) ==
    /\ \A i, j \in DOMAIN s :
         /\ s[i] = s[j] /\ s[i] # "STARTED" => i = j
         /\ s[i] \in EndNotes /\ s[j] \in EndNotes => i = j
         /\ s[i] \in EndNotes /\ s[j] \in {"PLAYED", "MIX"} => j < i
    /\ "FINISHED" \in Posted(s) => "MIX" \in Posted(s)

\* The application hears of the played point, the mix point and the end at most
\* once each, of the end last, and of a normal end only after the mix point
\* (CAudioStream::GetBuffer).
NotifyProtocol == Protocol(sent)

\* No audio is left in the decoder's buffer, the pipe, the packet being
\* submitted or the voice, where only end-of-stream buffers may remain.
NothingLeft ==
    /\ pBuffer = <<>> /\ pipe = <<>> /\ held = <<>>
    /\ \A i \in DOMAIN queue : queue[i].eos

\* The end is reported only when no audio is left anywhere
\* (CAudioStream::GetBuffer asks the output before it posts the end).
EndIsEmpty == Ended => NothingLeft

\* By then the listener has heard all that was decoded, and that is all of the
\* song from its start or from the last seek on (the service thread, GetBuffer
\* and ThreadProc together).  After a seek that came when the decoder had
\* finished nothing more is decoded, and of a packet refused nothing is heard.
EndAfterAllHeard ==
    Ended => /\ heard = srcPos \/ refused
             /\ srcPos >= song \/ late

\* A song whose whole length was decoded and whose mix point can be seen from
\* between two packets is never reported as failed (CAudioStream::GetBuffer, mix
\* and end notification).  A failure has one of these reasons.
FailureExplained ==
    "FAILED" \in Posted(sent) =>
        \/ length = UnknownLength
        \* A packet refused is not counted, and the position falls behind.
        \/ refused
        \* The decoder stopped before the mix point.
        \/ song + Crossfade <= length
        \* The voice can play past the mix point between two packets.
        \/ Crossfade < MaxBuffers * PacketSize
        \* Song or length fits in the buffers filled before the configuration.
        \/ song <= MaxBuffers * PacketSize \/ length < 2 * MaxBuffers * PacketSize
        \* A seek went close to the end.
        \/ lastSeek + (MaxBuffers + 1) * PacketSize > length
        \* A seek came after the decoder had finished, or went behind its end.
        \/ srcPos < song \/ lastSeek >= song

\* What TuniacApp makes of the notification: "audiostream has finished a song
\* unexpectedly" (TuniacApp.cpp, PLAYBACKFAILED).  The code posts it for songs
\* that were decoded and heard to their very end.
FailedIsUnexpected ==
    "FAILED" \in Posted(sent) /\ ~refused => srcPos < length

LeftPlaying == voiceOn /\ ~seeking /\ out # "box"

\* "check if we have enough room to write this buffer else wait": while the
\* stream plays the wait ends (ServiceStream).  With a decoder buffer too large
\* for the pipe it never does.
RoomWaitEnds ==
    <>[]LeftPlaying => (svc = "room" ~> svc \in {"write", "dead"})

\* Nobody touches what a destroyed stream frees: before the source goes the
\* service thread is gone and the voice silent, before the buffers that the voice
\* may still hold go the output thread too (CAudioStream::Shutdown,
\* CAudioOutput::Shutdown).
SafeTeardown ==
    /\ ui \in {"joinOut", "freed", "gone"} => svc = "dead" /\ ~voiceOn
    /\ ui \in {"freed", "gone"} => out = "dead"

\* A stream that is left playing, and not sought in for ever nor left with a
\* message box, ends and says so (serviceThread, ThreadProc; the pipe has room
\* for a packet and a buffer).
EndNotified == <>[]LeftPlaying => <>Ended

\* Destroying a stream never hangs on one of its threads, unless a message box
\* stays up (CAudioStream::Shutdown, CAudioOutput::Shutdown).
DestroyCompletes == []<>AudioLockFree => (ui = "joinSvc" ~> ui = "gone")

\* The stream implements Playback: whatever its threads do, the listener and the
\* application see a song heard in order, ended once, and silent when destroyed
\* (the whole of CAudioStream and CAudioOutput).
Promise == INSTANCE Playback WITH
    Step <- PacketSize, Positions <- SeekPoints, playing <- voiceOn,
    ended <- finishNotify, closed <- (ui = "gone"), faulty <- refused
KeepsPromise == Promise!PlaybackSpec
============================================================================
