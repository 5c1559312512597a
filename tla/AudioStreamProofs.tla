------------------------- MODULE AudioStreamProofs -------------------------
(***************************************************************************)
(* Proofs about AudioStream, for every packet size, pipe, decoder, song    *)
(* and number of seeks.                                                    *)
(***************************************************************************)
EXTENDS AudioStream, SequenceTheorems, TLAPS

(***************************************************************************)
(* Type correctness.                                                       *)
(***************************************************************************)

\* A decoded buffer is a sequence of samples.
LEMMA DecodedIsSamples ==
    ASSUME NEW k \in Nat, NEW e \in Nat, NEW p \in Nat
    PROVE  [i \in 1 .. k |-> [ep |-> e, pos |-> p + i - 1]] \in Seq(Sample)
<1>1. \A i \in 1 .. k : [ep |-> e, pos |-> p + i - 1] \in Sample
  BY DEF Sample
<1>2. [i \in 1 .. k |-> [ep |-> e, pos |-> p + i - 1]] \in [1 .. k -> Sample]
  BY <1>1
<1> QED BY <1>2

\* The packet taken from the pipe and the rest are sequences of samples.
LEMMA PacketIsSamples ==
    ASSUME TypeOK
    PROVE  /\ Packet \in Seq(Sample)
           /\ Rest \in Seq(Sample)
<1> USE SizesAssumption DEF SizesAssumption, TypeOK
<1>1. Len(pipe) \in Nat
  OBVIOUS
<1>2. Packet \in Seq(Sample)
  BY <1>1 DEF Packet
<1>3. Rest \in Seq(Sample)
  BY <1>1 DEF Rest
<1> QED BY <1>2, <1>3

\* What GetBuffer does to a queued buffer leaves it a buffer, with its flag.
LEMMA OverwrittenType ==
    ASSUME TypeOK
    PROVE  /\ Overwritten(Packet) \in Seq(Buffer)
           /\ Len(Overwritten(Packet)) = Len(queue) /\ Len(queue) \in Nat
           /\ DOMAIN Overwritten(Packet) = DOMAIN queue
           /\ \A i \in DOMAIN queue :
                /\ Overwritten(Packet)[i].eos = queue[i].eos
                /\ Overwritten(Packet)[i].slot = queue[i].slot
                /\ Overwritten(Packet)[i].data \in {queue[i].data, Packet}
<1> DEFINE q == Overwritten(Packet)
<1>1. queue \in Seq(Buffer) /\ Len(queue) \in Nat /\ DOMAIN queue = 1 .. Len(queue)
  BY DEF TypeOK
<1>2. Packet \in Seq(Sample)
  BY PacketIsSamples
<1>3. \A i \in DOMAIN queue :
        q[i] = IF queue[i].slot = slot THEN [queue[i] EXCEPT !.data = Packet] ELSE queue[i]
  BY DEF Overwritten
<1>4. DOMAIN q = 1 .. Len(queue)
  BY <1>1 DEF Overwritten
<1>5. \A i \in DOMAIN queue : queue[i] \in Buffer
  BY <1>1, ElementOfSeq
<1>6. ASSUME NEW i \in DOMAIN queue
      PROVE  /\ q[i] \in Buffer /\ q[i].eos = queue[i].eos /\ q[i].slot = queue[i].slot
             /\ q[i].data \in {queue[i].data, Packet}
  <2> HIDE DEF q
  <2> QED BY <1>2, <1>3, <1>5 DEF Buffer
<1>7. q = [i \in 1 .. Len(queue) |-> q[i]]
  BY <1>1 DEF Overwritten
<1> HIDE DEF q
<1>8. q \in [1 .. Len(queue) -> Buffer]
  BY <1>1, <1>6, <1>7
<1>9. q \in Seq(Buffer) /\ Len(q) = Len(queue)
  BY <1>1, <1>8
<1> QED BY <1>1, <1>4, <1>6, <1>9 DEF q

\* The initial state is type correct.
LEMMA TypeInit == Init => TypeOK
<1> SUFFICES ASSUME Init PROVE TypeOK
  OBVIOUS
<1> USE SizesAssumption DEF SizesAssumption, Init
<1>1. /\ song \in Nat /\ length \in Nat \cup {UnknownLength}
      /\ slot \in 0 .. MaxBuffers - 1
  OBVIOUS
<1>2. /\ <<>> \in Seq(Sample) /\ <<>> \in Seq(Note) /\ <<>> \in Seq(Buffer)
  OBVIOUS
<1> QED BY <1>1, <1>2 DEF TypeOK

\* The actions of the service thread keep the types.
LEMMA TypeService == TypeOK /\ Service => TypeOK'
<1> SUFFICES ASSUME TypeOK, Service PROVE TypeOK'
  OBVIOUS
<1> USE SizesAssumption DEF SizesAssumption, TypeOK, sourceVars, svcVars, noteVars,
        outVars, voiceVars, uiVars
<1>1. CASE ServiceTop
  BY <1>1 DEF ServiceTop
<1>2. CASE ServiceFill
  <2>0. PICK n \in DecodeSizes :
          /\ pBuffer' = [i \in 1 .. Decoded(n) |->
                            [ep |-> epoch, pos |-> srcPos + i - 1]]
          /\ srcPos' = srcPos + Decoded(n)
    BY <1>2 DEF ServiceFill
  <2> DEFINE k == Decoded(n)
  <2>1. k \in Nat
    BY <1>2 DEF ServiceFill, Decoded
  <2>2. pBuffer' \in Seq(Sample)
    <3>1. [i \in 1 .. k |-> [ep |-> epoch, pos |-> srcPos + i - 1]] \in Seq(Sample)
      BY <2>1, DecodedIsSamples
    <3> QED BY <2>0, <3>1
  <2>4. srcPos' \in Nat
    BY <2>0, <2>1
  <2>3. /\ svc' = "room"
        /\ UNCHANGED <<song, length, epoch, late, pipe, finished, noteVars, outVars,
                       voiceVars, uiVars>>
    BY <1>2 DEF ServiceFill
  <2> QED BY <2>2, <2>3, <2>4
<1>3. CASE ServiceEnd
  BY <1>3 DEF ServiceEnd
<1>4. CASE ServiceRoom
  BY <1>4 DEF ServiceRoom
<1>5. CASE ServiceWrite
  <2>1. pipe' \in Seq(Sample) /\ pBuffer' \in Seq(Sample)
    BY <1>5 DEF ServiceWrite, BufferTaken
  <2> QED BY <1>5, <2>1 DEF ServiceWrite
<1> QED BY <1>1, <1>2, <1>3, <1>4, <1>5 DEF Service

\* So do the actions of the output thread.
LEMMA TypeOutput == TypeOK /\ Output => TypeOK'
<1> SUFFICES ASSUME TypeOK, Output PROVE TypeOK'
  OBVIOUS
<1> USE SizesAssumption DEF SizesAssumption, TypeOK, sourceVars, svcVars, noteVars,
        outVars, voiceVars, uiVars
<1>1. CASE OutExit
  BY <1>1 DEF OutExit
<1>2. CASE OutGetPacket
  <2>1. held' \in Seq(Sample) /\ pipe' \in Seq(Sample)
    BY <1>2, PacketIsSamples DEF OutGetPacket
  <2>2. sent' \in Seq(Note)
    <3>0. "PLAYED" \in Note /\ "MIX" \in Note
      BY DEF Note
    <3> DEFINE told == IF PlayedPoint /\ ~entryPlayed
                       THEN Append(sent, "PLAYED") ELSE sent
    <3>1. told \in Seq(Note)
      BY <3>0, AppendProperties
    <3>2. sent' = Append(told, "MIX") \/ sent' = told
      BY <1>2 DEF OutGetPacket
    <3>3. Append(told, "MIX") \in Seq(Note)
      BY <3>0, <3>1, AppendProperties
    <3> QED BY <3>1, <3>2, <3>3
  <2>3. entryPlayed' \in BOOLEAN /\ mixNotify' \in BOOLEAN
    BY <1>2 DEF OutGetPacket
  <2>4. queue' \in Seq(Buffer) /\ out' = "submit"
    BY <1>2, OverwrittenType DEF OutGetPacket
  <2>5. UNCHANGED <<sourceVars, svcVars, finished, finishNotify, slot, voiceOn,
                    samplesOut, streamEnded, heard, refused, uiVars>>
    BY <1>2 DEF OutGetPacket
  <2> QED BY <2>1, <2>2, <2>3, <2>4, <2>5
<1>3. CASE OutGetEnd
  BY <1>3 DEF OutGetEnd
<1>4. CASE OutNotifyEnd
  <2>1. sent' \in Seq(Note)
    BY <1>4 DEF OutNotifyEnd, Note
  <2> QED BY <1>4, <2>1 DEF OutNotifyEnd
<1>5. CASE OutSubmit
  <2>1. [data |-> held, slot |-> slot, eos |-> FALSE] \in Buffer
    BY DEF Buffer
  <2>2. queue' \in Seq(Buffer)
    BY <1>5, <2>1 DEF OutSubmit
  <2>3. slot' \in 0 .. MaxBuffers - 1
    BY <1>5 DEF OutSubmit, NextSlot
  <2> QED BY <1>5, <2>2, <2>3 DEF OutSubmit
<1>6. CASE OutSubmitEnd
  <2>1. [data |-> <<>>, slot |-> slot, eos |-> TRUE] \in Buffer
    BY DEF Buffer
  <2>2. queue' \in Seq(Buffer)
    BY <1>6, <2>1 DEF OutSubmitEnd
  <2> QED BY <1>6, <2>2 DEF OutSubmitEnd
<1>7. CASE OutRefused
  <2>1. held' \in Seq(Sample) /\ refused' \in BOOLEAN /\ out' = "box"
    BY <1>7 DEF OutRefused
  <2>2. UNCHANGED <<sourceVars, svcVars, pipe, finished, noteVars, slot, queue, voiceOn,
                    samplesOut, streamEnded, heard, uiVars>>
    BY <1>7 DEF OutRefused
  <2> QED BY <2>1, <2>2
<1>8. CASE OutEndRefused
  BY <1>8 DEF OutEndRefused
<1> QED BY <1>1, <1>2, <1>3, <1>4, <1>5, <1>6, <1>7, <1>8 DEF Output

\* So does the closing of the message box.
LEMMA TypeBox == TypeOK /\ BoxClosed => TypeOK'
<1> SUFFICES ASSUME TypeOK, BoxClosed PROVE TypeOK'
  OBVIOUS
<1>1. slot' \in 0 .. MaxBuffers - 1 /\ out' = "loop"
  BY SizesAssumption DEF BoxClosed, NextSlot, TypeOK, SizesAssumption
<1>2. UNCHANGED <<sourceVars, svcVars, pipe, finished, noteVars, held, voiceVars, uiVars>>
  BY DEF BoxClosed
<1> QED BY <1>1, <1>2 DEF TypeOK, sourceVars, svcVars, noteVars, voiceVars, uiVars

\* So do the engine and the UI thread.
LEMMA TypeEngine == TypeOK /\ Engine => TypeOK'
<1> SUFFICES ASSUME TypeOK, Engine PROVE TypeOK'
  OBVIOUS
<1> USE SizesAssumption DEF SizesAssumption, TypeOK, sourceVars, svcVars, noteVars,
        outVars, voiceVars, uiVars
<1>1. CASE EnginePlay
  <2>1. Tail(queue) \in Seq(Buffer) /\ Head(queue) \in Buffer
    BY <1>1, HeadTailProperties DEF EnginePlay
  <2>2. heard' \in Nat
    <3> DEFINE d == Head(queue).data
    <3>1. d \in Seq(Sample)
      BY <2>1 DEF Buffer
    <3>2. CASE d # <<>> /\ d[Len(d)].ep = epoch
      <4>1. d[Len(d)] \in Sample
        BY <3>1, <3>2
      <4>2. heard' = d[Len(d)].pos + 1
        BY <1>1, <3>2 DEF EnginePlay
      <4> QED BY <4>1, <4>2 DEF Sample
    <3>3. CASE ~(d # <<>> /\ d[Len(d)].ep = epoch)
      BY <1>1, <3>3 DEF EnginePlay
    <3> QED BY <3>2, <3>3
  <2> QED BY <1>1, <2>1, <2>2 DEF EnginePlay
<1>2. CASE EngineStreamEnd
  <2>1. Tail(queue) \in Seq(Buffer)
    BY <1>2, HeadTailProperties DEF EngineStreamEnd
  <2> QED BY <1>2, <2>1 DEF EngineStreamEnd
<1> QED BY <1>1, <1>2 DEF Engine

LEMMA TypeUI == TypeOK /\ UI => TypeOK'
<1> SUFFICES ASSUME TypeOK, UI PROVE TypeOK'
  OBVIOUS
<1> USE SizesAssumption DEF SizesAssumption, TypeOK, sourceVars, svcVars, noteVars,
        outVars, voiceVars, uiVars
<1>1. CASE Configure
  BY <1>1 DEF Configure
<1>2. CASE SeekDone
  <2>1. pipe' \in Seq(Sample) /\ queue' \in Seq(Buffer)
    BY <1>2 DEF SeekDone, PipeAfterSeek
  <2>2. /\ srcPos' \in Nat /\ epoch' \in Nat /\ samplesOut' \in Nat
        /\ heard' \in Nat /\ lastSeek' \in Nat /\ ui' = "idle"
    BY <1>2 DEF SeekDone
  <2>5. /\ seeking' \in BOOLEAN /\ voiceOn' \in BOOLEAN
        /\ late' \in BOOLEAN /\ refused' \in BOOLEAN
    BY <1>2 DEF SeekDone
  <2>3. UNCHANGED <<song, length, svcVars, finished, noteVars, outVars, streamEnded>>
    BY <1>2 DEF SeekDone
  <2>4. UNCHANGED <<svcRun, crossfade, playState, starts, outRun, target>>
    BY <1>2 DEF SeekDone
  <2> QED BY <2>1, <2>2, <2>3, <2>4, <2>5
<1>3. CASE SeekRefused
  <2>1. seeking' \in BOOLEAN /\ voiceOn' \in BOOLEAN /\ ui' = "idle"
    BY <1>3 DEF SeekRefused
  <2>2. UNCHANGED <<sourceVars, svcVars, pipe, finished, noteVars, outVars>>
    BY <1>3 DEF SeekRefused
  <2>3. UNCHANGED <<queue, samplesOut, streamEnded, heard, refused, svcRun, lastSeek,
                    crossfade, playState, starts, outRun, target>>
    BY <1>3 DEF SeekRefused
  <2> QED BY <2>1, <2>2, <2>3
<1>4. CASE DestroyStop
  <2>1. /\ svc' = "dead" /\ playState' = "STOPPED" /\ ui' = "joinOut"
        /\ voiceOn' \in BOOLEAN /\ outRun' \in BOOLEAN
    BY <1>4 DEF DestroyStop
  <2>2. UNCHANGED <<sourceVars, pBuffer, pipe, finished, noteVars, outVars>>
    BY <1>4 DEF DestroyStop
  <2>3. UNCHANGED <<queue, samplesOut, streamEnded, heard, refused, svcRun, seeking,
                    lastSeek, crossfade, starts, target>>
    BY <1>4 DEF DestroyStop
  <2> QED BY <2>1, <2>2, <2>3
<1>5. CASE DestroyEnd
  BY <1>5 DEF DestroyEnd
<1>11. CASE DestroyTerminate
  BY <1>11 DEF DestroyTerminate
<1>12. CASE DestroyFree
  BY <1>12 DEF DestroyFree
<1>6. CASE Start
  <2>1. sent' \in Seq(Note)
    BY <1>6, AppendProperties DEF Start, Note
  <2> QED BY <1>6, <2>1 DEF Start
<1>7. CASE Stop
  <2>1. playState' \in {"STOPPED", "PLAYING"} /\ voiceOn' \in BOOLEAN
    BY <1>7 DEF Stop
  <2>2. UNCHANGED <<sourceVars, svcVars, pipe, finished, noteVars, outVars>>
    BY <1>7 DEF Stop
  <2>3. UNCHANGED <<queue, samplesOut, streamEnded, heard, refused, svcRun, seeking,
                    lastSeek, crossfade, starts, outRun, ui, target>>
    BY <1>7 DEF Stop
  <2> QED BY <2>1, <2>2, <2>3
<1>8. CASE SeekBegin
  BY <1>8 DEF SeekBegin
<1>9. CASE DestroyBegin
  <2>1. svcRun' \in BOOLEAN /\ ui' = "joinSvc"
    BY <1>9 DEF DestroyBegin
  <2>2. UNCHANGED <<sourceVars, svcVars, pipe, finished, noteVars, outVars>>
    BY <1>9 DEF DestroyBegin
  <2>3. UNCHANGED <<voiceVars, seeking, lastSeek, crossfade, playState, starts,
                    outRun, target>>
    BY <1>9 DEF DestroyBegin
  <2> QED BY <2>1, <2>2, <2>3
<1>10. CASE Gone
  BY <1>10 DEF Gone, vars
<1> QED BY <1>1, <1>2, <1>3, <1>4, <1>5, <1>6, <1>7, <1>8, <1>9, <1>10, <1>11, <1>12
        DEF UI, UIContinue

\* Every variable of the stream keeps its type.
THEOREM TypeCorrect == Spec => []TypeOK
<1>1. TypeOK /\ [Next]_vars => TypeOK'
  <2>1. CASE UNCHANGED vars
    BY <2>1 DEF TypeOK, vars
  <2> QED BY <2>1, TypeService, TypeOutput, TypeBox, TypeEngine, TypeUI DEF Next
<1> QED BY TypeInit, <1>1, PTL DEF Spec

(***************************************************************************)
(* The service thread never blocks with m_Lock held.                       *)
(***************************************************************************)

\* The room found before m_Lock was taken can only grow: the service thread is
\* the only writer, and a packet read or a reset makes the pipe shorter.
THEOREM WriteNeverBlocks == Spec => []NoBlockingWrite
<1>1. Init => NoBlockingWrite
  BY DEF Init, NoBlockingWrite
<1>2. TypeOK /\ NoBlockingWrite /\ [Next]_vars => NoBlockingWrite'
  <2> SUFFICES ASSUME TypeOK, NoBlockingWrite, [Next]_vars
               PROVE  NoBlockingWrite'
    OBVIOUS
  <2> USE SizesAssumption DEF SizesAssumption, NoBlockingWrite, BytesAvailable,
          PipeSize, svcVars
  <2>0. Len(pipe) \in Nat /\ Len(pBuffer) \in Nat /\ PacketSize * PipePackets \in Nat
    BY DEF TypeOK
  <2>1. CASE Service
    BY <2>1 DEF Service, ServiceTop, ServiceFill, ServiceEnd, ServiceRoom,
                RoomForBuffer, ServiceWrite
  <2>2. CASE OutGetPacket
    <3>1. Len(Rest) <= Len(pipe)
      BY <2>0, SubSeqProperties DEF Rest, TypeOK
    <3>2. Len(Rest) \in Nat
      BY PacketIsSamples
    <3> QED BY <2>0, <2>2, <3>1, <3>2 DEF OutGetPacket
  <2>3. CASE SeekDone
    <3>1. Len(pipe') = 0
      BY <2>3 DEF SeekDone, PipeAfterSeek
    <3> QED BY <2>0, <2>3, <3>1 DEF SeekDone
  <2>4. CASE DestroyStop
    BY <2>4 DEF DestroyStop
  <2>5. CASE UNCHANGED <<pipe, pBuffer, svc>>
    BY <2>5
  <2>6. Output \/ BoxClosed => OutGetPacket \/ UNCHANGED <<pipe, pBuffer, svc>>
    BY DEF Output, OutExit, OutGetEnd, OutNotifyEnd, OutSubmit, OutRefused, OutSubmitEnd,
           OutEndRefused, BoxClosed
  <2>7. Engine => UNCHANGED <<pipe, pBuffer, svc>>
    BY DEF Engine, EnginePlay, EngineStreamEnd
  <2>8. UI => SeekDone \/ DestroyStop \/ UNCHANGED <<pipe, pBuffer, svc>>
    BY DEF UI, UIContinue, Configure, SeekRefused, DestroyTerminate, DestroyFree,
           DestroyEnd, Start, Stop, SeekBegin, DestroyBegin, Gone, vars
  <2>9. UNCHANGED vars => UNCHANGED <<pipe, pBuffer, svc>>
    BY DEF vars
  <2> QED BY <2>1, <2>2, <2>3, <2>4, <2>5, <2>6, <2>7, <2>8, <2>9 DEF Next
<1> QED BY <1>1, <1>2, TypeCorrect, PTL DEF Spec

(***************************************************************************)
(* Teardown.                                                               *)
(***************************************************************************)

\* The joins of Shutdown come before what they protect is freed.
THEOREM TeardownIsSafe == Spec => []SafeTeardown
<1>1. Init => SafeTeardown
  BY DEF Init, SafeTeardown
<1>2. SafeTeardown /\ [Next]_vars => SafeTeardown'
  <2> SUFFICES ASSUME SafeTeardown, [Next]_vars PROVE SafeTeardown'
    OBVIOUS
  <2> USE DEF SafeTeardown, svcVars, outVars, voiceVars, uiVars
  <2>1. CASE Service
    BY <2>1 DEF Service, ServiceTop, ServiceFill, ServiceEnd, ServiceRoom, ServiceWrite
  <2>2. CASE Output \/ BoxClosed
    BY <2>2 DEF Output, OutExit, OutGetPacket, OutGetEnd, OutNotifyEnd, OutSubmit,
                OutRefused, OutSubmitEnd, OutEndRefused, BoxClosed
  <2>3. CASE Engine
    BY <2>3 DEF Engine, EnginePlay, EngineStreamEnd
  <2>4. CASE UI
    BY <2>4 DEF UI, UIContinue, Configure, SeekDone, SeekRefused, DestroyStop,
                DestroyTerminate, OutputJoined, DestroyFree, DestroyEnd, Start, Stop,
                SeekBegin, DestroyBegin, Gone, vars
  <2>5. CASE UNCHANGED vars
    BY <2>5 DEF vars
  <2> QED BY <2>1, <2>2, <2>3, <2>4, <2>5 DEF Next
<1> QED BY <1>1, <1>2, PTL DEF Spec

(***************************************************************************)
(* The end of a song.  The argument: once the decoder is finished the      *)
(* service thread is gone, so the pipe only drains; an end-of-stream       *)
(* buffer is submitted only when it has drained and no packet is held; the *)
(* voice plays in order, so when it reports the end of the stream only     *)
(* end-of-stream buffers can follow.                                       *)
(***************************************************************************)

\* An end-of-stream buffer was, or is about to be, submitted.
EndInSight ==
    out = "eos" \/ streamEnded \/ \E i \in DOMAIN queue : queue[i].eos

EndInv ==
    /\ svc = "fill" => pBuffer = <<>>
    /\ finished => svc = "dead" /\ pBuffer = <<>>
    /\ out # "submit" => held = <<>>
    /\ EndInSight => finished /\ pipe = <<>> /\ out # "submit"
    /\ \A i, j \in DOMAIN queue : i < j /\ queue[i].eos => queue[j].eos
    /\ streamEnded => \A i \in DOMAIN queue : queue[i].eos
    /\ finishNotify => streamEnded

LEMMA EndInit == Init => EndInv
  BY DEF Init, EndInv, EndInSight

\* The service thread writes nothing once it has said that it is finished.
LEMMA EndService == TypeOK /\ EndInv /\ Service => EndInv'
<1> SUFFICES ASSUME TypeOK, EndInv, Service PROVE EndInv'
  OBVIOUS
<1> USE DEF EndInv, EndInSight, svcVars, noteVars, outVars, voiceVars
<1>1. CASE ServiceTop
  BY <1>1 DEF ServiceTop
<1>2. CASE ServiceFill
  BY <1>2 DEF ServiceFill
<1>3. CASE ServiceEnd
  BY <1>3 DEF ServiceEnd
<1>4. CASE ServiceRoom
  BY <1>4 DEF ServiceRoom
<1>5. CASE ServiceWrite
  BY <1>5 DEF ServiceWrite, BufferTaken
<1> QED BY <1>1, <1>2, <1>3, <1>4, <1>5 DEF Service

\* Submitting appends to the queue: the older buffers keep their places.
LEMMA QueueAppend ==
    ASSUME TypeOK, NEW b \in Buffer, queue' = Append(queue, b)
    PROVE  /\ DOMAIN queue = 1 .. Len(queue) /\ Len(queue) \in Nat
           /\ DOMAIN queue' = 1 .. Len(queue) + 1
           /\ \A i \in DOMAIN queue : queue'[i] = queue[i]
           /\ queue'[Len(queue) + 1] = b
<1>1. queue \in Seq(Buffer)
  BY DEF TypeOK
<1> QED BY <1>1, AppendProperties

\* Playing takes the head off the queue: the other buffers move up by one.
LEMMA QueueTail ==
    ASSUME TypeOK, queue # <<>>, queue' = Tail(queue)
    PROVE  /\ DOMAIN queue = 1 .. Len(queue) /\ Len(queue) \in Nat \ {0}
           /\ DOMAIN queue' = 1 .. Len(queue) - 1
           /\ \A i \in DOMAIN queue' : queue'[i] = queue[i + 1]
           /\ Head(queue) = queue[1]
<1>1. queue \in Seq(Buffer)
  BY DEF TypeOK
<1> QED BY <1>1, HeadTailProperties

LEMMA EndOutput == TypeOK /\ EndInv /\ Output => EndInv'
<1> SUFFICES ASSUME TypeOK, EndInv, Output PROVE EndInv'
  OBVIOUS
<1> USE DEF EndInv, EndInSight, svcVars, noteVars, outVars, voiceVars
<1>1. CASE OutExit
  BY <1>1 DEF OutExit
<1>2. CASE OutGetPacket
  <2>1. queue' = Overwritten(Packet) /\ ~EndInSight /\ out' = "submit"
        /\ UNCHANGED <<svc, pBuffer, finished, streamEnded, finishNotify>>
    BY <1>2 DEF OutGetPacket, PacketReady
  <2>2. DOMAIN queue' = DOMAIN queue /\ \A i \in DOMAIN queue : queue'[i].eos = queue[i].eos
    BY <2>1, OverwrittenType
  <2> QED BY <2>1, <2>2
<1>3. CASE OutGetEnd
  BY <1>3 DEF OutGetEnd, VoiceEnded
<1>4. CASE OutNotifyEnd
  BY <1>4 DEF OutNotifyEnd, VoiceEnded
<1>5. CASE OutSubmit
  <2> DEFINE b == [data |-> held, slot |-> slot, eos |-> FALSE]
  <2>1. b \in Buffer
    BY DEF Buffer, TypeOK
  <2>2. queue' = Append(queue, b)
    BY <1>5 DEF OutSubmit
  <2>3. /\ DOMAIN queue = 1 .. Len(queue) /\ Len(queue) \in Nat
        /\ DOMAIN queue' = 1 .. Len(queue) + 1
        /\ \A i \in DOMAIN queue : queue'[i] = queue[i]
        /\ queue'[Len(queue) + 1] = b
    BY <2>1, <2>2, QueueAppend
  <2>4. ~EndInSight
    BY <1>5 DEF OutSubmit
  <2>5. \A i \in DOMAIN queue' : ~queue'[i].eos
    BY <2>3, <2>4
  <2> QED BY <1>5, <2>4, <2>5 DEF OutSubmit
<1>6. CASE OutSubmitEnd
  <2> DEFINE b == [data |-> <<>>, slot |-> slot, eos |-> TRUE]
  <2>1. b \in Buffer
    BY DEF Buffer, TypeOK
  <2>2. queue' = Append(queue, b)
    BY <1>6 DEF OutSubmitEnd
  <2>3. /\ DOMAIN queue = 1 .. Len(queue) /\ Len(queue) \in Nat
        /\ DOMAIN queue' = 1 .. Len(queue) + 1
        /\ \A i \in DOMAIN queue : queue'[i] = queue[i]
        /\ queue'[Len(queue) + 1] = b
    BY <2>1, <2>2, QueueAppend
  <2>4. \A i, j \in DOMAIN queue' : i < j /\ queue'[i].eos => queue'[j].eos
    BY <2>3
  <2>5. streamEnded => \A i \in DOMAIN queue' : queue'[i].eos
    BY <2>3
  <2> QED BY <1>6, <2>4, <2>5 DEF OutSubmitEnd
<1>7. CASE OutRefused \/ OutEndRefused
  BY <1>7 DEF OutRefused, OutEndRefused
<1> QED BY <1>1, <1>2, <1>3, <1>4, <1>5, <1>6, <1>7 DEF Output

LEMMA EndEngine == TypeOK /\ EndInv /\ Engine => EndInv'
<1> SUFFICES ASSUME TypeOK, EndInv, Engine PROVE EndInv'
  OBVIOUS
<1>1. queue # <<>> /\ queue' = Tail(queue)
  BY DEF Engine, EnginePlay, EngineStreamEnd
<1>2. /\ DOMAIN queue = 1 .. Len(queue) /\ Len(queue) \in Nat \ {0}
      /\ DOMAIN queue' = 1 .. Len(queue) - 1
      /\ \A i \in DOMAIN queue' : queue'[i] = queue[i + 1]
      /\ Head(queue) = queue[1]
  BY <1>1, QueueTail
<1>3. \A i, j \in DOMAIN queue' : i < j /\ queue'[i].eos => queue'[j].eos
  BY <1>2 DEF EndInv
<1>4. (\A i \in DOMAIN queue : queue[i].eos) => \A i \in DOMAIN queue' : queue'[i].eos
  BY <1>2
<1>5. (\E i \in DOMAIN queue' : queue'[i].eos) => \E i \in DOMAIN queue : queue[i].eos
  BY <1>2
<1>6. CASE EnginePlay
  BY <1>3, <1>4, <1>5, <1>6 DEF EnginePlay, EndInv, EndInSight, svcVars, noteVars, outVars
<1>7. CASE EngineStreamEnd
  <2>1. queue[1].eos /\ 1 \in DOMAIN queue
    BY <1>2, <1>7 DEF EngineStreamEnd
  <2>2. \A i \in DOMAIN queue : queue[i].eos
    BY <1>2, <2>1 DEF EndInv
  <2> QED BY <1>3, <1>4, <1>7, <2>1, <2>2
        DEF EngineStreamEnd, EndInv, EndInSight, svcVars, noteVars, outVars
<1> QED BY <1>6, <1>7 DEF Engine

LEMMA EndUI == TypeOK /\ EndInv /\ UI => EndInv'
<1> SUFFICES ASSUME TypeOK, EndInv, UI PROVE EndInv'
  OBVIOUS
<1> USE DEF EndInv, EndInSight, svcVars, noteVars, outVars, voiceVars
<1>1. CASE SeekDone
  BY <1>1 DEF SeekDone, PipeAfterSeek
<1>2. CASE DestroyStop
  BY <1>2 DEF DestroyStop
<1>3. CASE DestroyEnd
  BY <1>3 DEF DestroyEnd
<1>4. CASE UNCHANGED <<svcVars, pipe, finished, finishNotify, outVars, queue, streamEnded>>
  BY <1>4
<1>6. CASE DestroyTerminate
  BY <1>6 DEF DestroyTerminate
<1>5. UI => \/ SeekDone \/ DestroyStop \/ DestroyTerminate \/ DestroyEnd
            \/ UNCHANGED <<svcVars, pipe, finished, finishNotify, outVars, queue,
                           streamEnded>>
  BY DEF UI, UIContinue, Configure, SeekRefused, DestroyFree, Start, Stop, SeekBegin,
         DestroyBegin, Gone, vars, noteVars, voiceVars
<1> QED BY <1>1, <1>2, <1>3, <1>4, <1>5, <1>6

LEMMA EndInvariant == Spec => []EndInv
<1>1. TypeOK /\ EndInv /\ [Next]_vars => EndInv'
  <2>1. EndInv /\ UNCHANGED vars => EndInv'
    BY DEF EndInv, EndInSight, vars
  <2>2. EndInv /\ BoxClosed => EndInv'
    BY DEF EndInv, EndInSight, BoxClosed, svcVars, noteVars, voiceVars
  <2> QED BY <2>1, <2>2, EndService, EndOutput, EndEngine, EndUI DEF Next
<1> QED BY EndInit, <1>1, TypeCorrect, PTL DEF Spec

(***************************************************************************)
(* What the application is told.                                           *)
(***************************************************************************)

LEMMA PostedAppend ==
    ASSUME NEW s \in Seq(Note), NEW n \in Note
    PROVE  /\ Append(s, n) \in Seq(Note)
           /\ DOMAIN s = 1 .. Len(s) /\ Len(s) \in Nat
           /\ DOMAIN Append(s, n) = 1 .. Len(s) + 1
           /\ \A i \in 1 .. Len(s) : Append(s, n)[i] = s[i]
           /\ Append(s, n)[Len(s) + 1] = n
           /\ Posted(Append(s, n)) = Posted(s) \cup {n}
<1>1. /\ Append(s, n) \in Seq(Note)
      /\ DOMAIN s = 1 .. Len(s) /\ Len(s) \in Nat
      /\ DOMAIN Append(s, n) = 1 .. Len(s) + 1
      /\ \A i \in 1 .. Len(s) : Append(s, n)[i] = s[i]
      /\ Append(s, n)[Len(s) + 1] = n
  BY AppendProperties
<1>2. Posted(Append(s, n)) = Posted(s) \cup {n}
  BY <1>1 DEF Posted
<1> QED BY <1>1, <1>2

\* One more notification keeps the protocol if it is new, comes before any end
\* and, for a normal end, after the mix point.
LEMMA ProtocolAppend ==
    ASSUME NEW s \in Seq(Note), NEW n \in Note, Protocol(s),
           n # "STARTED" => n \notin Posted(s) /\ Posted(s) \cap EndNotes = {},
           n = "FINISHED" => "MIX" \in Posted(s)
    PROVE  Protocol(Append(s, n))
<1> DEFINE t == Append(s, n)
           last == Len(s) + 1
<1>1. /\ DOMAIN s = 1 .. Len(s) /\ Len(s) \in Nat
      /\ DOMAIN t = 1 .. last
      /\ \A i \in 1 .. Len(s) : t[i] = s[i]
      /\ t[last] = n
      /\ Posted(t) = Posted(s) \cup {n}
  BY PostedAppend
<1>2. \A i \in DOMAIN s : s[i] \in Posted(s)
  BY DEF Posted
<1> HIDE DEF t
<1>3. ASSUME NEW i \in DOMAIN t, NEW j \in DOMAIN t
      PROVE  /\ t[i] = t[j] /\ t[i] # "STARTED" => i = j
             /\ t[i] \in EndNotes /\ t[j] \in EndNotes => i = j
             /\ t[i] \in EndNotes /\ t[j] \in {"PLAYED", "MIX"} => j < i
  <2>1. CASE i \in DOMAIN s /\ j \in DOMAIN s
    BY <1>1, <2>1 DEF Protocol
  <2>2. CASE i \in DOMAIN s /\ j = last
    BY <1>1, <1>2, <2>2 DEF EndNotes
  <2>3. CASE i = last /\ j \in DOMAIN s
    BY <1>1, <1>2, <2>3 DEF EndNotes
  <2>4. CASE i = last /\ j = last
    BY <1>1, <2>4 DEF EndNotes
  <2> QED BY <1>1, <2>1, <2>2, <2>3, <2>4
<1>4. "FINISHED" \in Posted(t) => "MIX" \in Posted(t)
  BY <1>1 DEF Protocol
<1>5. Protocol(t)
  BY <1>3, <1>4 DEF Protocol
<1> QED BY <1>5 DEF t

\* The three flags remember what was posted.
NoteInv ==
    /\ NotifyProtocol
    /\ "PLAYED" \in Posted(sent) <=> entryPlayed
    /\ "MIX" \in Posted(sent) <=> mixNotify
    /\ Ended <=> finishNotify

LEMMA NoteInit == Init => NoteInv
  BY DEF Init, NoteInv, NotifyProtocol, Protocol, Posted, Ended

LEMMA NotePacket == TypeOK /\ EndInv /\ NoteInv /\ OutGetPacket => NoteInv'
<1> SUFFICES ASSUME TypeOK, EndInv, NoteInv, OutGetPacket PROVE NoteInv'
  OBVIOUS
<1> DEFINE played == PlayedPoint /\ ~entryPlayed
           mix == MixPoint /\ ~mixNotify
           told == IF played THEN Append(sent, "PLAYED") ELSE sent
<1>1. /\ entryPlayed' = (entryPlayed \/ played)
      /\ mixNotify' = (mixNotify \/ mix)
      /\ sent' = IF mix THEN Append(told, "MIX") ELSE told
      /\ finishNotify' = finishNotify
  BY DEF OutGetPacket
<1>2. sent \in Seq(Note) /\ "PLAYED" \in Note /\ "MIX" \in Note
  BY DEF TypeOK, Note
<1>3. Posted(sent) \cap EndNotes = {} /\ ~finishNotify
  \* An end is posted only when the pipe is empty for good.
  <2>1. ~finishNotify
    BY DEF OutGetPacket, PacketReady, EndInv, EndInSight
  <2> QED BY <2>1 DEF NoteInv, Ended
<1>4. /\ told \in Seq(Note) /\ Protocol(told)
      /\ Posted(told) = Posted(sent) \cup (IF played THEN {"PLAYED"} ELSE {})
  <2>1. CASE played
    <3>1. "PLAYED" \notin Posted(sent)
      BY <2>1 DEF NoteInv
    <3>2. Protocol(Append(sent, "PLAYED"))
      BY <1>2, <1>3, <3>1, ProtocolAppend DEF NoteInv, NotifyProtocol
    <3> QED BY <1>2, <2>1, <3>2, PostedAppend
  <2>2. CASE ~played
    BY <1>2, <2>2 DEF NoteInv, NotifyProtocol
  <2> QED BY <2>1, <2>2
<1> HIDE DEF told, mix, played
<1>5. /\ Protocol(sent')
      /\ Posted(sent') = Posted(told) \cup (IF mix THEN {"MIX"} ELSE {})
  <2>1. CASE mix
    <3>1. "MIX" \notin Posted(told) /\ Posted(told) \cap EndNotes = {}
      BY <1>3, <1>4, <2>1 DEF NoteInv, EndNotes, mix
    <3>2. Protocol(Append(told, "MIX"))
      BY <1>2, <1>4, <3>1, ProtocolAppend
    <3> QED BY <1>1, <1>2, <1>4, <2>1, <3>2, PostedAppend
  <2>2. CASE ~mix
    BY <1>1, <1>4, <2>2
  <2> QED BY <2>1, <2>2
<1>6. "PLAYED" \in Posted(sent') <=> entryPlayed'
  BY <1>1, <1>4, <1>5 DEF NoteInv
<1>7. "MIX" \in Posted(sent') <=> mixNotify'
  BY <1>1, <1>4, <1>5 DEF NoteInv
<1>8. Ended' <=> finishNotify'
  BY <1>1, <1>3, <1>4, <1>5 DEF Ended, EndNotes
<1> QED BY <1>5, <1>6, <1>7, <1>8 DEF NoteInv, NotifyProtocol

LEMMA NoteEnd == TypeOK /\ NoteInv /\ OutNotifyEnd => NoteInv'
<1> SUFFICES ASSUME TypeOK, NoteInv, OutNotifyEnd PROVE NoteInv'
  OBVIOUS
<1> DEFINE n == IF mixNotify THEN "FINISHED" ELSE "FAILED"
<1>1. n \in Note /\ n \in EndNotes /\ sent \in Seq(Note)
  BY DEF TypeOK, Note, EndNotes
<1>2. /\ sent' = Append(sent, n) /\ finishNotify' = TRUE
      /\ UNCHANGED <<mixNotify, entryPlayed>>
  BY DEF OutNotifyEnd
<1>3. Posted(sent) \cap EndNotes = {}
  BY DEF OutNotifyEnd, EndUntold, NoteInv, Ended
<1>4. n = "FINISHED" => "MIX" \in Posted(sent)
  BY DEF NoteInv
<1> HIDE DEF n
<1>5. Protocol(sent')
  BY <1>1, <1>2, <1>3, <1>4, ProtocolAppend DEF NoteInv, NotifyProtocol
<1>6. Posted(sent') = Posted(sent) \cup {n}
  BY <1>1, <1>2, PostedAppend
<1>7. n \notin {"PLAYED", "MIX"}
  BY <1>1 DEF EndNotes
<1> QED BY <1>1, <1>2, <1>5, <1>6, <1>7 DEF NoteInv, NotifyProtocol, Ended

LEMMA NoteStart == TypeOK /\ NoteInv /\ Start => NoteInv'
<1> SUFFICES ASSUME TypeOK, NoteInv, Start PROVE NoteInv'
  OBVIOUS
<1>1. "STARTED" \in Note /\ sent \in Seq(Note)
  BY DEF TypeOK, Note
<1>2. /\ sent' = Append(sent, "STARTED")
      /\ UNCHANGED <<mixNotify, entryPlayed, finishNotify>>
  BY DEF Start
<1>3. Protocol(sent')
  BY <1>1, <1>2, ProtocolAppend DEF NoteInv, NotifyProtocol
<1>4. Posted(sent') = Posted(sent) \cup {"STARTED"}
  BY <1>1, <1>2, PostedAppend
<1> QED BY <1>2, <1>3, <1>4 DEF NoteInv, NotifyProtocol, Ended, EndNotes

LEMMA NoteInvariant == Spec => []NoteInv
<1>1. TypeOK /\ EndInv /\ NoteInv /\ [Next]_vars => NoteInv'
  <2> SUFFICES ASSUME TypeOK, EndInv, NoteInv, [Next]_vars PROVE NoteInv'
    OBVIOUS
  <2>1. CASE UNCHANGED noteVars
    BY <2>1 DEF noteVars, NoteInv, NotifyProtocol, Ended
  <2>2. Service \/ Engine => UNCHANGED noteVars
    BY DEF Service, ServiceTop, ServiceFill, ServiceEnd, ServiceRoom, ServiceWrite,
           Engine, EnginePlay, EngineStreamEnd
  <2>3. Output \/ BoxClosed => OutGetPacket \/ OutNotifyEnd \/ UNCHANGED noteVars
    BY DEF Output, OutExit, OutGetEnd, OutSubmit, OutRefused, OutSubmitEnd,
           OutEndRefused, BoxClosed
  <2>4. UI => Start \/ UNCHANGED noteVars
    BY DEF UI, UIContinue, Configure, SeekDone, SeekRefused, DestroyStop,
           DestroyTerminate, DestroyFree, DestroyEnd, Stop, SeekBegin, DestroyBegin,
           Gone, vars, noteVars
  <2>5. UNCHANGED vars => UNCHANGED noteVars
    BY DEF vars, noteVars
  <2> QED BY <2>1, <2>2, <2>3, <2>4, <2>5, NotePacket, NoteEnd, NoteStart DEF Next
<1> QED BY NoteInit, <1>1, TypeCorrect, EndInvariant, PTL DEF Spec

\* The application is told of each point once and of the end last.
THEOREM NotificationsKeepProtocol == Spec => []NotifyProtocol
<1>1. NoteInv => NotifyProtocol
  BY DEF NoteInv
<1> QED BY <1>1, NoteInvariant, PTL

\* When the end is reported, no audio is left on its way to the listener.
THEOREM EndReportedEmpty == Spec => []EndIsEmpty
<1>1. EndInv /\ NoteInv => EndIsEmpty
  <2> SUFFICES ASSUME EndInv, NoteInv, Ended PROVE NothingLeft
    BY DEF EndIsEmpty
  <2>1. streamEnded /\ finished
    BY DEF NoteInv, EndInv, EndInSight
  <2> QED BY <2>1 DEF EndInv, EndInSight, NothingLeft
<1> QED BY <1>1, EndInvariant, NoteInvariant, PTL

============================================================================
