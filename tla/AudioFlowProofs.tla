-------------------------- MODULE AudioFlowProofs --------------------------
(***************************************************************************)
(* Proofs about the audio on its way through AudioStream: none is lost,    *)
(* doubled or reordered, what is stale is bounded, no buffer is filled     *)
(* while it is played, the stream keeps the promise of Playback, and a     *)
(* song is reported as failed only for the reasons FailureExplained lists. *)
(***************************************************************************)
EXTENDS AudioStreamProofs, SequenceFacts

----------------------------------------------------------------------------
(***************************************************************************)
(* Audio in order.                                                         *)
(***************************************************************************)

\* InOrder with its two lengths named.
LEMMA OrderIntro ==
    ASSUME NEW s, NEW e, NEW from, NEW to, NEW fresh, NEW stale,
           fresh = to - from, stale = Len(s) - fresh, fresh \in 0 .. Len(s),
           \A i \in 1 .. stale : s[i].ep < e,
           \A i \in 1 .. fresh : s[stale + i] = [ep |-> e, pos |-> from + i - 1]
    PROVE  InOrder(s, e, from, to)
  BY DEF InOrder

\* What the decoder hands out continues the audio.
LEMMA OrderAppend ==
    ASSUME NEW f \in Seq(Sample), NEW r \in Seq(Sample), NEW e \in Nat,
           NEW from \in Nat, NEW to \in Nat,
           InOrder(f, e, from, to),
           \A i \in 1 .. Len(r) : r[i] = [ep |-> e, pos |-> to + i - 1]
    PROVE  InOrder(f \o r, e, from, to + Len(r))
<1> DEFINE g == f \o r
           n == to - from
           k == Len(f) - n
           m == Len(r)
<1>1. /\ Len(f) \in Nat /\ m \in Nat /\ Len(g) = Len(f) + m
      /\ \A i \in 1 .. Len(f) : g[i] = f[i]
      /\ \A i \in 1 .. m : g[Len(f) + i] = r[i]
  BY ConcatProperties
<1>2. /\ n \in 0 .. Len(f)
      /\ \A i \in 1 .. k : f[i].ep < e
      /\ \A i \in 1 .. n : f[k + i] = [ep |-> e, pos |-> from + i - 1]
  BY DEF InOrder
<1> HIDE DEF g
<1>3. /\ to + m - from = n + m /\ n + m \in 0 .. Len(g) /\ Len(g) - (n + m) = k
      /\ k \in Nat /\ k + n = Len(f)
  BY <1>1, <1>2
<1>4. \A i \in 1 .. k : g[i].ep < e
  BY <1>1, <1>2, <1>3
<1>5. ASSUME NEW i \in 1 .. n + m
      PROVE  g[k + i] = [ep |-> e, pos |-> from + i - 1]
  <2>1. CASE i <= n
    <3>1. i \in 1 .. n /\ k + i \in 1 .. Len(f)
      BY <1>2, <1>3, <2>1
    <3> QED BY <1>1, <1>2, <3>1
  <2>2. CASE i > n
    <3>1. i - n \in 1 .. m /\ Len(f) + (i - n) = k + i /\ to + (i - n) - 1 = from + i - 1
      BY <1>1, <1>2, <1>3, <2>2
    <3>2. g[Len(f) + (i - n)] = [ep |-> e, pos |-> to + (i - n) - 1]
      BY <1>1, <3>1
    <3> QED BY <3>1, <3>2
  <2> QED BY <1>1, <1>2, <2>1, <2>2
<1>6. InOrder(g, e, from, to + m)
  <2> DEFINE fresh == n + m
  <2>1. fresh = (to + m) - from /\ k = Len(g) - fresh /\ fresh \in 0 .. Len(g)
    BY <1>1, <1>2, <1>3
  <2> HIDE DEF k, n
  <2> QED BY <1>4, <1>5, <2>1, OrderIntro
<1> QED BY <1>6 DEF g

\* The next unit to be heard after a buffer d has been played.
HeardAfter(d, e, from) ==
    IF d # <<>> /\ d[Len(d)].ep = e THEN d[Len(d)].pos + 1 ELSE from

\* Playing a buffer takes at most its length off the audio that is in order.
LEMMA OrderTail ==
    ASSUME NEW d \in Seq(Sample), NEW g \in Seq(Sample), NEW e \in Nat,
           NEW from \in Nat, NEW to \in Nat,
           InOrder(d \o g, e, from, to)
    PROVE  /\ InOrder(g, e, HeardAfter(d, e, from), to)
           /\ HeardAfter(d, e, from) \in from .. from + Len(d)
<1> DEFINE f == d \o g
           n == to - from
           k == Len(f) - n
           p == Len(d)
<1>1. /\ f \in Seq(Sample) /\ p \in Nat /\ Len(g) \in Nat /\ Len(f) = p + Len(g)
      /\ \A i \in 1 .. p : f[i] = d[i]
      /\ \A i \in 1 .. Len(g) : f[p + i] = g[i]
  BY ConcatProperties
<1>2. /\ n \in 0 .. Len(f)
      /\ \A i \in 1 .. k : f[i].ep < e
      /\ \A i \in 1 .. n : f[k + i] = [ep |-> e, pos |-> from + i - 1]
  BY DEF InOrder
<1> HIDE DEF f
<1>3. k \in Nat /\ n \in Nat /\ k + n = p + Len(g) /\ n = to - from
  BY <1>1, <1>2
<1> HIDE DEF k, n
<1>4. CASE p <= k
  \* All of d is stale.
  <2>1. HeardAfter(d, e, from) = from
    <3>1. CASE p = 0
      BY <1>1, <3>1 DEF HeardAfter
    <3>2. CASE p > 0
      <4>1. p \in 1 .. k /\ p \in 1 .. p
        BY <1>1, <1>3, <1>4, <3>2
      <4>2. d[p].ep < e /\ d[p] \in Sample
        <5>1. f[p] = d[p] /\ d[p] \in Sample
          BY <1>1, <4>1
        <5>2. f[p].ep < e
          BY <1>2, <4>1
        <5> QED BY <5>1, <5>2
      <4> QED BY <4>2 DEF HeardAfter, Sample
    <3> QED BY <1>1, <3>1, <3>2
  <2>2. n \in 0 .. Len(g) /\ Len(g) - n = k - p /\ k - p \in Nat
    BY <1>1, <1>3, <1>4
  <2>3. \A i \in 1 .. k - p : g[i].ep < e
    <3>1. ASSUME NEW i \in 1 .. k - p PROVE g[i].ep < e
      <4>1. i \in 1 .. Len(g) /\ p + i \in 1 .. k
        BY <1>1, <1>3, <2>2
      <4>2. f[p + i].ep < e
        BY <1>2, <4>1
      <4>3. f[p + i] = g[i]
        BY <1>1, <4>1
      <4> QED BY <4>2, <4>3
    <3> QED BY <3>1
  <2>4. \A i \in 1 .. n : g[(k - p) + i] = [ep |-> e, pos |-> from + i - 1]
    <3>1. ASSUME NEW i \in 1 .. n
          PROVE  g[(k - p) + i] = [ep |-> e, pos |-> from + i - 1]
      <4>1. (k - p) + i \in 1 .. Len(g) /\ p + ((k - p) + i) = k + i
        BY <1>1, <1>3, <2>2
      <4> QED BY <1>1, <1>2, <4>1
    <3> QED BY <3>1
  <2>5. InOrder(g, e, from, to)
    <3> DEFINE stale == k - p
    <3>1. stale = Len(g) - n /\ \A i \in 1 .. n : g[stale + i] = [ep |-> e, pos |-> from + i - 1]
      BY <2>2, <2>4
    <3> QED BY <1>3, <2>2, <2>3, <3>1, OrderIntro
  <2> QED BY <1>1, <2>1, <2>5
<1>5. CASE p > k
  \* The last p - k units of d are heard.
  <2> DEFINE h == from + (p - k)
  <2>1. p - k \in 1 .. n /\ k + (p - k) = p /\ p \in 1 .. p /\ d # <<>>
    BY <1>1, <1>3, <1>5
  <2>2. d[p] = [ep |-> e, pos |-> from + (p - k) - 1]
    <3>1. f[k + (p - k)] = [ep |-> e, pos |-> from + (p - k) - 1]
      BY <1>2, <2>1
    <3>2. f[p] = d[p]
      BY <1>1, <2>1
    <3> QED BY <2>1, <3>1, <3>2
  <2>3. HeardAfter(d, e, from) = h
    BY <1>1, <1>3, <2>1, <2>2 DEF HeardAfter
  <2>4. /\ to - h = Len(g) /\ Len(g) - (to - h) = 0
        /\ h \in from .. from + p
    BY <1>1, <1>3, <2>1
  <2>5. \A i \in 1 .. Len(g) : g[0 + i] = [ep |-> e, pos |-> h + i - 1]
    <3>1. ASSUME NEW i \in 1 .. Len(g)
          PROVE  g[0 + i] = [ep |-> e, pos |-> h + i - 1]
      <4>1. (p - k) + i \in 1 .. n /\ k + ((p - k) + i) = p + i
            /\ from + ((p - k) + i) - 1 = h + i - 1 /\ 0 + i = i
        BY <1>1, <1>3, <1>5
      <4>2. f[p + i] = [ep |-> e, pos |-> h + i - 1]
        BY <1>2, <4>1
      <4> QED BY <1>1, <4>1, <4>2
    <3> QED BY <3>1
  <2>6. InOrder(g, e, h, to)
    <3>1. to - h \in 0 .. Len(g)
      BY <1>1, <2>4
    <3>2. \A i \in 1 .. Len(g) - (to - h) : g[i].ep < e
      BY <2>4
    <3> HIDE DEF h
    <3> QED BY <2>4, <2>5, <3>1, <3>2 DEF InOrder
  <2> QED BY <2>3, <2>4, <2>6
<1> QED BY <1>1, <1>3, <1>4, <1>5

\* After a seek what is still on its way is stale.
LEMMA OrderSeek ==
    ASSUME NEW f \in Seq(Sample), NEW e \in Nat, NEW to \in Nat,
           \A i \in 1 .. Len(f) : f[i].ep < e
    PROVE  InOrder(f, e, to, to)
<1>1. Len(f) \in Nat /\ to - to = 0 /\ Len(f) - 0 = Len(f)
  OBVIOUS
<1> QED BY <1>1 DEF InOrder

----------------------------------------------------------------------------
(***************************************************************************)
(* The way of the audio: the voice's queue, the packet held, the pipe and  *)
(* the decoder's buffer, one after the other.                              *)
(***************************************************************************)

Datas(q) == [i \in DOMAIN q |-> q[i].data]
Audio(q) == FlattenSeq(Datas(q))
Way(q, h, p, b) == Audio(q) \o h \o p \o b

LEMMA FlowIsWay == Flow = Way(queue, held, pipe, pBuffer)
  BY DEF Flow, Way, QueueAudio, Audio, Datas

LEMMA DatasType ==
    ASSUME NEW q \in Seq(Buffer)
    PROVE  Datas(q) \in Seq(Seq(Sample))
<1>1. Len(q) \in Nat /\ DOMAIN q = 1 .. Len(q)
  OBVIOUS
<1>2. \A i \in 1 .. Len(q) : q[i].data \in Seq(Sample)
  <2>1. \A i \in 1 .. Len(q) : q[i] \in Buffer
    BY ElementOfSeq
  <2> QED BY <2>1 DEF Buffer
<1>3. Datas(q) \in [1 .. Len(q) -> Seq(Sample)]
  BY <1>1, <1>2 DEF Datas
<1> QED BY <1>1, <1>3, IsASeq

LEMMA AudioType ==
    ASSUME NEW q \in Seq(Buffer)
    PROVE  Audio(q) \in Seq(Sample)
  BY DatasType, FlattenType DEF Audio

LEMMA AudioEmpty == Audio(<<>>) = <<>>
<1>1. Datas(<<>>) = <<>>
  BY DEF Datas
<1> QED BY <1>1, FlattenEmpty DEF Audio

LEMMA AudioAppend ==
    ASSUME NEW q \in Seq(Buffer), NEW b \in Buffer
    PROVE  Audio(Append(q, b)) = Audio(q) \o b.data
<1> DEFINE r == Append(q, b)
           d == b.data
<1>1. /\ r \in Seq(Buffer) /\ DOMAIN r = 1 .. Len(q) + 1 /\ Len(q) \in Nat
      /\ DOMAIN q = 1 .. Len(q)
      /\ \A i \in 1 .. Len(q) : r[i] = q[i]
      /\ r[Len(q) + 1] = b
  BY AppendProperties
<1>2. d \in Seq(Sample) /\ Datas(q) \in Seq(Seq(Sample)) /\ Datas(r) \in Seq(Seq(Sample))
  BY <1>1, DatasType DEF Buffer
<1> DEFINE t == Append(Datas(q), d)
<1> HIDE DEF r, d
<1>3. /\ Len(Datas(q)) = Len(q) /\ \A i \in 1 .. Len(q) : Datas(q)[i] = q[i].data
      /\ DOMAIN Datas(r) = 1 .. Len(q) + 1
      /\ \A i \in 1 .. Len(q) + 1 : Datas(r)[i] = r[i].data
      /\ Len(Datas(r)) = Len(q) + 1
  BY <1>1, <1>2 DEF Datas
<1>4. /\ t \in Seq(Seq(Sample)) /\ Len(t) = Len(q) + 1
      /\ \A i \in 1 .. Len(q) : t[i] = Datas(q)[i]
      /\ t[Len(q) + 1] = d
  BY <1>2, <1>3, AppendProperties
<1> HIDE DEF t
<1>5. ASSUME NEW i \in 1 .. Len(q) + 1 PROVE Datas(r)[i] = t[i]
  <2>1. CASE i \in 1 .. Len(q)
    BY <1>1, <1>3, <1>4, <2>1
  <2>2. CASE i = Len(q) + 1
    BY <1>1, <1>3, <1>4, <2>2 DEF d
  <2> QED BY <1>1, <2>1, <2>2
<1>6. Datas(r) = t
  <2>1. Len(Datas(r)) = Len(t) /\ \A i \in 1 .. Len(Datas(r)) : Datas(r)[i] = t[i]
    BY <1>3, <1>4, <1>5
  <2>2. Datas(r) \in Seq(Seq(Sample)) /\ t \in Seq(Seq(Sample))
    BY <1>2, <1>4
  <2> QED BY <2>1, <2>2, SeqEqual
<1>7. FlattenSeq(t) = FlattenSeq(Datas(q)) \o d
  BY <1>2, FlattenAppend DEF t
<1> QED BY <1>6, <1>7 DEF Audio, r, d

LEMMA AudioTail ==
    ASSUME NEW q \in Seq(Buffer), q # <<>>
    PROVE  Audio(q) = Head(q).data \o Audio(Tail(q))
<1> DEFINE t == Tail(q)
           n == Len(t)
<1>1. /\ t \in Seq(Buffer) /\ n \in Nat /\ Len(q) = n + 1 /\ Head(q) = q[1]
      /\ DOMAIN t = 1 .. n /\ DOMAIN q = 1 .. n + 1
      /\ \A i \in 1 .. n : t[i] = q[i + 1]
  BY HeadTailProperties
<1>2. Datas(q) \in Seq(Seq(Sample)) /\ Datas(t) \in Seq(Seq(Sample))
  BY <1>1, DatasType
<1> HIDE DEF t
<1>3. /\ Len(Datas(q)) = n + 1 /\ Len(Datas(t)) = n
      /\ \A i \in 1 .. n + 1 : Datas(q)[i] = q[i].data
      /\ \A i \in 1 .. n : Datas(t)[i] = t[i].data
  BY <1>1, <1>2 DEF Datas
<1> DEFINE u == Tail(Datas(q))
<1>4. Datas(q) # <<>>
  BY <1>1, <1>3
<1>5. /\ u \in Seq(Seq(Sample)) /\ Len(u) = n /\ Head(Datas(q)) = Datas(q)[1]
      /\ \A i \in 1 .. n : u[i] = Datas(q)[i + 1]
  BY <1>1, <1>2, <1>3, <1>4, HeadTailProperties
<1> HIDE DEF u
<1>6. ASSUME NEW i \in 1 .. n PROVE u[i] = Datas(t)[i]
  <2>1. i + 1 \in 1 .. n + 1
    BY <1>1
  <2> QED BY <1>1, <1>3, <1>5, <2>1
<1>7. u = Datas(t)
  BY <1>2, <1>3, <1>5, <1>6, SeqEqual
<1>8. Head(Datas(q)) = Head(q).data
  BY <1>1, <1>3, <1>5
<1>9. FlattenSeq(Datas(q)) = Head(Datas(q)) \o FlattenSeq(Tail(Datas(q)))
  BY <1>2, <1>4, FlattenTail
<1> QED BY <1>7, <1>8, <1>9 DEF Audio, t, u

\* Buffers without data carry no audio.
LEMMA AudioNone ==
    ASSUME NEW q \in Seq(Buffer), \A i \in DOMAIN q : q[i].data = <<>>
    PROVE  Audio(q) = <<>>
<1> DEFINE f == [i \in 0 .. Len(q) |-> <<>>]
<1>1. /\ Len(q) \in Nat /\ DOMAIN q = 1 .. Len(q)
      /\ Datas(q) \in Seq(Seq(Sample)) /\ <<>> \in Seq(Sample)
  BY DatasType
<1>2. Len(Datas(q)) = Len(q) /\ \A i \in 1 .. Len(q) : Datas(q)[i] = <<>>
  BY <1>1 DEF Datas
<1>3. <<>> \o <<>> = <<>>
  BY <1>1, ConcatEmptySeq
<1>4. /\ f \in [0 .. Len(q) -> Seq(Sample)]
      /\ \A i \in 0 .. Len(q) : f[i] = <<>>
  BY <1>1
<1> HIDE DEF f
<1>5. Joins(f, Datas(q), Sample)
  <2>1. ASSUME NEW i \in 1 .. Len(q) PROVE f[i] = f[i - 1] \o Datas(q)[i]
    <3>1. i - 1 \in 0 .. Len(q) /\ i \in 0 .. Len(q)
      BY <1>1
    <3> QED BY <1>2, <1>3, <1>4, <3>1
  <2>2. 0 \in 0 .. Len(q)
    BY <1>1
  <2> QED BY <1>2, <1>4, <2>1, <2>2 DEF Joins
<1>6. Len(q) \in 0 .. Len(q)
  BY <1>1
<1> QED BY <1>1, <1>2, <1>4, <1>5, <1>6, FlattenJoins DEF Audio

LEMMA WayType ==
    ASSUME NEW q \in Seq(Buffer), NEW h \in Seq(Sample), NEW p \in Seq(Sample),
           NEW b \in Seq(Sample)
    PROVE  Way(q, h, p, b) \in Seq(Sample)
<1>1. Audio(q) \in Seq(Sample)
  BY AudioType
<1>2. Audio(q) \o h \in Seq(Sample)
  BY <1>1, ConcatProperties
<1>3. Audio(q) \o h \o p \in Seq(Sample)
  BY <1>2, ConcatProperties
<1> QED BY <1>3, ConcatProperties DEF Way

\* What the decoder hands out comes last.
LEMMA WayFill ==
    ASSUME NEW q \in Seq(Buffer), NEW h \in Seq(Sample), NEW p \in Seq(Sample),
           NEW b \in Seq(Sample)
    PROVE  Way(q, h, p, b) = Way(q, h, p, <<>>) \o b
<1> DEFINE a == Audio(q) \o h \o p
<1>1. a \in Seq(Sample)
  <2>1. Audio(q) \o h \in Seq(Sample)
    BY AudioType, ConcatProperties
  <2> QED BY <2>1, ConcatProperties
<1> HIDE DEF a
<1>2. a \o <<>> = a
  BY <1>1, ConcatEmptySeq
<1> QED BY <1>2 DEF Way, a

\* Writing to the pipe moves the buffer behind the pipe's audio.
LEMMA WayWrite ==
    ASSUME NEW q \in Seq(Buffer), NEW h \in Seq(Sample), NEW p \in Seq(Sample),
           NEW b \in Seq(Sample)
    PROVE  Way(q, h, p \o b, <<>>) = Way(q, h, p, b)
<1> DEFINE a == Audio(q) \o h
           c == a \o (p \o b)
<1>1. a \in Seq(Sample) /\ p \o b \in Seq(Sample)
  BY AudioType, ConcatProperties
<1> HIDE DEF a
<1>2. c = (a \o p) \o b
  BY <1>1, ConcatRegroup
<1>3. c \in Seq(Sample)
  BY <1>1, ConcatProperties
<1> HIDE DEF c
<1>4. c \o <<>> = c
  BY <1>3, ConcatEmptySeq
<1> QED BY <1>2, <1>4 DEF Way, a, c

\* Taking a packet splits the pipe's audio.
LEMMA WayTake ==
    ASSUME NEW q \in Seq(Buffer), NEW x \in Seq(Sample), NEW y \in Seq(Sample),
           NEW b \in Seq(Sample)
    PROVE  Way(q, x, y, b) = Way(q, <<>>, x \o y, b)
<1> DEFINE a == Audio(q)
<1>1. a \in Seq(Sample)
  BY AudioType
<1> HIDE DEF a
<1>2. a \o (x \o y) = (a \o x) \o y
  BY <1>1, ConcatRegroup
<1>3. a \o <<>> = a
  BY <1>1, ConcatEmptySeq
<1> QED BY <1>2, <1>3 DEF Way, a

\* Submitting a packet appends its audio to the voice's.
LEMMA WaySubmit ==
    ASSUME NEW q \in Seq(Buffer), NEW c \in Buffer, NEW p \in Seq(Sample),
           NEW b \in Seq(Sample)
    PROVE  Way(Append(q, c), <<>>, p, b) = Way(q, c.data, p, b)
<1> DEFINE a == Audio(q) \o c.data
<1>1. a \in Seq(Sample)
  <2>1. c.data \in Seq(Sample)
    BY DEF Buffer
  <2> QED BY <2>1, AudioType, ConcatProperties
<1>2. Audio(Append(q, c)) = a
  BY AudioAppend
<1> HIDE DEF a
<1>3. a \o <<>> = a
  BY <1>1, ConcatEmptySeq
<1> QED BY <1>2, <1>3 DEF Way, a

\* The voice plays what comes first.
LEMMA WayTail ==
    ASSUME NEW q \in Seq(Buffer), q # <<>>, NEW h \in Seq(Sample),
           NEW p \in Seq(Sample), NEW b \in Seq(Sample)
    PROVE  Way(q, h, p, b) = Head(q).data \o Way(Tail(q), h, p, b)
<1> DEFINE d == Head(q).data
           a == Audio(Tail(q))
           ah == a \o h
           ahp == ah \o p
<1>1. d \in Seq(Sample) /\ a \in Seq(Sample)
  <2>1. Head(q) \in Buffer /\ Tail(q) \in Seq(Buffer)
    BY HeadTailProperties
  <2> QED BY <2>1, AudioType DEF Buffer
<1>2. Audio(q) = d \o a
  BY AudioTail
<1> HIDE DEF d, a
<1>3. h \in Seq(Sample) /\ p \in Seq(Sample) /\ b \in Seq(Sample)
  OBVIOUS
<1>4. ah \in Seq(Sample)
  BY <1>1, ConcatProperties
<1>5. d \o ah = (d \o a) \o h
  <2>1. d \o (a \o h) = (d \o a) \o h
    <3>1. d \in Seq(Sample) /\ a \in Seq(Sample) /\ h \in Seq(Sample)
      BY <1>1, <1>3
    <3> HIDE DEF ah, ahp
    <3> QED BY ONLY <3>1, ConcatRegroup, SMTT(30)
  <2> QED BY ONLY <2>1
<1> HIDE DEF ah
<1>6. ahp \in Seq(Sample)
  BY <1>4, ConcatProperties
<1>7. d \o ahp = (d \o ah) \o p
  <2>1. d \o (ah \o p) = (d \o ah) \o p
    <3>1. d \in Seq(Sample) /\ ah \in Seq(Sample) /\ p \in Seq(Sample)
      BY <1>1, <1>3, <1>4
    <3> HIDE DEF ahp
    <3> QED BY ONLY <3>1, ConcatRegroup, SMTT(30)
  <2> QED BY ONLY <2>1
<1> HIDE DEF ahp
<1>8. d \o (ahp \o b) = (d \o ahp) \o b
  <2>1. d \in Seq(Sample) /\ ahp \in Seq(Sample) /\ b \in Seq(Sample)
    BY <1>1, <1>3, <1>6
  <2> QED BY ONLY <2>1, ConcatRegroup
<1>9. Way(q, h, p, b) = (((d \o a) \o h) \o p) \o b
  BY <1>2 DEF Way
<1>10. Way(Tail(q), h, p, b) = ahp \o b
  BY DEF Way, a, ah, ahp
<1>11. Way(q, h, p, b) = d \o (ahp \o b)
  BY ONLY <1>5, <1>7, <1>8, <1>9
<1> QED BY <1>10, <1>11 DEF d

\* A seek leaves the packet held and the decoder's buffer.
LEMMA WaySeek ==
    ASSUME NEW h \in Seq(Sample), NEW b \in Seq(Sample)
    PROVE  Way(<<>>, h, <<>>, b) = h \o b
<1>1. <<>> \o h = h /\ h \o <<>> = h
  BY ConcatEmptySeq
<1> QED BY <1>1, AudioEmpty DEF Way

----------------------------------------------------------------------------
(***************************************************************************)
(* The sizes of what is held back.                                         *)
(***************************************************************************)

\* No decoder hands out more than Max(DecodeSizes).
LEMMA MaxDecode ==
    /\ Max(DecodeSizes) \in Nat
    /\ \A n \in DecodeSizes : n \in Nat /\ n <= Max(DecodeSizes)
<1>1. PICK m \in DecodeSizes : \A n \in DecodeSizes : n <= m
  BY SizesAssumption DEF SizesAssumption
<1>2. \A n \in DecodeSizes : n \in Nat
  BY SizesAssumption DEF SizesAssumption
<1>3. \E x \in DecodeSizes : \A y \in DecodeSizes : x >= y
  BY <1>1, <1>2
<1>4. /\ Max(DecodeSizes) \in DecodeSizes
      /\ \A y \in DecodeSizes : Max(DecodeSizes) >= y
  BY <1>3 DEF Max
<1> HIDE DEF Max
<1> QED BY <1>2, <1>4

\* Packets are no longer than PacketSize, decoded buffers no longer than the
\* longest, and only buffers without audio end the stream.
SizeInv ==
    /\ Len(held) <= PacketSize
    /\ Len(pBuffer) <= Max(DecodeSizes)
    /\ \A i \in DOMAIN queue : /\ Len(queue[i].data) <= PacketSize
                               /\ queue[i].eos => queue[i].data = <<>>

\* A packet is a prefix of the pipe, no longer than PacketSize.
LEMMA PacketRest ==
    ASSUME TypeOK
    PROVE  Packet \o Rest = pipe /\ Len(Packet) <= PacketSize
<1>0. pipe \in Seq(Sample) /\ Len(pipe) \in Nat /\ PacketSize \in Nat \ {0}
  BY SizesAssumption DEF SizesAssumption, TypeOK
<1>1. CASE Len(pipe) <= PacketSize
  <2>1. Packet = SubSeq(pipe, 1, Len(pipe))
    BY <1>1 DEF Packet
  <2>2. SubSeq(pipe, 1, Len(pipe)) = pipe
    BY <1>0, SubSeqFull
  <2>3. Rest = <<>>
    BY <1>0, <1>1, SubSeqEmpty DEF Rest
  <2>4. pipe \o <<>> = pipe
    BY <1>0, ConcatEmptySeq
  <2> QED BY <1>0, <1>1, <2>1, <2>2, <2>3, <2>4
<1>2. CASE Len(pipe) > PacketSize
  <2>1. Packet = SubSeq(pipe, 1, PacketSize)
    BY <1>0, <1>2 DEF Packet
  <2>2. Packet \o Rest = SubSeq(pipe, 1, Len(pipe))
    <3>1. /\ 1 \in 1 .. Len(pipe) + 1 /\ PacketSize \in 1 - 1 .. Len(pipe)
          /\ Len(pipe) \in PacketSize .. Len(pipe)
      BY <1>0, <1>2
    <3> QED BY <1>0, <2>1, <3>1, ConcatAdjacentSubSeq DEF Rest
  <2>3. SubSeq(pipe, 1, Len(pipe)) = pipe
    BY <1>0, SubSeqFull
  <2>4. Len(Packet) = PacketSize
    BY <1>0, <1>2, <2>1, SubSeqProperties
  <2>5. Packet \o Rest = pipe
    BY ONLY <2>2, <2>3
  <2> QED BY <1>0, <2>4, <2>5
<1> QED BY <1>0, <1>1, <1>2

LEMMA SizeInit == Init => SizeInv
<1> SUFFICES ASSUME Init PROVE SizeInv
  OBVIOUS
<1>1. Len(held) = 0 /\ Len(pBuffer) = 0 /\ DOMAIN queue = {}
  BY DEF Init
<1> QED BY <1>1, MaxDecode, SizesAssumption DEF SizeInv, SizesAssumption

LEMMA SizeStep == TypeOK /\ EndInv /\ SizeInv /\ [Next]_vars => SizeInv'
<1> SUFFICES ASSUME TypeOK, EndInv, SizeInv, [Next]_vars PROVE SizeInv'
  OBVIOUS
<1> USE DEF SizeInv
<1>0. /\ Max(DecodeSizes) \in Nat /\ PacketSize \in Nat \ {0}
      /\ queue \in Seq(Buffer)
  BY MaxDecode, SizesAssumption DEF SizesAssumption, TypeOK
<1>1. CASE UNCHANGED <<held, pBuffer, queue>>
  BY <1>1
<1>2. CASE ServiceFill
  <2>1. PICK n \in DecodeSizes :
          pBuffer' = [i \in 1 .. Decoded(n) |-> [ep |-> epoch, pos |-> srcPos + i - 1]]
    BY <1>2 DEF ServiceFill
  <2>2. n \in Nat /\ n <= Max(DecodeSizes)
    BY MaxDecode
  <2>3. Decoded(n) \in Nat /\ Decoded(n) <= n
    BY <1>2, <2>2 DEF ServiceFill, Decoded, TypeOK
  <2>4. Len(pBuffer') = Decoded(n)
    BY <2>1, <2>3
  <2>5. Len(pBuffer') <= Max(DecodeSizes)
    BY <1>0, <2>2, <2>3, <2>4
  <2> QED BY <1>2, <2>5 DEF ServiceFill, outVars, voiceVars
<1>3. CASE ServiceWrite
  <2>1. Len(pBuffer') = 0
    BY <1>3 DEF ServiceWrite, BufferTaken
  <2> QED BY <1>0, <1>3, <2>1 DEF ServiceWrite, outVars, voiceVars
<1>4. CASE OutGetPacket
  <2>1. /\ held' = Packet /\ pBuffer' = pBuffer /\ queue' = Overwritten(Packet)
        /\ Len(Packet) <= PacketSize /\ pipe # <<>>
    BY <1>4, PacketRest DEF OutGetPacket, PacketReady, svcVars
  <2>2. \A i \in DOMAIN queue : ~queue[i].eos
    BY <2>1 DEF EndInv, EndInSight
  <2>3. /\ DOMAIN queue' = DOMAIN queue
        /\ \A i \in DOMAIN queue : /\ queue'[i].eos = queue[i].eos
                                   /\ queue'[i].data \in {queue[i].data, Packet}
    BY <2>1, OverwrittenType
  <2> QED BY <2>1, <2>2, <2>3
<1>13. CASE OutRefused
  <2>1. Len(held') = 0 /\ UNCHANGED <<pBuffer, queue>>
    BY <1>13 DEF OutRefused, svcVars
  <2> QED BY <1>0, <2>1
<1>5. CASE OutSubmit
  <2> DEFINE b == [data |-> held, slot |-> slot, eos |-> FALSE]
  <2>1. b \in Buffer
    BY DEF Buffer, TypeOK
  <2>2. queue' = Append(queue, b)
    BY <1>5 DEF OutSubmit
  <2>3. /\ DOMAIN queue = 1 .. Len(queue) /\ Len(queue) \in Nat
        /\ DOMAIN queue' = 1 .. Len(queue) + 1
        /\ \A i \in DOMAIN queue : queue'[i] = queue[i]
        /\ queue'[Len(queue) + 1] = b
    BY <2>1, <2>2, QueueAppend
  <2>4. Len(held') = 0 /\ pBuffer' = pBuffer
    BY <1>5 DEF OutSubmit, svcVars
  <2>5. ASSUME NEW i \in DOMAIN queue'
        PROVE  Len(queue'[i].data) <= PacketSize /\ (queue'[i].eos => queue'[i].data = <<>>)
    <3>1. CASE i \in DOMAIN queue
      BY <2>3, <3>1
    <3>2. CASE i = Len(queue) + 1
      BY <2>3, <3>2
    <3> QED BY <2>3, <3>1, <3>2
  <2> QED BY <1>0, <2>4, <2>5
<1>6. CASE OutSubmitEnd
  <2> DEFINE b == [data |-> <<>>, slot |-> slot, eos |-> TRUE]
  <2>1. b \in Buffer
    BY DEF Buffer, TypeOK
  <2>2. queue' = Append(queue, b)
    BY <1>6 DEF OutSubmitEnd
  <2>3. /\ DOMAIN queue = 1 .. Len(queue) /\ Len(queue) \in Nat
        /\ DOMAIN queue' = 1 .. Len(queue) + 1
        /\ \A i \in DOMAIN queue : queue'[i] = queue[i]
        /\ queue'[Len(queue) + 1] = b
    BY <2>1, <2>2, QueueAppend
  <2>4. held' = held /\ pBuffer' = pBuffer
    BY <1>6 DEF OutSubmitEnd, svcVars
  <2>5. ASSUME NEW i \in DOMAIN queue'
        PROVE  Len(queue'[i].data) <= PacketSize /\ (queue'[i].eos => queue'[i].data = <<>>)
    <3>1. CASE i \in DOMAIN queue
      BY <2>3, <3>1
    <3>2. CASE i = Len(queue) + 1
      <4>1. Len(b.data) = 0 /\ b.data = <<>>
        OBVIOUS
      <4> QED BY <1>0, <2>3, <3>2, <4>1
    <3> QED BY <2>3, <3>1, <3>2
  <2> QED BY <2>4, <2>5
<1>7. CASE Engine
  <2>1. /\ queue # <<>> /\ queue' = Tail(queue)
        /\ held' = held /\ pBuffer' = pBuffer
    BY <1>7 DEF Engine, EnginePlay, EngineStreamEnd, svcVars, outVars
  <2>2. /\ DOMAIN queue = 1 .. Len(queue) /\ Len(queue) \in Nat \ {0}
        /\ DOMAIN queue' = 1 .. Len(queue) - 1
        /\ \A i \in DOMAIN queue' : queue'[i] = queue[i + 1]
    BY <2>1, QueueTail
  <2>3. \A i \in DOMAIN queue' : i + 1 \in DOMAIN queue
    BY <2>2
  <2> QED BY <2>1, <2>2, <2>3
<1>8. CASE SeekDone \/ DestroyEnd
  <2>1. DOMAIN queue' = {} /\ held' = held /\ pBuffer' = pBuffer
    BY <1>8 DEF SeekDone, DestroyEnd, svcVars, outVars
  <2> QED BY <2>1
<1>9. Service => ServiceFill \/ ServiceWrite \/ UNCHANGED <<held, pBuffer, queue>>
  BY DEF Service, ServiceTop, ServiceEnd, ServiceRoom, svcVars, outVars, voiceVars
<1>10. Output => \/ OutGetPacket \/ OutRefused \/ OutSubmit \/ OutSubmitEnd
                 \/ UNCHANGED <<held, pBuffer, queue>>
  BY DEF Output, OutExit, OutGetEnd, OutNotifyEnd, OutEndRefused, svcVars, outVars, voiceVars
<1>11. UI => SeekDone \/ DestroyEnd \/ UNCHANGED <<held, pBuffer, queue>>
  BY DEF UI, UIContinue, Configure, SeekRefused, DestroyStop, DestroyTerminate,
         DestroyFree, Start, Stop, SeekBegin, DestroyBegin, Gone, vars, svcVars, outVars,
         voiceVars
<1>12. BoxClosed \/ UNCHANGED vars => UNCHANGED <<held, pBuffer, queue>>
  BY DEF BoxClosed, vars, svcVars, voiceVars
<1> QED BY <1>1, <1>2, <1>3, <1>4, <1>5, <1>6, <1>7, <1>8, <1>9, <1>10, <1>11, <1>12,
           <1>13 DEF Next

LEMMA SizeInvariant == Spec => []SizeInv
  BY SizeInit, SizeStep, TypeCorrect, EndInvariant, PTL DEF Spec

----------------------------------------------------------------------------
(***************************************************************************)
(* The ring of packet buffers.                                             *)
(***************************************************************************)

\* Up to the first end of stream the queue holds the buffers filled last, in the
\* order of the ring, unless a packet was refused; the voice never holds more
\* than MaxBuffers.
RingFrom(m) ==
    /\ \A i \in DOMAIN queue : queue[i].eos <=> i > m
    /\ \A i \in 1 .. m : queue[i].slot + (m - i + 1) \in {slot, slot + MaxBuffers}

RingInv ==
    /\ Len(queue) <= MaxBuffers
    /\ out \in {"submit", "eos"} => Len(queue) < MaxBuffers
    /\ out = "box" => refused
    /\ ~refused => \E m \in 0 .. Len(queue) : RingFrom(m)

\* The current slot is free as long as the voice has room.
LEMMA RingFree ==
    ASSUME TypeOK, RingInv, ~refused, Len(queue) < MaxBuffers,
           NEW i \in DOMAIN queue, ~queue[i].eos
    PROVE  queue[i].slot # slot
<1>1. PICK m \in 0 .. Len(queue) : RingFrom(m)
  BY DEF RingInv
<1>2. /\ Len(queue) \in Nat /\ MaxBuffers \in Nat /\ DOMAIN queue = 1 .. Len(queue)
      /\ slot \in Nat /\ queue[i] \in Buffer
  BY SizesAssumption, ElementOfSeq DEF SizesAssumption, TypeOK
<1>3. i \in 1 .. m /\ queue[i].slot \in Nat
  BY <1>1, <1>2 DEF RingFrom, Buffer
<1>4. queue[i].slot + (m - i + 1) \in {slot, slot + MaxBuffers}
  BY <1>1, <1>3 DEF RingFrom
<1> QED BY <1>1, <1>2, <1>3, <1>4

\* So a packet is written over none that the voice still holds.
LEMMA NothingOverwritten ==
    ASSUME TypeOK, EndInv, RingInv, ~refused, OutGetPacket
    PROVE  Overwritten(Packet) = queue
<1>1. Len(queue) < MaxBuffers /\ \A i \in DOMAIN queue : ~queue[i].eos
  BY DEF OutGetPacket, PacketReady, VoiceHasRoom, EndInv, EndInSight
<1>2. \A i \in DOMAIN queue : queue[i].slot # slot
  BY <1>1, RingFree
<1>3. Overwritten(Packet) = [i \in DOMAIN queue |-> queue[i]]
  BY <1>2 DEF Overwritten
<1>4. queue \in Seq(Buffer)
  BY DEF TypeOK
<1> QED BY <1>3, <1>4

LEMMA RingStep == TypeOK /\ EndInv /\ RingInv /\ [Next]_vars => RingInv'
<1> SUFFICES ASSUME TypeOK, EndInv, RingInv, [Next]_vars PROVE RingInv'
  OBVIOUS
<1>0. /\ MaxBuffers \in Nat \ {0} /\ queue \in Seq(Buffer) /\ Len(queue) \in Nat
      /\ slot \in 0 .. MaxBuffers - 1 /\ DOMAIN queue = 1 .. Len(queue)
  BY SizesAssumption DEF SizesAssumption, TypeOK
<1>r. CASE refused'
  <2>1. CASE OutGetPacket
    BY <1>r, <2>1, OverwrittenType DEF OutGetPacket, VoiceHasRoom, RingInv
  <2>2. CASE OutSubmit \/ OutSubmitEnd
    <3> DEFINE a == [data |-> held, slot |-> slot, eos |-> FALSE]
               e == [data |-> <<>>, slot |-> slot, eos |-> TRUE]
    <3>0. a \in Buffer /\ e \in Buffer /\ (queue' = Append(queue, a) \/ queue' = Append(queue, e))
      BY <2>2 DEF OutSubmit, OutSubmitEnd, Buffer, TypeOK
    <3> HIDE DEF a, e
    <3>1. PICK b \in Buffer : queue' = Append(queue, b)
      BY <3>0
    <3>2. Len(queue') = Len(queue) + 1 /\ out \in {"submit", "eos"} /\ out' = "loop"
      BY <1>0, <2>2, <3>1, AppendProperties DEF OutSubmit, OutSubmitEnd
    <3> QED BY <1>0, <1>r, <3>2 DEF RingInv
  <2>3. CASE Engine
    <3>1. Len(queue') = Len(queue) - 1 /\ out' = out
      BY <1>0, <2>3, HeadTailProperties DEF Engine, EnginePlay, EngineStreamEnd, outVars
    <3> QED BY <1>0, <1>r, <3>1 DEF RingInv
  <2>4. CASE DestroyEnd
    BY <1>0, <1>r, <2>4 DEF DestroyEnd, RingInv, outVars
  <2>5. CASE UNCHANGED queue /\ (out' \in {"submit", "eos"} => out' = out \/ VoiceHasRoom)
    BY <1>r, <2>5 DEF RingInv, VoiceHasRoom
  <2>6. Service \/ Output \/ BoxClosed \/ UNCHANGED vars =>
          \/ OutGetPacket \/ OutSubmit \/ OutSubmitEnd
          \/ UNCHANGED queue /\ (out' \in {"submit", "eos"} => out' = out \/ VoiceHasRoom)
    BY DEF Service, ServiceTop, ServiceFill, ServiceEnd, ServiceRoom, ServiceWrite, Output,
           OutExit, OutGetEnd, OutNotifyEnd, OutRefused, OutEndRefused, BoxClosed, vars,
           outVars, voiceVars
  <2>7. UI => \/ SeekDone \/ DestroyEnd
              \/ UNCHANGED queue /\ (out' \in {"submit", "eos"} => out' = out)
    BY DEF UI, UIContinue, Configure, SeekRefused, DestroyStop, DestroyTerminate,
           DestroyFree, Start, Stop, SeekBegin, DestroyBegin, Gone, vars, outVars, voiceVars
  <2>8. ~SeekDone
    BY <1>r DEF SeekDone
  <2> QED BY <2>1, <2>2, <2>3, <2>4, <2>5, <2>6, <2>7, <2>8 DEF Next
<1>7. CASE SeekDone
  <2>1. Len(queue') = 0 /\ DOMAIN queue' = {} /\ out' = out /\ out # "box"
    BY <1>7 DEF SeekDone, AudioLockFree, outVars
  <2>2. 0 \in 0 .. Len(queue') /\ 1 .. 0 = {}
    BY <2>1
  <2> QED BY <1>0, <2>1, <2>2 DEF RingInv, RingFrom
<1>q. SUFFICES ASSUME ~refused', ~SeekDone PROVE RingInv'
  BY <1>r, <1>7
<1>u. ~refused /\ refused' = refused /\ ~OutRefused
  BY <1>q
  DEF Next, Service, ServiceTop, ServiceFill, ServiceEnd, ServiceRoom, ServiceWrite,
      Output, OutExit, OutGetPacket, OutGetEnd, OutNotifyEnd, OutSubmit, OutRefused,
      OutSubmitEnd, OutEndRefused, BoxClosed, Engine, EnginePlay, EngineStreamEnd, UI,
      UIContinue, Configure, SeekRefused, DestroyStop, DestroyTerminate, DestroyFree,
      DestroyEnd, Start, Stop, SeekBegin, DestroyBegin, Gone, vars, voiceVars
<1>1. PICK m \in 0 .. Len(queue) : RingFrom(m)
  BY <1>u DEF RingInv
<1>s. \A i \in DOMAIN queue : queue[i].slot \in 0 .. MaxBuffers - 1
  <2>1. \A i \in DOMAIN queue : queue[i] \in Buffer
    BY <1>0, ElementOfSeq
  <2> QED BY <2>1 DEF Buffer
<1>2. CASE UNCHANGED <<queue, slot>> /\ (out' \in {"submit", "eos", "box"} => out' = out)
  BY <1>u, <1>2 DEF RingInv, RingFrom
<1>3. CASE OutGetPacket \/ OutGetEnd
  <2>1. UNCHANGED <<queue, slot>> /\ Len(queue) < MaxBuffers /\ out' # "box"
    BY <1>u, <1>3, NothingOverwritten
    DEF OutGetPacket, OutGetEnd, VoiceHasRoom, outVars, voiceVars
  <2> QED BY <1>u, <2>1 DEF RingInv, RingFrom
<1>4. CASE OutSubmit
  <2> DEFINE b == [data |-> held, slot |-> slot, eos |-> FALSE]
             n == Len(queue)
  <2>1. b \in Buffer /\ b.slot = slot /\ b.eos = FALSE
    BY DEF Buffer, TypeOK
  <2>2. queue' = Append(queue, b) /\ slot' = (slot + 1) % MaxBuffers /\ out' = "loop"
    BY <1>4 DEF OutSubmit, NextSlot
  <2> HIDE DEF b
  <2>3. /\ DOMAIN queue' = 1 .. n + 1
        /\ \A i \in DOMAIN queue : queue'[i] = queue[i]
        /\ queue'[n + 1] = b /\ Len(queue') = n + 1
    BY <1>0, <2>1, <2>2, QueueAppend, AppendProperties
  <2>4. n < MaxBuffers
    BY <1>4 DEF OutSubmit, RingInv
  <2>5. \A i \in DOMAIN queue : ~queue[i].eos
    BY <1>4 DEF OutSubmit, EndInv, EndInSight
  <2>6. m = n
    <3>1. CASE m < n
      <4>1. n \in DOMAIN queue /\ n > m
        BY <1>0, <1>1, <3>1
      <4> QED BY <1>1, <2>5, <4>1 DEF RingFrom
    <3>2. m \in 0 .. n /\ n \in Nat
      BY <1>0
    <3>3. ~(m < n) => m = n
      BY <3>2
    <3> QED BY <3>1, <3>3
  <2>7. slot' = IF slot + 1 = MaxBuffers THEN 0 ELSE slot + 1
    BY <1>0, <2>2
  <2>8. \A i \in DOMAIN queue' : queue'[i].eos <=> i > n + 1
    <3>1. ASSUME NEW i \in DOMAIN queue' PROVE ~queue'[i].eos
      <4>1. CASE i \in DOMAIN queue
        BY <2>3, <2>5, <4>1
      <4>2. CASE i = n + 1
        BY <2>1, <2>3, <4>2
      <4> QED BY <1>0, <2>3, <4>1, <4>2
    <3> QED BY <1>0, <2>3, <3>1
  <2>9. ASSUME NEW i \in 1 .. n + 1
        PROVE  queue'[i].slot + ((n + 1) - i + 1) \in {slot', slot' + MaxBuffers}
    <3>1. CASE i \in DOMAIN queue
      <4> DEFINE x == queue[i].slot
      <4>1. queue'[i].slot = x /\ x \in 0 .. MaxBuffers - 1
        BY <1>s, <2>3, <3>1
      <4>2. x + (n - i + 1) \in {slot, slot + MaxBuffers}
        BY <1>0, <1>1, <2>6, <3>1 DEF RingFrom
      <4> HIDE DEF x
      <4> QED BY <1>0, <2>4, <2>7, <4>1, <4>2
    <3>2. CASE i = n + 1
      <4>1. queue'[i].slot = slot /\ (n + 1) - i + 1 = 1
        BY <1>0, <2>1, <2>3, <3>2
      <4> QED BY <1>0, <2>7, <4>1
    <3> QED BY <1>0, <3>1, <3>2
  <2> HIDE DEF n
  <2>10. n + 1 \in 0 .. Len(queue') /\ Len(queue') <= MaxBuffers
    BY <1>0, <2>3, <2>4 DEF n
  <2>11. \E k \in 0 .. Len(queue') :
            /\ \A i \in DOMAIN queue' : queue'[i].eos <=> i > k
            /\ \A i \in 1 .. k : queue'[i].slot + (k - i + 1) \in {slot', slot' + MaxBuffers}
    BY <2>8, <2>9, <2>10
  <2> QED BY <1>u, <2>2, <2>10, <2>11 DEF RingInv, RingFrom
<1>5. CASE OutSubmitEnd
  <2> DEFINE b == [data |-> <<>>, slot |-> slot, eos |-> TRUE]
             n == Len(queue)
  <2>1. b \in Buffer /\ b.eos = TRUE
    BY DEF Buffer, TypeOK
  <2>2. queue' = Append(queue, b) /\ slot' = slot /\ out' = "loop"
    BY <1>5 DEF OutSubmitEnd
  <2> HIDE DEF b
  <2>3. /\ DOMAIN queue' = 1 .. n + 1
        /\ \A i \in DOMAIN queue : queue'[i] = queue[i]
        /\ queue'[n + 1] = b /\ Len(queue') = n + 1
    BY <1>0, <2>1, <2>2, QueueAppend, AppendProperties
  <2>4. n < MaxBuffers
    BY <1>5 DEF OutSubmitEnd, RingInv
  <2>5. ASSUME NEW i \in DOMAIN queue' PROVE queue'[i].eos <=> i > m
    <3>1. CASE i \in DOMAIN queue
      BY <1>1, <2>3, <3>1 DEF RingFrom
    <3>2. CASE i = n + 1
      BY <1>0, <1>1, <2>1, <2>3, <3>2
    <3> QED BY <1>0, <2>3, <3>1, <3>2
  <2>6. \A i \in 1 .. m : queue'[i].slot + (m - i + 1) \in {slot', slot' + MaxBuffers}
    BY <1>0, <1>1, <2>2, <2>3 DEF RingFrom
  <2>7. m \in 0 .. Len(queue')
    BY <1>0, <2>3
  <2>8. Len(queue') <= MaxBuffers /\ out' \notin {"submit", "eos", "box"}
    BY <1>0, <2>2, <2>3, <2>4
  <2> QED BY <1>u, <2>5, <2>6, <2>7, <2>8 DEF RingInv, RingFrom
<1>6. CASE Engine
  <2>1. queue # <<>> /\ queue' = Tail(queue) /\ slot' = slot /\ out' = out
    BY <1>6 DEF Engine, EnginePlay, EngineStreamEnd, outVars
  <2>2. /\ Len(queue) \in Nat \ {0} /\ DOMAIN queue' = 1 .. Len(queue) - 1
        /\ \A i \in DOMAIN queue' : queue'[i] = queue[i + 1]
    BY <2>1, QueueTail
  <2>3. Len(queue') = Len(queue) - 1
    BY <1>0, <2>1, HeadTailProperties
  <2> DEFINE k == IF m = 0 THEN 0 ELSE m - 1
  <2>4. k \in 0 .. Len(queue') /\ k \in Nat
    BY <1>0, <2>2, <2>3
  <2>5. ASSUME NEW i \in DOMAIN queue' PROVE queue'[i].eos <=> i > k
    <3>1. i + 1 \in DOMAIN queue /\ queue'[i] = queue[i + 1]
      BY <1>0, <2>2
    <3>2. queue[i + 1].eos <=> i + 1 > m
      BY <1>1, <3>1 DEF RingFrom
    <3>3. i + 1 > m <=> i > k
      BY <1>0, <2>2
    <3> QED BY <3>1, <3>2, <3>3
  <2>6. ASSUME NEW i \in 1 .. k
        PROVE  queue'[i].slot + (k - i + 1) \in {slot', slot' + MaxBuffers}
    <3>1. i + 1 \in 1 .. m /\ m - (i + 1) + 1 = k - i + 1 /\ i \in DOMAIN queue'
      BY <1>0, <2>2
    <3>2. queue[i + 1].slot + (m - (i + 1) + 1) \in {slot, slot + MaxBuffers}
      BY <1>1, <3>1 DEF RingFrom
    <3>3. queue'[i].slot = queue[i + 1].slot
      BY <2>2, <3>1
    <3> QED BY <2>1, <3>1, <3>2, <3>3
  <2> HIDE DEF k
  <2>7. Len(queue') <= MaxBuffers /\ (out' \in {"submit", "eos"} => Len(queue') < MaxBuffers)
        /\ out' # "box"
    BY <1>0, <1>u, <2>1, <2>3 DEF RingInv
  <2> QED BY <1>u, <2>4, <2>5, <2>6, <2>7 DEF RingInv, RingFrom
<1>10. CASE DestroyEnd
  <2>1. Len(queue') = 0 /\ DOMAIN queue' = {} /\ out' = out /\ out # "box"
    BY <1>u, <1>10 DEF DestroyEnd, RingInv, outVars
  <2>2. 0 \in 0 .. Len(queue') /\ 1 .. 0 = {}
    BY <2>1
  <2> QED BY <1>0, <2>1, <2>2 DEF RingInv, RingFrom
<1>11. ~BoxClosed
  BY <1>u DEF BoxClosed, RingInv
<1>8. Service \/ OutExit \/ OutNotifyEnd \/ OutEndRefused \/ UNCHANGED vars =>
        UNCHANGED <<queue, slot>> /\ (out' \in {"submit", "eos", "box"} => out' = out)
  BY DEF Service, ServiceTop, ServiceFill, ServiceEnd, ServiceRoom, ServiceWrite,
         OutExit, OutNotifyEnd, OutEndRefused, vars, outVars, voiceVars
<1>9. UI => \/ SeekDone \/ DestroyEnd
            \/ UNCHANGED <<queue, slot>> /\ (out' \in {"submit", "eos", "box"} => out' = out)
  BY DEF UI, UIContinue, Configure, SeekRefused, DestroyStop, DestroyTerminate,
         DestroyFree, Start, Stop, SeekBegin, DestroyBegin, Gone, vars, outVars, voiceVars
<1> QED BY <1>q, <1>u, <1>2, <1>3, <1>4, <1>5, <1>6, <1>8, <1>9, <1>10, <1>11
        DEF Next, Output

\* The ring stays in step with the voice.
LEMMA RingInvariant == Spec => []RingInv
<1>1. Init => RingInv
  <2> SUFFICES ASSUME Init PROVE RingInv
    OBVIOUS
  <2>1. Len(queue) = 0 /\ DOMAIN queue = {} /\ out = "loop" /\ MaxBuffers \in Nat
    BY SizesAssumption DEF Init, SizesAssumption
  <2>2. 0 \in 0 .. Len(queue) /\ 1 .. 0 = {}
    BY <2>1
  <2> QED BY <2>1, <2>2 DEF RingInv, RingFrom
<1> QED BY <1>1, RingStep, TypeCorrect, EndInvariant, PTL DEF Spec

\* The output thread never fills a buffer that the voice still has to play, as long
\* as the voice refuses no packet.
THEOREM SlotStaysFree == Spec => []SlotFree
<1>1. TypeOK /\ RingInv => SlotFree
  BY RingFree DEF SlotFree, RingInv
<1> QED BY <1>1, RingInvariant, TypeCorrect, PTL

----------------------------------------------------------------------------
(***************************************************************************)
(* What a step does to the audio on its way: nothing, or the decoder adds  *)
(* to its end, or the voice plays its head, or a seek leaves the packet    *)
(* held and the decoder's buffer, or the voice is destroyed; and where a   *)
(* packet was refused, anything.                                           *)
(***************************************************************************)

FlowKept ==
    /\ Flow' = Flow
    /\ UNCHANGED <<srcPos, epoch, heard, late, refused>>

FlowFilled ==
    /\ svc = "fill"
    /\ pBuffer' \in Seq(Sample)
    /\ Flow' = Flow \o pBuffer'
    /\ \A i \in 1 .. Len(pBuffer') : pBuffer'[i] = [ep |-> epoch, pos |-> srcPos + i - 1]
    /\ srcPos' = srcPos + Len(pBuffer')
    /\ UNCHANGED <<epoch, heard, late, refused>>

FlowPlayed ==
    /\ voiceOn
    /\ \E d \in Seq(Sample) :
         /\ Len(d) <= PacketSize
         /\ Flow = d \o Flow'
         /\ heard' = HeardAfter(d, epoch, heard)
         /\ d # <<>> => \E i \in DOMAIN queue : ~queue[i].eos
    /\ UNCHANGED <<srcPos, epoch, late, refused>>

FlowSought ==
    /\ ui = "seek"
    /\ Flow' = held \o pBuffer
    /\ epoch' = epoch + 1
    /\ heard' = srcPos'
    /\ late' = finished

FlowDropped ==
    /\ ui' = "gone"
    /\ \E d \in Seq(Sample) : Flow = d \o Flow'
    /\ UNCHANGED <<srcPos, epoch, heard, late, refused>>

FlowSpoilt ==
    /\ refused'
    /\ UNCHANGED <<srcPos, epoch, heard, late>>

LEMMA FlowNext ==
    Flow' = Way(queue', held', pipe', pBuffer')
  BY DEF Flow, Way, QueueAudio, Audio, Datas

LEMMA FlowSame ==
    UNCHANGED <<queue, held, pipe, pBuffer>> => Flow' = Flow
  BY DEF Flow, QueueAudio

LEMMA FlowService == TypeOK /\ EndInv /\ Service => FlowKept \/ FlowFilled
<1> SUFFICES ASSUME TypeOK, EndInv, Service PROVE FlowKept \/ FlowFilled
  OBVIOUS
<1>0. /\ queue \in Seq(Buffer) /\ held \in Seq(Sample) /\ pipe \in Seq(Sample)
      /\ pBuffer \in Seq(Sample) /\ epoch \in Nat /\ srcPos \in Nat
  BY DEF TypeOK
<1>1. CASE ServiceFill
  <2>1. PICK n \in DecodeSizes :
          /\ pBuffer' = [i \in 1 .. Decoded(n) |-> [ep |-> epoch, pos |-> srcPos + i - 1]]
          /\ srcPos' = srcPos + Decoded(n)
    BY <1>1 DEF ServiceFill
  <2>2. Decoded(n) \in Nat
    BY <1>1, MaxDecode DEF ServiceFill, Decoded, TypeOK
  <2>3. pBuffer' \in Seq(Sample)
    BY <1>0, <2>1, <2>2, DecodedIsSamples
  <2>4. /\ Len(pBuffer') = Decoded(n)
        /\ \A i \in 1 .. Len(pBuffer') : pBuffer'[i] = [ep |-> epoch, pos |-> srcPos + i - 1]
    BY <2>1, <2>2
  <2>5. /\ pBuffer = <<>> /\ svc = "fill"
        /\ UNCHANGED <<queue, held, pipe, epoch, heard, late, refused>>
    BY <1>1 DEF ServiceFill, EndInv, outVars, voiceVars
  <2>6. Flow' = Way(queue, held, pipe, pBuffer') /\ Flow = Way(queue, held, pipe, <<>>)
    BY <2>5, FlowNext, FlowIsWay
  <2>7. Flow' = Flow \o pBuffer'
    BY <1>0, <2>3, <2>6, WayFill
  <2> QED BY <2>1, <2>3, <2>4, <2>5, <2>7 DEF FlowFilled
<1>2. CASE ServiceWrite
  <2>1. /\ pipe' = pipe \o pBuffer /\ pBuffer' = <<>>
        /\ UNCHANGED <<queue, held, epoch, heard, srcPos, late, refused>>
    BY <1>2 DEF ServiceWrite, BufferTaken, sourceVars, outVars, voiceVars
  <2>2. Flow' = Way(queue, held, pipe \o pBuffer, <<>>)
    BY <2>1, FlowNext
  <2>3. Flow' = Flow
    BY <1>0, <2>2, WayWrite, FlowIsWay
  <2> QED BY <2>1, <2>3 DEF FlowKept
<1>3. CASE UNCHANGED <<queue, held, pipe, pBuffer, srcPos, epoch, heard, late, refused>>
  BY <1>3, FlowSame DEF FlowKept
<1>4. Service => \/ ServiceFill \/ ServiceWrite
                 \/ UNCHANGED <<queue, held, pipe, pBuffer, srcPos, epoch, heard, late, refused>>
  BY DEF Service, ServiceTop, ServiceEnd, ServiceRoom, sourceVars, outVars, voiceVars
<1> QED BY <1>1, <1>2, <1>3, <1>4

LEMMA FlowOutput == TypeOK /\ EndInv /\ RingInv /\ Output => FlowKept \/ FlowSpoilt
<1> SUFFICES ASSUME TypeOK, EndInv, RingInv, Output, ~FlowSpoilt PROVE FlowKept
  OBVIOUS
<1>0. /\ queue \in Seq(Buffer) /\ held \in Seq(Sample) /\ pipe \in Seq(Sample)
      /\ pBuffer \in Seq(Sample)
  BY DEF TypeOK
<1>1. CASE OutGetPacket
  <2>0. /\ held' = Packet /\ pipe' = Rest /\ held = <<>> /\ queue' = Overwritten(Packet)
        /\ UNCHANGED <<pBuffer, epoch, heard, srcPos, late, refused>>
    BY <1>1 DEF OutGetPacket, EndInv, sourceVars, svcVars
  <2>6. ~refused
    BY <2>0 DEF FlowSpoilt
  <2>1. /\ held' = Packet /\ pipe' = Rest /\ held = <<>>
        /\ UNCHANGED <<queue, pBuffer, epoch, heard, srcPos, late, refused>>
    BY <1>1, <2>0, <2>6, NothingOverwritten
  <2>2. Packet \in Seq(Sample) /\ Rest \in Seq(Sample) /\ Packet \o Rest = pipe
    BY PacketIsSamples, PacketRest
  <2>3. Way(queue, Packet, Rest, pBuffer) = Way(queue, <<>>, Packet \o Rest, pBuffer)
    BY ONLY <1>0, <2>2, WayTake, ZenonT(60)
  <2>4. Flow' = Way(queue, Packet, Rest, pBuffer) /\ Flow = Way(queue, <<>>, pipe, pBuffer)
    BY <2>1, FlowNext, FlowIsWay
  <2>5. Flow' = Flow
    BY ONLY <2>2, <2>3, <2>4
  <2> QED BY <2>1, <2>5 DEF FlowKept
<1>2. CASE OutSubmit
  <2> DEFINE b == [data |-> held, slot |-> slot, eos |-> FALSE]
  <2>1. b \in Buffer /\ b.data = held
    BY DEF Buffer, TypeOK
  <2>2. /\ queue' = Append(queue, b) /\ held' = <<>>
        /\ UNCHANGED <<pipe, pBuffer, epoch, heard, srcPos, late, refused>>
    BY <1>2 DEF OutSubmit, sourceVars, svcVars
  <2> HIDE DEF b
  <2>3. Flow' = Way(Append(queue, b), <<>>, pipe, pBuffer)
    BY <2>2, FlowNext
  <2>4. Flow' = Way(queue, held, pipe, pBuffer)
    BY <1>0, <2>1, <2>3, WaySubmit
  <2> QED BY <2>2, <2>4, FlowIsWay DEF FlowKept
<1>3. CASE OutSubmitEnd
  <2> DEFINE b == [data |-> <<>>, slot |-> slot, eos |-> TRUE]
  <2>1. b \in Buffer /\ b.data = <<>>
    BY DEF Buffer, TypeOK
  <2>2. /\ queue' = Append(queue, b) /\ held' = <<>> /\ held = <<>>
        /\ UNCHANGED <<pipe, pBuffer, epoch, heard, srcPos, late, refused>>
    BY <1>3 DEF OutSubmitEnd, EndInv, sourceVars, svcVars
  <2> HIDE DEF b
  <2>3. Flow' = Way(Append(queue, b), <<>>, pipe, pBuffer)
    BY <2>2, FlowNext
  <2>4. Flow' = Way(queue, held, pipe, pBuffer)
    BY <1>0, <2>1, <2>2, <2>3, WaySubmit
  <2> QED BY <2>2, <2>4, FlowIsWay DEF FlowKept
<1>4. CASE UNCHANGED <<queue, held, pipe, pBuffer, srcPos, epoch, heard, late, refused>>
  BY <1>4, FlowSame DEF FlowKept
<1>5. Output => \/ OutGetPacket \/ OutSubmit \/ OutRefused \/ OutSubmitEnd
                \/ UNCHANGED <<queue, held, pipe, pBuffer, srcPos, epoch, heard, late, refused>>
  BY DEF Output, OutExit, OutGetEnd, OutNotifyEnd, OutEndRefused, sourceVars, svcVars,
         outVars, voiceVars
<1>6. ~OutRefused
  BY DEF OutRefused, FlowSpoilt, sourceVars
<1> QED BY <1>1, <1>2, <1>3, <1>4, <1>5, <1>6

LEMMA FlowEngine == TypeOK /\ SizeInv /\ Engine => FlowPlayed
<1> SUFFICES ASSUME TypeOK, SizeInv, Engine PROVE FlowPlayed
  OBVIOUS
<1>0. /\ queue \in Seq(Buffer) /\ held \in Seq(Sample) /\ pipe \in Seq(Sample)
      /\ pBuffer \in Seq(Sample)
  BY DEF TypeOK
<1> DEFINE d == Head(queue).data
<1>1. /\ queue # <<>> /\ queue' = Tail(queue) /\ voiceOn
      /\ UNCHANGED <<held, pipe, pBuffer, srcPos, epoch, late, refused>>
  BY DEF Engine, EnginePlay, EngineStreamEnd, sourceVars, svcVars, outVars
<1>2. /\ 1 \in DOMAIN queue /\ Head(queue) = queue[1]
  BY <1>1, QueueTail
<1>3. d \in Seq(Sample)
  <2>1. Head(queue) \in Buffer
    BY <1>0, <1>1, HeadTailProperties
  <2> QED BY <2>1 DEF Buffer
<1>4. Len(d) <= PacketSize
  BY <1>2 DEF SizeInv
<1>5. Flow = d \o Flow'
  <2>1. Flow = d \o Way(Tail(queue), held, pipe, pBuffer)
    BY <1>0, <1>1, WayTail, FlowIsWay
  <2> QED BY <1>1, <2>1, FlowNext
<1>6. heard' = HeardAfter(d, epoch, heard) /\ (d # <<>> => ~queue[1].eos)
  <2>1. CASE EnginePlay
    BY <1>2, <2>1 DEF EnginePlay, HeardAfter
  <2>2. CASE EngineStreamEnd
    <3>1. d = <<>> /\ heard' = heard
      BY <1>2, <2>2 DEF EngineStreamEnd, SizeInv
    <3> QED BY <3>1 DEF HeardAfter
  <2> QED BY <2>1, <2>2 DEF Engine
<1> HIDE DEF d
<1> QED BY <1>1, <1>2, <1>3, <1>4, <1>5, <1>6 DEF FlowPlayed

LEMMA FlowUI == TypeOK /\ UI => FlowKept \/ FlowSought \/ FlowDropped
<1> SUFFICES ASSUME TypeOK, UI PROVE FlowKept \/ FlowSought \/ FlowDropped
  OBVIOUS
<1>0. /\ queue \in Seq(Buffer) /\ held \in Seq(Sample) /\ pipe \in Seq(Sample)
      /\ pBuffer \in Seq(Sample)
  BY DEF TypeOK
<1>1. CASE SeekDone
  <2>1. /\ queue' = <<>> /\ pipe' = <<>> /\ held' = held /\ pBuffer' = pBuffer
        /\ ui = "seek" /\ epoch' = epoch + 1 /\ heard' = srcPos' /\ late' = finished
    BY <1>1 DEF SeekDone, PipeAfterSeek, svcVars, outVars
  <2>2. Flow' = held \o pBuffer
    BY <1>0, <2>1, FlowNext, WaySeek
  <2> QED BY <2>1, <2>2 DEF FlowSought
<1>2. CASE DestroyEnd
  <2>1. /\ queue' = <<>> /\ ui' = "gone"
        /\ UNCHANGED <<held, pipe, pBuffer, srcPos, epoch, heard, late, refused>>
    BY <1>2 DEF DestroyEnd, sourceVars, svcVars, outVars
  <2>2. Flow' = Way(<<>>, held, pipe, pBuffer)
    BY <2>1, FlowNext
  <2> DEFINE a == Audio(queue)
             h == held
             p == pipe
             b == pBuffer
  <2>3. a \in Seq(Sample) /\ h \in Seq(Sample) /\ p \in Seq(Sample) /\ b \in Seq(Sample)
    BY <1>0, AudioType
  <2>4. Flow = ((a \o h) \o p) \o b
    BY FlowIsWay DEF Way
  <2>5. Flow' = (h \o p) \o b
    <3>1. <<>> \o h = h
      BY <2>3, ConcatEmptySeq
    <3> QED BY <2>2, <3>1, AudioEmpty DEF Way
  <2> HIDE DEF a, h, p, b
  <2>6. Flow = a \o Flow'
    <3>1. h \o p \in Seq(Sample)
      BY ONLY <2>3, ConcatProperties
    <3>2. a \o (h \o p) = (a \o h) \o p
      <4>1. a \in Seq(Sample) /\ h \in Seq(Sample) /\ p \in Seq(Sample)
        BY <2>3
      <4> QED BY ONLY <4>1, ConcatRegroup, SMTT(30)
    <3>3. a \o ((h \o p) \o b) = (a \o (h \o p)) \o b
      BY ONLY <2>3, <3>1, ConcatRegroup, SMTT(30)
    <3> QED BY ONLY <2>4, <2>5, <3>2, <3>3
  <2> QED BY <2>1, <2>3, <2>6 DEF FlowDropped
<1>3. CASE UNCHANGED <<queue, held, pipe, pBuffer, srcPos, epoch, heard, late, refused>>
  BY <1>3, FlowSame DEF FlowKept
<1>4. UI => \/ SeekDone \/ DestroyEnd
            \/ UNCHANGED <<queue, held, pipe, pBuffer, srcPos, epoch, heard, late, refused>>
  BY DEF UI, UIContinue, Configure, SeekRefused, DestroyStop, DestroyTerminate,
         DestroyFree, Start, Stop, SeekBegin, DestroyBegin, Gone, vars, sourceVars, svcVars,
         outVars, voiceVars
<1> QED BY <1>1, <1>2, <1>3, <1>4

\* Every step does one of the six.
LEMMA FlowStep ==
    TypeOK /\ EndInv /\ SizeInv /\ RingInv /\ [Next]_vars =>
        \/ FlowKept \/ FlowFilled \/ FlowPlayed \/ FlowSought \/ FlowDropped
        \/ FlowSpoilt
<1>1. UNCHANGED vars => FlowKept
  BY FlowSame DEF vars, FlowKept
<1>2. BoxClosed => FlowKept
  BY FlowSame DEF BoxClosed, FlowKept, sourceVars, svcVars, voiceVars
<1> QED BY <1>1, <1>2, FlowService, FlowOutput, FlowEngine, FlowUI DEF Next

\* No audio that is held back comes from a seek still to be made.
NoneAhead(s) == \A i \in 1 .. Len(s) : s[i].ep <= epoch
AgeInv == NoneAhead(held) /\ NoneAhead(pipe) /\ NoneAhead(pBuffer)

LEMMA AgeStep == TypeOK /\ AgeInv /\ [Next]_vars => AgeInv'
<1> SUFFICES ASSUME TypeOK, AgeInv, [Next]_vars PROVE AgeInv'
  OBVIOUS
<1>0. /\ held \in Seq(Sample) /\ pipe \in Seq(Sample) /\ pBuffer \in Seq(Sample)
      /\ epoch \in Nat /\ srcPos \in Nat /\ PacketSize \in Nat \ {0}
  BY SizesAssumption DEF TypeOK, SizesAssumption
<1>e. \A i \in 1 .. Len(<<>>) : <<>>[i].ep <= epoch
  OBVIOUS
<1>1. CASE ServiceFill
  <2>1. PICK n \in DecodeSizes :
          pBuffer' = [i \in 1 .. Decoded(n) |-> [ep |-> epoch, pos |-> srcPos + i - 1]]
    BY <1>1 DEF ServiceFill
  <2>2. Decoded(n) \in Nat
    BY <1>1, MaxDecode DEF ServiceFill, Decoded, TypeOK
  <2>3. \A i \in 1 .. Len(pBuffer') : pBuffer'[i].ep = epoch
    BY <2>1, <2>2
  <2>4. UNCHANGED <<held, pipe, epoch>>
    BY <1>1 DEF ServiceFill, outVars
  <2>5. \A i \in 1 .. Len(pBuffer') : pBuffer'[i].ep <= epoch
    BY <1>0, <2>3
  <2> QED BY <2>4, <2>5 DEF AgeInv, NoneAhead
<1>2. CASE ServiceWrite
  <2>1. /\ pipe' = pipe \o pBuffer /\ pBuffer' = <<>> /\ UNCHANGED <<held, epoch>>
    BY <1>2 DEF ServiceWrite, BufferTaken, sourceVars, outVars
  <2>2. /\ Len(pipe') = Len(pipe) + Len(pBuffer) /\ Len(pipe) \in Nat /\ Len(pBuffer) \in Nat
        /\ \A i \in 1 .. Len(pipe) : pipe'[i] = pipe[i]
        /\ \A i \in 1 .. Len(pBuffer) : pipe'[Len(pipe) + i] = pBuffer[i]
    BY <1>0, <2>1, ConcatProperties
  <2>3. ASSUME NEW i \in 1 .. Len(pipe') PROVE pipe'[i].ep <= epoch
    <3>1. CASE i <= Len(pipe)
      BY <2>2, <3>1 DEF AgeInv, NoneAhead
    <3>2. CASE i > Len(pipe)
      <4>1. i - Len(pipe) \in 1 .. Len(pBuffer) /\ Len(pipe) + (i - Len(pipe)) = i
        BY <2>2, <3>2
      <4>2. pipe'[i] = pBuffer[i - Len(pipe)]
        BY <2>2, <4>1
      <4> QED BY <4>1, <4>2 DEF AgeInv, NoneAhead
    <3> QED BY <2>2, <3>1, <3>2
  <2> QED BY <1>e, <2>1, <2>3 DEF AgeInv, NoneAhead
<1>3. CASE OutGetPacket
  <2>1. held' = Packet /\ pipe' = Rest /\ UNCHANGED <<pBuffer, epoch>>
    BY <1>3 DEF OutGetPacket, sourceVars, svcVars
  <2>2. /\ Packet \in Seq(Sample) /\ Rest \in Seq(Sample) /\ pipe = Packet \o Rest
    BY PacketIsSamples, PacketRest
  <2>3. /\ Len(pipe) = Len(Packet) + Len(Rest) /\ Len(Packet) \in Nat /\ Len(Rest) \in Nat
        /\ \A i \in 1 .. Len(Packet) : pipe[i] = Packet[i]
        /\ \A i \in 1 .. Len(Rest) : pipe[Len(Packet) + i] = Rest[i]
    BY <2>2, ConcatProperties
  <2>4. ASSUME NEW i \in 1 .. Len(Packet) PROVE Packet[i].ep <= epoch
    BY <2>3 DEF AgeInv, NoneAhead
  <2>5. ASSUME NEW i \in 1 .. Len(Rest) PROVE Rest[i].ep <= epoch
    <3>1. Len(Packet) + i \in 1 .. Len(pipe)
      BY <2>3
    <3>2. pipe[Len(Packet) + i].ep <= epoch
      BY <3>1 DEF AgeInv, NoneAhead
    <3> QED BY <2>3, <3>2
  <2> QED BY <2>1, <2>4, <2>5 DEF AgeInv, NoneAhead
<1>4. CASE OutSubmit \/ OutRefused
  <2>1. held' = <<>> /\ UNCHANGED <<pipe, pBuffer, epoch>>
    BY <1>4 DEF OutSubmit, OutRefused, sourceVars, svcVars
  <2> QED BY <1>e, <2>1 DEF AgeInv, NoneAhead
<1>5. CASE SeekDone
  <2>1. pipe' = <<>> /\ epoch' = epoch + 1 /\ UNCHANGED <<held, pBuffer>>
    BY <1>5 DEF SeekDone, PipeAfterSeek, svcVars, outVars
  <2>2. ASSUME NEW s \in Seq(Sample), NEW i \in 1 .. Len(s), s[i].ep <= epoch
        PROVE  s[i].ep <= epoch + 1
    <3>1. s[i] \in Sample
      OBVIOUS
    <3>2. s[i].ep \in Nat
      BY <3>1 DEF Sample
    <3> QED BY <1>0, <2>2, <3>2
  <2>3. \A i \in 1 .. Len(<<>>) : <<>>[i].ep <= epoch + 1
    OBVIOUS
  <2> QED BY <1>0, <2>1, <2>2, <2>3 DEF AgeInv, NoneAhead
<1>6. CASE UNCHANGED <<held, pipe, pBuffer, epoch>>
  BY <1>6 DEF AgeInv, NoneAhead
<1>7. Service => ServiceFill \/ ServiceWrite \/ UNCHANGED <<held, pipe, pBuffer, epoch>>
  BY DEF Service, ServiceTop, ServiceEnd, ServiceRoom, sourceVars, outVars
<1>8. Output \/ BoxClosed => \/ OutGetPacket \/ OutSubmit \/ OutRefused
                             \/ UNCHANGED <<held, pipe, pBuffer, epoch>>
  BY DEF Output, OutExit, OutGetEnd, OutNotifyEnd, OutSubmitEnd, OutEndRefused, BoxClosed,
         sourceVars, svcVars, outVars
<1>9. Engine => UNCHANGED <<held, pipe, pBuffer, epoch>>
  BY DEF Engine, EnginePlay, EngineStreamEnd, sourceVars, svcVars, outVars
<1>10. UI \/ UNCHANGED vars => SeekDone \/ UNCHANGED <<held, pipe, pBuffer, epoch>>
  BY DEF UI, UIContinue, Configure, SeekRefused, DestroyStop, DestroyTerminate,
         DestroyFree, DestroyEnd, Start, Stop, SeekBegin, DestroyBegin, Gone, vars,
         sourceVars, svcVars, outVars
<1> QED BY <1>1, <1>2, <1>3, <1>4, <1>5, <1>6, <1>7, <1>8, <1>9, <1>10 DEF Next

LEMMA AgeInvariant == Spec => []AgeInv
<1>1. Init => AgeInv
  BY DEF Init, AgeInv, NoneAhead
<1> QED BY <1>1, AgeStep, TypeCorrect, PTL DEF Spec

----------------------------------------------------------------------------
(***************************************************************************)
(* No audio is lost, doubled or reordered, and little of it is stale.      *)
(***************************************************************************)

LEMMA GoneForGood == [Next]_vars /\ ui = "gone" => ui' = "gone"
  BY DEF Next, Service, ServiceTop, ServiceFill, ServiceEnd, ServiceRoom, ServiceWrite,
         Output, OutExit, OutGetPacket, OutGetEnd, OutNotifyEnd, OutSubmit, OutRefused,
         OutSubmitEnd, OutEndRefused, BoxClosed, Engine, EnginePlay, EngineStreamEnd, UI,
         UIContinue, Configure, SeekDone, SeekRefused, DestroyStop, DestroyTerminate,
         DestroyFree, DestroyEnd, Start, Stop, SeekBegin, DestroyBegin, Gone, vars, uiVars

LEMMA FlowType == TypeOK => Flow \in Seq(Sample)
  BY WayType, FlowIsWay DEF TypeOK

LEMMA IntactInit == Init => AudioIntact
<1> SUFFICES ASSUME Init PROVE AudioIntact
  OBVIOUS
<1>1. queue = <<>> /\ held = <<>> /\ pipe = <<>> /\ pBuffer = <<>>
      /\ srcPos = 0 /\ epoch = 0 /\ heard = 0
  BY DEF Init
<1>2. <<>> \in Seq(Sample)
  OBVIOUS
<1>3. <<>> \o <<>> = <<>>
  BY <1>2, ConcatEmptySeq
<1>4. Flow = <<>>
  BY <1>1, <1>2, <1>3, WaySeek, FlowIsWay
<1>5. InOrder(<<>>, 0, 0, 0)
  <2>1. \A i \in 1 .. Len(<<>>) : <<>>[i].ep < 0
    OBVIOUS
  <2> QED BY <1>2, <2>1, OrderSeek
<1> QED BY <1>1, <1>4, <1>5 DEF AudioIntact

LEMMA IntactStep ==
    /\ TypeOK /\ TypeOK' /\ EndInv /\ SizeInv /\ RingInv /\ AgeInv /\ AudioIntact
    /\ [Next]_vars
    => AudioIntact'
<1> SUFFICES ASSUME TypeOK, TypeOK', EndInv, SizeInv, RingInv, AgeInv, AudioIntact,
                    [Next]_vars, ui' # "gone", ~refused'
             PROVE  InOrder(Flow', epoch', heard', srcPos')
  BY DEF AudioIntact
<1>0. /\ Flow \in Seq(Sample) /\ Flow' \in Seq(Sample)
      /\ epoch \in Nat /\ heard \in Nat /\ srcPos \in Nat
      /\ held \in Seq(Sample) /\ pBuffer \in Seq(Sample) /\ pipe \in Seq(Sample)
      /\ queue \in Seq(Buffer) /\ srcPos' \in Nat
  BY FlowType, FlowNext, WayType DEF TypeOK
<1>1. refused' = refused => InOrder(Flow, epoch, heard, srcPos)
  BY GoneForGood DEF AudioIntact
<1>2. CASE FlowKept
  BY <1>1, <1>2 DEF FlowKept
<1>3. CASE FlowFilled
  BY <1>0, <1>1, <1>3, OrderAppend DEF FlowFilled
<1>4. CASE FlowPlayed
  BY <1>0, <1>1, <1>4, OrderTail DEF FlowPlayed
<1>5. CASE FlowSought
  <2> DEFINE f == held \o pBuffer
  <2>1. /\ f \in Seq(Sample) /\ Len(f) = Len(held) + Len(pBuffer)
        /\ Len(held) \in Nat /\ Len(pBuffer) \in Nat
        /\ \A i \in 1 .. Len(held) : f[i] = held[i]
        /\ \A i \in 1 .. Len(pBuffer) : f[Len(held) + i] = pBuffer[i]
    BY <1>0, ConcatProperties
  <2> HIDE DEF f
  <2>2. ASSUME NEW i \in 1 .. Len(f) PROVE f[i].ep <= epoch
    <3>1. CASE i <= Len(held)
      BY <2>1, <3>1 DEF AgeInv, NoneAhead
    <3>2. CASE i > Len(held)
      <4>1. i - Len(held) \in 1 .. Len(pBuffer) /\ Len(held) + (i - Len(held)) = i
        BY <2>1, <3>2
      <4>2. f[i] = pBuffer[i - Len(held)]
        BY <2>1, <4>1
      <4> QED BY <4>1, <4>2 DEF AgeInv, NoneAhead
    <3> QED BY <2>1, <3>1, <3>2
  <2>4. f \in Seq(Sample) /\ \A i \in 1 .. Len(f) : f[i].ep <= epoch
    BY <2>1, <2>2
  <2>5. epoch + 1 \in Nat /\ \A i \in 1 .. Len(f) : f[i].ep < epoch + 1
    <3>1. ASSUME NEW i \in 1 .. Len(f) PROVE f[i].ep < epoch + 1
      <4>1. f[i] \in Sample /\ f[i].ep <= epoch
        BY <2>4, ElementOfSeq
      <4>2. f[i].ep \in Nat
        BY <4>1 DEF Sample
      <4> QED BY <1>0, <4>1, <4>2
    <3> QED BY <1>0, <3>1
  <2>6. InOrder(f, epoch + 1, srcPos', srcPos')
    BY <1>0, <2>4, <2>5, OrderSeek
  <2> QED BY <1>5, <2>6 DEF FlowSought, f
<1>6. CASE FlowDropped
  BY <1>6 DEF FlowDropped
<1>7. ~FlowSpoilt
  BY DEF FlowSpoilt
<1> QED BY <1>2, <1>3, <1>4, <1>5, <1>6, <1>7, FlowStep

\* Whatever the threads, the engine and the seeks do, between the decoder and the
\* loudspeaker no audio is lost, doubled or reordered, as long as the voice refuses
\* no packet.
THEOREM AudioStaysIntact == Spec => []AudioIntact
  BY IntactInit, IntactStep, TypeCorrect, EndInvariant, SizeInvariant, RingInvariant,
     AgeInvariant, PTL DEF Spec

LEMMA StaleStep ==
    TypeOK /\ TypeOK' /\ EndInv /\ SizeInv /\ RingInv /\ StaleBounded /\ [Next]_vars
        => StaleBounded'
<1> SUFFICES ASSUME TypeOK, TypeOK', EndInv, SizeInv, RingInv, StaleBounded, [Next]_vars,
                    ~refused'
             PROVE  StaleBounded'
  BY DEF StaleBounded
<1> DEFINE most == PacketSize + Max(DecodeSizes)
<1>0. /\ Flow \in Seq(Sample) /\ Flow' \in Seq(Sample)
      /\ epoch \in Nat /\ PacketSize \in Nat /\ Max(DecodeSizes) \in Nat
      /\ held \in Seq(Sample) /\ pBuffer \in Seq(Sample)
  BY FlowType, FlowNext, WayType, MaxDecode, SizesAssumption DEF TypeOK, SizesAssumption
<1>1. refused' = refused => \A i \in 1 .. Len(Flow) : Flow[i].ep < epoch => i <= most
  BY <1>0 DEF StaleBounded
<1> HIDE DEF most
<1>2. SUFFICES ASSUME NEW i \in 1 .. Len(Flow'), Flow'[i].ep < epoch'
               PROVE  i <= most
  BY <1>0 DEF StaleBounded, most
<1>3. CASE FlowKept
  BY <1>1, <1>2, <1>3 DEF FlowKept
<1>4. CASE FlowFilled
  <2> DEFINE b == pBuffer'
  <2>1. /\ b \in Seq(Sample) /\ Flow' = Flow \o b /\ epoch' = epoch /\ refused' = refused
        /\ \A j \in 1 .. Len(b) : b[j] = [ep |-> epoch, pos |-> srcPos + j - 1]
    BY <1>4 DEF FlowFilled
  <2> HIDE DEF b
  <2>2. /\ Len(Flow') = Len(Flow) + Len(b) /\ Len(Flow) \in Nat /\ Len(b) \in Nat
        /\ \A j \in 1 .. Len(Flow) : Flow'[j] = Flow[j]
        /\ \A j \in 1 .. Len(b) : Flow'[Len(Flow) + j] = b[j]
    BY <1>0, <2>1, ConcatProperties
  <2>3. CASE i \in 1 .. Len(Flow)
    BY <1>1, <1>2, <2>1, <2>2, <2>3
  <2>4. CASE i \notin 1 .. Len(Flow)
    <3>1. i - Len(Flow) \in 1 .. Len(b) /\ Len(Flow) + (i - Len(Flow)) = i
      BY <2>2, <2>4
    <3>2. Flow'[i] = b[i - Len(Flow)]
      BY <2>2, <3>1
    <3>3. b[i - Len(Flow)] = [ep |-> epoch, pos |-> srcPos + (i - Len(Flow)) - 1]
      BY <2>1, <3>1
    <3>4. Flow'[i].ep = epoch
      BY <3>2, <3>3
    <3> QED BY <1>0, <1>2, <2>1, <3>4
  <2> QED BY <2>3, <2>4
<1>5. CASE FlowPlayed \/ FlowDropped
  <2>1. epoch' = epoch /\ refused' = refused
    BY <1>5 DEF FlowPlayed, FlowDropped
  <2>2. PICK d \in Seq(Sample) : Flow = d \o Flow'
    BY <1>5 DEF FlowPlayed, FlowDropped
  <2>3. /\ Len(Flow) = Len(d) + Len(Flow') /\ Len(d) \in Nat
        /\ \A j \in 1 .. Len(Flow') : Flow[Len(d) + j] = Flow'[j]
    BY <1>0, <2>2, ConcatProperties
  <2>4. Len(d) + i \in 1 .. Len(Flow) /\ Flow[Len(d) + i] = Flow'[i]
    BY <1>0, <2>3
  <2>5. Len(d) + i <= most
    BY <1>1, <1>2, <2>1, <2>4
  <2> QED BY <1>0, <2>3, <2>5 DEF most
<1>6. CASE FlowSought
  <2>1. Len(Flow') = Len(held) + Len(pBuffer)
    BY <1>0, <1>6, ConcatProperties DEF FlowSought
  <2>2. Len(held) <= PacketSize /\ Len(pBuffer) <= Max(DecodeSizes)
        /\ Len(held) \in Nat /\ Len(pBuffer) \in Nat
    BY <1>0 DEF SizeInv
  <2> QED BY <1>0, <2>1, <2>2 DEF most
<1>7. ~FlowSpoilt
  BY DEF FlowSpoilt
<1> QED BY <1>3, <1>4, <1>5, <1>6, <1>7, FlowStep

\* However the seeks and the threads interleave, never more than the packet held
\* and the decoder's buffer are heard from before a seek, as long as the voice
\* refuses no packet.
THEOREM StaleAudioBounded == Spec => []StaleBounded
<1>1. Init => StaleBounded
  <2> SUFFICES ASSUME Init PROVE StaleBounded
    OBVIOUS
  <2>1. TypeOK /\ epoch = 0 /\ Flow \in Seq(Sample)
    BY TypeInit, FlowType DEF Init
  <2>2. \A i \in DOMAIN Flow : Flow[i] \in Sample
    BY <2>1
  <2> QED BY <2>1, <2>2 DEF StaleBounded, Sample
<1> QED BY <1>1, StaleStep, TypeCorrect, EndInvariant, SizeInvariant, RingInvariant,
           PTL DEF Spec

----------------------------------------------------------------------------
(***************************************************************************)
(* The end is told when all has been heard.                                *)
(***************************************************************************)

\* The decoder is finished only at the end of the song; a seek after that is late.
SongDone == finished => srcPos >= song \/ late

LEMMA SongKept == [Next]_vars => song' = song /\ (ServiceEnd \/ finished' = finished)
  BY DEF Next, Service, ServiceTop, ServiceFill, ServiceEnd, ServiceRoom, ServiceWrite,
         Output, OutExit, OutGetPacket, OutGetEnd, OutNotifyEnd, OutSubmit, OutRefused,
         OutSubmitEnd, OutEndRefused, BoxClosed, Engine, EnginePlay, EngineStreamEnd, UI,
         UIContinue, Configure, SeekDone, SeekRefused, DestroyStop, DestroyTerminate,
         DestroyFree, DestroyEnd, Start, Stop, SeekBegin, DestroyBegin, Gone, vars,
         sourceVars

LEMMA SongStep ==
    TypeOK /\ EndInv /\ SizeInv /\ RingInv /\ SongDone /\ [Next]_vars => SongDone'
<1> SUFFICES ASSUME TypeOK, EndInv, SizeInv, RingInv, SongDone, [Next]_vars
             PROVE  SongDone'
  OBVIOUS
<1>1. song' = song
  BY SongKept
<1>2. CASE ServiceEnd
  BY <1>2 DEF ServiceEnd, SongDone, sourceVars
<1>3. CASE finished' = finished
  <2>1. CASE FlowKept \/ FlowPlayed \/ FlowDropped \/ FlowSpoilt
    BY <1>1, <1>3, <2>1 DEF FlowKept, FlowPlayed, FlowDropped, FlowSpoilt, SongDone
  <2>2. CASE FlowFilled
    BY <1>3, <2>2 DEF FlowFilled, EndInv, SongDone
  <2>3. CASE FlowSought
    BY <1>3, <2>3 DEF FlowSought, SongDone
  <2> QED BY <2>1, <2>2, <2>3, FlowStep
<1> QED BY <1>2, <1>3, SongKept

LEMMA SongInvariant == Spec => []SongDone
<1>1. Init => SongDone
  BY DEF Init, SongDone
<1> QED BY <1>1, SongStep, TypeCorrect, EndInvariant, SizeInvariant, RingInvariant,
           PTL DEF Spec

LEMMA HeardStep ==
    /\ TypeOK /\ EndInv /\ EndInv' /\ SizeInv /\ RingInv /\ SongDone' /\ AudioIntact
    /\ SafeTeardown /\ NoteInv /\ NoteInv' /\ EndAfterAllHeard /\ [Next]_vars
    => EndAfterAllHeard'
<1> SUFFICES ASSUME TypeOK, EndInv, EndInv', SizeInv, RingInv, SongDone', AudioIntact,
                    SafeTeardown, NoteInv, NoteInv', EndAfterAllHeard, [Next]_vars,
                    Ended', ~refused'
             PROVE  heard' = srcPos'
  BY DEF EndAfterAllHeard, SongDone, NoteInv, EndInv, EndInSight
<1>0. /\ srcPos \in Nat /\ epoch \in Nat /\ song \in Nat /\ heard \in Nat
      /\ queue \in Seq(Buffer)
  BY DEF TypeOK
<1>1. finishNotify' /\ (Ended <=> finishNotify)
  BY DEF NoteInv
<1>2. CASE finishNotify
  <2>1. /\ refused' = refused => heard = srcPos
        /\ svc = "dead" /\ \A i \in DOMAIN queue : queue[i].eos
    BY <1>1, <1>2 DEF EndAfterAllHeard, EndInv, EndInSight
  <2>3. CASE FlowKept \/ FlowDropped
    BY <2>1, <2>3 DEF FlowKept, FlowDropped
  <2>4. CASE FlowFilled
    BY <2>1, <2>4 DEF FlowFilled
  <2>5. CASE FlowPlayed
    <3>1. heard' = heard
      BY <2>1, <2>5 DEF FlowPlayed, HeardAfter
    <3> QED BY <2>1, <2>5, <3>1 DEF FlowPlayed
  <2>6. CASE FlowSought
    BY <2>6 DEF FlowSought
  <2>7. ~FlowSpoilt
    BY DEF FlowSpoilt
  <2> QED BY <2>3, <2>4, <2>5, <2>6, <2>7, FlowStep
<1>3. CASE ~finishNotify
  <2>1. OutNotifyEnd
    BY <1>1, <1>3
    DEF Next, Service, ServiceTop, ServiceFill, ServiceEnd, ServiceRoom, ServiceWrite,
        Output, OutExit, OutGetPacket, OutGetEnd, OutSubmit, OutRefused, OutSubmitEnd,
        OutEndRefused, BoxClosed, Engine, EnginePlay, EngineStreamEnd, UI, UIContinue,
        Configure, SeekDone, SeekRefused, DestroyStop, DestroyTerminate, DestroyFree,
        DestroyEnd, Start, Stop, SeekBegin, DestroyBegin, Gone, vars, noteVars
  <2>2. UNCHANGED <<srcPos, heard, refused>> /\ out = "loop" /\ pipe = <<>>
        /\ streamEnded /\ finished
    BY <2>1 DEF OutNotifyEnd, VoiceEnded, sourceVars, voiceVars
  <2>3. /\ held = <<>> /\ pBuffer = <<>> /\ \A i \in DOMAIN queue : queue[i].data = <<>>
    BY <2>2 DEF EndInv, SizeInv
  <2>4. Flow = <<>>
    <3>1. Audio(queue) = <<>>
      BY <1>0, <2>3, AudioNone
    <3>2. <<>> \in Seq(Sample)
      OBVIOUS
    <3>3. <<>> \o <<>> = <<>>
      BY <3>2, ConcatEmptySeq
    <3> QED BY <2>2, <2>3, <3>1, <3>3, FlowIsWay DEF Way
  <2>5. ui # "gone"
    BY <2>2 DEF SafeTeardown
  <2>6. heard = srcPos
    <3>1. InOrder(<<>>, epoch, heard, srcPos)
      BY <2>2, <2>4, <2>5 DEF AudioIntact
    <3>2. srcPos - heard \in 0 .. 0
      BY <3>1 DEF InOrder
    <3> QED BY <1>0, <3>2
  <2> QED BY <2>2, <2>6
<1> QED BY <1>2, <1>3

\* When the application is told of the end, the listener has heard all that was
\* decoded, unless a packet was refused, and that is all of the song from its start
\* or the last seek on, unless that seek came when the decoder had finished.
THEOREM EndMeansHeard == Spec => []EndAfterAllHeard
<1>1. Init => EndAfterAllHeard
  BY DEF Init, EndAfterAllHeard, Ended, Posted
<1> QED BY <1>1, HeardStep, TypeCorrect, EndInvariant, SizeInvariant, RingInvariant,
           SongInvariant, AudioStaysIntact, TeardownIsSafe, NoteInvariant, PTL DEF Spec

----------------------------------------------------------------------------
(***************************************************************************)
(* The stream implements Playback.  Playing a buffer is Hear, or nothing   *)
(* when all of it is stale; a seek is Jump, starting and stopping are      *)
(* SetPlaying, the notification of the end is End and the destruction of   *)
(* the voice Close; a packet refused is Refuse.  Every other step is       *)
(* invisible.                                                              *)
(***************************************************************************)

\* The voice is started when the stream plays, and a seek goes where it was asked.
CallInv ==
    /\ voiceOn <=> playState = "PLAYING"
    /\ ui = "seek" => target \in SeekPoints

LEMMA CallInvariant == Spec => []CallInv
<1>1. Init => CallInv
  BY DEF Init, CallInv
<1>2. CallInv /\ [Next]_vars => CallInv'
  <2> SUFFICES ASSUME CallInv, [Next]_vars PROVE CallInv'
    OBVIOUS
  <2> USE DEF CallInv
  <2>1. CASE UNCHANGED <<voiceOn, playState, ui, target>>
    BY <2>1
  <2>2. Service \/ Output \/ BoxClosed => UNCHANGED <<voiceOn, playState, ui, target>>
    BY DEF Service, ServiceTop, ServiceFill, ServiceEnd, ServiceRoom, ServiceWrite,
           Output, OutExit, OutGetPacket, OutGetEnd, OutNotifyEnd, OutSubmit, OutRefused,
           OutSubmitEnd, OutEndRefused, BoxClosed, voiceVars, uiVars
  <2>3. Engine => UNCHANGED <<voiceOn, playState, ui, target>>
    BY DEF Engine, EnginePlay, EngineStreamEnd, uiVars
  <2>4. CASE SeekDone \/ SeekRefused
    BY <2>4 DEF SeekDone, SeekRefused
  <2>6. CASE Start \/ Stop \/ DestroyStop
    BY <2>6 DEF Start, Stop, DestroyStop
  <2>7. CASE SeekBegin
    BY <2>7 DEF SeekBegin, voiceVars
  <2>8. CASE \/ Configure \/ DestroyBegin \/ DestroyTerminate \/ DestroyFree
             \/ DestroyEnd \/ Gone
    BY <2>8 DEF Configure, DestroyBegin, DestroyTerminate, DestroyFree, DestroyEnd, Gone,
                vars, voiceVars, uiVars
  <2>5. UNCHANGED vars => UNCHANGED <<voiceOn, playState, ui, target>>
    BY DEF vars
  <2> QED BY <2>1, <2>2, <2>3, <2>4, <2>5, <2>6, <2>7, <2>8 DEF Next, UI, UIContinue
<1> QED BY <1>1, <1>2, PTL DEF Spec

\* Nothing but a call and the end of the song changes what the application sees.
Unseen == UNCHANGED <<voiceOn, finishNotify, ui, refused>>

LEMMA PromiseEngine ==
    TypeOK /\ EndInv /\ SizeInv /\ AudioIntact /\ SafeTeardown /\ Engine
        => Promise!Hear \/ UNCHANGED Promise!playback
<1> SUFFICES ASSUME TypeOK, EndInv, SizeInv, AudioIntact, SafeTeardown, Engine
             PROVE  Promise!Hear \/ UNCHANGED Promise!playback
  OBVIOUS
<1>1. Unseen /\ voiceOn
  BY DEF Engine, EnginePlay, EngineStreamEnd, Unseen, noteVars, uiVars
<1>2. ui # "gone"
  BY <1>1 DEF SafeTeardown
<1>3. FlowPlayed
  BY FlowEngine
<1>4. PICK d \in Seq(Sample) :
        /\ Len(d) <= PacketSize
        /\ Flow = d \o Flow'
        /\ heard' = HeardAfter(d, epoch, heard)
        /\ d # <<>> => \E i \in DOMAIN queue : ~queue[i].eos
  BY <1>3 DEF FlowPlayed
<1>5. Flow' \in Seq(Sample) /\ epoch \in Nat /\ heard \in Nat /\ srcPos \in Nat
  <2>1. /\ queue' \in Seq(Buffer) /\ held' \in Seq(Sample) /\ pipe' \in Seq(Sample)
        /\ pBuffer' \in Seq(Sample)
    BY TypeEngine DEF TypeOK
  <2> QED BY <2>1, FlowNext, WayType DEF TypeOK
<1>6. ~refused => heard' \in heard .. heard + Len(d)
  <2> SUFFICES ASSUME ~refused PROVE heard' \in heard .. heard + Len(d)
    OBVIOUS
  <2>1. InOrder(d \o Flow', epoch, heard, srcPos)
    BY <1>2, <1>4 DEF AudioIntact
  <2> QED BY <1>4, <1>5, <2>1, OrderTail
<1>7. heard' \in Nat
  BY TypeEngine DEF TypeOK
<1>8. CASE heard' = heard
  BY <1>1, <1>8 DEF Unseen, Promise!playback
<1>9. CASE heard' # heard
  <2>1. ~refused => \E n \in 1 .. PacketSize : heard' = heard + n
    <3> SUFFICES ASSUME ~refused PROVE \E n \in 1 .. PacketSize : heard' = heard + n
      OBVIOUS
    <3> DEFINE n == heard' - heard
    <3>1. n \in 1 .. PacketSize /\ heard' = heard + n
      BY <1>4, <1>5, <1>6, <1>9, SizesAssumption DEF SizesAssumption
    <3> HIDE DEF n
    <3> QED BY <3>1
  <2>2. ~finishNotify
    <3>1. d # <<>>
      BY <1>4, <1>9 DEF HeardAfter
    <3> QED BY <1>4, <3>1 DEF EndInv
  <2>3. Promise!Hear
    BY <1>1, <1>2, <1>7, <2>1, <2>2 DEF Promise!Hear, Unseen
  <2> QED BY <2>3
<1> QED BY <1>8, <1>9

LEMMA PromiseStep ==
    /\ TypeOK /\ EndInv /\ SizeInv /\ AudioIntact /\ SafeTeardown /\ CallInv
    /\ [Next]_vars
    => [Promise!PlaybackNext]_(Promise!playback)
<1> SUFFICES ASSUME TypeOK, EndInv, SizeInv, AudioIntact, SafeTeardown, CallInv,
                    [Next]_vars
             PROVE  Promise!PlaybackNext \/ UNCHANGED Promise!playback
  OBVIOUS
<1>1. CASE Engine
  BY <1>1, PromiseEngine DEF Promise!PlaybackNext
<1>2. CASE Unseen /\ heard' = heard
  BY <1>2 DEF Unseen, Promise!playback
<1>3. CASE OutNotifyEnd
  BY <1>3 DEF OutNotifyEnd, EndUntold, SafeTeardown, voiceVars, uiVars,
              Promise!PlaybackNext, Promise!End
<1>13. CASE OutRefused
  <2>1. /\ ~finishNotify /\ ui # "gone"
        /\ refused' = TRUE /\ UNCHANGED <<heard, voiceOn, finishNotify, ui>>
    BY <1>13 DEF OutRefused, EndInv, EndInSight, SafeTeardown, noteVars, uiVars
  <2> QED BY <2>1 DEF Promise!PlaybackNext, Promise!Refuse
<1>4. CASE Start \/ Stop
  <2>1. /\ UNCHANGED <<heard, finishNotify, ui, refused>> /\ ui = "idle"
        /\ voiceOn' \in BOOLEAN
    BY <1>4 DEF Start, Stop, noteVars
  <2>2. CASE voiceOn' = voiceOn
    BY <2>1, <2>2 DEF Promise!playback
  <2>3. CASE voiceOn' = ~voiceOn
    BY <2>1, <2>3 DEF Promise!PlaybackNext, Promise!SetPlaying
  <2>4. voiceOn \in BOOLEAN
    BY DEF TypeOK
  <2>5. voiceOn' = voiceOn \/ voiceOn' = ~voiceOn
    BY <2>1, <2>4
  <2> QED BY <2>2, <2>3, <2>5
<1>5. CASE SeekDone
  <2>1. /\ ui = "seek" /\ ui' = "idle" /\ heard' \in SeekPoints
        /\ finishNotify' = finishNotify /\ refused' = FALSE
    BY <1>5 DEF SeekDone, CallInv, noteVars
  <2>2. voiceOn' = voiceOn
    BY <1>5 DEF SeekDone, CallInv, TypeOK
  <2> QED BY <2>1, <2>2 DEF Promise!PlaybackNext, Promise!Jump
<1>6. CASE SeekRefused
  <2>1. ui = "seek" /\ ui' = "idle" /\ UNCHANGED <<heard, finishNotify, refused>>
    BY <1>6 DEF SeekRefused, noteVars
  <2>2. voiceOn' = voiceOn
    BY <1>6 DEF SeekRefused, CallInv, TypeOK
  <2> QED BY <2>1, <2>2 DEF Promise!playback
<1>7. CASE DestroyStop
  <2>1. /\ ui = "joinSvc" /\ ui' = "joinOut" /\ voiceOn' = FALSE
        /\ UNCHANGED <<heard, finishNotify, refused>>
    BY <1>7 DEF DestroyStop, noteVars
  <2>2. CASE voiceOn = FALSE
    BY <2>1, <2>2 DEF Promise!playback
  <2>3. CASE voiceOn = TRUE
    BY <2>1, <2>3 DEF Promise!PlaybackNext, Promise!SetPlaying
  <2> QED BY <2>2, <2>3 DEF TypeOK
<1>8. CASE DestroyEnd
  BY <1>8 DEF DestroyEnd, SafeTeardown, noteVars, Promise!PlaybackNext, Promise!Close
<1>9. CASE Configure \/ SeekBegin \/ DestroyBegin \/ DestroyTerminate \/ DestroyFree
  <2>1. ui # "gone" /\ ui' # "gone" /\ UNCHANGED <<heard, finishNotify, voiceOn, refused>>
    BY <1>9 DEF Configure, SeekBegin, DestroyBegin, DestroyTerminate, DestroyFree,
                noteVars, voiceVars, uiVars
  <2> QED BY <2>1 DEF Promise!playback
<1>10. Service => Unseen /\ heard' = heard
  BY DEF Service, ServiceTop, ServiceFill, ServiceEnd, ServiceRoom, ServiceWrite,
         Unseen, noteVars, voiceVars, uiVars
<1>11. Output \/ BoxClosed => OutNotifyEnd \/ OutRefused \/ (Unseen /\ heard' = heard)
  BY DEF Output, OutExit, OutGetPacket, OutGetEnd, OutSubmit, OutSubmitEnd,
         OutEndRefused, BoxClosed, Unseen, noteVars, voiceVars, uiVars
<1>12. Gone \/ UNCHANGED vars => Unseen /\ heard' = heard
  BY DEF Gone, vars, Unseen
<1> QED BY <1>1, <1>2, <1>3, <1>4, <1>5, <1>6, <1>7, <1>8, <1>9, <1>10, <1>11, <1>12,
           <1>13 DEF Next, UI, UIContinue

\* The stream keeps the promise of Playback.
THEOREM StreamKeepsPromise == Spec => KeepsPromise
<1>1. Init => Promise!PlaybackInit
  BY DEF Init, Promise!PlaybackInit
<1> QED BY <1>1, PromiseStep, TypeCorrect, EndInvariant, SizeInvariant, AudioStaysIntact,
           TeardownIsSafe, CallInvariant, PTL DEF Spec, KeepsPromise, Promise!PlaybackSpec

----------------------------------------------------------------------------
(***************************************************************************)
(* Failures are explained.  The argument: the decoder is never further     *)
(* than what was played, what waits on the voice, the pipe and the         *)
(* decoder's buffer; and until the mix point is told, the buffers and one  *)
(* voice more end before the length does.  So the packet that empties the  *)
(* pipe at the end of a song that reaches the mix point tells it.  A       *)
(* packet refused counts as none of these.                                 *)
(***************************************************************************)

\* What a full voice holds.
FullVoice == MaxBuffers * PacketSize

\* The mix point will be reached and seen: no reason for a failure holds.
MixDue ==
    /\ length # UnknownLength /\ length < song + Crossfade
    /\ FullVoice <= Crossfade
    /\ FullVoice < song /\ 2 * MaxBuffers * PacketSize <= length
    /\ lastSeek + (MaxBuffers + 1) * PacketSize <= length
    /\ lastSeek < song

\* The packets played, on the voice or about to be, counted from the last seek.
Packets == Len(queue) + IF out = "submit" THEN 1 ELSE 0
Reach   == lastSeek + samplesOut + PacketSize * Packets

PaceInv ==
    /\ crossfade = IF ui = "setup" THEN 0 ELSE Crossfade
    /\ ui = "setup" => samplesOut = 0 /\ lastSeek = 0 /\ ~voiceOn
    /\ (ui # "gone" /\ ~refused /\ (finished => pipe # <<>>)) =>
         /\ srcPos <= Reach + Len(pipe) + Len(pBuffer)
         /\ MixDue /\ ~mixNotify => Reach + FullVoice <= length
    /\ (MixDue /\ ~refused /\ srcPos >= song /\ pipe = <<>> /\ pBuffer = <<>>) => mixNotify

\* A failure is told when everything has drained and no mix point was told.
FailInv ==
    "FAILED" \in Posted(sent) =>
        finished /\ pipe = <<>> /\ pBuffer = <<>> /\ ~mixNotify

\* Packets of one size: more of them reach further, one more by its size.
LEMMA PacketTimes ==
    ASSUME NEW p \in Nat, NEW a \in Nat, NEW b \in Nat, a <= b
    PROVE  /\ p * a \in Nat
           /\ p * (a + 1) = p * a + p
           /\ p * a <= p * b
<1>1. p * b = p * a + p * (b - a)
  OBVIOUS
<1>2. p * (b - a) \in Nat /\ p * a \in Nat
  OBVIOUS
<1>3. p * (a + 1) = p * a + p
  OBVIOUS
<1> QED BY <1>1, <1>2, <1>3

LEMMA VoiceSizes ==
    /\ FullVoice \in Nat /\ FullVoice = PacketSize * MaxBuffers
    /\ 2 * MaxBuffers * PacketSize = FullVoice + FullVoice
    /\ (MaxBuffers + 1) * PacketSize = FullVoice + PacketSize
<1> DEFINE p == PacketSize
           m == MaxBuffers
<1>1. p \in Nat /\ m \in Nat
  BY SizesAssumption DEF SizesAssumption
<1> HIDE DEF p, m
<1>2. /\ m * p \in Nat /\ m * p = p * m
      /\ 2 * m * p = m * p + m * p
      /\ (m + 1) * p = m * p + p
  BY <1>1
<1> QED BY <1>2 DEF FullVoice, p, m

\* The numbers PaceInv is about.
LEMMA PaceType ==
    ASSUME TypeOK
    PROVE  /\ Packets \in Nat /\ PacketSize \in Nat
           /\ lastSeek \in Nat /\ samplesOut \in Nat /\ Reach \in Nat
           /\ srcPos \in Nat /\ song \in Nat /\ Crossfade \in Nat /\ FullVoice \in Nat
           /\ Len(pipe) \in Nat /\ Len(pBuffer) \in Nat /\ Len(queue) \in Nat
<1>1. Packets \in Nat /\ PacketSize \in Nat
  BY SizesAssumption DEF SizesAssumption, TypeOK, Packets
<1>2. PacketSize * Packets \in Nat
  BY <1>1, PacketTimes
<1>3. lastSeek \in Nat /\ samplesOut \in Nat
  BY DEF TypeOK
<1>4. Reach \in Nat
  BY <1>2, <1>3 DEF Reach
<1> QED BY <1>1, <1>2, <1>3, <1>4, VoiceSizes, SizesAssumption DEF TypeOK, SizesAssumption

LEMMA PaceInit == Init => PaceInv
<1> SUFFICES ASSUME Init PROVE PaceInv
  OBVIOUS
<1>1. /\ song \in Nat /\ srcPos = 0 /\ lastSeek = 0 /\ samplesOut = 0 /\ crossfade = 0
      /\ Len(pipe) = 0 /\ Len(pBuffer) = 0 /\ Packets = 0 /\ ui = "setup" /\ ~voiceOn
  BY SizesAssumption DEF Init, SizesAssumption, Packets
<1>2. PacketSize * Packets = 0
  BY <1>1, SizesAssumption DEF SizesAssumption
<1>3. Reach = 0
  BY <1>1, <1>2 DEF Reach
<1>4. MixDue => 0 + FullVoice <= length
  <2>1. MixDue => length \in Nat
    BY SizesAssumption DEF MixDue, Init, SizesAssumption
  <2>2. MixDue => FullVoice + FullVoice <= length
    BY VoiceSizes DEF MixDue
  <2> QED BY <2>1, <2>2, VoiceSizes
<1>5. MixDue => srcPos < song
  BY <1>1, VoiceSizes DEF MixDue
<1>6. ~(MixDue /\ srcPos >= song)
  BY <1>1, <1>5
<1> QED BY <1>1, <1>3, <1>4, <1>6 DEF PaceInv

\* The decoder moves on with the buffer it fills; writing moves the buffer on.
LEMMA PaceService == TypeOK /\ EndInv /\ PaceInv /\ Service => PaceInv'
<1> SUFFICES ASSUME TypeOK, EndInv, PaceInv, Service PROVE PaceInv'
  OBVIOUS
<1> DEFINE kept == <<song, length, lastSeek, crossfade, samplesOut, voiceOn, mixNotify,
                     ui, queue, out, refused>>
<1>1. UNCHANGED kept
  BY DEF Service, ServiceTop, ServiceFill, ServiceEnd, ServiceRoom, ServiceWrite,
         sourceVars, noteVars, outVars, voiceVars, uiVars
<1>2. MixDue' = MixDue /\ Packets' = Packets /\ Reach' = Reach
  BY <1>1 DEF MixDue, Packets, Reach
<1>3. CASE UNCHANGED <<srcPos, pipe, pBuffer>> /\ (finished => finished')
  <2>1. (finished' => pipe' # <<>>) => (finished => pipe # <<>>)
    BY <1>3
  <2> QED BY <1>1, <1>2, <1>3, <2>1 DEF PaceInv
<1>4. CASE ServiceFill
  <2>1. PICK n \in DecodeSizes :
          /\ pBuffer' = [i \in 1 .. Decoded(n) |-> [ep |-> epoch, pos |-> srcPos + i - 1]]
          /\ srcPos' = srcPos + Decoded(n)
    BY <1>4 DEF ServiceFill
  <2> DEFINE k == Decoded(n)
  <2>2. n \in Nat \ {0} /\ srcPos \in Nat /\ song \in Nat /\ srcPos < song
    BY <1>4, SizesAssumption DEF SizesAssumption, TypeOK, ServiceFill
  <2>3. k \in Nat \ {0}
    BY <2>2 DEF Decoded
  <2> HIDE DEF k
  <2>4. pBuffer' = [i \in 1 .. k |-> [ep |-> epoch, pos |-> srcPos + i - 1]]
    BY <2>1 DEF k
  <2>5. Len(pBuffer') = k /\ pBuffer' # <<>>
    BY <2>3, <2>4
  <2>6. ~finished /\ Len(pBuffer) = 0 /\ pipe' = pipe
    BY <1>4 DEF ServiceFill, EndInv
  <2>7. srcPos' = srcPos + k
    BY <2>1 DEF k
  <2>8. ui # "gone" /\ ~refused => srcPos <= Reach + Len(pipe) + Len(pBuffer)
    BY <2>6 DEF PaceInv
  <2>9. ui # "gone" /\ ~refused => srcPos' <= Reach + Len(pipe') + Len(pBuffer')
    BY <2>2, <2>3, <2>5, <2>6, <2>7, <2>8, PaceType
  <2>10. (ui # "gone" /\ ~refused /\ MixDue /\ ~mixNotify) => Reach + FullVoice <= length
    BY <2>6 DEF PaceInv
  <2> QED BY <1>1, <1>2, <2>5, <2>9, <2>10 DEF PaceInv
<1>5. CASE ServiceWrite
  <2>1. pipe' = pipe \o pBuffer /\ pBuffer' = <<>> /\ srcPos' = srcPos
    BY <1>5 DEF ServiceWrite, BufferTaken, sourceVars
  <2>2. pipe \in Seq(Sample) /\ pBuffer \in Seq(Sample)
    BY DEF TypeOK
  <2>3. Len(pipe') = Len(pipe) + Len(pBuffer) /\ Len(pBuffer') = 0
    BY <2>1, <2>2, ConcatProperties
  <2>4. ~finished
    BY <1>5 DEF ServiceWrite, EndInv
  <2>5. pipe' = <<>> => pipe = <<>> /\ pBuffer = <<>>
    <3>1. ASSUME pipe' = <<>> PROVE Len(pipe) = 0 /\ Len(pBuffer) = 0
      BY <2>2, <2>3, <3>1
    <3> QED BY <2>2, <3>1
  <2>6. Reach + Len(pipe') + Len(pBuffer') = Reach + Len(pipe) + Len(pBuffer)
    BY <2>3, PaceType
  <2> QED BY <1>1, <1>2, <2>1, <2>4, <2>5, <2>6 DEF PaceInv
<1>6. ServiceTop \/ ServiceEnd \/ ServiceRoom =>
        UNCHANGED <<srcPos, pipe, pBuffer>> /\ (finished => finished')
  BY DEF ServiceTop, ServiceEnd, ServiceRoom, sourceVars, svcVars
<1> QED BY <1>3, <1>4, <1>5, <1>6 DEF Service

\* A mix point still ahead leaves a voice's worth before the length's end.
LEMMA RoomAhead ==
    ASSUME NEW b \in Nat, NEW r \in Int, NEW v \in Nat, NEW x \in Nat, NEW l \in Nat,
           NEW s \in Nat, l - b >= x, v <= x, r <= b, l < s + x
    PROVE  r + v <= l /\ b < s
  OBVIOUS

\* Before the first packet is played all that was taken fits in the voice.
LEMMA RoomAtStart ==
    ASSUME NEW r \in Nat, NEW v \in Nat, NEW l \in Nat, NEW s \in Nat,
           r <= v, v + v <= l, v < s
    PROVE  r + v <= l /\ 0 + v < s
  OBVIOUS

\* A packet taken before the mix point is told leaves room for it; one taken at
\* the mix point tells it.  Submitting only moves a packet.
LEMMA PaceGetPacket == TypeOK /\ EndInv /\ SafeTeardown /\ PaceInv /\ OutGetPacket => PaceInv'
<1> SUFFICES ASSUME TypeOK, EndInv, SafeTeardown, PaceInv, OutGetPacket PROVE PaceInv'
  OBVIOUS
<1>a. /\ out = "loop" /\ out' = "submit" /\ Len(queue) < MaxBuffers /\ pipe # <<>>
      /\ pipe' = Rest /\ mixNotify' = (mixNotify \/ (MixPoint /\ ~mixNotify))
      /\ UNCHANGED <<song, length, srcPos, pBuffer, lastSeek, crossfade, samplesOut,
                     voiceOn, ui, finished, refused>>
  BY DEF OutGetPacket, PacketReady, VoiceHasRoom, sourceVars, svcVars, uiVars
<1>b. CASE refused
  BY <1>a, <1>b DEF PaceInv
<1>c. SUFFICES ASSUME ~refused PROVE PaceInv'
  BY <1>b
<1>d. Len(queue') = Len(queue)
  BY OverwrittenType DEF OutGetPacket
<1>1. /\ out = "loop" /\ out' = "submit" /\ Len(queue) < MaxBuffers /\ pipe # <<>>
      /\ pipe' = Rest /\ mixNotify' = (mixNotify \/ (MixPoint /\ ~mixNotify))
      /\ Len(queue') = Len(queue)
      /\ UNCHANGED <<song, length, srcPos, pBuffer, lastSeek, crossfade, samplesOut,
                     voiceOn, ui, finished>>
  BY <1>a, <1>d
<1>2. ui # "gone"
  BY <1>1 DEF SafeTeardown
<1>3. /\ srcPos <= Reach + Len(pipe) + Len(pBuffer)
      /\ MixDue /\ ~mixNotify => Reach + FullVoice <= length
  BY <1>1, <1>2, <1>c DEF PaceInv
<1>4. Len(pipe) <= PacketSize + Len(Rest) /\ Len(Rest) \in Nat
  <2>1. Packet \o Rest = pipe /\ Len(Packet) <= PacketSize
    BY PacketRest
  <2>2. Packet \in Seq(Sample) /\ Rest \in Seq(Sample)
    BY PacketIsSamples
  <2>3. Len(Packet \o Rest) = Len(Packet) + Len(Rest) /\ Len(Packet) \in Nat
        /\ Len(Rest) \in Nat
    BY <2>2, ConcatProperties
  <2> QED BY <2>1, <2>3, PaceType
<1>5. /\ Packets = Len(queue) /\ Packets' = Packets + 1 /\ Packets + 1 <= MaxBuffers
      /\ MaxBuffers \in Nat
  BY <1>1, PaceType, SizesAssumption DEF Packets, SizesAssumption
<1> DEFINE past == lastSeek + samplesOut
<1>6. Reach' = Reach + PacketSize /\ Reach \in past .. Reach' /\ Reach' <= past + FullVoice
  <2>1. /\ PacketSize * (Packets + 1) = PacketSize * Packets + PacketSize
        /\ PacketSize * Packets \in Nat
    BY PaceType, PacketTimes
  <2>2. PacketSize * (Packets + 1) <= FullVoice /\ PacketSize * (Packets + 1) \in Nat
    <3> DEFINE n == Packets + 1
    <3>1. n \in Nat /\ n <= MaxBuffers /\ MaxBuffers \in Nat /\ PacketSize \in Nat
      BY <1>5, PaceType
    <3> HIDE DEF n
    <3>2. PacketSize * n \in Nat /\ PacketSize * n <= PacketSize * MaxBuffers
      BY <3>1, PacketTimes
    <3> QED BY <3>2, VoiceSizes DEF n
  <2>3. Reach = past + PacketSize * Packets
    BY DEF Reach
  <2>4. Reach' = past + PacketSize * (Packets + 1)
    BY <1>1, <1>5 DEF Reach
  <2> DEFINE x == PacketSize * Packets
             y == PacketSize * (Packets + 1)
  <2>6. lastSeek \in Nat /\ samplesOut \in Nat /\ PacketSize \in Nat
    BY PaceType
  <2>5. x \in Nat /\ PacketSize \in Nat /\ past \in Nat
    BY ONLY <2>1, <2>6
  <2> HIDE DEF past, x, y
  <2> QED BY <2>1, <2>2, <2>3, <2>4, <2>5, VoiceSizes DEF x, y
<1>7. MixDue' = MixDue
  BY <1>1 DEF MixDue
<1>8. MixDue => /\ length \in Nat /\ length < song + Crossfade /\ FullVoice <= Crossfade
                /\ FullVoice < song /\ FullVoice + FullVoice <= length
  BY VoiceSizes DEF MixDue, TypeOK
<1>9. past \in Nat /\ (ui = "setup" => past = 0) /\ (ui # "setup" => crossfade = Crossfade)
  BY PaceType DEF PaceInv
<1>10. BufferedPosition = past + FullVoice
  BY PaceType DEF BufferedPosition, FullVoice
<1> HIDE DEF past
<1>11. ASSUME MixDue, ~mixNotify'
       PROVE  /\ Reach' + FullVoice <= length
              /\ past + FullVoice < song
  <2>1. ~mixNotify /\ ~MixPoint
    BY <1>1, <1>11
  <2>2. Reach + FullVoice <= length
    BY <1>3, <1>11, <2>1
  <2>3. past + FullVoice <= length
    <3>1. past <= Reach /\ past \in Nat /\ Reach \in Nat /\ FullVoice \in Nat /\ length \in Nat
      BY <1>6, <1>8, <1>9, <1>11, PaceType
    <3> QED BY <2>2, <3>1
  <2>4. CASE ui = "setup"
    <3>1. past = 0 /\ Reach' <= FullVoice
      BY <1>6, <1>9, <2>4, PaceType
    <3>2. /\ Reach' \in Nat /\ FullVoice \in Nat /\ song \in Nat /\ length \in Nat
          /\ FullVoice + FullVoice <= length /\ FullVoice < song
      BY <1>6, <1>8, <1>11, PaceType
    <3>3. Reach' + FullVoice <= length /\ 0 + FullVoice < song
      BY ONLY <3>1, <3>2, RoomAtStart
    <3> QED BY ONLY <3>1, <3>3
  <2>5. CASE ui # "setup"
    <3> DEFINE b == past + FullVoice
    <3>1. BufferedPosition = b /\ b \in Nat /\ b <= length /\ crossfade = Crossfade
          /\ length \in Nat /\ Crossfade \in Nat /\ length # UnknownLength
      <4>1. length # UnknownLength
        BY <1>11 DEF MixDue
      <4>2. length \in Nat /\ Crossfade \in Nat /\ FullVoice \in Nat
        BY <1>8, <1>11, PaceType
      <4>3. crossfade = Crossfade /\ past \in Nat /\ BufferedPosition = b
        BY <1>9, <1>10, <2>5
      <4> QED BY <2>3, <4>1, <4>2, <4>3
    <3> HIDE DEF b
    <3>2. ~(length - b < Crossfade)
      BY <2>1, <3>1 DEF MixPoint
    <3>3. length - b >= Crossfade
      BY <3>1, <3>2
    <3>4. /\ FullVoice <= Crossfade /\ length < song + Crossfade
          /\ Reach' <= b /\ Reach' \in Int /\ FullVoice \in Nat /\ song \in Nat
      BY <1>6, <1>8, <1>11, PaceType DEF b
    <3>5. Reach' + FullVoice <= length
      BY <3>1, <3>3, <3>4, RoomAhead
    <3>6. b < song
      BY <3>1, <3>3, <3>4, RoomAhead
    <3> QED BY <3>5, <3>6 DEF b
  <2> QED BY <2>4, <2>5
<1>12. srcPos <= Reach' + Len(Rest) + Len(pBuffer)
  <2> DEFINE p == Len(pipe)
             r == Len(Rest)
             b == Len(pBuffer)
  <2>1. /\ srcPos <= Reach + p + b /\ p <= PacketSize + r /\ Reach' = Reach + PacketSize
        /\ srcPos \in Nat /\ Reach \in Nat /\ PacketSize \in Nat /\ p \in Nat /\ r \in Nat
        /\ b \in Nat
    BY <1>3, <1>4, <1>6, PaceType
  <2> HIDE DEF p, r, b
  <2> QED BY <2>1 DEF r, b
<1>13. ASSUME MixDue, srcPos >= song, Rest = <<>>, pBuffer = <<>>
       PROVE  mixNotify'
  <2>1. Len(Rest) = 0 /\ Len(pBuffer) = 0
    BY <1>13
  <2>2. song <= past + FullVoice
    BY <1>6, <1>9, <1>12, <1>13, <2>1, PaceType
  <2>3. ~(past + FullVoice < song)
    BY <1>9, <2>2, PaceType
  <2> QED BY <1>11, <1>13, <2>3
<1>14. /\ crossfade' = IF ui' = "setup" THEN 0 ELSE Crossfade
       /\ ui' = "setup" => samplesOut' = 0 /\ lastSeek' = 0 /\ ~voiceOn'
  BY <1>1 DEF PaceInv
<1>15. srcPos' <= Reach' + Len(pipe') + Len(pBuffer')
  BY <1>1, <1>12
<1>16. MixDue' /\ ~mixNotify' => Reach' + FullVoice <= length'
  BY <1>1, <1>7, <1>11
<1>17. (MixDue' /\ srcPos' >= song' /\ pipe' = <<>> /\ pBuffer' = <<>>) => mixNotify'
  BY <1>1, <1>7, <1>13
<1> QED BY <1>14, <1>15, <1>16, <1>17 DEF PaceInv

\* Once an end of stream is on its way PaceInv says little: the pipe is empty.
LEMMA PaceOutput == TypeOK /\ EndInv /\ SafeTeardown /\ PaceInv /\ Output => PaceInv'
<1> SUFFICES ASSUME TypeOK, EndInv, SafeTeardown, PaceInv, Output, ~OutGetPacket
             PROVE  PaceInv'
  BY PaceGetPacket
<1>1. /\ UNCHANGED <<song, length, srcPos, pBuffer, pipe, finished, lastSeek, crossfade,
                     samplesOut, voiceOn, mixNotify, ui>>
      /\ OutRefused \/ refused' = refused
  BY DEF Output, OutExit, OutGetEnd, OutNotifyEnd, OutSubmit, OutRefused, OutSubmitEnd,
         OutEndRefused, sourceVars, svcVars, noteVars, voiceVars, uiVars
<1>2. MixDue' = MixDue
  BY <1>1 DEF MixDue
<1>5. CASE OutRefused
  <2>1. refused'
    BY <1>5 DEF OutRefused
  <2> QED BY <1>1, <2>1 DEF PaceInv
<1>3. CASE OutSubmitEnd
  <2>1. finished /\ pipe = <<>>
    BY <1>3 DEF OutSubmitEnd, EndInv, EndInSight
  <2>2. refused' = refused
    BY <1>3 DEF OutSubmitEnd
  <2> QED BY <1>1, <1>2, <2>1, <2>2 DEF PaceInv
<1>4. CASE OutExit \/ OutGetEnd \/ OutNotifyEnd \/ OutSubmit \/ OutEndRefused
  <2>3. refused' = refused
    BY <1>1, <1>4 DEF OutExit, OutGetEnd, OutNotifyEnd, OutSubmit, OutEndRefused, voiceVars
  <2>1. Packets' = Packets
    <3>1. CASE OutSubmit
      <4> DEFINE b == [data |-> held, slot |-> slot, eos |-> FALSE]
      <4>1. queue' = Append(queue, b) /\ out = "submit" /\ out' = "loop" /\ b \in Buffer
            /\ queue \in Seq(Buffer)
        BY <3>1 DEF OutSubmit, Buffer, TypeOK
      <4> HIDE DEF b
      <4>2. Len(queue') = Len(queue) + 1
        BY <4>1, AppendProperties
      <4> QED BY <4>1, <4>2, PaceType DEF Packets
    <3>2. CASE OutExit \/ OutGetEnd \/ OutNotifyEnd \/ OutEndRefused
      BY <3>2 DEF OutExit, OutGetEnd, OutNotifyEnd, OutEndRefused, Packets, outVars,
                  voiceVars
    <3> QED BY <1>4, <3>1, <3>2
  <2>2. Reach' = Reach
    BY <1>1, <2>1 DEF Reach
  <2> QED BY <1>1, <1>2, <2>2, <2>3 DEF PaceInv
<1> QED BY <1>3, <1>4, <1>5 DEF Output

\* The message box was shown for a packet refused.
LEMMA PaceBox == RingInv /\ PaceInv /\ BoxClosed => PaceInv'
<1> SUFFICES ASSUME RingInv, PaceInv, BoxClosed PROVE PaceInv'
  OBVIOUS
<1>1. refused' /\ UNCHANGED <<ui, crossfade, samplesOut, lastSeek, voiceOn>>
  BY DEF BoxClosed, RingInv, voiceVars, uiVars
<1> QED BY <1>1 DEF PaceInv

\* What the voice has played it no longer holds.
LEMMA PaceEngine == TypeOK /\ EndInv /\ PaceInv /\ Engine => PaceInv'
<1> SUFFICES ASSUME TypeOK, EndInv, PaceInv, Engine PROVE PaceInv'
  OBVIOUS
<1>1. /\ UNCHANGED <<song, length, srcPos, pBuffer, pipe, finished, lastSeek, crossfade,
                     voiceOn, mixNotify, ui, out, refused>>
      /\ voiceOn /\ queue # <<>> /\ queue' = Tail(queue)
  BY DEF Engine, EnginePlay, EngineStreamEnd, sourceVars, svcVars, noteVars, outVars, uiVars
<1>2. MixDue' = MixDue /\ ui # "setup"
  BY <1>1 DEF MixDue, PaceInv
<1>3. CASE EnginePlay
  <2>1. Len(queue') = Len(queue) - 1 /\ Len(queue) \in Nat \ {0}
    <3>1. queue \in Seq(Buffer)
      BY DEF TypeOK
    <3>2. Len(queue) # 0
      BY <1>1, <3>1, EmptySeq
    <3> QED BY <1>1, <3>1, <3>2, HeadTailProperties
  <2> DEFINE n == Packets - 1
  <2>2. Packets' = n /\ n \in Nat /\ Packets = n + 1
    BY <1>1, <2>1 DEF Packets
  <2> HIDE DEF n
  <2>3. samplesOut' = samplesOut + PacketSize
    BY <1>3 DEF EnginePlay
  <2>4. PacketSize * (n + 1) = PacketSize * n + PacketSize /\ PacketSize * n \in Nat
    BY <2>2, PaceType, PacketTimes
  <2> DEFINE x == PacketSize * n
             y == PacketSize * (n + 1)
  <2>5. Reach' = lastSeek + (samplesOut + PacketSize) + x /\ Reach = lastSeek + samplesOut + y
    BY <1>1, <2>2, <2>3 DEF Reach
  <2>6. y = x + PacketSize /\ x \in Nat
    BY <2>4
  <2>8. lastSeek \in Nat /\ samplesOut \in Nat /\ PacketSize \in Nat
    BY PaceType
  <2> HIDE DEF x, y
  <2>9. lastSeek + (samplesOut + PacketSize) + x = lastSeek + samplesOut + y
    BY <2>6, <2>8
  <2>7. Reach' = Reach
    BY <2>5, <2>9
  <2> QED BY <1>1, <1>2, <2>7 DEF PaceInv
<1>4. CASE EngineStreamEnd
  <2>1. queue[1].eos /\ 1 \in DOMAIN queue
    BY <1>1, <1>4, QueueTail DEF EngineStreamEnd
  <2>2. finished /\ pipe = <<>>
    BY <2>1 DEF EndInv, EndInSight
  <2> QED BY <1>1, <1>2, <2>2 DEF PaceInv
<1> QED BY <1>3, <1>4 DEF Engine

\* A seek empties the pipe and the voice: at most the packet held is left.
LEMMA PaceUI == TypeOK /\ PaceInv /\ UI => PaceInv'
<1> SUFFICES ASSUME TypeOK, PaceInv, UI PROVE PaceInv'
  OBVIOUS
<1>1. CASE SeekDone
  <2>1. /\ srcPos' = target /\ lastSeek' = target /\ samplesOut' = 0
        /\ pipe' = <<>> /\ queue' = <<>> /\ ui = "seek" /\ ui' = "idle"
        /\ UNCHANGED <<song, length, crossfade, pBuffer, out>>
    BY <1>1 DEF SeekDone, PipeAfterSeek, svcVars, outVars
  <2>2. target \in Nat /\ Len(pBuffer) \in Nat /\ song \in Nat /\ PacketSize \in Nat
    BY PaceType DEF TypeOK
  <2>3. Packets' = IF out = "submit" THEN 1 ELSE 0
    BY <2>1 DEF Packets
  <2>4. PacketSize * Packets' \in 0 .. PacketSize
    BY <2>2, <2>3
  <2>5. Reach' = target + PacketSize * Packets'
    <3> DEFINE x == PacketSize * Packets'
    <3>1. Reach' = target + 0 + x
      BY <2>1 DEF Reach
    <3>2. x \in Nat
      BY <2>4
    <3> HIDE DEF x
    <3>3. Reach' = target + x
      BY <2>2, <3>1, <3>2
    <3> QED BY <3>3 DEF x
  <2>6. Reach' \in target .. target + PacketSize
    <3> DEFINE x == PacketSize * Packets'
    <3>1. x \in 0 .. PacketSize /\ Reach' = target + x
      BY <2>4, <2>5
    <3> HIDE DEF x
    <3> QED BY <2>2, <3>1
  <2>7. srcPos' <= Reach' + Len(pipe') + Len(pBuffer')
    <3>1. Len(pipe') = 0 /\ Len(pBuffer') = Len(pBuffer)
      BY <2>1
    <3> QED BY <2>1, <2>2, <2>6, <3>1
  <2>8. ASSUME MixDue' PROVE Reach' + FullVoice <= length' /\ ~(srcPos' >= song')
    <3>1. target + (FullVoice + PacketSize) <= length /\ target < song /\ length \in Nat
      BY <2>1, <2>8, VoiceSizes DEF MixDue, TypeOK
    <3> QED BY <2>1, <2>2, <2>6, <3>1, VoiceSizes
  <2>9. crossfade' = Crossfade /\ ui' # "setup"
    BY <2>1 DEF PaceInv
  <2> QED BY <2>7, <2>8, <2>9 DEF PaceInv
<1>2. CASE Configure
  <2>1. /\ ui' = "idle" /\ crossfade' = Crossfade /\ ui = "setup"
        /\ UNCHANGED <<song, length, srcPos, pBuffer, pipe, finished, lastSeek,
                       samplesOut, mixNotify, queue, out, refused>>
    BY <1>2 DEF Configure, sourceVars, svcVars, noteVars, outVars, voiceVars
  <2>2. MixDue' = MixDue /\ Reach' = Reach
    BY <2>1 DEF MixDue, Reach, Packets
  <2> QED BY <2>1, <2>2 DEF PaceInv
<1>3. CASE DestroyEnd
  <2>1. /\ ui' = "gone" /\ ui = "freed"
        /\ UNCHANGED <<song, length, srcPos, pBuffer, pipe, lastSeek, crossfade, mixNotify,
                       refused>>
    BY <1>3 DEF DestroyEnd, sourceVars, svcVars, noteVars
  <2>2. MixDue' = MixDue
    BY <2>1 DEF MixDue
  <2> QED BY <2>1, <2>2 DEF PaceInv
<1>4. CASE /\ ui # "setup" /\ ui' # "setup" /\ (ui = "gone" => ui' = "gone")
           /\ UNCHANGED <<song, length, srcPos, pBuffer, pipe, finished, lastSeek,
                          crossfade, samplesOut, mixNotify, queue, Packets, refused>>
  <2>1. MixDue' = MixDue /\ Reach' = Reach
    BY <1>4 DEF MixDue, Reach
  <2> QED BY <1>4, <2>1 DEF PaceInv
<1>5. UI => \/ SeekDone \/ Configure \/ DestroyEnd
            \/ /\ ui # "setup" /\ ui' # "setup" /\ (ui = "gone" => ui' = "gone")
               /\ UNCHANGED <<song, length, srcPos, pBuffer, pipe, finished, lastSeek,
                              crossfade, samplesOut, mixNotify, queue, Packets, refused>>
  BY DEF UI, UIContinue, SeekRefused, DestroyStop, DestroyTerminate, DestroyFree, Start,
         Stop, SeekBegin, DestroyBegin, Gone, vars, sourceVars, svcVars, noteVars, outVars,
         voiceVars, uiVars, Packets
<1> QED BY <1>1, <1>2, <1>3, <1>4, <1>5

LEMMA PaceInvariant == Spec => []PaceInv
<1>1. TypeOK /\ EndInv /\ RingInv /\ SafeTeardown /\ PaceInv /\ [Next]_vars => PaceInv'
  <2>1. PaceInv /\ UNCHANGED vars => PaceInv'
    <3> SUFFICES ASSUME PaceInv, UNCHANGED vars PROVE PaceInv'
      OBVIOUS
    <3>1. MixDue' = MixDue /\ Reach' = Reach
      BY DEF MixDue, Reach, Packets, vars
    <3> QED BY <3>1 DEF PaceInv, vars
  <2> QED BY <2>1, PaceService, PaceOutput, PaceBox, PaceEngine, PaceUI DEF Next
<1> QED BY PaceInit, <1>1, TypeCorrect, EndInvariant, RingInvariant, TeardownIsSafe,
           PTL DEF Spec

\* After the failure nothing fills the pipe again, so no mix point is told.
LEMMA FailStep == TypeOK /\ EndInv /\ FailInv /\ [Next]_vars => FailInv'
<1> SUFFICES ASSUME TypeOK, EndInv, FailInv, [Next]_vars, "FAILED" \in Posted(sent')
             PROVE  finished' /\ pipe' = <<>> /\ pBuffer' = <<>> /\ ~mixNotify'
  BY DEF FailInv
<1>0. sent \in Seq(Note) /\ {"STARTED", "PLAYED", "MIX"} \subseteq Note
  BY DEF TypeOK, Note
<1>1. CASE OutNotifyEnd
  <2>1. /\ finished /\ pipe = <<>> /\ UNCHANGED <<finished, pipe, pBuffer, mixNotify>>
        /\ sent' = Append(sent, IF mixNotify THEN "FINISHED" ELSE "FAILED")
    BY <1>1 DEF OutNotifyEnd, svcVars
  <2>2. pBuffer = <<>>
    BY <2>1 DEF EndInv
  <2>3. CASE mixNotify
    <3>1. Posted(sent') = Posted(sent) \cup {"FINISHED"} /\ "FINISHED" \in Note
      BY <1>0, <2>1, <2>3, PostedAppend DEF Note
    <3>2. "FAILED" \in Posted(sent)
      BY <3>1
    <3> QED BY <2>3, <3>2 DEF FailInv
  <2> QED BY <2>1, <2>2, <2>3
<1>2. CASE Start
  <2>1. sent' = Append(sent, "STARTED") /\ UNCHANGED <<finished, pipe, pBuffer, mixNotify>>
    BY <1>2 DEF Start, svcVars
  <2>2. Posted(sent') = Posted(sent) \cup {"STARTED"}
    BY <1>0, <2>1, PostedAppend
  <2> QED BY <2>1, <2>2 DEF FailInv
<1>3. CASE OutGetPacket
  <2> DEFINE told == IF PlayedPoint /\ ~entryPlayed THEN Append(sent, "PLAYED") ELSE sent
  <2>1. pipe # <<>> /\ (sent' = told \/ sent' = Append(told, "MIX"))
    BY <1>3 DEF OutGetPacket, PacketReady
  <2>2. told \in Seq(Note) /\ Posted(told) \subseteq Posted(sent) \cup {"PLAYED"}
    BY <1>0, PostedAppend
  <2> HIDE DEF told
  <2>3. Posted(sent') \subseteq Posted(told) \cup {"MIX"}
    <3>1. CASE sent' = told
      BY <3>1
    <3>2. CASE sent' = Append(told, "MIX")
      <4>1. Posted(Append(told, "MIX")) = Posted(told) \cup {"MIX"}
        BY <1>0, <2>2, PostedAppend
      <4> QED BY <3>2, <4>1
    <3> QED BY <2>1, <3>1, <3>2
  <2>4. "FAILED" \in Posted(sent)
    BY <2>2, <2>3
  <2> QED BY <2>1, <2>4 DEF FailInv
<1>4. CASE SeekDone
  BY <1>4 DEF SeekDone, PipeAfterSeek, svcVars, noteVars, FailInv
<1>5. CASE ServiceFill \/ ServiceWrite
  <2>1. sent' = sent /\ svc # "dead"
    BY <1>5 DEF ServiceFill, ServiceWrite, noteVars
  <2> QED BY <2>1 DEF FailInv, EndInv
<1>6. CASE UNCHANGED <<sent, pipe, pBuffer, mixNotify>> /\ (finished => finished')
  BY <1>6 DEF FailInv
<1>7. Service \/ Output \/ BoxClosed \/ Engine =>
        \/ OutNotifyEnd \/ OutGetPacket \/ ServiceFill \/ ServiceWrite
        \/ UNCHANGED <<sent, pipe, pBuffer, mixNotify>> /\ (finished => finished')
  BY DEF Service, ServiceTop, ServiceEnd, ServiceRoom, Output, OutExit, OutGetEnd,
         OutSubmit, OutRefused, OutSubmitEnd, OutEndRefused, BoxClosed, Engine, EnginePlay,
         EngineStreamEnd, svcVars, noteVars
<1>8. UI \/ UNCHANGED vars =>
        \/ Start \/ SeekDone
        \/ UNCHANGED <<sent, pipe, pBuffer, mixNotify>> /\ (finished => finished')
  BY DEF UI, UIContinue, Configure, SeekRefused, DestroyStop, DestroyTerminate,
         DestroyFree, DestroyEnd, Stop, SeekBegin, DestroyBegin, Gone, vars, svcVars,
         noteVars
<1> QED BY <1>1, <1>2, <1>3, <1>4, <1>5, <1>6, <1>7, <1>8 DEF Next

\* A song that was decoded whole and whose mix point can be seen never fails: a
\* failure always has one of the reasons FailureExplained lists.
THEOREM FailuresAreExplained == Spec => []FailureExplained
<1>1. Init => FailInv
  BY DEF Init, FailInv, Posted
<1>2. TypeOK /\ PaceInv /\ FailInv => FailureExplained
  <2> SUFFICES ASSUME TypeOK, PaceInv, FailInv, "FAILED" \in Posted(sent),
                      length # UnknownLength, ~refused, ~(song + Crossfade <= length),
                      ~(Crossfade < FullVoice), ~(song <= FullVoice),
                      ~(length < 2 * MaxBuffers * PacketSize),
                      ~(lastSeek + (MaxBuffers + 1) * PacketSize > length),
                      ~(srcPos < song), ~(lastSeek >= song)
               PROVE  FALSE
    BY DEF FailureExplained, FullVoice
  <2> DEFINE x == 2 * MaxBuffers * PacketSize
             y == lastSeek + (MaxBuffers + 1) * PacketSize
  <2>1. x \in Nat /\ y \in Nat
    <3>1. x = FullVoice + FullVoice /\ y = lastSeek + (FullVoice + PacketSize)
      BY VoiceSizes
    <3> HIDE DEF x, y
    <3>2. FullVoice \in Nat /\ lastSeek \in Nat /\ PacketSize \in Nat
      BY PaceType
    <3> QED BY <3>1, <3>2
  <2>2. length \in Nat /\ ~(length < x) /\ ~(y > length)
    BY DEF TypeOK
  <2> HIDE DEF x, y
  <2>3. x <= length /\ y <= length
    BY <2>1, <2>2
  <2>4. /\ length < song + Crossfade /\ FullVoice <= Crossfade /\ FullVoice < song
        /\ srcPos >= song /\ lastSeek < song
    BY <2>2, PaceType
  <2>5. MixDue
    BY <2>3, <2>4 DEF MixDue, x, y
  <2> QED BY <2>4, <2>5 DEF PaceInv, FailInv
<1> QED BY <1>1, <1>2, FailStep, PaceInvariant, TypeCorrect, EndInvariant, PTL DEF Spec
============================================================================
