---------------------------- MODULE PlayerProofs ----------------------------
(***************************************************************************)
(* Proofs about Player, for every playlist, retry limit and number of      *)
(* streams and commands.                                                   *)
(***************************************************************************)
EXTENDS Player, SequenceFacts, FiniteSetTheorems

----------------------------------------------------------------------------
(***************************************************************************)
(* The lists of streams.                                                   *)
(***************************************************************************)

LEMMA UnfinishedFacts ==
    ASSUME NEW ss \in Seq(Stream)
    PROVE  /\ Unfinished(ss) \in Seq(Stream)
           /\ \E h : Picks(h, Unfinished(ss), ss, {i \in DOMAIN ss : ss[i].stage # "done"})
<1> DEFINE I == {i \in DOMAIN ss : ss[i].stage # "done"}
<1>1. I \in SUBSET DOMAIN ss
  OBVIOUS
<1>2. Unfinished(ss) = Selected(ss, I)
  BY DEF Unfinished
<1> HIDE DEF I
<1>3. /\ Selected(ss, I) \in Seq(Stream)
      /\ \E h : Picks(h, Selected(ss, I), ss, I)
  BY <1>1, SelectedPicks
<1> QED BY <1>2, <1>3 DEF I

LEMMA SoughtFacts ==
    ASSUME NEW ss \in Seq(Stream)
    PROVE  /\ Sought(ss) \in Seq(Stream)
           /\ \E h : Picks(h, Sought(ss), ss,
                           {i \in DOMAIN ss : ~ss[i].fading /\ ss[i].stage # "done"})
<1> DEFINE I == {i \in DOMAIN ss : ~ss[i].fading /\ ss[i].stage # "done"}
<1>1. I \in SUBSET DOMAIN ss
  OBVIOUS
<1>2. Sought(ss) = Selected(ss, I)
  BY DEF Sought
<1> HIDE DEF I
<1>3. /\ Selected(ss, I) \in Seq(Stream)
      /\ \E h : Picks(h, Selected(ss, I), ss, I)
  BY <1>1, SelectedPicks
<1> QED BY <1>2, <1>3 DEF I

\* The same song, as far as its identity, entry, mix point and end go.
SameSong(t, s) ==
    /\ t.id = s.id /\ t.entry = s.entry /\ t.mixed = s.mixed
    /\ t.stage = "done" <=> s.stage = "done"
    /\ s.fading => t.fading

\* tt is made from ss by leaving streams out.
Thinned(tt, ss) ==
    \E h \in [DOMAIN tt -> DOMAIN ss] :
        /\ \A i, j \in DOMAIN tt : i < j => h[i] < h[j]
        /\ \A i \in DOMAIN tt : SameSong(tt[i], ss[h[i]])

LEMMA ThinnedSame ==
    ASSUME NEW ss \in Seq(Stream), NEW tt \in Seq(Stream), Len(tt) = Len(ss),
           \A i \in 1 .. Len(ss) : SameSong(tt[i], ss[i])
    PROVE  Thinned(tt, ss)
<1> DEFINE h == [i \in DOMAIN tt |-> i]
<1>1. DOMAIN tt = 1 .. Len(ss) /\ DOMAIN ss = 1 .. Len(ss) /\ Len(ss) \in Nat
  BY LenProperties
<1>2. h \in [DOMAIN tt -> DOMAIN ss] /\ \A i \in DOMAIN tt : h[i] = i
  BY <1>1
<1> HIDE DEF h
<1> QED BY <1>1, <1>2 DEF Thinned

LEMMA ThinnedPicks ==
    ASSUME NEW ss \in Seq(Stream), NEW I \in SUBSET DOMAIN ss,
           NEW tt \in Seq(Stream), NEW h, Picks(h, tt, ss, I)
    PROVE  Thinned(tt, ss)
<1>1. DOMAIN tt = 1 .. Len(tt)
  BY LenProperties
<1>2. h \in [DOMAIN tt -> DOMAIN ss]
  BY <1>1 DEF Picks
<1>3. \A i \in DOMAIN tt : SameSong(tt[i], ss[h[i]])
  BY <1>1 DEF Picks, SameSong
<1> QED BY <1>1, <1>2, <1>3 DEF Thinned, Picks

LEMMA ThinnedTwice ==
    ASSUME NEW ss \in Seq(Stream), NEW tt \in Seq(Stream), NEW uu \in Seq(Stream),
           Thinned(tt, ss), Thinned(uu, tt)
    PROVE  Thinned(uu, ss)
<1>1. PICK g \in [DOMAIN tt -> DOMAIN ss] :
        /\ \A i, j \in DOMAIN tt : i < j => g[i] < g[j]
        /\ \A i \in DOMAIN tt : SameSong(tt[i], ss[g[i]])
  BY DEF Thinned
<1>2. PICK h \in [DOMAIN uu -> DOMAIN tt] :
        /\ \A i, j \in DOMAIN uu : i < j => h[i] < h[j]
        /\ \A i \in DOMAIN uu : SameSong(uu[i], tt[h[i]])
  BY DEF Thinned
<1> DEFINE k == [i \in DOMAIN uu |-> g[h[i]]]
<1>3. \A i \in DOMAIN uu : k[i] = g[h[i]] /\ h[i] \in DOMAIN tt /\ g[h[i]] \in DOMAIN ss
  OBVIOUS
<1>4. k \in [DOMAIN uu -> DOMAIN ss]
  BY <1>3
<1> HIDE DEF k
<1>5. \A i, j \in DOMAIN uu : i < j => k[i] < k[j]
  BY <1>1, <1>2, <1>3
<1>6. ASSUME NEW i \in DOMAIN uu PROVE SameSong(uu[i], ss[k[i]])
  <2>1. SameSong(uu[i], tt[h[i]])
    BY <1>2
  <2>2. SameSong(tt[h[i]], ss[g[h[i]]])
    BY <1>1, <1>3
  <2> QED BY <1>3, <2>1, <2>2 DEF SameSong
<1> QED BY <1>4, <1>5, <1>6 DEF Thinned

LEMMA ThinnedUnfinished ==
    ASSUME NEW ss \in Seq(Stream)
    PROVE  /\ Unfinished(ss) \in Seq(Stream)
           /\ Thinned(Unfinished(ss), ss)
           /\ \A i \in DOMAIN Unfinished(ss) : Unfinished(ss)[i].stage # "done"
<1> DEFINE I == {i \in DOMAIN ss : ss[i].stage # "done"}
           tt == Unfinished(ss)
<1>1. tt \in Seq(Stream) /\ \E h : Picks(h, tt, ss, I)
  BY UnfinishedFacts
<1>2. I \in SUBSET DOMAIN ss /\ \A i \in I : ss[i].stage # "done"
  OBVIOUS
<1> HIDE DEF I, tt
<1>3. PICK h : Picks(h, tt, ss, I)
  BY <1>1
<1>4. Thinned(tt, ss)
  BY <1>1, <1>2, <1>3, ThinnedPicks
<1>5. DOMAIN tt = 1 .. Len(tt)
  BY <1>1, LenProperties
<1>6. \A i \in DOMAIN tt : tt[i].stage # "done"
  BY <1>2, <1>3, <1>5 DEF Picks
<1> QED BY <1>1, <1>4, <1>6 DEF tt

LEMMA ThinnedSought ==
    ASSUME NEW ss \in Seq(Stream)
    PROVE  /\ Sought(ss) \in Seq(Stream)
           /\ Thinned(Sought(ss), ss)
<1> DEFINE I == {i \in DOMAIN ss : ~ss[i].fading /\ ss[i].stage # "done"}
           tt == Sought(ss)
<1>1. tt \in Seq(Stream) /\ \E h : Picks(h, tt, ss, I)
  BY SoughtFacts
<1>2. I \in SUBSET DOMAIN ss
  OBVIOUS
<1> HIDE DEF I, tt
<1>3. PICK h : Picks(h, tt, ss, I)
  BY <1>1
<1>4. Thinned(tt, ss)
  BY <1>1, <1>2, <1>3, ThinnedPicks
<1> QED BY <1>1, <1>4 DEF tt

\* Fading, starting and stopping change no song.
LEMMA Switched ==
    ASSUME NEW ss \in Seq(Stream)
    PROVE  /\ FadedOut(ss) \in Seq(Stream) /\ Len(FadedOut(ss)) = Len(ss)
           /\ \A i \in 1 .. Len(ss) : /\ SameSong(FadedOut(ss)[i], ss[i])
                                      /\ FadedOut(ss)[i].fading
           /\ StartedAll(ss) \in Seq(Stream) /\ Len(StartedAll(ss)) = Len(ss)
           /\ \A i \in 1 .. Len(ss) : SameSong(StartedAll(ss)[i], ss[i])
           /\ StoppedAll(ss) \in Seq(Stream) /\ Len(StoppedAll(ss)) = Len(ss)
           /\ \A i \in 1 .. Len(ss) : SameSong(StoppedAll(ss)[i], ss[i])
<1>1. Len(ss) \in Nat /\ DOMAIN ss = 1 .. Len(ss) /\ \A i \in 1 .. Len(ss) : ss[i] \in Stream
  BY LenProperties, ElementOfSeq
<1>2. \A s \in Stream :
        /\ [s EXCEPT !.fading = TRUE] \in Stream
        /\ SameSong([s EXCEPT !.fading = TRUE], s) /\ [s EXCEPT !.fading = TRUE].fading
        /\ [s EXCEPT !.playing = TRUE, !.begun = TRUE] \in Stream
        /\ SameSong([s EXCEPT !.playing = TRUE, !.begun = TRUE], s)
        /\ [s EXCEPT !.playing = FALSE] \in Stream
        /\ SameSong([s EXCEPT !.playing = FALSE], s)
  BY DEF Stream, SameSong
<1>0. \A t : t \in [1 .. Len(ss) -> Stream] => t \in Seq(Stream) /\ Len(t) = Len(ss)
  BY <1>1, IsASeq
<1>3. /\ FadedOut(ss) \in Seq(Stream) /\ Len(FadedOut(ss)) = Len(ss)
      /\ \A i \in 1 .. Len(ss) : FadedOut(ss)[i] = [ss[i] EXCEPT !.fading = TRUE]
  <2>1. FadedOut(ss) \in [1 .. Len(ss) -> Stream]
    BY <1>1, <1>2 DEF FadedOut
  <2>2. \A i \in 1 .. Len(ss) : FadedOut(ss)[i] = [ss[i] EXCEPT !.fading = TRUE]
    BY <1>1 DEF FadedOut
  <2> HIDE DEF FadedOut
  <2>3. FadedOut(ss) \in Seq(Stream) /\ Len(FadedOut(ss)) = Len(ss)
    BY <1>0, <2>1
  <2> QED BY <2>2, <2>3
<1>4. /\ StartedAll(ss) \in Seq(Stream) /\ Len(StartedAll(ss)) = Len(ss)
      /\ \A i \in 1 .. Len(ss) : StartedAll(ss)[i] = [ss[i] EXCEPT !.playing = TRUE, !.begun = TRUE]
  <2>1. StartedAll(ss) \in [1 .. Len(ss) -> Stream]
    BY <1>1, <1>2 DEF StartedAll
  <2>2. \A i \in 1 .. Len(ss) : StartedAll(ss)[i] = [ss[i] EXCEPT !.playing = TRUE, !.begun = TRUE]
    BY <1>1 DEF StartedAll
  <2> HIDE DEF StartedAll
  <2>3. StartedAll(ss) \in Seq(Stream) /\ Len(StartedAll(ss)) = Len(ss)
    BY <1>0, <2>1
  <2> QED BY <2>2, <2>3
<1>5. /\ StoppedAll(ss) \in Seq(Stream) /\ Len(StoppedAll(ss)) = Len(ss)
      /\ \A i \in 1 .. Len(ss) : StoppedAll(ss)[i] = [ss[i] EXCEPT !.playing = FALSE]
  <2>1. StoppedAll(ss) \in [1 .. Len(ss) -> Stream]
    BY <1>1, <1>2 DEF StoppedAll
  <2>2. \A i \in 1 .. Len(ss) : StoppedAll(ss)[i] = [ss[i] EXCEPT !.playing = FALSE]
    BY <1>1 DEF StoppedAll
  <2> HIDE DEF StoppedAll
  <2>3. StoppedAll(ss) \in Seq(Stream) /\ Len(StoppedAll(ss)) = Len(ss)
    BY <1>0, <2>1
  <2> QED BY <2>2, <2>3
<1>6. \A i \in 1 .. Len(ss) : SameSong(FadedOut(ss)[i], ss[i]) /\ FadedOut(ss)[i].fading
  BY <1>1, <1>2, <1>3
<1>7. \A i \in 1 .. Len(ss) : SameSong(StartedAll(ss)[i], ss[i])
  BY <1>1, <1>2, <1>4
<1>8. \A i \in 1 .. Len(ss) : SameSong(StoppedAll(ss)[i], ss[i])
  BY <1>1, <1>2, <1>5
<1> QED BY <1>3, <1>4, <1>5, <1>6, <1>7, <1>8

----------------------------------------------------------------------------
(***************************************************************************)
(* The messages, and the numbers that streams are told apart by.           *)
(***************************************************************************)

\* The messages of songs.
SongAt(mm) == {i \in DOMAIN mm : mm[i].kind \in SongKinds}

\* The song messages of nn are some of those of mm.
Fewer(nn, mm) ==
    \E h \in [SongAt(nn) -> SongAt(mm)] :
        /\ \A i, j \in SongAt(nn) : h[i] = h[j] => i = j
        /\ \A i \in SongAt(nn) : nn[i] = mm[h[i]]

LEMMA MessageFacts ==
    /\ \A kind \in SongKinds, id \in Nat :
          /\ Song(kind, id) \in Message /\ Song(kind, id).kind = kind /\ Song(kind, id).id = id
    /\ \A kind \in {"STARTED", "RESET"} :
          Told(kind) \in Message /\ Told(kind).kind = kind /\ kind \notin SongKinds
    /\ \A m \in Message : m.id \in Nat
<1>1. \A kind \in SongKinds, id \in Nat :
        /\ Song(kind, id) \in Message /\ Song(kind, id).kind = kind /\ Song(kind, id).id = id
  BY DEF Song, Message
<1>2. \A kind \in {"STARTED", "RESET"} :
        Told(kind) \in Message /\ Told(kind).kind = kind /\ kind \notin SongKinds
  BY DEF Told, Message, SongKinds
<1>3. \A m \in Message : m.id \in Nat
  BY DEF Message
<1> QED BY <1>1, <1>2, <1>3

\* nn is mm with messages added that are of no song.
Noted(nn, mm) ==
    /\ Len(nn) >= Len(mm)
    /\ \A i \in 1 .. Len(mm) : nn[i] = mm[i]
    /\ \A i \in Len(mm) + 1 .. Len(nn) : nn[i].kind \notin SongKinds

LEMMA NotedFewer ==
    ASSUME NEW mm \in Seq(Message), NEW nn \in Seq(Message), Noted(nn, mm)
    PROVE  SongAt(nn) = SongAt(mm) /\ Fewer(nn, mm)
<1>1. /\ Len(mm) \in Nat /\ DOMAIN mm = 1 .. Len(mm)
      /\ Len(nn) \in Nat /\ DOMAIN nn = 1 .. Len(nn)
  BY LenProperties
<1>2. SongAt(nn) = SongAt(mm) /\ \A i \in SongAt(nn) : nn[i] = mm[i]
  BY <1>1 DEF Noted, SongAt
<1> DEFINE h == [i \in SongAt(nn) |-> i]
<1>3. h \in [SongAt(nn) -> SongAt(mm)] /\ \A i \in SongAt(nn) : h[i] = i
  BY <1>2
<1> HIDE DEF h
<1>4. Fewer(nn, mm)
  BY <1>2, <1>3 DEF Fewer
<1> QED BY <1>2, <1>4

LEMMA StartedsFacts ==
    ASSUME NEW mm \in Seq(Message), NEW n \in Nat
    PROVE  mm \o Starteds(n) \in Seq(Message) /\ Noted(mm \o Starteds(n), mm)
<1> DEFINE q == Starteds(n)
<1>1. \A i \in 1 .. n : Told("STARTED") \in Message
  BY MessageFacts
<1>2. q \in [1 .. n -> Message]
  BY <1>1 DEF Starteds
<1>3. q \in Seq(Message) /\ Len(q) = n
  BY <1>2
<1>4. \A i \in 1 .. n : q[i].kind \notin SongKinds
  BY MessageFacts DEF Starteds
<1> HIDE DEF q
<1>5. /\ mm \o q \in Seq(Message)
      /\ Len(mm \o q) = Len(mm) + Len(q)
      /\ \A i \in 1 .. Len(mm) + Len(q) :
            (mm \o q)[i] = IF i <= Len(mm) THEN mm[i] ELSE q[i - Len(mm)]
  BY ONLY <1>3, mm \in Seq(Message), ConcatProperties
<1>6. Len(mm) \in Nat
  BY LenProperties
<1> HIDE DEF q
<1>7. ASSUME NEW i \in Len(mm) + 1 .. Len(mm \o q) PROVE (mm \o q)[i].kind \notin SongKinds
  <2>1. i - Len(mm) \in 1 .. n /\ i \in 1 .. Len(mm) + Len(q) /\ ~(i <= Len(mm))
    BY <1>3, <1>5, <1>6
  <2> QED BY <1>4, <1>5, <2>1
<1>8. Len(mm \o q) >= Len(mm) /\ \A i \in 1 .. Len(mm) : (mm \o q)[i] = mm[i]
  BY <1>3, <1>5, <1>6
<1> QED BY <1>5, <1>7, <1>8 DEF q, Noted

LEMMA ToldNoted ==
    ASSUME NEW mm \in Seq(Message), NEW kind \in {"STARTED", "RESET"}
    PROVE  Append(mm, Told(kind)) \in Seq(Message) /\ Noted(Append(mm, Told(kind)), mm)
<1>1. Told(kind) \in Message /\ Told(kind).kind \notin SongKinds
  BY MessageFacts
<1> DEFINE m == Told(kind)
<1> HIDE DEF m
<1>2. /\ Append(mm, m) \in Seq(Message)
      /\ Len(Append(mm, m)) = Len(mm) + 1
      /\ \A i \in 1 .. Len(mm) : Append(mm, m)[i] = mm[i]
      /\ Append(mm, m)[Len(mm) + 1] = m
  BY ONLY <1>1, mm \in Seq(Message), AppendProperties DEF m
<1>3. Len(mm) \in Nat
  BY LenProperties
<1> QED BY <1>1, <1>2, <1>3 DEF m, Noted

LEMMA TailFewer ==
    ASSUME NEW mm \in Seq(Message), mm # <<>>
    PROVE  /\ Head(mm) \in Message /\ Tail(mm) \in Seq(Message)
           /\ Head(mm) = mm[1] /\ 1 \in DOMAIN mm
           /\ \A i \in SongAt(Tail(mm)) : i + 1 \in SongAt(mm) /\ i + 1 # 1
                                          /\ Tail(mm)[i] = mm[i + 1]
           /\ Fewer(Tail(mm), mm)
<1> DEFINE nn == Tail(mm)
<1>1. /\ Head(mm) \in Message /\ nn \in Seq(Message) /\ Len(nn) = Len(mm) - 1
      /\ \A i \in 1 .. Len(nn) : nn[i] = mm[i + 1]
  BY HeadTailProperties
<1>2. /\ Len(mm) \in Nat \ {0} /\ DOMAIN mm = 1 .. Len(mm) /\ Head(mm) = mm[1]
  BY LenProperties, EmptySeq
<1> HIDE DEF nn
<1>3. DOMAIN nn = 1 .. Len(nn)
  BY <1>1, LenProperties
<1>4. \A i \in SongAt(nn) : i \in Nat /\ i + 1 \in SongAt(mm) /\ i + 1 # 1 /\ nn[i] = mm[i + 1]
  BY <1>1, <1>2, <1>3 DEF SongAt
<1> DEFINE h == [i \in SongAt(nn) |-> i + 1]
<1>5. h \in [SongAt(nn) -> SongAt(mm)] /\ \A i \in SongAt(nn) : h[i] = i + 1
  BY <1>4
<1> HIDE DEF h
<1>6. Fewer(nn, mm)
  BY <1>4, <1>5 DEF Fewer
<1>7. 1 \in DOMAIN mm
  BY <1>2
<1> QED BY <1>1, <1>2, <1>4, <1>6, <1>7 DEF nn

\* No stream and no message bears the number of a new stream.
LEMMA FreshIdFacts ==
    ASSUME streams \in Seq(Stream), msgs \in Seq(Message)
    PROVE  /\ FreshId \in Nat \ {0}
           /\ \A i \in DOMAIN streams : streams[i].id # FreshId
           /\ \A i \in DOMAIN msgs : msgs[i].id # FreshId
<1>1. ASSUME NEW S, NEW s \in Seq(S) PROVE IsFiniteSet(Ids(s))
  <2> DEFINE f == [i \in 1 .. Len(s) |-> s[i].id]
  <2>1. Len(s) \in Nat /\ DOMAIN s = 1 .. Len(s)
    BY <1>1, LenProperties
  <2>2. f \in Surjection(1 .. Len(s), Ids(s))
    BY <2>1 DEF Surjection, Ids
  <2>3. IsFiniteSet(1 .. Len(s))
    BY <2>1, FS_Interval
  <2> HIDE DEF f
  <2> QED BY <2>2, <2>3, FS_Surjection
<1> DEFINE c == Cardinality(UsedIds)
<1>2. IsFiniteSet(UsedIds)
  BY <1>1, FS_Union DEF UsedIds
<1>3. c \in Nat
  BY <1>2, FS_CardinalityType
<1>4. \E id \in 1 .. c + 1 : id \notin UsedIds
  <2>1. SUFFICES ASSUME 1 .. c + 1 \subseteq UsedIds PROVE FALSE
    OBVIOUS
  <2>2. Cardinality(1 .. c + 1) <= c
    BY <1>2, <2>1, FS_Subset
  <2>3. Cardinality(1 .. c + 1) = c + 1
    <3> HIDE DEF c
    <3>1. 1 \in Int /\ c + 1 \in Int /\ ~(1 > c + 1) /\ (c + 1) - 1 + 1 = c + 1
      BY <1>3
    <3> QED BY <3>1, FS_Interval
  <2> HIDE DEF c
  <2> QED BY <1>3, <2>2, <2>3
<1>5. FreshId \in 1 .. c + 1 /\ FreshId \notin UsedIds
  BY <1>4 DEF FreshId
<1>6. FreshId \in Nat \ {0}
  BY <1>3, <1>5
<1> QED BY <1>5, <1>6 DEF UsedIds, Ids

----------------------------------------------------------------------------
(***************************************************************************)
(* PlayEntry.                                                              *)
(***************************************************************************)

\* tt is ss, all faded, with a new song at its end.
Grown(tt, ss, e, id) ==
    /\ Len(tt) = Len(ss) + 1
    /\ \A i \in 1 .. Len(ss) : SameSong(tt[i], ss[i]) /\ tt[i].fading
    /\ LET last == tt[Len(ss) + 1] IN
       last.id = id /\ last.entry = e /\ ~last.mixed /\ last.stage = "play"

LEMMA OpenedGrown ==
    ASSUME NEW kept \in Seq(Stream), NEW e \in Entries, FreshId \in Nat
    PROVE  Opened(kept, e) \in Seq(Stream) /\ Grown(Opened(kept, e), kept, e, FreshId)
<1> DEFINE s == NewStream(FreshId, e, kept # <<>>)
           ff == FadedOut(kept)
<1>1. s \in Stream /\ s.id = FreshId /\ s.entry = e /\ ~s.mixed /\ s.stage = "play"
  BY DEF NewStream, Stream
<1>2. /\ ff \in Seq(Stream) /\ Len(ff) = Len(kept)
      /\ \A i \in 1 .. Len(kept) : SameSong(ff[i], kept[i]) /\ ff[i].fading
  BY Switched
<1>3. Opened(kept, e) = Append(ff, s)
  BY DEF Opened
<1> HIDE DEF s, ff
<1>4. /\ Append(ff, s) \in Seq(Stream)
      /\ Len(Append(ff, s)) = Len(ff) + 1
      /\ \A i \in 1 .. Len(ff) : Append(ff, s)[i] = ff[i]
      /\ Append(ff, s)[Len(ff) + 1] = s
  BY ONLY <1>1, <1>2, AppendProperties
<1> QED BY <1>1, <1>2, <1>3, <1>4 DEF Grown

LEMMA SameGrown ==
    ASSUME NEW ss \in Seq(Stream), NEW e, NEW id, NEW tt \in Seq(Stream), Grown(tt, ss, e, id),
           NEW uu \in Seq(Stream), Len(uu) = Len(tt),
           \A i \in 1 .. Len(tt) : SameSong(uu[i], tt[i]) /\ uu[i].stage = tt[i].stage
    PROVE  Grown(uu, ss, e, id)
<1>1. Len(ss) \in Nat /\ Len(tt) = Len(ss) + 1
  BY LenProperties DEF Grown
<1>2. ASSUME NEW i \in 1 .. Len(ss) PROVE SameSong(uu[i], ss[i]) /\ uu[i].fading
  <2>1. i \in 1 .. Len(tt)
    BY <1>1
  <2>2. SameSong(uu[i], tt[i]) /\ SameSong(tt[i], ss[i]) /\ tt[i].fading
    BY <2>1 DEF Grown
  <2> QED BY <2>2 DEF SameSong
<1>3. Len(ss) + 1 \in 1 .. Len(tt)
  BY <1>1
<1>4. SameSong(uu[Len(ss) + 1], tt[Len(ss) + 1]) /\ uu[Len(ss) + 1].stage = tt[Len(ss) + 1].stage
  BY <1>3
<1> QED BY <1>1, <1>2, <1>4 DEF Grown, SameSong

LEMMA StartedGrown ==
    ASSUME NEW ss \in Seq(Stream), NEW e, NEW id, NEW tt \in Seq(Stream), Grown(tt, ss, e, id)
    PROVE  StartedAll(tt) \in Seq(Stream) /\ Grown(StartedAll(tt), ss, e, id)
<1> DEFINE uu == StartedAll(tt)
<1>1. /\ uu \in Seq(Stream) /\ Len(uu) = Len(tt)
      /\ \A i \in 1 .. Len(tt) : SameSong(uu[i], tt[i])
  BY Switched
<1>2. \A i \in 1 .. Len(tt) : uu[i].stage = tt[i].stage
  <2>1. DOMAIN tt = 1 .. Len(tt) /\ \A i \in 1 .. Len(tt) : tt[i] \in Stream
    BY LenProperties, ElementOfSeq
  <2> QED BY <2>1 DEF StartedAll, Stream
<1> HIDE DEF uu
<1>3. Grown(uu, ss, e, id)
  BY <1>1, <1>2, SameGrown
<1> QED BY <1>1, <1>3 DEF uu

LEMMA StoppedLastGrown ==
    ASSUME NEW ss \in Seq(Stream), NEW e, NEW id, NEW tt \in Seq(Stream), Grown(tt, ss, e, id)
    PROVE  StoppedLast(tt) \in Seq(Stream) /\ Grown(StoppedLast(tt), ss, e, id)
<1> DEFINE uu == StoppedLast(tt)
           n == Len(tt)
           s == [tt[n] EXCEPT !.playing = FALSE, !.begun = FALSE]
<1>1. n \in 1 .. Len(tt) /\ Len(ss) \in Nat /\ DOMAIN tt = 1 .. n
  BY LenProperties DEF Grown
<1>2. tt[n] \in Stream
  BY <1>1, ElementOfSeq
<1>3. s \in Stream /\ SameSong(s, tt[n]) /\ s.stage = tt[n].stage
  BY <1>2 DEF Stream, SameSong
<1>4. uu = [tt EXCEPT ![n] = s]
  BY <1>1, <1>2 DEF StoppedLast, Stream
<1> HIDE DEF uu, s, n
<1>5. /\ uu \in Seq(Stream) /\ Len(uu) = Len(tt)
      /\ \A j \in 1 .. Len(tt) : uu[j] = IF j = n THEN s ELSE tt[j]
  BY <1>1, <1>3, <1>4, ExceptSeq
<1>6. \A i \in 1 .. Len(tt) : SameSong(uu[i], tt[i]) /\ uu[i].stage = tt[i].stage
  BY <1>3, <1>5 DEF SameSong
<1>7. Grown(uu, ss, e, id)
  BY <1>5, <1>6, SameGrown
<1> QED BY <1>5, <1>7 DEF uu

LEMMA ThinnedEmpty == ASSUME NEW ss \in Seq(Stream) PROVE Thinned(<<>>, ss) /\ <<>> \in Seq(Stream)
<1> DEFINE h == [i \in {} |-> 0]
<1>1. <<>> \in Seq(Stream) /\ DOMAIN <<>> = {}
  OBVIOUS
<1>2. h \in [DOMAIN <<>> -> DOMAIN ss]
  BY <1>1
<1> QED BY <1>1, <1>2 DEF Thinned

\* What PlayEntry leaves of the streams and of the messages.
Entered(kept, e, rest) ==
    \/ /\ e \notin readable
       /\ streams' = kept
       /\ msgs' = Append(rest, Song("FAILED", FreshId))
       /\ failed' = failed \cup {e}
    \/ /\ e \in readable
       /\ Grown(streams', kept, e, FreshId)
       /\ Noted(msgs', rest)
       /\ failed' = failed
    \/ /\ kept = <<>> /\ streams' = <<>>
       /\ msgs' = rest
       /\ failed' = failed

Plays(e, reset, rest, by) ==
    /\ streams' \in Seq(Stream) /\ msgs' \in Seq(Message)
    /\ softNow' \in BOOLEAN /\ softHeld' \in BOOLEAN /\ softAt' \in 0 .. N
    /\ engine' \in BOOLEAN /\ gaveUp' \in BOOLEAN
    /\ active' = e
    /\ twice' = (twice \/ by \in advanced)
    /\ \E kept \in Seq(Stream) :
          /\ Thinned(kept, streams)
          /\ reset => kept = <<>>
          /\ \A i \in DOMAIN kept : kept[i].stage # "done"
          /\ advanced' = (advanced \cup {by}) \cap ((Ids(kept) \cup Ids(rest)) \ {0})
          /\ Entered(kept, e, rest)

LEMMA SetSourceFacts ==
    ASSUME streams \in Seq(Stream), msgs \in Seq(Message), softNow \in BOOLEAN, softHeld \in BOOLEAN,
           softAt \in 0 .. N, NEW e \in Entries, NEW start \in BOOLEAN, NEW auto \in BOOLEAN,
           NEW reset \in BOOLEAN, NEW rest \in Seq(Message), NEW by \in Nat,
           SetSource(e, start, auto, reset, rest, by)
    PROVE  Plays(e, reset, rest, by)
<1> DEFINE kept == IF reset THEN <<>> ELSE Unfinished(streams)
           soft == auto /\ (softNow \/ softAt = e)
<1>1. /\ kept \in Seq(Stream) /\ Thinned(kept, streams)
      /\ reset => kept = <<>>
      /\ \A i \in DOMAIN kept : kept[i].stage # "done"
  <2>1. CASE reset
    <3>1. kept = <<>> /\ DOMAIN <<>> = {}
      BY <2>1
    <3> QED BY <3>1, ThinnedEmpty
  <2>2. CASE ~reset
    BY <2>2, ThinnedUnfinished
  <2> QED BY <2>1, <2>2
<1>2. soft \in BOOLEAN
  OBVIOUS
<1>3. /\ active' = e /\ twice' = (twice \/ by \in advanced)
      /\ engine' \in BOOLEAN /\ gaveUp' \in BOOLEAN
  BY DEF SetSource, BringsOn
<1>4. advanced' = (advanced \cup {by}) \cap ((Ids(kept) \cup Ids(rest)) \ {0})
  BY DEF SetSource, BringsOn
<1>5. FreshId \in Nat
  BY FreshIdFacts
<1>6. CASE e \notin readable
  <2>1. /\ streams' = kept /\ msgs' = Append(rest, Song("FAILED", FreshId))
        /\ failed' = failed \cup {e} /\ softHeld' = (by # 0 /\ softHeld)
        /\ softNow' = softNow /\ softAt' = softAt
    BY <1>6 DEF SetSource
  <2>2. Entered(kept, e, rest)
    BY <1>6, <2>1 DEF Entered
  <2>3. msgs' \in Seq(Message)
    <3>1. Song("FAILED", FreshId) \in Message
      BY <1>5, MessageFacts DEF SongKinds
    <3> QED BY <2>1, <3>1, AppendProperties
  <2>4. softHeld' \in BOOLEAN
    BY <2>1
  <2> HIDE DEF kept
  <2> QED BY <1>1, <1>3, <1>4, <2>1, <2>2, <2>3, <2>4 DEF Plays
<1>7. CASE e \in readable
  <2> DEFINE opened == Opened(kept, e)
             started == IF start THEN StartedAll(opened) ELSE opened
             n == (IF kept = <<>> THEN 0 ELSE 1) + (IF start THEN Len(opened) ELSE 0)
  <2>1. /\ streams' = IF soft THEN StoppedLast(started) ELSE started
        /\ msgs' = rest \o Starteds(n)
        /\ IF soft \/ ~auto THEN softNow' = FALSE /\ softAt' = 0
                            ELSE softNow' = softNow /\ softAt' = softAt
        /\ softHeld' = (by # 0 /\ (soft \/ softHeld))
        /\ failed' = failed
    BY <1>7 DEF SetSource
  <2>2. opened \in Seq(Stream) /\ Grown(opened, kept, e, FreshId)
    <3> HIDE DEF kept
    <3> QED BY <1>1, <1>5, OpenedGrown
  <2>3. n \in Nat
    <3>1. Len(opened) \in Nat
      BY <2>2, LenProperties
    <3> HIDE DEF opened, kept
    <3>2. (IF kept = <<>> THEN 0 ELSE 1) \in Nat
      OBVIOUS
    <3>3. (IF start THEN Len(opened) ELSE 0) \in Nat
      BY <3>1
    <3>4. \A a, b \in Nat : a + b \in Nat
      OBVIOUS
    <3> QED BY <3>2, <3>3, <3>4
  <2> HIDE DEF opened, kept, n, soft
  <2>4. started \in Seq(Stream) /\ Grown(started, kept, e, FreshId)
    BY <1>1, <2>2, StartedGrown
  <2> HIDE DEF started
  <2>5. streams' \in Seq(Stream) /\ Grown(streams', kept, e, FreshId)
    BY <1>1, <2>1, <2>4, StoppedLastGrown
  <2>6. msgs' \in Seq(Message) /\ Noted(msgs', rest)
    BY <2>1, <2>3, StartedsFacts
  <2>7. softNow' \in BOOLEAN /\ softAt' \in 0 .. N
    <3>1. 0 \in 0 .. N
      BY PlayerAssumption
    <3> QED BY <2>1, <3>1
  <2>8. softHeld' \in BOOLEAN
    BY <2>1
  <2>9. Entered(kept, e, rest)
    BY <1>7, <2>1, <2>5, <2>6 DEF Entered
  <2> QED BY <1>1, <1>3, <1>4, <2>5, <2>6, <2>7, <2>8, <2>9 DEF Plays
<1> QED BY <1>6, <1>7

LEMMA NoSourceFacts ==
    ASSUME streams \in Seq(Stream), softNow \in BOOLEAN, softHeld \in BOOLEAN,
           softAt \in 0 .. N, NEW e \in Entries, NEW reset \in BOOLEAN,
           NEW rest \in Seq(Message), NEW by \in Nat, NoSource(e, rest, by)
    PROVE  Plays(e, reset, rest, by)
<1>1. /\ streams' = <<>> /\ msgs' = rest /\ softHeld' = (by # 0 /\ softHeld)
      /\ softNow' = softNow /\ softAt' = softAt /\ failed' = failed
      /\ engine' = FALSE /\ gaveUp' = FALSE
      /\ active' = e /\ twice' = (twice \/ by \in advanced)
      /\ advanced' = (advanced \cup {by}) \cap ((Ids(<<>>) \cup Ids(rest)) \ {0})
  BY DEF NoSource, BringsOn
<1>2. <<>> \in Seq(Stream) /\ Thinned(<<>>, streams) /\ DOMAIN <<>> = {}
  BY ThinnedEmpty
<1>3. Entered(<<>>, e, rest)
  BY <1>1 DEF Entered
<1>4. softHeld' \in BOOLEAN
  BY <1>1
<1> QED BY <1>1, <1>2, <1>3, <1>4 DEF Plays

----------------------------------------------------------------------------
(***************************************************************************)
(* What a step does to the lists: it may only thin them out, or bring a    *)
(* stream to its mix point or its end, or enter a song.                    *)
(***************************************************************************)
ListsOK == streams \in Seq(Stream) /\ msgs \in Seq(Message)

SongOK ==
    /\ active \in 0 .. N
    /\ softNow \in BOOLEAN /\ softAt \in 0 .. N /\ softHeld \in BOOLEAN
    /\ engine \in BOOLEAN /\ gaveUp \in BOOLEAN
    /\ advanced \subseteq Nat /\ twice \in BOOLEAN /\ failed \subseteq Entries

RestOK ==
    /\ avail \in [Entries -> BOOLEAN] /\ readable \subseteq Entries
    /\ retries \in 0 .. MaxRetry
    /\ autoPause \in BOOLEAN /\ crossfading \in BOOLEAN /\ repeat \in Repeats
    /\ wasPlaying \in BOOLEAN
    /\ commands \in Nat /\ toggled \in BOOLEAN /\ overtaken \in BOOLEAN
    /\ failRow \in Nat

LEMMA TypeParts == TypeOK <=> ListsOK /\ SongOK /\ RestOK
  BY DEF TypeOK, ListsOK, SongOK, RestOK

Quiet ==
    /\ Thinned(streams', streams) /\ Fewer(msgs', msgs)
    /\ UNCHANGED <<active, advanced, twice, failed>>

\* Why a song is entered: a command or a reset, or the first message waiting.
Cause(reset, rest, by) ==
    \/ /\ reset /\ by = 0
       /\ overtaken' \/ SongAt(msgs) = {}
    \/ /\ msgs # <<>> /\ rest = Tail(msgs) /\ by = Head(msgs).id
       /\ \/ Head(msgs).kind = "MIX" /\ crossfading
          \/ Head(msgs).kind = "FINISHED" /\ ~crossfading
          \/ Head(msgs).kind = "FAILED"

Enters(e, kept, rest, by) ==
    /\ Fewer(rest, msgs) /\ Thinned(kept, streams)
    /\ \A i \in DOMAIN kept : kept[i].stage # "done"
    /\ active' = e /\ twice' = (twice \/ by \in advanced)
    /\ advanced' = (advanced \cup {by}) \cap ((Ids(kept) \cup Ids(rest)) \ {0})
    /\ Entered(kept, e, rest)

Entering ==
    \E e \in Entries, reset \in BOOLEAN, rest \in Seq(Message), by \in Nat, kept \in Seq(Stream) :
        /\ Cause(reset, rest, by)
        /\ reset => kept = <<>>
        /\ Enters(e, kept, rest, by)

Mixing == \E i \in DOMAIN streams : StreamMix(i)
Ending == \E i \in DOMAIN streams : StreamEnd(i)

LEMMA EnteringFacts ==
    ASSUME TypeOK, NEW e \in Entries, NEW start \in BOOLEAN, NEW auto \in BOOLEAN,
           NEW reset \in BOOLEAN, NEW rest \in Seq(Message), NEW by \in Nat,
           Fewer(rest, msgs), Cause(reset, rest, by),
           SetSource(e, start, auto, reset, rest, by) \/ NoSource(e, rest, by)
    PROVE  ListsOK' /\ SongOK' /\ Entering
<1>1. /\ streams \in Seq(Stream) /\ msgs \in Seq(Message) /\ softNow \in BOOLEAN
      /\ softHeld \in BOOLEAN /\ softAt \in 0 .. N /\ advanced \subseteq Nat /\ twice \in BOOLEAN
      /\ failed \subseteq Entries
  BY DEF TypeOK
<1>2. Plays(e, reset, rest, by)
  BY <1>1, SetSourceFacts, NoSourceFacts
<1>3. /\ streams' \in Seq(Stream) /\ msgs' \in Seq(Message)
      /\ softNow' \in BOOLEAN /\ softHeld' \in BOOLEAN /\ softAt' \in 0 .. N
      /\ engine' \in BOOLEAN /\ gaveUp' \in BOOLEAN
      /\ active' = e /\ twice' = (twice \/ by \in advanced)
  BY <1>2 DEF Plays
<1>4. PICK kept \in Seq(Stream) :
        /\ Thinned(kept, streams)
        /\ reset => kept = <<>>
        /\ \A i \in DOMAIN kept : kept[i].stage # "done"
        /\ advanced' = (advanced \cup {by}) \cap ((Ids(kept) \cup Ids(rest)) \ {0})
        /\ Entered(kept, e, rest)
  BY <1>2 DEF Plays
<1>5. Enters(e, kept, rest, by)
  BY <1>4, <1>3 DEF Enters
<1>6. Entering
  BY <1>4, <1>5 DEF Entering
<1>7. failed' \subseteq Entries
  BY <1>1, <1>4 DEF Entered
<1>8. advanced' \subseteq Nat
  BY <1>1, <1>4
<1>9. e \in 0 .. N /\ twice' \in BOOLEAN
  BY <1>1, <1>3, PlayerAssumption DEF Entries
<1> QED BY <1>3, <1>6, <1>7, <1>8, <1>9 DEF ListsOK, SongOK

LEMMA EntryFacts ==
    ASSUME TypeOK
    PROVE  /\ NextEntry \in 0 .. N /\ PreviousEntry \in 0 .. N
           /\ \A x \in 0 .. N : x # 0 => x \in Entries
           /\ 1 \in Entries /\ N \in Entries
<1>1. N \in Nat \ {0} /\ active \in 0 .. N /\ repeat \in {"None", "One", "All"}
  BY PlayerAssumption DEF TypeOK, Repeats
<1>2. /\ \A x \in 0 .. N : x # 0 => x \in Entries
      /\ 1 \in Entries /\ N \in Entries
  BY <1>1 DEF Entries
<1>3. CASE active = 0
  BY <1>1, <1>2, <1>3 DEF NextEntry, PreviousEntry
<1>4. CASE active # 0 /\ repeat = "One"
  BY <1>1, <1>2, <1>4 DEF NextEntry, PreviousEntry
<1>5. CASE active # 0 /\ repeat # "One"
  <2>1. NextEntry \in 0 .. N
    <3>1. CASE active = N
      BY <1>1, <1>5, <3>1 DEF NextEntry
    <3>2. CASE active # N
      <4>1. active \in 1 .. N - 1 /\ active + 1 \in 0 .. N
        BY <1>1, <1>5, <3>2
      <4> QED BY <1>1, <1>5, <3>2, <4>1 DEF NextEntry
    <3> QED BY <3>1, <3>2
  <2>2. PreviousEntry \in 0 .. N
    <3>1. CASE active = 1
      BY <1>1, <1>5, <3>1 DEF PreviousEntry
    <3>2. CASE active # 1
      <4>1. active \in 2 .. N /\ active - 1 \in 0 .. N
        BY <1>1, <1>5, <3>2
      <4> QED BY <1>1, <1>5, <3>2, <4>1 DEF PreviousEntry
    <3> QED BY <3>1, <3>2
  <2> QED BY <1>2, <2>1, <2>2
<1> QED BY <1>3, <1>4, <1>5

LEMMA ThinnedSelf == ASSUME NEW ss \in Seq(Stream) PROVE Thinned(ss, ss)
<1>1. \A i \in 1 .. Len(ss) : SameSong(ss[i], ss[i])
  BY DEF SameSong
<1> QED BY <1>1, ThinnedSame

LEMMA FewerSelf == ASSUME NEW mm PROVE Fewer(mm, mm)
<1> DEFINE h == [i \in SongAt(mm) |-> i]
<1>1. h \in [SongAt(mm) -> SongAt(mm)] /\ \A i \in SongAt(mm) : h[i] = i
  OBVIOUS
<1> HIDE DEF h
<1> QED BY <1>1 DEF Fewer

LEMMA StartedThinned ==
    ASSUME NEW ss \in Seq(Stream)
    PROVE  /\ StartedAll(ss) \in Seq(Stream) /\ Thinned(StartedAll(ss), ss)
           /\ StoppedAll(ss) \in Seq(Stream) /\ Thinned(StoppedAll(ss), ss)
<1>1. /\ StartedAll(ss) \in Seq(Stream) /\ Len(StartedAll(ss)) = Len(ss)
      /\ \A i \in 1 .. Len(ss) : SameSong(StartedAll(ss)[i], ss[i])
  BY Switched
<1>2. /\ StoppedAll(ss) \in Seq(Stream) /\ Len(StoppedAll(ss)) = Len(ss)
      /\ \A i \in 1 .. Len(ss) : SameSong(StoppedAll(ss)[i], ss[i])
  BY Switched
<1>3. Thinned(StartedAll(ss), ss)
  BY <1>1, ThinnedSame
<1>4. Thinned(StoppedAll(ss), ss)
  BY <1>2, ThinnedSame
<1> QED BY <1>1, <1>2, <1>3, <1>4

Shape == Quiet \/ Mixing \/ Ending \/ Entering

\* Entries are marked unavailable for a failure only, and the histories grow.
Background ==
    /\ toggled => toggled'
    /\ ~toggled' => crossfading' = crossfading
    /\ overtaken => overtaken'
    /\ \A e \in Entries :
          ~avail'[e] => ~avail[e] \/ (e = active /\ msgs # <<>> /\ Head(msgs).kind = "FAILED")

LEMMA StreamStep ==
    ASSUME TypeOK, NEW i \in DOMAIN streams, StreamMix(i) \/ StreamOver(i) \/ StreamEnd(i)
    PROVE  ListsOK' /\ SongOK' /\ RestOK' /\ Shape /\ Background
<1>1. /\ streams \in Seq(Stream) /\ msgs \in Seq(Message) /\ SongOK /\ RestOK
      /\ failed \subseteq Entries
  BY TypeParts DEF TypeOK
<1>2. /\ DOMAIN streams = 1 .. Len(streams) /\ i \in 1 .. Len(streams) /\ streams[i] \in Stream
  BY <1>1, LenProperties, ElementOfSeq
<1>3. streams[i].id \in Nat /\ streams[i].entry \in Entries
  BY <1>2 DEF Stream
<1>4. \A s \in Stream :
        /\ [streams EXCEPT ![i] = s] \in Seq(Stream)
        /\ Len([streams EXCEPT ![i] = s]) = Len(streams)
        /\ \A j \in 1 .. Len(streams) : [streams EXCEPT ![i] = s][j] = IF j = i THEN s ELSE streams[j]
  BY ONLY <1>1, <1>2, ExceptSeq
<1>5. \A kind \in SongKinds : Append(msgs, Song(kind, streams[i].id)) \in Seq(Message)
  BY <1>1, <1>3, MessageFacts, AppendProperties
<1>6. CASE StreamMix(i)
  <2>1. [streams[i] EXCEPT !.mixed = TRUE] \in Stream
    BY <1>2 DEF Stream
  <2>2. streams' = [streams EXCEPT ![i] = [streams[i] EXCEPT !.mixed = TRUE]]
    BY <1>6 DEF StreamMix
  <2>3. ListsOK'
    BY <1>4, <1>5, <1>6, <2>1, <2>2 DEF ListsOK, StreamMix, SongKinds
  <2>4. /\ SongOK' /\ RestOK' /\ Background
    BY <1>1, <1>6 DEF StreamMix, SongOK, RestOK, Background, softVars, prefVars, userVars, countVars
  <2> QED BY <1>6, <2>3, <2>4 DEF Shape, Mixing
<1>7. CASE StreamEnd(i)
  <2>1. [streams[i] EXCEPT !.stage = "done"] \in Stream
    BY <1>2 DEF Stream
  <2>2. streams' = [streams EXCEPT ![i] = [streams[i] EXCEPT !.stage = "done"]]
    BY <1>7 DEF StreamEnd
  <2>3. Verdict(streams[i]) \in SongKinds
    BY DEF Verdict, SongKinds
  <2>4. ListsOK'
    BY <1>4, <1>5, <1>7, <2>1, <2>2, <2>3 DEF ListsOK, StreamEnd
  <2>5. failed' \subseteq Entries
    BY <1>1, <1>3, <1>7 DEF StreamEnd
  <2>6. SongOK' /\ RestOK' /\ Background
    BY <1>1, <1>7, <2>5 DEF StreamEnd, SongOK, RestOK, Background, softVars, prefVars, userVars, countVars
  <2> QED BY <1>7, <2>4, <2>6 DEF Shape, Ending
<1>8. CASE StreamOver(i)
  <2> DEFINE s == [streams[i] EXCEPT !.stage = "over"]
  <2>1. s \in Stream /\ SameSong(s, streams[i])
    BY <1>2, <1>8 DEF Stream, StreamOver, SameSong
  <2>2. streams' = [streams EXCEPT ![i] = s]
    BY <1>8 DEF StreamOver
  <2> HIDE DEF s
  <2>3. /\ streams' \in Seq(Stream) /\ Len(streams') = Len(streams)
        /\ \A j \in 1 .. Len(streams) : streams'[j] = IF j = i THEN s ELSE streams[j]
    BY <1>4, <2>1, <2>2
  <2>4. \A j \in 1 .. Len(streams) : SameSong(streams'[j], streams[j])
    BY <2>1, <2>3 DEF SameSong
  <2>5. Thinned(streams', streams)
    BY <1>1, <2>3, <2>4, ThinnedSame
  <2>6. msgs' = msgs /\ UNCHANGED <<active, advanced, twice, failed>>
    BY <1>8 DEF StreamOver, countVars
  <2>7. Quiet
    BY <2>5, <2>6, FewerSelf DEF Quiet
  <2>8. SongOK' /\ RestOK' /\ Background
    BY <1>1, <1>8 DEF StreamOver, SongOK, RestOK, Background, softVars, prefVars, userVars, countVars
  <2> QED BY <1>1, <2>3, <2>6, <2>7, <2>8 DEF Shape, ListsOK
<1> QED BY <1>6, <1>7, <1>8

LEMMA HandleStep ==
    ASSUME TypeOK, Handle
    PROVE  ListsOK' /\ SongOK' /\ RestOK' /\ Shape /\ Background
<1>1. /\ streams \in Seq(Stream) /\ msgs \in Seq(Message) /\ ListsOK /\ SongOK /\ RestOK
  BY TypeParts DEF TypeOK
<1>2. /\ active \in 0 .. N /\ avail \in [Entries -> BOOLEAN] /\ retries \in 0 .. MaxRetry
      /\ MaxRetry \in Nat /\ failRow \in Nat
  BY PlayerAssumption DEF TypeOK
<1>3. msgs # <<>>
  BY DEF Handle, HandleMix, HandleFinished, HandleFailed, HandleStarted, HandleReset, Handling
<1>4. /\ Tail(msgs) \in Seq(Message) /\ Fewer(Tail(msgs), msgs) /\ Head(msgs).id \in Nat
  BY <1>1, <1>3, TailFewer, MessageFacts
<1>5. Thinned(streams, streams) /\ Unfinished(streams) \in Seq(Stream) /\ Thinned(Unfinished(streams), streams)
  BY <1>1, ThinnedSelf, ThinnedUnfinished
<1>6. NextEntry # 0 => NextEntry \in Entries
  BY EntryFacts
<1>7. active # 0 => active \in Entries
  BY <1>2, EntryFacts
<1>8. CASE HandleMix
  <2>1. RestOK' /\ Background
    BY <1>1, <1>8 DEF HandleMix, RestOK, Background, prefVars, userVars
  <2>2. CASE crossfading /\ NextEntry # 0
    <3>1. PlayEntry(NextEntry, TRUE, TRUE, FALSE, Tail(msgs), Head(msgs).id)
      BY <1>8, <2>2 DEF HandleMix
    <3>2. Cause(FALSE, Tail(msgs), Head(msgs).id)
      BY <1>3, <1>8, <2>2 DEF HandleMix, Handling, Cause
    <3>3. ListsOK' /\ SongOK' /\ Entering
      BY <1>4, <1>6, <2>2, <3>1, <3>2, EnteringFacts DEF PlayEntry
    <3> QED BY <2>1, <3>3 DEF Shape
  <2>3. CASE ~(crossfading /\ NextEntry # 0)
    <3>1. msgs' = Tail(msgs) /\ UNCHANGED <<active, streams, countVars, failed, softVars>>
      BY <1>8, <2>3 DEF HandleMix
    <3>2. ListsOK' /\ SongOK' /\ Quiet
      BY <1>1, <1>4, <1>5, <3>1 DEF ListsOK, SongOK, Quiet, countVars, softVars
    <3> QED BY <2>1, <3>2 DEF Shape
  <2> QED BY <2>2, <2>3
<1>9. CASE HandleFinished
  <2>1. RestOK' /\ Background
    BY <1>1, <1>9 DEF HandleFinished, RestOK, Background, prefVars, userVars
  <2>2. CASE FinishAdvances /\ NextEntry # 0
    <3>1. PlayEntry(NextEntry, TRUE, TRUE, TRUE, Tail(msgs), Head(msgs).id)
      BY <1>9, <2>2 DEF HandleFinished
    <3>2. Cause(TRUE, Tail(msgs), Head(msgs).id)
      BY <1>3, <1>9, <2>2 DEF HandleFinished, Handling, Cause, FinishAdvances
    <3>3. ListsOK' /\ SongOK' /\ Entering
      BY <1>4, <1>6, <2>2, <3>1, <3>2, EnteringFacts DEF PlayEntry
    <3> QED BY <2>1, <3>3 DEF Shape
  <2>3. CASE ~(FinishAdvances /\ NextEntry # 0)
    <3>1. /\ msgs' = Tail(msgs) /\ streams' = Unfinished(streams)
          /\ UNCHANGED <<active, countVars, failed, softVars>>
      BY <1>9, <2>3 DEF HandleFinished
    <3>2. ListsOK' /\ SongOK' /\ Quiet
      BY <1>1, <1>4, <1>5, <3>1 DEF ListsOK, SongOK, Quiet, countVars, softVars
    <3> QED BY <2>1, <3>2 DEF Shape
  <2> QED BY <2>2, <2>3
<1>10. CASE HandleFailed
  <2>1. Head(msgs).kind = "FAILED" /\ UNCHANGED <<prefVars, userVars>>
    BY <1>10 DEF HandleFailed, Handling
  <2>2. retries' \in 0 .. MaxRetry
    <3>1. retries' = IF RetriesLeft THEN OneMoreRetry ELSE retries
      BY <1>10 DEF HandleFailed
    <3> QED BY <1>2, <3>1 DEF RetriesLeft, OneMoreRetry
  <2>3. failRow' \in Nat
    <3>1. failRow' = failRow + 1 \/ failRow' = failRow
      BY <1>10 DEF HandleFailed
    <3> QED BY <1>2, <3>1
  <2>4. avail' = IF active = 0 THEN avail ELSE [avail EXCEPT ![active] = FALSE]
    BY <1>10 DEF HandleFailed
  <2>5. avail' \in [Entries -> BOOLEAN]
    BY <1>2, <2>4
  <2>6. RestOK'
    BY <1>1, <2>1, <2>2, <2>3, <2>5 DEF RestOK, prefVars, userVars
  <2>7. \A e \in Entries : ~avail'[e] => ~avail[e] \/ e = active
    BY <1>2, <2>4
  <2>8. Background
    BY <1>3, <2>1, <2>7 DEF Background, prefVars, userVars
  <2>9. CASE RetriesLeft /\ NextEntry # 0
    <3>1. PlayEntry(NextEntry, TRUE, TRUE, FALSE, Tail(msgs), Head(msgs).id)
      BY <1>10, <2>9 DEF HandleFailed
    <3>2. Cause(FALSE, Tail(msgs), Head(msgs).id)
      BY <1>3, <2>1 DEF Cause
    <3>3. ListsOK' /\ SongOK' /\ Entering
      BY <1>4, <1>6, <2>9, <3>1, <3>2, EnteringFacts DEF PlayEntry
    <3> QED BY <2>6, <2>8, <3>3 DEF Shape
  <2>10. CASE ~(RetriesLeft /\ NextEntry # 0)
    <3>1. /\ msgs' = Tail(msgs) /\ streams' = IF RetriesLeft THEN Unfinished(streams) ELSE streams
          /\ gaveUp' = (gaveUp \/ ~RetriesLeft)
          /\ UNCHANGED <<active, engine, advanced, twice, failed, softVars>>
      BY <1>10, <2>10 DEF HandleFailed
    <3>2. ListsOK' /\ Quiet
      BY <1>1, <1>4, <1>5, <3>1 DEF ListsOK, Quiet
    <3>3. SongOK'
      BY <1>1, <3>1 DEF SongOK, softVars
    <3> QED BY <2>6, <2>8, <3>2, <3>3 DEF Shape
  <2> QED BY <2>9, <2>10
<1>11. CASE HandleStarted
  <2>1. /\ msgs' = Tail(msgs) /\ retries' = 0 /\ softNow' = (softNow \/ autoPause)
        /\ UNCHANGED <<active, streams, softAt, softHeld, prefVars, userVars, countVars, failRow, failed>>
    BY <1>11 DEF HandleStarted
  <2>2. avail' = IF active = 0 THEN avail ELSE [avail EXCEPT ![active] = TRUE]
    BY <1>11 DEF HandleStarted
  <2>3. avail' \in [Entries -> BOOLEAN] /\ \A e \in Entries : ~avail'[e] => ~avail[e]
    BY <1>2, <2>2
  <2>4. softNow' \in BOOLEAN
    BY <2>1
  <2>5. RestOK' /\ Background
    BY <1>1, <1>2, <2>1, <2>3 DEF RestOK, Background, prefVars, userVars
  <2>6. ListsOK' /\ SongOK' /\ Quiet
    BY <1>1, <1>4, <1>5, <2>1, <2>4 DEF ListsOK, SongOK, Quiet, countVars
  <2> QED BY <2>5, <2>6 DEF Shape
<1>12. CASE HandleReset
  <2>0. overtaken' = (overtaken \/ Waiting # {})
    BY <1>12 DEF HandleReset
  <2>1. RestOK'
    BY <1>1, <1>12 DEF HandleReset, RestOK, prefVars
  <2>2. Background
    BY <1>12, <2>0 DEF HandleReset, Background, prefVars
  <2>3. CASE Playing /\ active # 0
    <3>1. \/ SetSource(active, TRUE, FALSE, TRUE, Tail(msgs), 0)
          \/ NoSource(active, Tail(msgs), 0)
      BY <1>12, <2>3 DEF HandleReset
    <3>2. Cause(TRUE, Tail(msgs), 0)
      BY <2>0 DEF Cause, Waiting, SongAt
    <3>3. ListsOK' /\ SongOK' /\ Entering
      BY <1>4, <1>7, <2>3, <3>1, <3>2, EnteringFacts
    <3> QED BY <2>1, <2>2, <3>3 DEF Shape
  <2>4. CASE ~(Playing /\ active # 0)
    <3>1. /\ msgs' = Tail(msgs) /\ streams' = <<>> /\ engine' \in BOOLEAN
          /\ UNCHANGED <<active, gaveUp, advanced, twice, failed, softVars>>
      BY <1>12, <2>4 DEF HandleReset
    <3>2. Thinned(<<>>, streams) /\ <<>> \in Seq(Stream)
      BY <1>1, ThinnedEmpty
    <3>3. ListsOK' /\ SongOK' /\ Quiet
      BY <1>1, <1>4, <3>1, <3>2 DEF ListsOK, SongOK, Quiet, softVars
    <3> QED BY <2>1, <2>2, <3>3 DEF Shape
  <2> QED BY <2>3, <2>4
<1> QED BY <1>8, <1>9, <1>10, <1>11, <1>12 DEF Handle

\* What a command does to the histories.
LEMMA CommandFacts ==
    ASSUME TypeOK, Command
    PROVE  /\ commands' \in Nat /\ overtaken' \in BOOLEAN
           /\ overtaken => overtaken'
           /\ overtaken' \/ SongAt(msgs) = {}
<1>1. /\ commands \in Nat /\ overtaken \in BOOLEAN /\ commands' = commands + 1
      /\ overtaken' = (overtaken \/ Waiting # {})
  BY DEF TypeOK, Command
<1>2. commands' \in Nat
  BY <1>1
<1>3. overtaken' \in BOOLEAN /\ (overtaken => overtaken')
  BY <1>1
<1>4. overtaken' \/ SongAt(msgs) = {}
  BY <1>1 DEF Waiting, SongAt
<1> QED BY <1>2, <1>3, <1>4

\* A command that opens an entry.
LEMMA OpenStep ==
    ASSUME TypeOK, Command, NEW e \in Entries, NEW start \in BOOLEAN, NEW auto \in BOOLEAN,
           Open(e, start, auto), wasPlaying' \in BOOLEAN
    PROVE  ListsOK' /\ SongOK' /\ RestOK' /\ Shape /\ Background
<1>1. msgs \in Seq(Message) /\ RestOK
  BY TypeParts DEF TypeOK
<1>2. /\ PlayEntry(e, start, auto, TRUE, msgs, 0)
      /\ failRow' = 0 /\ UNCHANGED <<avail, retries, prefVars, readable, toggled>>
  BY DEF Open
<1>3. Cause(TRUE, msgs, 0) /\ Fewer(msgs, msgs)
  BY CommandFacts, FewerSelf DEF Cause
<1>4. ListsOK' /\ SongOK' /\ Entering
  BY <1>1, <1>2, <1>3, EnteringFacts DEF PlayEntry
<1>5. RestOK' /\ Background
  BY <1>1, <1>2, CommandFacts DEF RestOK, Background, prefVars
<1> QED BY <1>4, <1>5 DEF Shape

LEMMA UserStep ==
    ASSUME TypeOK, User
    PROVE  ListsOK' /\ SongOK' /\ RestOK' /\ Shape /\ Background
<1>1. /\ streams \in Seq(Stream) /\ msgs \in Seq(Message) /\ ListsOK /\ SongOK /\ RestOK
  BY TypeParts DEF TypeOK
<1>2. Command
  BY DEF User, Resume, PlayActive, Pause, SystemPause, PauseBy, Seek, Stop, NextSong, PreviousSong,
     Choose, SoftPause, PauseHere, ToggleCrossfade, ToggleRepeat, DelayedPlay, DeviceLost, DriveLost
<1>3. /\ commands' \in Nat /\ overtaken' \in BOOLEAN /\ (overtaken => overtaken')
  BY <1>2, CommandFacts
<1>4. /\ Unfinished(streams) \in Seq(Stream) /\ Thinned(Unfinished(streams), streams)
      /\ Sought(streams) \in Seq(Stream) /\ Thinned(Sought(streams), streams)
      /\ Thinned(streams, streams) /\ Fewer(msgs, msgs)
  BY <1>1, ThinnedSelf, ThinnedUnfinished, ThinnedSought, FewerSelf
<1>5. Playing \in BOOLEAN /\ wasPlaying \in BOOLEAN
  <2>1. CASE streams = <<>>
    BY <1>1, <2>1 DEF Playing, RestOK
  <2>2. CASE streams # <<>>
    <3>1. Len(streams) \in 1 .. Len(streams)
      BY <1>1, <2>2, EmptySeq
    <3>2. streams[Len(streams)] \in Stream
      BY <1>1, <3>1, ElementOfSeq
    <3> QED BY <1>1, <3>2 DEF Playing, RestOK, Stream, Last
  <2> QED BY <2>1, <2>2
<1>6. active # 0 => active \in Entries
  BY EntryFacts DEF TypeOK
<1>7. CASE Resume
  <2>1. /\ streams' = StartedAll(Unfinished(streams)) /\ msgs' = msgs \o Starteds(Len(streams'))
        /\ softHeld' = FALSE /\ failRow' = 0
        /\ UNCHANGED <<active, avail, retries, softNow, softAt, prefVars, readable, wasPlaying, toggled,
                       countVars, failed>>
    BY <1>7 DEF Resume
  <2>2. streams' \in Seq(Stream) /\ Thinned(streams', streams)
    <3>1. /\ StartedAll(Unfinished(streams)) \in Seq(Stream)
          /\ Thinned(StartedAll(Unfinished(streams)), Unfinished(streams))
      BY <1>4, StartedThinned
    <3> QED BY <1>1, <1>4, <2>1, <3>1, ThinnedTwice
  <2>3. msgs' \in Seq(Message) /\ Fewer(msgs', msgs)
    <3>1. Len(streams') \in Nat
      BY <2>2, LenProperties
    <3> QED BY <1>1, <2>1, <3>1, StartedsFacts, NotedFewer
  <2>4. RestOK' /\ Background
    BY <1>1, <1>3, <2>1 DEF RestOK, Background, prefVars
  <2>5. SongOK' /\ Quiet
    BY <1>1, <2>1, <2>2, <2>3 DEF SongOK, Quiet, countVars
  <2> QED BY <2>2, <2>3, <2>4, <2>5 DEF ListsOK, Shape
<1>8. CASE PlayActive
  <2>1. Open(active, TRUE, FALSE) /\ active \in Entries /\ wasPlaying' \in BOOLEAN
    BY <1>5, <1>6, <1>8 DEF PlayActive
  <2> QED BY <1>2, <2>1, OpenStep
<1>9. CASE Pause \/ SystemPause
  <2>1. PICK system \in BOOLEAN : PauseBy(system)
    BY <1>9 DEF Pause, SystemPause
  <2>2. /\ streams' = StoppedAll(Unfinished(streams)) /\ wasPlaying' = (wasPlaying \/ system)
        /\ UNCHANGED <<active, avail, msgs, retries, softVars, prefVars, readable, toggled, countVars,
                       failRow, failed>>
    BY <2>1 DEF PauseBy
  <2>3. streams' \in Seq(Stream) /\ Thinned(streams', streams)
    <3>1. /\ StoppedAll(Unfinished(streams)) \in Seq(Stream)
          /\ Thinned(StoppedAll(Unfinished(streams)), Unfinished(streams))
      BY <1>4, StartedThinned
    <3> QED BY <1>1, <1>4, <2>2, <3>1, ThinnedTwice
  <2>4. wasPlaying' \in BOOLEAN
    BY <2>2
  <2>5. RestOK' /\ Background
    BY <1>1, <1>3, <2>2, <2>4 DEF RestOK, Background, prefVars
  <2>6. SongOK' /\ Quiet
    BY <1>1, <1>4, <2>2, <2>3 DEF SongOK, Quiet, countVars, softVars
  <2> QED BY <1>1, <2>2, <2>3, <2>5, <2>6 DEF ListsOK, Shape
<1>10. CASE Seek
  <2>1. /\ streams' = Sought(streams)
        /\ UNCHANGED <<active, avail, msgs, retries, softVars, prefVars, readable, wasPlaying, toggled,
                       countVars, failRow, failed>>
    BY <1>10 DEF Seek
  <2>2. RestOK' /\ Background
    BY <1>1, <1>3, <2>1 DEF RestOK, Background, prefVars
  <2>3. ListsOK' /\ SongOK' /\ Quiet
    BY <1>1, <1>4, <2>1 DEF ListsOK, SongOK, Quiet, countVars, softVars
  <2> QED BY <2>2, <2>3 DEF Shape
<1>11. CASE Stop
  <2>1. /\ streams' = Sought(StoppedAll(Unfinished(streams)))
        /\ UNCHANGED <<active, avail, msgs, retries, softVars, prefVars, readable, wasPlaying, toggled,
                       countVars, failRow, failed>>
    BY <1>11 DEF Stop
  <2>2. streams' \in Seq(Stream) /\ Thinned(streams', streams)
    <3> DEFINE tt == Unfinished(streams)
               uu == StoppedAll(tt)
    <3>1. tt \in Seq(Stream) /\ Thinned(tt, streams)
      BY <1>4
    <3> HIDE DEF tt
    <3>2. uu \in Seq(Stream) /\ Thinned(uu, tt)
      BY <3>1, StartedThinned
    <3> HIDE DEF uu
    <3>3. Sought(uu) \in Seq(Stream) /\ Thinned(Sought(uu), uu)
      BY <3>2, ThinnedSought
    <3>4. Thinned(uu, streams)
      BY <1>1, <3>1, <3>2, ThinnedTwice
    <3>5. Thinned(Sought(uu), streams)
      BY <1>1, <3>2, <3>3, <3>4, ThinnedTwice
    <3> QED BY <2>1, <3>3, <3>5 DEF tt, uu
  <2>3. RestOK' /\ Background
    BY <1>1, <1>3, <2>1 DEF RestOK, Background, prefVars
  <2>4. SongOK' /\ Quiet
    BY <1>1, <1>4, <2>1, <2>2 DEF SongOK, Quiet, countVars, softVars
  <2> QED BY <1>1, <2>1, <2>2, <2>3, <2>4 DEF ListsOK, Shape
<1>12. CASE NextSong
  <2> DEFINE e == IF NextEntry = 0 THEN 1 ELSE NextEntry
  <2>1. e \in Entries
    BY EntryFacts
  <2>2. PICK auto \in BOOLEAN : Open(e, Playing, auto)
    BY <1>12 DEF NextSong
  <2>3. wasPlaying' \in BOOLEAN
    BY <1>5, <1>12 DEF NextSong
  <2> HIDE DEF e
  <2> QED BY <1>2, <1>5, <2>1, <2>2, <2>3, OpenStep
<1>13. CASE PreviousSong
  <2> DEFINE e == IF PreviousEntry = 0 THEN N ELSE PreviousEntry
  <2>1. e \in Entries
    BY EntryFacts
  <2>2. PICK auto \in BOOLEAN : Open(e, Playing, auto)
    BY <1>13 DEF PreviousSong
  <2>3. wasPlaying' \in BOOLEAN
    BY <1>5, <1>13 DEF PreviousSong
  <2> HIDE DEF e
  <2> QED BY <1>2, <1>5, <2>1, <2>2, <2>3, OpenStep
<1>14. CASE Choose
  <2>1. PICK e \in Entries : Open(e, TRUE, FALSE)
    BY <1>14 DEF Choose
  <2>2. wasPlaying' \in BOOLEAN
    BY <1>5, <1>14 DEF Choose
  <2> QED BY <1>2, <2>1, <2>2, OpenStep
<1>15. CASE DelayedPlay
  <2>1. Open(active, wasPlaying, TRUE) /\ active \in Entries /\ wasPlaying' \in BOOLEAN
    BY <1>6, <1>15 DEF DelayedPlay
  <2> QED BY <1>2, <1>5, <2>1, OpenStep
<1>16. CASE DeviceLost
  <2>1. /\ msgs' = Append(msgs, Told("RESET"))
        /\ UNCHANGED <<active, avail, streams, retries, softVars, prefVars, readable, wasPlaying, toggled,
                       countVars, failRow, failed>>
    BY <1>16 DEF DeviceLost
  <2>2. msgs' \in Seq(Message) /\ Fewer(msgs', msgs)
    BY <1>1, <2>1, ToldNoted, NotedFewer
  <2>3. RestOK' /\ Background
    BY <1>1, <1>3, <2>1 DEF RestOK, Background, prefVars
  <2>4. SongOK' /\ Quiet
    BY <1>1, <1>4, <2>1, <2>2 DEF SongOK, Quiet, countVars, softVars
  <2> QED BY <1>1, <2>1, <2>2, <2>3, <2>4 DEF ListsOK, Shape
<1>17. CASE SoftPause \/ PauseHere \/ ToggleCrossfade \/ ToggleRepeat \/ DriveLost
  <2>1. UNCHANGED <<active, avail, streams, msgs, retries, softHeld, autoPause, wasPlaying, countVars,
                    failRow, failed>>
    BY <1>17 DEF SoftPause, PauseHere, ToggleCrossfade, ToggleRepeat, DriveLost, softVars, prefVars
  <2>2. softNow' \in BOOLEAN /\ softAt' \in 0 .. N
    <3>1. softNow \in BOOLEAN /\ softAt \in 0 .. N /\ 0 \in 0 .. N /\ \A e \in Entries : e \in 0 .. N
      BY <1>1, PlayerAssumption DEF SongOK, Entries
    <3> QED BY <1>17, <3>1 DEF SoftPause, PauseHere, ToggleCrossfade, ToggleRepeat, DriveLost, softVars
  <2>3. /\ crossfading' \in BOOLEAN /\ repeat' \in Repeats /\ readable' \subseteq Entries
        /\ toggled' \in BOOLEAN
    <3>1. /\ crossfading \in BOOLEAN /\ repeat \in Repeats /\ readable \subseteq Entries
          /\ toggled \in BOOLEAN
      BY <1>1 DEF RestOK
    <3>2. CASE SoftPause \/ PauseHere \/ DriveLost
      BY <3>1, <3>2 DEF SoftPause, PauseHere, DriveLost, prefVars
    <3>3. CASE ToggleCrossfade
      BY <3>1, <3>3 DEF ToggleCrossfade
    <3>4. CASE ToggleRepeat
      BY <3>1, <3>4 DEF ToggleRepeat, Repeats
    <3> QED BY <1>17, <3>2, <3>3, <3>4
  <2>4. (toggled => toggled') /\ (~toggled' => crossfading' = crossfading)
    BY <1>17 DEF SoftPause, PauseHere, ToggleCrossfade, ToggleRepeat, DriveLost, prefVars
  <2>5. RestOK' /\ Background
    BY <1>1, <1>3, <2>1, <2>3, <2>4 DEF RestOK, Background
  <2>6. ListsOK' /\ SongOK' /\ Quiet
    BY <1>1, <1>4, <2>1, <2>2 DEF ListsOK, SongOK, Quiet, countVars
  <2> QED BY <2>5, <2>6 DEF Shape
<1> QED BY <1>7, <1>8, <1>9, <1>10, <1>11, <1>12, <1>13, <1>14, <1>15, <1>16, <1>17 DEF User

\* Every step has one of the shapes.
LEMMA StepShape ==
    ASSUME TypeOK, [Next]_vars
    PROVE  TypeOK' /\ Shape /\ Background
<1>1. CASE Streaming
  <2>1. PICK i \in DOMAIN streams : StreamMix(i) \/ StreamOver(i) \/ StreamEnd(i)
    BY <1>1 DEF Streaming
  <2> QED BY <2>1, StreamStep DEF TypeOK, ListsOK, SongOK, RestOK
<1>2. CASE Handle
  BY <1>2, HandleStep DEF TypeOK, ListsOK, SongOK, RestOK
<1>3. CASE User
  BY <1>3, UserStep DEF TypeOK, ListsOK, SongOK, RestOK
<1>4. CASE UNCHANGED vars
  <2>1. streams \in Seq(Stream)
    BY DEF TypeOK
  <2>2. Thinned(streams, streams) /\ Fewer(msgs, msgs)
    BY <2>1, ThinnedSelf, FewerSelf
  <2>3. Quiet /\ Background
    BY <1>4, <2>2 DEF vars, Quiet, Background
  <2>4. TypeOK'
    BY <1>4 DEF vars, TypeOK
  <2> QED BY <2>3, <2>4 DEF Shape
<1> QED BY <1>1, <1>2, <1>3, <1>4 DEF Next

----------------------------------------------------------------------------
(***************************************************************************)
(* Types.                                                                  *)
(***************************************************************************)
LEMMA TypeInit == Init => TypeOK
<1> SUFFICES ASSUME Init PROVE TypeOK
  OBVIOUS
<1>1. N \in Nat \ {0} /\ MaxRetry \in Nat /\ Readables \subseteq SUBSET Entries
      /\ RepeatModes \subseteq Repeats /\ AutoPauses \subseteq BOOLEAN
  BY PlayerAssumption
<1>2. streams \in Seq(Stream) /\ active \in 0 .. N
  <2>1. \A e \in Entries : NewStream(1, e, FALSE) \in Stream
    BY DEF NewStream, Stream
  <2>2. CASE active = 0 /\ streams = <<>>
    BY <1>1, <2>2
  <2>3. CASE readable # Entries /\ active = 1 /\ streams = <<>>
    BY <1>1, <2>3
  <2>4. CASE \E e \in readable : active = e /\ streams = <<NewStream(1, e, FALSE)>>
    <3>1. PICK e \in Entries : active = e /\ streams = <<NewStream(1, e, FALSE)>>
      BY <1>1, <2>4 DEF Init
    <3>2. active \in 0 .. N
      BY <1>1, <3>1 DEF Entries
    <3> DEFINE s == NewStream(1, e, FALSE)
    <3>3. s \in Stream
      BY <2>1
    <3> HIDE DEF s
    <3>4. <<s>> \in Seq(Stream)
      BY <3>3
    <3> QED BY <3>1, <3>2, <3>4 DEF s
  <2> QED BY <2>2, <2>3, <2>4 DEF Init
<1>3. msgs \in Seq(Message) /\ 0 \in 0 .. N /\ 0 \in 0 .. MaxRetry /\ 0 \in Nat
  BY <1>1 DEF Init
<1>4. /\ autoPause \in BOOLEAN /\ softNow \in BOOLEAN /\ repeat \in Repeats /\ readable \subseteq Entries
  BY <1>1 DEF Init
<1>5. avail \in [Entries -> BOOLEAN]
  BY DEF Init
<1> QED BY <1>2, <1>3, <1>4, <1>5 DEF Init, TypeOK

\* Every variable keeps its type; the retry counter never passes its limit
\* (m_iFailedSongRetry, the FAILED handler of CTuniacApp::WndProc), and the active
\* entry is none or one of the playlist's.
THEOREM PlayerTypes == Spec => []TypeOK
<1>1. TypeOK /\ [Next]_vars => TypeOK'
  BY StepShape
<1> QED BY TypeInit, <1>1, PTL DEF Spec

----------------------------------------------------------------------------
(***************************************************************************)
(* The streams before the last one fade.                                   *)
(***************************************************************************)
OthersFade(ss) == \A i \in DOMAIN ss : i < Len(ss) => ss[i].fading

LEMMA FadeThinned ==
    ASSUME NEW ss \in Seq(Stream), NEW tt \in Seq(Stream), Thinned(tt, ss), OthersFade(ss)
    PROVE  OthersFade(tt)
<1>1. PICK h \in [DOMAIN tt -> DOMAIN ss] :
        /\ \A i, j \in DOMAIN tt : i < j => h[i] < h[j]
        /\ \A i \in DOMAIN tt : SameSong(tt[i], ss[h[i]])
  BY DEF Thinned
<1>2. /\ Len(ss) \in Nat /\ DOMAIN ss = 1 .. Len(ss)
      /\ Len(tt) \in Nat /\ DOMAIN tt = 1 .. Len(tt)
  BY LenProperties
<1>3. ASSUME NEW i \in DOMAIN tt, i < Len(tt) PROVE tt[i].fading
  <2>1. Len(tt) \in DOMAIN tt
    BY <1>2, <1>3
  <2>2. h[i] < h[Len(tt)] /\ h[Len(tt)] \in 1 .. Len(ss) /\ h[i] \in 1 .. Len(ss)
    BY <1>1, <1>2, <1>3, <2>1
  <2>3. h[i] < Len(ss) /\ h[i] \in DOMAIN ss
    BY <1>2, <2>2
  <2>4. ss[h[i]].fading /\ SameSong(tt[i], ss[h[i]])
    BY <1>1, <1>3, <2>3 DEF OthersFade
  <2> QED BY <2>4 DEF SameSong
<1> QED BY <1>3 DEF OthersFade

\* A stream that reaches its mix point or its end.
LEMMA EndedFacts ==
    ASSUME TypeOK, NEW i \in DOMAIN streams, StreamMix(i) \/ StreamEnd(i)
    PROVE  /\ i \in 1 .. Len(streams) /\ DOMAIN streams = 1 .. Len(streams)
           /\ DOMAIN streams' = DOMAIN streams /\ Len(streams') = Len(streams)
           /\ streams[i] \in Stream
           /\ \A j \in DOMAIN streams :
                 /\ streams'[j].id = streams[j].id /\ streams'[j].entry = streams[j].entry
                 /\ streams'[j].fading = streams[j].fading
                 /\ j # i => streams'[j] = streams[j]
           /\ StreamMix(i) => streams'[i].mixed /\ streams'[i].stage = streams[i].stage
           /\ StreamEnd(i) => streams'[i].mixed = streams[i].mixed /\ streams'[i].stage = "done"
<1>1. /\ streams \in Seq(Stream) /\ DOMAIN streams = 1 .. Len(streams) /\ i \in 1 .. Len(streams)
      /\ Len(streams) \in Nat
  BY LenProperties DEF TypeOK
<1>2. streams[i] \in Stream
  BY <1>1, ElementOfSeq
<1>3. CASE StreamMix(i)
  <2> DEFINE s == [streams[i] EXCEPT !.mixed = TRUE]
  <2>1. /\ s \in Stream /\ s.id = streams[i].id /\ s.entry = streams[i].entry
        /\ s.fading = streams[i].fading /\ s.mixed /\ s.stage = streams[i].stage
    BY <1>2 DEF Stream
  <2>2. streams' = [streams EXCEPT ![i] = s]
    BY <1>3 DEF StreamMix
  <2>3. ~StreamEnd(i)
    BY <1>3 DEF StreamMix, StreamEnd
  <2> HIDE DEF s
  <2>4. /\ Len(streams') = Len(streams) /\ DOMAIN streams' = DOMAIN streams
        /\ \A j \in 1 .. Len(streams) : streams'[j] = IF j = i THEN s ELSE streams[j]
    BY <1>1, <2>1, <2>2, ExceptSeq
  <2> QED BY <1>1, <1>2, <2>1, <2>3, <2>4
<1>4. CASE StreamEnd(i)
  <2> DEFINE s == [streams[i] EXCEPT !.stage = "done"]
  <2>1. /\ s \in Stream /\ s.id = streams[i].id /\ s.entry = streams[i].entry
        /\ s.fading = streams[i].fading /\ s.mixed = streams[i].mixed /\ s.stage = "done"
    BY <1>2 DEF Stream
  <2>2. streams' = [streams EXCEPT ![i] = s]
    BY <1>4 DEF StreamEnd
  <2>3. ~StreamMix(i)
    BY <1>4 DEF StreamMix, StreamEnd
  <2> HIDE DEF s
  <2>4. /\ Len(streams') = Len(streams) /\ DOMAIN streams' = DOMAIN streams
        /\ \A j \in 1 .. Len(streams) : streams'[j] = IF j = i THEN s ELSE streams[j]
    BY <1>1, <2>1, <2>2, ExceptSeq
  <2> QED BY <1>1, <1>2, <2>1, <2>3, <2>4
<1> QED BY <1>3, <1>4

\* Never two songs at full volume: every stream but the last one of the list is
\* fading out (CCoreAudio::SetSource, SetPosition, CheckOldStreams), whatever the
\* user and the streams do.
THEOREM OthersFadeOut == Spec => []OnlyLastUnfaded
<1>1. OnlyLastUnfaded <=> OthersFade(streams)
  BY DEF OnlyLastUnfaded, OthersFade
<1>2. Init => OthersFade(streams)
  <2> SUFFICES ASSUME Init PROVE OthersFade(streams)
    OBVIOUS
  <2>1. \A i \in DOMAIN streams : ~(i < Len(streams))
    <3>1. streams = <<>> \/ \E s : streams = <<s>>
      BY DEF Init
    <3> QED BY <3>1
  <2> QED BY <2>1 DEF OthersFade
<1>3. TypeOK /\ OthersFade(streams) /\ [Next]_vars => OthersFade(streams')
  <2> SUFFICES ASSUME TypeOK, OthersFade(streams), [Next]_vars PROVE OthersFade(streams')
    OBVIOUS
  <2>1. Shape /\ streams' \in Seq(Stream) /\ streams \in Seq(Stream)
    BY StepShape DEF TypeOK
  <2>2. CASE Quiet
    BY <2>1, <2>2, FadeThinned DEF Quiet
  <2>3. CASE Mixing \/ Ending
    <3>1. PICK i \in DOMAIN streams : StreamMix(i) \/ StreamEnd(i)
      BY <2>3 DEF Mixing, Ending
    <3> QED BY <3>1, EndedFacts DEF OthersFade
  <2>4. CASE Entering
    <3>1. PICK e \in Entries, rest \in Seq(Message), by \in Nat, kept \in Seq(Stream) :
            Enters(e, kept, rest, by)
      BY <2>4 DEF Entering
    <3>2. OthersFade(kept) /\ Len(kept) \in Nat /\ DOMAIN kept = 1 .. Len(kept)
      BY <2>1, <3>1, FadeThinned, LenProperties DEF Enters
    <3>3. CASE streams' = kept
      BY <3>2, <3>3
    <3>4. CASE Grown(streams', kept, e, FreshId)
      <4>1. Len(streams') = Len(kept) + 1 /\ DOMAIN streams' = 1 .. Len(streams')
        BY <2>1, <3>4, LenProperties DEF Grown
      <4>2. \A i \in 1 .. Len(kept) : streams'[i].fading
        BY <3>4 DEF Grown
      <4> QED BY <3>2, <4>1, <4>2 DEF OthersFade
    <3> QED BY <3>1, <3>3, <3>4 DEF Enters, Entered
  <2> QED BY <2>1, <2>2, <2>3, <2>4 DEF Shape
<1>4. OthersFade(streams)' <=> OthersFade(streams')
  BY DEF OthersFade
<1> QED BY <1>1, <1>2, <1>3, <1>4, PlayerTypes, PTL DEF Spec

----------------------------------------------------------------------------
(***************************************************************************)
(* Which song a message is of.                                             *)
(***************************************************************************)

\* The two messages of one song that was heard to its end.
Pair(a, b) == (a = "MIX" /\ b = "FINISHED") \/ (a = "FINISHED" /\ b = "MIX")

\* What a message says of its stream, while the stream exists.
Tells(kind, s) == IF kind = "MIX" THEN s.mixed ELSE s.stage = "done"

\* Streams have numbers of their own; a song has posted its mix point or its end
\* only when it has come to it, and each of them once.
IdInv(ss, mm) ==
    /\ \A i, j \in DOMAIN ss : ss[i].id = ss[j].id => i = j
    /\ \A i \in DOMAIN ss : ss[i].id # 0
    /\ \A i \in SongAt(mm) : mm[i].id # 0
    /\ \A i \in SongAt(mm), j \in DOMAIN ss : mm[i].id = ss[j].id => Tells(mm[i].kind, ss[j])
    /\ \A i, j \in SongAt(mm) : mm[i].id = mm[j].id => i = j \/ Pair(mm[i].kind, mm[j].kind)

LEMMA IdThinned ==
    ASSUME NEW ss \in Seq(Stream), NEW tt \in Seq(Stream), NEW mm, NEW nn,
           Thinned(tt, ss), Fewer(nn, mm), IdInv(ss, mm)
    PROVE  IdInv(tt, nn)
<1>1. PICK h \in [DOMAIN tt -> DOMAIN ss] :
        /\ \A i, j \in DOMAIN tt : i < j => h[i] < h[j]
        /\ \A i \in DOMAIN tt : SameSong(tt[i], ss[h[i]])
  BY DEF Thinned
<1>2. PICK g \in [SongAt(nn) -> SongAt(mm)] :
        /\ \A i, j \in SongAt(nn) : g[i] = g[j] => i = j
        /\ \A i \in SongAt(nn) : nn[i] = mm[g[i]]
  BY DEF Fewer
<1>3. \A i \in DOMAIN tt : tt[i].id = ss[h[i]].id /\ h[i] \in DOMAIN ss
  BY <1>1 DEF SameSong
<1>4. ASSUME NEW i \in DOMAIN tt, NEW j \in DOMAIN tt, tt[i].id = tt[j].id PROVE i = j
  <2>1. h[i] = h[j]
    BY <1>3, <1>4 DEF IdInv
  <2>2. DOMAIN tt = 1 .. Len(tt) /\ DOMAIN ss = 1 .. Len(ss)
    BY LenProperties
  <2>3. ~(h[i] < h[j]) /\ ~(h[j] < h[i])
    BY <1>3, <2>1, <2>2
  <2>4. ~(i < j) /\ ~(j < i)
    BY <1>1, <2>3
  <2> QED BY <2>2, <2>4
<1>5. \A i \in DOMAIN tt : tt[i].id # 0
  BY <1>3 DEF IdInv
<1>6. \A i \in SongAt(nn) : nn[i].id # 0
  BY <1>2 DEF IdInv
<1>7. ASSUME NEW i \in SongAt(nn), NEW j \in DOMAIN tt, nn[i].id = tt[j].id
      PROVE  Tells(nn[i].kind, tt[j])
  <2>1. g[i] \in SongAt(mm) /\ nn[i] = mm[g[i]] /\ h[j] \in DOMAIN ss /\ SameSong(tt[j], ss[h[j]])
    BY <1>1, <1>2
  <2>2. Tells(mm[g[i]].kind, ss[h[j]])
    BY <1>3, <1>7, <2>1 DEF IdInv
  <2> QED BY <2>1, <2>2 DEF Tells, SameSong
<1>8. ASSUME NEW i \in SongAt(nn), NEW j \in SongAt(nn), nn[i].id = nn[j].id
      PROVE  i = j \/ Pair(nn[i].kind, nn[j].kind)
  BY <1>2, <1>8 DEF IdInv
<1> QED BY <1>4, <1>5, <1>6, <1>7, <1>8 DEF IdInv

\* A stream that goes on says no less.
LEMMA IdProgress ==
    ASSUME NEW ss, NEW tt, NEW mm, DOMAIN tt = DOMAIN ss,
           \A i \in DOMAIN ss : /\ tt[i].id = ss[i].id
                                /\ ss[i].mixed => tt[i].mixed
                                /\ ss[i].stage = "done" => tt[i].stage = "done",
           IdInv(ss, mm)
    PROVE  IdInv(tt, mm)
<1>1. ASSUME NEW i \in SongAt(mm), NEW j \in DOMAIN tt, mm[i].id = tt[j].id
      PROVE  Tells(mm[i].kind, tt[j])
  <2>1. Tells(mm[i].kind, ss[j])
    BY <1>1 DEF IdInv
  <2> QED BY <2>1 DEF Tells
<1> QED BY <1>1 DEF IdInv

LEMMA IdGrown ==
    ASSUME NEW ss \in Seq(Stream), NEW tt \in Seq(Stream), NEW mm, NEW e, NEW id \in Nat \ {0},
           Grown(tt, ss, e, id), IdInv(ss, mm),
           \A i \in DOMAIN ss : ss[i].id # id, \A i \in SongAt(mm) : mm[i].id # id
    PROVE  IdInv(tt, mm)
<1> DEFINE n == Len(ss) + 1
<1>1. /\ Len(ss) \in Nat /\ DOMAIN ss = 1 .. Len(ss) /\ DOMAIN tt = 1 .. Len(tt) /\ Len(tt) = n
  BY LenProperties DEF Grown
<1>2. \A i \in DOMAIN tt : i \in DOMAIN ss \/ i = n
  BY <1>1
<1>3. \A i \in DOMAIN ss : SameSong(tt[i], ss[i]) /\ tt[i].id = ss[i].id
  BY <1>1 DEF Grown, SameSong
<1>4. tt[n].id = id
  BY DEF Grown
<1> HIDE DEF n
<1>5. ASSUME NEW i \in SongAt(mm), NEW j \in DOMAIN tt, mm[i].id = tt[j].id
      PROVE  Tells(mm[i].kind, tt[j])
  <2>1. j \in DOMAIN ss
    BY <1>2, <1>4, <1>5
  <2>2. Tells(mm[i].kind, ss[j]) /\ SameSong(tt[j], ss[j])
    BY <1>3, <1>5, <2>1 DEF IdInv
  <2> QED BY <2>2 DEF Tells, SameSong
<1>6. \A i, j \in DOMAIN tt : tt[i].id = tt[j].id => i = j
  BY <1>2, <1>3, <1>4 DEF IdInv
<1>7. \A i \in DOMAIN tt : tt[i].id # 0
  BY <1>2, <1>3, <1>4 DEF IdInv
<1> QED BY <1>5, <1>6, <1>7 DEF IdInv

\* nn is mm with one message of a song added.
SongTold(nn, mm, kind, id) ==
    /\ SongAt(nn) = SongAt(mm) \cup {Len(mm) + 1} /\ Len(mm) + 1 \notin SongAt(mm)
    /\ \A i \in SongAt(mm) : nn[i] = mm[i]
    /\ nn[Len(mm) + 1].kind = kind /\ nn[Len(mm) + 1].id = id

LEMMA ToldFacts ==
    ASSUME NEW mm \in Seq(Message), NEW kind \in SongKinds, NEW id \in Nat
    PROVE  SongTold(Append(mm, Song(kind, id)), mm, kind, id)
<1> DEFINE m == Song(kind, id)
           nn == Append(mm, m)
           n == Len(mm) + 1
<1>1. m \in Message /\ m.kind = kind /\ m.id = id
  BY MessageFacts
<1> HIDE DEF m
<1>2. /\ Append(mm, m) \in Seq(Message)
      /\ Len(Append(mm, m)) = Len(mm) + 1
      /\ \A i \in 1 .. Len(mm) : Append(mm, m)[i] = mm[i]
      /\ Append(mm, m)[Len(mm) + 1] = m
  BY ONLY <1>1, mm \in Seq(Message), AppendProperties
<1>3. Len(mm) \in Nat /\ DOMAIN mm = 1 .. Len(mm) /\ DOMAIN nn = 1 .. Len(nn)
  BY <1>2, LenProperties
<1>4. n \notin DOMAIN mm /\ DOMAIN nn = DOMAIN mm \cup {n}
  BY <1>2, <1>3
<1>5. nn[n] = m /\ \A i \in DOMAIN mm : nn[i] = mm[i]
  BY <1>2, <1>3
<1> HIDE DEF n, nn
<1>6. n \notin SongAt(mm) /\ SongAt(nn) = SongAt(mm) \cup {n}
  BY <1>1, <1>4, <1>5 DEF SongAt
<1>7. \A i \in SongAt(mm) : i \in DOMAIN mm
  BY DEF SongAt
<1> QED BY <1>1, <1>5, <1>6, <1>7 DEF n, nn, m, SongTold

LEMMA IdTold ==
    ASSUME NEW ss, NEW mm \in Seq(Message), NEW kind \in SongKinds, NEW id \in Nat \ {0},
           IdInv(ss, mm),
           \A i \in SongAt(mm) : mm[i].id = id => Pair(mm[i].kind, kind),
           \A j \in DOMAIN ss : ss[j].id = id => Tells(kind, ss[j])
    PROVE  IdInv(ss, Append(mm, Song(kind, id)))
<1> DEFINE nn == Append(mm, Song(kind, id))
           n  == Len(mm) + 1
<1>1. /\ SongAt(nn) = SongAt(mm) \cup {n}
      /\ \A i \in SongAt(mm) : nn[i] = mm[i]
      /\ nn[n].kind = kind /\ nn[n].id = id
  <2>1. SongTold(nn, mm, kind, id)
    BY ToldFacts
  <2> HIDE DEF nn
  <2> QED BY <2>1 DEF SongTold
<1> HIDE DEF nn, n
<1>2. ASSUME NEW i \in SongAt(nn), NEW j \in SongAt(nn), nn[i].id = nn[j].id
      PROVE  i = j \/ Pair(nn[i].kind, nn[j].kind)
  <2>1. CASE i \in SongAt(mm) /\ j \in SongAt(mm)
    BY <1>1, <1>2, <2>1 DEF IdInv
  <2>2. CASE i \in SongAt(mm) /\ j = n
    BY <1>1, <1>2, <2>2
  <2>3. CASE i = n /\ j \in SongAt(mm)
    <3>1. Pair(nn[j].kind, kind)
      BY <1>1, <1>2, <2>3
    <3> QED BY <1>1, <2>3, <3>1 DEF Pair
  <2> QED BY <1>1, <2>1, <2>2, <2>3
<1>3. \A i \in SongAt(nn), j \in DOMAIN ss : nn[i].id = ss[j].id => Tells(nn[i].kind, ss[j])
  BY <1>1 DEF IdInv
<1>4. \A i \in SongAt(nn) : nn[i].id # 0
  BY <1>1 DEF IdInv
<1>5. IdInv(ss, nn)
  BY <1>2, <1>3, <1>4 DEF IdInv
<1> QED BY <1>5 DEF nn

\* What is kept of the streams and the messages does not bear a new number.
LEMMA FreshKept ==
    ASSUME TypeOK, NEW kept, NEW rest, Thinned(kept, streams), Fewer(rest, msgs)
    PROVE  /\ FreshId \in Nat \ {0}
           /\ \A i \in DOMAIN kept : kept[i].id # FreshId
           /\ \A i \in SongAt(rest) : rest[i].id # FreshId
<1>1. /\ FreshId \in Nat \ {0}
      /\ \A i \in DOMAIN streams : streams[i].id # FreshId
      /\ \A i \in DOMAIN msgs : msgs[i].id # FreshId
  BY FreshIdFacts DEF TypeOK
<1>2. PICK h \in [DOMAIN kept -> DOMAIN streams] : \A i \in DOMAIN kept : SameSong(kept[i], streams[h[i]])
  BY DEF Thinned
<1>3. PICK g \in [SongAt(rest) -> SongAt(msgs)] : \A i \in SongAt(rest) : rest[i] = msgs[g[i]]
  BY DEF Fewer
<1>4. \A i \in DOMAIN kept : kept[i].id # FreshId
  BY <1>1, <1>2 DEF SameSong
<1>5. \A i \in SongAt(rest) : rest[i].id # FreshId
  BY <1>1, <1>3 DEF SongAt
<1> QED BY <1>1, <1>4, <1>5

\* The message that a stream posts of itself.
LEMMA EndedId ==
    ASSUME TypeOK, IdInv(streams, msgs), NEW i \in DOMAIN streams, StreamMix(i) \/ StreamEnd(i)
    PROVE  IdInv(streams', msgs')
<1> DEFINE id == streams[i].id
<1>1. /\ DOMAIN streams' = DOMAIN streams /\ streams[i] \in Stream
      /\ \A j \in DOMAIN streams :
            /\ streams'[j].id = streams[j].id /\ streams'[j].entry = streams[j].entry
            /\ streams'[j].fading = streams[j].fading
            /\ j # i => streams'[j] = streams[j]
      /\ StreamMix(i) => streams'[i].mixed /\ streams'[i].stage = streams[i].stage
      /\ StreamEnd(i) => streams'[i].mixed = streams[i].mixed /\ streams'[i].stage = "done"
  BY EndedFacts
<1>2. IdInv(streams', msgs)
  <2>1. \A j \in DOMAIN streams : /\ streams'[j].id = streams[j].id
                                  /\ streams[j].mixed => streams'[j].mixed
                                  /\ streams[j].stage = "done" => streams'[j].stage = "done"
    BY <1>1
  <2> QED BY <1>1, <2>1, IdProgress
<1>3. id \in Nat \ {0} /\ msgs \in Seq(Message)
  BY <1>1 DEF IdInv, Stream, TypeOK
<1>4. CASE StreamMix(i)
  <2>1. msgs' = Append(msgs, Song("MIX", id)) /\ ~streams[i].mixed /\ streams[i].stage = "play"
    BY <1>4 DEF StreamMix
  <2>2. \A m \in SongAt(msgs) : msgs[m].id # id
    BY <2>1 DEF IdInv, Tells
  <2>3. \A j \in DOMAIN streams' : streams'[j].id = id => Tells("MIX", streams'[j])
    BY <1>1, <1>4 DEF IdInv, Tells
  <2> HIDE DEF id
  <2>4. "MIX" \in SongKinds
    BY DEF SongKinds
  <2>5. IdInv(streams', Append(msgs, Song("MIX", id)))
    BY <1>2, <1>3, <2>2, <2>3, <2>4, IdTold
  <2> QED BY <2>1, <2>5
<1>5. CASE StreamEnd(i)
  <2> DEFINE v == Verdict(streams[i])
  <2>1. msgs' = Append(msgs, Song(v, id)) /\ streams[i].stage = "over"
    BY <1>5 DEF StreamEnd
  <2>2. v = IF streams[i].mixed THEN "FINISHED" ELSE "FAILED"
    BY DEF Verdict
  <2>3. ASSUME NEW m \in SongAt(msgs), msgs[m].id = id PROVE Pair(msgs[m].kind, v)
    <3>1. Tells(msgs[m].kind, streams[i])
      BY <2>3 DEF IdInv
    <3>2. msgs[m].kind = "MIX" /\ streams[i].mixed
      BY <2>1, <3>1 DEF Tells
    <3> QED BY <2>2, <3>2 DEF Pair
  <2>4. \A j \in DOMAIN streams' : streams'[j].id = id => Tells(v, streams'[j])
    BY <1>1, <1>5, <2>2 DEF IdInv, Tells
  <2>5. v \in SongKinds
    BY <2>2 DEF SongKinds
  <2> HIDE DEF id, v
  <2>6. IdInv(streams', Append(msgs, Song(v, id)))
    BY <1>2, <1>3, <2>3, <2>4, <2>5, IdTold
  <2> QED BY <2>1, <2>6
<1> QED BY <1>4, <1>5

LEMMA IdEntered ==
    ASSUME TypeOK, TypeOK', NEW e \in Entries, NEW rest \in Seq(Message), NEW kept \in Seq(Stream),
           IdInv(kept, rest), Thinned(kept, streams), Fewer(rest, msgs), Entered(kept, e, rest)
    PROVE  IdInv(streams', msgs')
<1>1. /\ FreshId \in Nat \ {0}
      /\ \A i \in DOMAIN kept : kept[i].id # FreshId
      /\ \A i \in SongAt(rest) : rest[i].id # FreshId
  BY FreshKept
<1>2. streams' \in Seq(Stream) /\ msgs' \in Seq(Message)
  BY DEF TypeOK
<1>3. CASE streams' = kept /\ msgs' = Append(rest, Song("FAILED", FreshId))
  <2>1. "FAILED" \in SongKinds
    BY DEF SongKinds
  <2>2. IdInv(kept, Append(rest, Song("FAILED", FreshId)))
    BY <1>1, <2>1, IdTold
  <2> QED BY <1>3, <2>2
<1>4. CASE Grown(streams', kept, e, FreshId) /\ Noted(msgs', rest)
  <2>1. IdInv(streams', rest)
    BY <1>1, <1>2, <1>4, IdGrown
  <2>2. Fewer(msgs', rest)
    BY <1>2, <1>4, NotedFewer
  <2> QED BY <1>2, <2>1, <2>2, ThinnedSelf, IdThinned
<1>5. CASE streams' = kept /\ msgs' = rest
  BY <1>5
<1> QED BY <1>3, <1>4, <1>5 DEF Entered

LEMMA IdStep ==
    ASSUME TypeOK, TypeOK', Shape, IdInv(streams, msgs)
    PROVE  IdInv(streams', msgs')
<1>1. /\ streams \in Seq(Stream) /\ streams' \in Seq(Stream)
      /\ msgs \in Seq(Message) /\ msgs' \in Seq(Message)
  BY DEF TypeOK
<1>2. CASE Quiet
  BY <1>1, <1>2, IdThinned DEF Quiet
<1>3. CASE Mixing \/ Ending
  BY <1>3, EndedId DEF Mixing, Ending
<1>4. CASE Entering
  <2>1. PICK e \in Entries, rest \in Seq(Message), by \in Nat, kept \in Seq(Stream) :
          Enters(e, kept, rest, by)
    BY <1>4 DEF Entering
  <2>2. Thinned(kept, streams) /\ Fewer(rest, msgs) /\ Entered(kept, e, rest)
    BY <2>1 DEF Enters
  <2>3. IdInv(kept, rest)
    BY <1>1, <2>2, IdThinned
  <2> QED BY <2>2, <2>3, IdEntered
<1> QED BY <1>2, <1>3, <1>4 DEF Shape

----------------------------------------------------------------------------
(***************************************************************************)
(* One next song for each song.                                            *)
(***************************************************************************)

\* A song that has brought on the next one has, of its two messages, only the one
\* left that brings on none, and can post no other that does.
OnceInv(ss, mm, adv, cf) ==
    /\ 0 \notin adv
    /\ \A i \in SongAt(mm) : mm[i].id \in adv => mm[i].kind = (IF cf THEN "FINISHED" ELSE "MIX")
    /\ \A i \in DOMAIN ss : ss[i].id \in adv => ss[i].stage = "done" \/ (cf /\ ss[i].mixed)

LEMMA OnceThinned ==
    ASSUME NEW ss, NEW tt, NEW mm, NEW nn, NEW adv, NEW cf \in BOOLEAN,
           Thinned(tt, ss), Fewer(nn, mm), OnceInv(ss, mm, adv, cf)
    PROVE  OnceInv(tt, nn, adv, cf)
<1>1. PICK h \in [DOMAIN tt -> DOMAIN ss] : \A i \in DOMAIN tt : SameSong(tt[i], ss[h[i]])
  BY DEF Thinned
<1>2. PICK g \in [SongAt(nn) -> SongAt(mm)] : \A i \in SongAt(nn) : nn[i] = mm[g[i]]
  BY DEF Fewer
<1>3. \A i \in SongAt(nn) : nn[i].id \in adv => nn[i].kind = (IF cf THEN "FINISHED" ELSE "MIX")
  BY <1>2 DEF OnceInv
<1>4. ASSUME NEW i \in DOMAIN tt, tt[i].id \in adv
      PROVE  tt[i].stage = "done" \/ (cf /\ tt[i].mixed)
  <2>1. SameSong(tt[i], ss[h[i]]) /\ h[i] \in DOMAIN ss
    BY <1>1
  <2>2. ss[h[i]].stage = "done" \/ (cf /\ ss[h[i]].mixed)
    BY <1>4, <2>1 DEF OnceInv, SameSong
  <2> QED BY <2>1, <2>2 DEF SameSong
<1> QED BY <1>3, <1>4 DEF OnceInv

\* The message that brings on a song is the last of its song to do so.
LEMMA ByOnce ==
    ASSUME TypeOK, IdInv(streams, msgs), OnceInv(streams, msgs, advanced, crossfading),
           NEW e \in Entries, NEW reset \in BOOLEAN, NEW rest \in Seq(Message), NEW by \in Nat,
           NEW kept \in Seq(Stream), Cause(reset, rest, by), reset => kept = <<>>,
           Enters(e, kept, rest, by)
    PROVE  by \notin advanced /\ OnceInv(kept, rest, advanced', crossfading)
<1>1. /\ Thinned(kept, streams) /\ Fewer(rest, msgs)
      /\ advanced' = (advanced \cup {by}) \cap ((Ids(kept) \cup Ids(rest)) \ {0})
  BY DEF Enters
<1>2. crossfading \in BOOLEAN /\ streams \in Seq(Stream) /\ msgs \in Seq(Message)
  BY DEF TypeOK
<1>3. OnceInv(kept, rest, advanced, crossfading)
  BY <1>1, <1>2, OnceThinned
<1>4. CASE by = 0
  <2>1. advanced' \subseteq advanced
    BY <1>1, <1>4
  <2> QED BY <1>3, <1>4, <2>1 DEF OnceInv
<1>5. CASE by # 0
  <2>1. /\ msgs # <<>> /\ rest = Tail(msgs) /\ by = Head(msgs).id
        /\ \/ Head(msgs).kind = "MIX" /\ crossfading
           \/ Head(msgs).kind = "FINISHED" /\ ~crossfading
           \/ Head(msgs).kind = "FAILED"
    BY <1>5 DEF Cause
  <2>2. /\ Head(msgs) = msgs[1] /\ 1 \in DOMAIN msgs
        /\ \A i \in SongAt(rest) : i + 1 \in SongAt(msgs) /\ i + 1 # 1 /\ rest[i] = msgs[i + 1]
    BY <1>2, <2>1, TailFewer
  <2>3. 1 \in SongAt(msgs)
    BY <2>1, <2>2 DEF SongAt, SongKinds
  <2>4. by \notin advanced
    BY <2>1, <2>2, <2>3 DEF OnceInv
  <2>5. ASSUME NEW i \in SongAt(rest), rest[i].id = by
        PROVE  rest[i].kind = (IF crossfading THEN "FINISHED" ELSE "MIX")
    <3>1. i + 1 \in SongAt(msgs) /\ 1 # i + 1 /\ rest[i] = msgs[i + 1]
      BY <2>2
    <3>2. msgs[1].id = msgs[i + 1].id
      BY <2>1, <2>2, <2>5, <3>1
    <3>3. \A k, j \in SongAt(msgs) :
             msgs[k].id = msgs[j].id => k = j \/ Pair(msgs[k].kind, msgs[j].kind)
      BY DEF IdInv
    <3>4. Pair(msgs[1].kind, rest[i].kind)
      BY ONLY <2>3, <3>1, <3>2, <3>3
    <3> QED BY <2>1, <2>2, <3>4 DEF Pair
  <2>6. ASSUME NEW i \in DOMAIN kept, kept[i].id = by
        PROVE  kept[i].stage = "done" \/ (crossfading /\ kept[i].mixed)
    <3>1. PICK h \in [DOMAIN kept -> DOMAIN streams] : \A j \in DOMAIN kept : SameSong(kept[j], streams[h[j]])
      BY <1>1 DEF Thinned
    <3>2. SameSong(kept[i], streams[h[i]]) /\ h[i] \in DOMAIN streams
      BY <3>1
    <3>3. Tells(msgs[1].kind, streams[h[i]])
      BY <2>1, <2>2, <2>3, <2>6, <3>2 DEF IdInv, SameSong
    <3> QED BY <2>1, <2>2, <3>2, <3>3 DEF Tells, SameSong
  <2>7. advanced' \subseteq advanced \cup {by} /\ 0 \notin advanced'
    BY <1>1
  <2>8. \A i \in SongAt(rest) : rest[i].id \in advanced'
              => rest[i].kind = (IF crossfading THEN "FINISHED" ELSE "MIX")
    BY <1>3, <2>5, <2>7 DEF OnceInv
  <2>9. \A i \in DOMAIN kept : kept[i].id \in advanced'
              => kept[i].stage = "done" \/ (crossfading /\ kept[i].mixed)
    BY <1>3, <2>6, <2>7 DEF OnceInv
  <2> QED BY <2>4, <2>7, <2>8, <2>9 DEF OnceInv
<1> QED BY <1>4, <1>5

LEMMA OnceTold ==
    ASSUME NEW ss, NEW mm \in Seq(Message), NEW kind \in SongKinds, NEW id \in Nat, NEW adv,
           NEW cf \in BOOLEAN, OnceInv(ss, mm, adv, cf),
           id \in adv => kind = (IF cf THEN "FINISHED" ELSE "MIX")
    PROVE  OnceInv(ss, Append(mm, Song(kind, id)), adv, cf)
<1> DEFINE nn == Append(mm, Song(kind, id))
<1>1. SongTold(nn, mm, kind, id)
  BY ToldFacts
<1> HIDE DEF nn
<1>2. \A i \in SongAt(nn) : nn[i].id \in adv => nn[i].kind = (IF cf THEN "FINISHED" ELSE "MIX")
  BY <1>1 DEF SongTold, OnceInv
<1>3. OnceInv(ss, nn, adv, cf)
  BY <1>2 DEF OnceInv
<1> QED BY <1>3 DEF nn

LEMMA OnceEntered ==
    ASSUME TypeOK, TypeOK', NEW e \in Entries, NEW rest \in Seq(Message), NEW kept \in Seq(Stream),
           NEW by, Enters(e, kept, rest, by), OnceInv(kept, rest, advanced', crossfading)
    PROVE  OnceInv(streams', msgs', advanced', crossfading)
<1>1. /\ Thinned(kept, streams) /\ Fewer(rest, msgs) /\ Entered(kept, e, rest)
      /\ advanced' \subseteq (Ids(kept) \cup Ids(rest)) \ {0}
  BY DEF Enters
<1>2. /\ FreshId \in Nat \ {0}
      /\ \A i \in DOMAIN kept : kept[i].id # FreshId
      /\ \A i \in SongAt(rest) : rest[i].id # FreshId
  BY <1>1, FreshKept
<1>3. FreshId \notin advanced'
  <2>1. FreshId \notin Ids(kept)
    BY <1>2 DEF Ids
  <2>2. ASSUME NEW i \in DOMAIN rest PROVE rest[i].id # FreshId
    <3>1. rest[i] \in Message
      <4>1. i \in 1 .. Len(rest)
        BY LenProperties
      <4> QED BY <4>1, ElementOfSeq
    <3>2. rest[i].id = 0 \/ i \in SongAt(rest)
      BY <3>1 DEF Message, SongAt
    <3> QED BY <1>2, <3>2
  <2>3. FreshId \notin Ids(rest)
    BY <2>2 DEF Ids
  <2> QED BY <1>1, <2>1, <2>3
<1>4. streams' \in Seq(Stream) /\ msgs' \in Seq(Message) /\ crossfading \in BOOLEAN
  BY DEF TypeOK
<1>5. CASE streams' = kept /\ msgs' = Append(rest, Song("FAILED", FreshId))
  <2>1. "FAILED" \in SongKinds
    BY DEF SongKinds
  <2>2. OnceInv(kept, Append(rest, Song("FAILED", FreshId)), advanced', crossfading)
    BY <1>2, <1>3, <1>4, <2>1, OnceTold
  <2> QED BY <1>5, <2>2
<1>6. CASE Grown(streams', kept, e, FreshId) /\ Noted(msgs', rest)
  <2>1. Len(kept) \in Nat /\ DOMAIN kept = 1 .. Len(kept) /\ DOMAIN streams' = 1 .. Len(kept) + 1
    BY <1>4, <1>6, LenProperties DEF Grown
  <2>2. ASSUME NEW i \in DOMAIN streams', streams'[i].id \in advanced'
        PROVE  streams'[i].stage = "done" \/ (crossfading /\ streams'[i].mixed)
    <3>1. i # Len(kept) + 1
      BY <1>3, <1>6, <2>2 DEF Grown
    <3>2. i \in 1 .. Len(kept) /\ i \in DOMAIN kept
      BY <2>1, <3>1
    <3>3. SameSong(streams'[i], kept[i])
      BY <1>6, <3>2 DEF Grown
    <3>4. kept[i].stage = "done" \/ (crossfading /\ kept[i].mixed)
      BY <2>2, <3>2, <3>3 DEF OnceInv, SameSong
    <3> QED BY <3>3, <3>4 DEF SameSong
  <2>3. OnceInv(streams', rest, advanced', crossfading)
    BY <2>2 DEF OnceInv
  <2>4. Fewer(msgs', rest)
    BY <1>4, <1>6, NotedFewer
  <2> QED BY <1>4, <2>3, <2>4, ThinnedSelf, OnceThinned
<1>7. CASE streams' = kept /\ msgs' = rest
  BY <1>7
<1> QED BY <1>1, <1>5, <1>6, <1>7 DEF Entered

LEMMA OnceEnded ==
    ASSUME TypeOK, OnceInv(streams, msgs, advanced, crossfading),
           NEW i \in DOMAIN streams, StreamMix(i) \/ StreamEnd(i)
    PROVE  OnceInv(streams', msgs', advanced, crossfading)
<1> DEFINE id == streams[i].id
<1>1. /\ DOMAIN streams' = DOMAIN streams /\ streams[i] \in Stream
      /\ \A j \in DOMAIN streams :
            /\ streams'[j].id = streams[j].id /\ streams'[j].entry = streams[j].entry
            /\ streams'[j].fading = streams[j].fading
            /\ j # i => streams'[j] = streams[j]
      /\ StreamMix(i) => streams'[i].mixed /\ streams'[i].stage = streams[i].stage
      /\ StreamEnd(i) => streams'[i].mixed = streams[i].mixed /\ streams'[i].stage = "done"
  BY EndedFacts
<1>2. OnceInv(streams', msgs, advanced, crossfading)
  BY <1>1 DEF OnceInv
<1>3. id \in Nat /\ msgs \in Seq(Message) /\ crossfading \in BOOLEAN
  BY <1>1 DEF Stream, TypeOK
<1>4. CASE StreamMix(i)
  <2>1. msgs' = Append(msgs, Song("MIX", id)) /\ ~streams[i].mixed /\ streams[i].stage = "play"
    BY <1>4 DEF StreamMix
  <2>2. id \notin advanced
    BY <2>1 DEF OnceInv
  <2>3. "MIX" \in SongKinds
    BY DEF SongKinds
  <2> HIDE DEF id
  <2>4. OnceInv(streams', Append(msgs, Song("MIX", id)), advanced, crossfading)
    BY <1>2, <1>3, <2>2, <2>3, OnceTold
  <2> QED BY <2>1, <2>4
<1>5. CASE StreamEnd(i)
  <2> DEFINE v == Verdict(streams[i])
  <2>1. msgs' = Append(msgs, Song(v, id)) /\ streams[i].stage = "over"
    BY <1>5 DEF StreamEnd
  <2>2. v = IF streams[i].mixed THEN "FINISHED" ELSE "FAILED"
    BY DEF Verdict
  <2>3. v \in SongKinds
    BY <2>2 DEF SongKinds
  <2>4. id \in advanced => v = (IF crossfading THEN "FINISHED" ELSE "MIX")
    BY <2>1, <2>2 DEF OnceInv
  <2> HIDE DEF id, v
  <2>5. OnceInv(streams', Append(msgs, Song(v, id)), advanced, crossfading)
    BY <1>2, <1>3, <2>3, <2>4, OnceTold
  <2> QED BY <2>1, <2>5
<1> QED BY <1>4, <1>5

OneNext == ~toggled => ~twice /\ OnceInv(streams, msgs, advanced, crossfading)

LEMMA OnceStep ==
    ASSUME TypeOK, TypeOK', Shape, Background, IdInv(streams, msgs), OneNext
    PROVE  OneNext'
<1>1. SUFFICES ASSUME ~toggled'
               PROVE  ~twice' /\ OnceInv(streams', msgs', advanced', crossfading')
  BY DEF OneNext, OnceInv
<1>2. /\ ~twice /\ OnceInv(streams, msgs, advanced, crossfading) /\ crossfading' = crossfading
      /\ crossfading \in BOOLEAN
  BY <1>1 DEF Background, OneNext, TypeOK
<1>3. CASE Quiet
  <2>1. Thinned(streams', streams) /\ Fewer(msgs', msgs) /\ twice' = twice /\ advanced' = advanced
    BY <1>3 DEF Quiet
  <2>2. OnceInv(streams', msgs', advanced, crossfading)
    BY <1>2, <2>1, OnceThinned
  <2> QED BY <1>2, <2>1, <2>2
<1>4. CASE Mixing \/ Ending
  <2>1. PICK i \in DOMAIN streams : StreamMix(i) \/ StreamEnd(i)
    BY <1>4 DEF Mixing, Ending
  <2>2. twice' = twice /\ advanced' = advanced
    BY <2>1 DEF StreamMix, StreamEnd, countVars
  <2>3. OnceInv(streams', msgs', advanced, crossfading)
    BY <1>2, <2>1, OnceEnded
  <2> QED BY <1>2, <2>2, <2>3
<1>5. CASE Entering
  <2>1. PICK e \in Entries, reset \in BOOLEAN, rest \in Seq(Message), by \in Nat, kept \in Seq(Stream) :
          /\ Cause(reset, rest, by)
          /\ reset => kept = <<>>
          /\ Enters(e, kept, rest, by)
    BY <1>5 DEF Entering
  <2>2. by \notin advanced /\ OnceInv(kept, rest, advanced', crossfading)
    BY <1>2, <2>1, ByOnce
  <2>3. OnceInv(streams', msgs', advanced', crossfading)
    BY <2>1, <2>2, OnceEntered
  <2>4. twice' = (twice \/ by \in advanced)
    BY <2>1 DEF Enters
  <2> QED BY <1>2, <2>2, <2>3, <2>4
<1> QED BY <1>3, <1>4, <1>5 DEF Shape

LEMMA SongInit ==
    ASSUME Init
    PROVE  /\ IdInv(streams, msgs) /\ OneNext
           /\ SongAt(msgs) = {} /\ failed = {}
           /\ \A i \in DOMAIN streams : i = 1 /\ i = Len(streams) /\ streams[i].id = 1 /\ streams[i].entry = active
           /\ \A e \in Entries : avail[e]
<1>1. SongAt(msgs) = {}
  BY DEF Init, SongAt
<1>2. \A i \in DOMAIN streams : i = 1 /\ i = Len(streams) /\ streams[i].id = 1 /\ streams[i].entry = active
  <2>1. CASE streams = <<>>
    BY <2>1
  <2>2. CASE \E e \in readable : active = e /\ streams = <<NewStream(1, e, FALSE)>>
    <3>1. PICK e \in readable : active = e /\ streams = <<NewStream(1, e, FALSE)>>
      BY <2>2
    <3> DEFINE s == NewStream(1, e, FALSE)
    <3>2. s.id = 1 /\ s.entry = e
      BY DEF NewStream
    <3> HIDE DEF s
    <3>3. streams = <<s>>
      BY <3>1 DEF s
    <3>4. Len(streams) = 1 /\ streams[1] = s /\ DOMAIN streams = 1 .. 1
      BY <3>3
    <3>5. \A i \in DOMAIN streams : i = 1
      BY <3>4
    <3> QED BY <3>1, <3>2, <3>4, <3>5
  <2> QED BY <2>1, <2>2 DEF Init
<1>3. IdInv(streams, msgs)
  BY <1>1, <1>2 DEF IdInv
<1>4. OnceInv(streams, msgs, advanced, crossfading) /\ ~twice
  BY <1>1 DEF Init, OnceInv
<1> QED BY <1>1, <1>2, <1>3, <1>4 DEF Init, OneNext

\* Unless crossfading is switched in between, the mix point of a song and its end
\* together start at most one next song (the MIX, FINISHED and FAILED handlers of
\* CTuniacApp::WndProc), in whatever order messages, commands and resets come.
THEOREM OneSongOneNext == Spec => []AdvanceOnce
<1> DEFINE Inv == IdInv(streams, msgs) /\ OneNext
<1>1. Init => Inv
  BY SongInit
<1>2. TypeOK /\ Inv /\ [Next]_vars => Inv'
  <2> SUFFICES ASSUME TypeOK, Inv, [Next]_vars PROVE Inv'
    OBVIOUS
  <2>1. TypeOK' /\ Shape /\ Background
    BY StepShape
  <2>2. IdInv(streams', msgs')
    BY <2>1, IdStep
  <2>3. OneNext'
    BY <2>1, OnceStep
  <2> QED BY <2>2, <2>3 DEF IdInv, SongAt, Pair, Tells
<1>3. Inv => AdvanceOnce
  BY DEF OneNext, AdvanceOnce
<1> QED BY <1>1, <1>2, <1>3, PlayerTypes, PTL DEF Spec

----------------------------------------------------------------------------
(***************************************************************************)
(* Which entry is blamed for a failure.                                    *)
(***************************************************************************)

\* The messages that bring on a next song, and the streams that may still post one.
Calls(mm, cf) ==
    {i \in SongAt(mm) : mm[i].kind = "FAILED" \/ mm[i].kind = (IF cf THEN "MIX" ELSE "FINISHED")}
Live(ss, cf) == {i \in DOMAIN ss : ss[i].stage # "done" /\ (cf => ~ss[i].mixed)}

\* There is one place to go on from: the last stream, which plays the active entry,
\* or one message; a message of failure is of the active entry.
LineInv(ss, mm, cf, act, fl) ==
    /\ \A i \in Live(ss, cf) : i = Len(ss) /\ ss[i].entry = act
    /\ \A i, j \in Calls(mm, cf) : i = j
    /\ Calls(mm, cf) # {} => Live(ss, cf) = {}
    /\ \A i \in Calls(mm, cf) : mm[i].kind = "FAILED" => act \in fl

LEMMA LineThinned ==
    ASSUME NEW ss \in Seq(Stream), NEW tt \in Seq(Stream), NEW mm, NEW nn, NEW cf \in BOOLEAN,
           NEW act, NEW fl, Thinned(tt, ss), Fewer(nn, mm), LineInv(ss, mm, cf, act, fl)
    PROVE  LineInv(tt, nn, cf, act, fl)
<1>1. PICK h \in [DOMAIN tt -> DOMAIN ss] :
        /\ \A i, j \in DOMAIN tt : i < j => h[i] < h[j]
        /\ \A i \in DOMAIN tt : SameSong(tt[i], ss[h[i]])
  BY DEF Thinned
<1>2. PICK g \in [SongAt(nn) -> SongAt(mm)] :
        /\ \A i, j \in SongAt(nn) : g[i] = g[j] => i = j
        /\ \A i \in SongAt(nn) : nn[i] = mm[g[i]]
  BY DEF Fewer
<1>3. /\ Len(ss) \in Nat /\ DOMAIN ss = 1 .. Len(ss)
      /\ Len(tt) \in Nat /\ DOMAIN tt = 1 .. Len(tt)
  BY LenProperties
<1>4. \A i \in Live(tt, cf) : i \in DOMAIN tt /\ h[i] \in Live(ss, cf) /\ tt[i].entry = ss[h[i]].entry
  <2> SUFFICES ASSUME NEW i \in Live(tt, cf)
               PROVE  i \in DOMAIN tt /\ h[i] \in Live(ss, cf) /\ tt[i].entry = ss[h[i]].entry
    OBVIOUS
  <2>1. i \in DOMAIN tt /\ h[i] \in DOMAIN ss /\ SameSong(tt[i], ss[h[i]])
    BY <1>1 DEF Live
  <2>2. tt[i].stage # "done" /\ (cf => ~tt[i].mixed)
    BY DEF Live
  <2>3. ss[h[i]].stage # "done" /\ (cf => ~ss[h[i]].mixed)
    BY <2>1, <2>2 DEF SameSong
  <2> QED BY <2>1, <2>3 DEF Live, SameSong
<1>5. \A i \in Calls(nn, cf) : i \in SongAt(nn) /\ g[i] \in Calls(mm, cf) /\ nn[i] = mm[g[i]]
  BY <1>2 DEF Calls
<1>6. ASSUME NEW i \in Live(tt, cf) PROVE i = Len(tt) /\ tt[i].entry = act
  <2>1. h[i] = Len(ss) /\ ss[h[i]].entry = act /\ i \in 1 .. Len(tt)
    BY <1>3, <1>4 DEF LineInv
  <2>2. ~(i < Len(tt))
    <3>1. SUFFICES ASSUME i < Len(tt) PROVE FALSE
      OBVIOUS
    <3>2. Len(tt) \in DOMAIN tt /\ i \in DOMAIN tt
      BY <1>3, <2>1, <3>1
    <3>3. h[i] < h[Len(tt)] /\ h[Len(tt)] \in 1 .. Len(ss)
      BY <1>1, <1>3, <3>1, <3>2
    <3> QED BY <1>3, <2>1, <3>3
  <2>3. i = Len(tt)
    <3>1. i \in 1 .. Len(tt) /\ Len(tt) \in Nat
      BY <1>3, <2>1
    <3>2. \A k \in Nat : \A j \in 1 .. k : ~(j < k) => j = k
      OBVIOUS
    <3> QED BY <2>2, <3>1, <3>2
  <2> QED BY <1>4, <2>1, <2>3
<1>7. \A i, j \in Calls(nn, cf) : i = j
  BY <1>2, <1>5 DEF LineInv
<1>8. Calls(nn, cf) # {} => Live(tt, cf) = {}
  BY <1>4, <1>5 DEF LineInv
<1>9. \A i \in Calls(nn, cf) : nn[i].kind = "FAILED" => act \in fl
  BY <1>5 DEF LineInv
<1> QED BY <1>6, <1>7, <1>8, <1>9 DEF LineInv

LEMMA LineEntered ==
    ASSUME TypeOK, TypeOK', NEW e \in Entries, NEW rest \in Seq(Message), NEW kept \in Seq(Stream),
           NEW by, Enters(e, kept, rest, by),
           Calls(rest, crossfading) = {}, Live(kept, crossfading) = {}
    PROVE  LineInv(streams', msgs', crossfading, active', failed')
<1> DEFINE cf == crossfading
<1>1. streams' \in Seq(Stream) /\ msgs' \in Seq(Message) /\ active' = e /\ Entered(kept, e, rest)
  BY DEF TypeOK, Enters
<1>2. FreshId \in Nat
  BY FreshIdFacts DEF TypeOK
<1>3. CASE /\ streams' = kept /\ msgs' = Append(rest, Song("FAILED", FreshId))
           /\ failed' = failed \cup {e}
  <2>1. SongTold(msgs', rest, "FAILED", FreshId)
    <3>1. "FAILED" \in SongKinds
      BY DEF SongKinds
    <3> QED BY <1>2, <1>3, <3>1, ToldFacts
  <2>2. \A i \in Calls(msgs', cf) : i = Len(rest) + 1
    BY <2>1 DEF SongTold, Calls
  <2>3. Live(streams', cf) = {}
    BY <1>3
  <2> HIDE DEF cf
  <2>4. LineInv(streams', msgs', cf, active', failed')
    BY <1>1, <1>3, <2>2, <2>3 DEF LineInv
  <2> QED BY <2>4 DEF cf
<1>4. CASE Grown(streams', kept, e, FreshId) /\ Noted(msgs', rest)
  <2>1. Fewer(msgs', rest)
    BY <1>1, <1>4, NotedFewer
  <2>2. PICK g \in [SongAt(msgs') -> SongAt(rest)] : \A i \in SongAt(msgs') : msgs'[i] = rest[g[i]]
    BY <2>1 DEF Fewer
  <2>3. \A i \in Calls(msgs', cf) : g[i] \in Calls(rest, cf)
    BY <2>2 DEF Calls
  <2>4. Calls(msgs', cf) = {}
    BY <2>3
  <2>5. /\ Len(kept) \in Nat /\ DOMAIN kept = 1 .. Len(kept)
        /\ Len(streams') = Len(kept) + 1 /\ DOMAIN streams' = 1 .. Len(kept) + 1
    BY <1>1, <1>4, LenProperties DEF Grown
  <2>6. ASSUME NEW i \in Live(streams', cf) PROVE i = Len(streams') /\ streams'[i].entry = active'
    <3>1. i \in DOMAIN streams' /\ streams'[i].stage # "done" /\ (cf => ~streams'[i].mixed)
      BY DEF Live
    <3>2. CASE i = Len(kept) + 1
      BY <1>1, <1>4, <2>5, <3>2 DEF Grown
    <3>3. CASE i # Len(kept) + 1
      <4>1. i \in 1 .. Len(kept) /\ i \in DOMAIN kept
        BY <2>5, <3>1, <3>3
      <4>2. SameSong(streams'[i], kept[i])
        BY <1>4, <4>1 DEF Grown
      <4>3. i \in Live(kept, cf)
        BY <3>1, <4>1, <4>2 DEF SameSong, Live
      <4> QED BY <4>3
    <3> QED BY <3>2, <3>3
  <2> HIDE DEF cf
  <2>7. LineInv(streams', msgs', cf, active', failed')
    BY <2>4, <2>6 DEF LineInv
  <2> QED BY <2>7 DEF cf
<1>5. CASE streams' = kept /\ msgs' = rest
  BY <1>5 DEF LineInv
<1> QED BY <1>1, <1>3, <1>4, <1>5 DEF Entered

LEMMA LineEnded ==
    ASSUME TypeOK, LineInv(streams, msgs, crossfading, active, failed),
           NEW i \in DOMAIN streams, StreamMix(i) \/ StreamEnd(i)
    PROVE  LineInv(streams', msgs', crossfading, active', failed')
<1> DEFINE id == streams[i].id
           cf == crossfading
           v  == Verdict(streams[i])
<1>1. /\ i \in 1 .. Len(streams) /\ DOMAIN streams = 1 .. Len(streams)
      /\ DOMAIN streams' = DOMAIN streams /\ Len(streams') = Len(streams)
      /\ streams[i] \in Stream
      /\ \A j \in DOMAIN streams :
            /\ streams'[j].id = streams[j].id /\ streams'[j].entry = streams[j].entry
            /\ streams'[j].fading = streams[j].fading
            /\ j # i => streams'[j] = streams[j]
      /\ StreamMix(i) => streams'[i].mixed /\ streams'[i].stage = streams[i].stage
      /\ StreamEnd(i) => streams'[i].mixed = streams[i].mixed /\ streams'[i].stage = "done"
  BY EndedFacts
<1>2. id \in Nat /\ msgs \in Seq(Message) /\ cf \in BOOLEAN
  BY <1>1 DEF Stream, TypeOK
<1>3. active' = active
  BY DEF StreamMix, StreamEnd
<1>4. \A j \in DOMAIN streams : /\ streams[j].mixed => streams'[j].mixed
                                /\ streams[j].stage = "done" => streams'[j].stage = "done"
  <2>1. StreamMix(i) => streams[i].stage = "play"
    BY DEF StreamMix
  <2> QED BY <1>1, <2>1
<1>5. Live(streams', cf) \subseteq Live(streams, cf)
  BY <1>1, <1>4 DEF Live
<1>6. \A j \in Live(streams', cf) : j = Len(streams') /\ streams'[j].entry = active'
  <2>1. \A j \in Live(streams, cf) : j \in DOMAIN streams
    BY DEF Live
  <2> QED BY <1>1, <1>3, <1>5, <2>1 DEF LineInv
<1>7. ASSUME NEW kind \in SongKinds, msgs' = Append(msgs, Song(kind, id)),
             failed \subseteq failed',
             kind = "FAILED" \/ kind = (IF cf THEN "MIX" ELSE "FINISHED")
                => i \in Live(streams, cf) /\ i \notin Live(streams', cf),
             kind = "FAILED" => streams[i].entry \in failed'
      PROVE  LineInv(streams', msgs', cf, active', failed')
  <2> DEFINE n == Len(msgs) + 1
             counts == kind = "FAILED" \/ kind = (IF cf THEN "MIX" ELSE "FINISHED")
  <2>1. SongTold(msgs', msgs, kind, id)
    BY <1>2, <1>7, ToldFacts
  <2>2. /\ SongAt(msgs') = SongAt(msgs) \cup {n} /\ \A j \in SongAt(msgs) : msgs'[j] = msgs[j]
        /\ msgs'[n].kind = kind
    BY <2>1 DEF SongTold
  <2> HIDE DEF n
  <2>3. CASE ~counts
    <3>1. Calls(msgs', cf) = Calls(msgs, cf) /\ \A j \in Calls(msgs, cf) : msgs'[j] = msgs[j]
      BY <2>2, <2>3 DEF Calls
    <3> QED BY <1>3, <1>5, <1>6, <1>7, <3>1 DEF LineInv
  <2>4. CASE counts
    <3>1. i \in Live(streams, cf) /\ i \notin Live(streams', cf)
      BY <1>7, <2>4
    <3>2. Calls(msgs, cf) = {}
      BY <3>1 DEF LineInv
    <3>3. \A j \in Calls(msgs', cf) : j = n
      BY <2>2, <3>2 DEF Calls
    <3>4. Live(streams', cf) = {}
      BY <1>5, <3>1 DEF LineInv
    <3>5. kind = "FAILED" => active' \in failed'
      BY <1>3, <1>7, <3>1 DEF LineInv
    <3> QED BY <2>2, <3>3, <3>4, <3>5 DEF LineInv
  <2> QED BY <2>3, <2>4
<1>8. CASE StreamMix(i)
  <2>1. /\ msgs' = Append(msgs, Song("MIX", id)) /\ ~streams[i].mixed /\ streams[i].stage = "play"
        /\ failed' = failed
    BY <1>8 DEF StreamMix
  <2>2. i \in Live(streams, cf)
    BY <2>1 DEF Live
  <2>3. cf => i \notin Live(streams', cf)
    BY <1>1, <1>8 DEF Live
  <2>4. "MIX" \in SongKinds
    BY DEF SongKinds
  <2>5. "MIX" = (IF cf THEN "MIX" ELSE "FINISHED") => cf
    BY <1>2
  <2> HIDE DEF id, cf
  <2>6. LineInv(streams', msgs', cf, active', failed')
    BY <1>7, <2>1, <2>2, <2>3, <2>4, <2>5
  <2> QED BY <2>6 DEF cf
<1>9. CASE StreamEnd(i)
  <2>1. /\ msgs' = Append(msgs, Song(v, id)) /\ streams[i].stage = "over"
        /\ failed' = IF streams[i].mixed THEN failed ELSE failed \cup {streams[i].entry}
    BY <1>9 DEF StreamEnd
  <2>2. v = IF streams[i].mixed THEN "FINISHED" ELSE "FAILED"
    BY DEF Verdict
  <2>3. v \in SongKinds
    BY <2>2 DEF SongKinds
  <2>4. i \notin Live(streams', cf)
    BY <1>1, <1>9 DEF Live
  <2>5. v = "FAILED" => ~streams[i].mixed
    BY <2>2
  <2>6. v = (IF cf THEN "MIX" ELSE "FINISHED") => ~cf
    BY <1>2, <2>2
  <2>7. v = "FAILED" \/ v = (IF cf THEN "MIX" ELSE "FINISHED") => i \in Live(streams, cf)
    BY <2>1, <2>5, <2>6 DEF Live
  <2>8. failed \subseteq failed' /\ (v = "FAILED" => streams[i].entry \in failed')
    BY <2>1, <2>5
  <2> HIDE DEF id, cf, v
  <2>9. LineInv(streams', msgs', cf, active', failed')
    BY <1>7, <2>1, <2>3, <2>4, <2>7, <2>8
  <2> QED BY <2>9 DEF cf
<1> QED BY <1>8, <1>9

\* A song is entered when there is nothing else left to go on from.
LEMMA EnteredAlone ==
    ASSUME TypeOK, ~overtaken', LineInv(streams, msgs, crossfading, active, failed),
           NEW e \in Entries, NEW reset \in BOOLEAN, NEW rest \in Seq(Message), NEW by \in Nat,
           NEW kept \in Seq(Stream), Cause(reset, rest, by), reset => kept = <<>>,
           Enters(e, kept, rest, by)
    PROVE  Calls(rest, crossfading) = {} /\ Live(kept, crossfading) = {}
<1> DEFINE cf == crossfading
<1>1. Thinned(kept, streams) /\ Fewer(rest, msgs) /\ streams \in Seq(Stream) /\ msgs \in Seq(Message)
  BY DEF TypeOK, Enters
<1>2. CASE reset /\ SongAt(msgs) = {}
  <2>1. Live(kept, cf) = {}
    BY <1>2 DEF Live
  <2>2. SongAt(rest) = {}
    BY <1>1, <1>2 DEF Fewer
  <2> QED BY <2>1, <2>2 DEF Calls
<1>3. CASE /\ msgs # <<>> /\ rest = Tail(msgs)
           /\ \/ Head(msgs).kind = "MIX" /\ cf
              \/ Head(msgs).kind = "FINISHED" /\ ~cf
              \/ Head(msgs).kind = "FAILED"
  <2>1. /\ Head(msgs) = msgs[1] /\ 1 \in DOMAIN msgs
        /\ \A i \in SongAt(rest) : i + 1 \in SongAt(msgs) /\ i + 1 # 1 /\ rest[i] = msgs[i + 1]
    BY <1>1, <1>3, TailFewer
  <2>2. 1 \in Calls(msgs, cf)
    BY <1>3, <2>1 DEF Calls, SongAt, SongKinds
  <2>3. \A i \in Calls(rest, cf) : i + 1 \in Calls(msgs, cf) /\ i + 1 # 1
    BY <2>1 DEF Calls
  <2>4. Calls(rest, cf) = {}
    BY <2>2, <2>3 DEF LineInv
  <2>5. Live(streams, cf) = {}
    BY <2>2 DEF LineInv
  <2>6. PICK h \in [DOMAIN kept -> DOMAIN streams] : \A i \in DOMAIN kept : SameSong(kept[i], streams[h[i]])
    BY <1>1 DEF Thinned
  <2>7. \A i \in Live(kept, cf) : h[i] \in Live(streams, cf)
    BY <2>6 DEF Live, SameSong
  <2> QED BY <2>4, <2>5, <2>7
<1> QED BY <1>2, <1>3 DEF Cause

Blame ==
    ~toggled /\ ~overtaken =>
        /\ LineInv(streams, msgs, crossfading, active, failed)
        /\ \A e \in Entries : avail[e] \/ e \in failed

LEMMA BlameStep ==
    ASSUME TypeOK, TypeOK', Shape, Background, Blame
    PROVE  Blame'
<1>1. SUFFICES ASSUME ~toggled', ~overtaken'
               PROVE  /\ LineInv(streams', msgs', crossfading', active', failed')
                      /\ \A e \in Entries : avail'[e] \/ e \in failed'
  BY DEF Blame, LineInv, Live, Calls, SongAt
<1>2. /\ LineInv(streams, msgs, crossfading, active, failed)
      /\ \A e \in Entries : avail[e] \/ e \in failed
      /\ crossfading' = crossfading
  BY <1>1 DEF Background, Blame
<1>3. /\ streams \in Seq(Stream) /\ streams' \in Seq(Stream) /\ msgs \in Seq(Message)
      /\ crossfading \in BOOLEAN
  BY DEF TypeOK
<1>4. failed \subseteq failed'
  <2>1. CASE Quiet
    BY <2>1 DEF Quiet
  <2>2. CASE Mixing \/ Ending
    <3>1. PICK i \in DOMAIN streams : StreamMix(i) \/ StreamEnd(i)
      BY <2>2 DEF Mixing, Ending
    <3> QED BY <3>1 DEF StreamMix, StreamEnd
  <2>3. CASE Entering
    <3>1. PICK e \in Entries, rest \in Seq(Message), by \in Nat, kept \in Seq(Stream) :
            Enters(e, kept, rest, by)
      BY <2>3 DEF Entering
    <3> QED BY <3>1 DEF Enters, Entered
  <2> QED BY <2>1, <2>2, <2>3 DEF Shape
<1>5. ASSUME NEW e \in Entries, ~avail'[e] PROVE e \in failed'
  <2>1. CASE ~avail[e]
    BY <1>2, <1>4, <2>1
  <2>2. CASE e = active /\ msgs # <<>> /\ Head(msgs).kind = "FAILED"
    <3>1. Head(msgs) = msgs[1] /\ 1 \in DOMAIN msgs
      BY <1>3, <2>2, TailFewer
    <3>2. 1 \in Calls(msgs, crossfading)
      BY <2>2, <3>1 DEF Calls, SongAt, SongKinds
    <3>3. active \in failed
      BY <1>2, <2>2, <3>1, <3>2 DEF LineInv
    <3> QED BY <1>4, <2>2, <3>3
  <2> QED BY <1>5, <2>1, <2>2 DEF Background
<1>6. LineInv(streams', msgs', crossfading, active', failed')
  <2>1. CASE Quiet
    <3>1. LineInv(streams', msgs', crossfading, active, failed)
      BY <1>2, <1>3, <2>1, LineThinned DEF Quiet
    <3> QED BY <2>1, <3>1 DEF Quiet
  <2>2. CASE Mixing \/ Ending
    <3>1. PICK i \in DOMAIN streams : StreamMix(i) \/ StreamEnd(i)
      BY <2>2 DEF Mixing, Ending
    <3> QED BY <1>2, <3>1, LineEnded
  <2>3. CASE Entering
    <3>1. PICK e \in Entries, reset \in BOOLEAN, rest \in Seq(Message), by \in Nat, kept \in Seq(Stream) :
            /\ Cause(reset, rest, by)
            /\ reset => kept = <<>>
            /\ Enters(e, kept, rest, by)
      BY <2>3 DEF Entering
    <3>2. Calls(rest, crossfading) = {} /\ Live(kept, crossfading) = {}
      BY <1>1, <1>2, <3>1, EnteredAlone
    <3> QED BY <3>1, <3>2, LineEntered
  <2> QED BY <2>1, <2>2, <2>3 DEF Shape
<1> QED BY <1>2, <1>5, <1>6

\* An entry marked unavailable has failed, unless a command overtook a song's
\* message or crossfading was switched: FAILED marks the entry that is active when
\* it is handled, and that is the one it was posted for (CTuniacApp::WndProc).
THEOREM MarksAreExplained == Spec => []MarksExplained
<1>1. Init => Blame
  <2> SUFFICES ASSUME Init PROVE Blame
    OBVIOUS
  <2>1. /\ SongAt(msgs) = {} /\ \A e \in Entries : avail[e]
        /\ \A i \in DOMAIN streams : i = Len(streams) /\ streams[i].entry = active
    BY SongInit
  <2> QED BY <2>1 DEF Blame, LineInv, Live, Calls
<1>2. TypeOK /\ Blame /\ [Next]_vars => Blame'
  BY StepShape, BlameStep
<1>3. Blame => MarksExplained
  BY DEF Blame, MarksExplained
<1> QED BY <1>1, <1>2, <1>3, PlayerTypes, PTL DEF Spec
=============================================================================
