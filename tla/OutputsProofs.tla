---------------------------- MODULE OutputsProofs ----------------------------
(***************************************************************************)
(* For every track, stream and file: the samples of an MP4 lie where its   *)
(* tables say, its durations are true, the audio is cut at its headers     *)
(* and nowhere else, and an IVF is read back as it was written.            *)
(***************************************************************************)
EXTENDS Outputs, SequenceTheorems, TLAPS

(* A sum of sizes is a fold (Total of Mp4). *)
Plus(t, s) == t + s
Sizes == INSTANCE NatRecursion WITH base <- 0, Step <- Plus

-----------------------------------------------------------------------------
(* Sums of sizes.                                                          *)

LEMMA TotalFolds == \A s : Total(s) = Sizes!FoldLeft(Plus, 0, s)
  BY Zenon DEF Total, Plus, FoldLeft, MapThenFoldSet, Max,
               Sizes!FoldLeft, Sizes!MapThenFoldSet, Sizes!Max

LEMMA TotalEmpty == Total(<< >>) = 0
  BY TotalFolds, Sizes!FoldEmpty

LEMMA TotalAppend ==
  ASSUME NEW s \in Seq(Nat), NEW x \in Nat
  PROVE  Total(Append(s, x)) = Total(s) + x
<1>1. Sizes!FoldLeft(Plus, 0, Append(s, x)) = Plus(Sizes!FoldLeft(Plus, 0, s), x)
  BY Sizes!FoldAppend
<1> QED
  BY <1>1, TotalFolds DEF Plus

(* The sum of the first n sizes. *)
Before(s, n) == Total(SubSeq(s, 1, n))

LEMMA BeforeStep ==
  ASSUME NEW s \in Seq(Nat), NEW n \in 1..Len(s)
  PROVE  Before(s, n) = Before(s, n - 1) + s[n]
<1>1. Len(s) \in Nat /\ s[n] \in Nat
  BY LenProperties, ElementOfSeq
<1>2. /\ SubSeq(s, 1, n - 1) \in Seq(Nat)
      /\ SubSeq(s, 1, n) = Append(SubSeq(s, 1, n - 1), s[n])
  BY <1>1
<1> QED
  BY <1>1, <1>2, TotalAppend DEF Before

LEMMA BeforeNone == \A s : Before(s, 0) = 0
<1> TAKE s
<1>1. SubSeq(s, 1, 0) = << >>
  BY SubSeqEmpty
<1> QED
  BY <1>1, TotalEmpty DEF Before

LEMMA BeforeAll == \A s \in Seq(Nat) : Before(s, Len(s)) = Total(s)
  BY SubSeqFull DEF Before

LEMMA BeforeType ==
  ASSUME NEW s \in Seq(Nat)
  PROVE  \A n \in 0..Len(s) : Before(s, n) \in Nat
<1> DEFINE P == {n \in Nat : n <= Len(s) => Before(s, n) \in Nat}
<1>0. Len(s) \in Nat
  BY LenProperties
<1>1. 0 \in P
  BY BeforeNone
<1>2. ASSUME NEW n \in P PROVE n + 1 \in P
  <2> SUFFICES ASSUME n + 1 <= Len(s) PROVE Before(s, n + 1) \in Nat
    OBVIOUS
  <2>1. n + 1 \in 1..Len(s) /\ (n + 1) - 1 = n /\ Before(s, n) \in Nat
    BY <1>0
  <2>2. s[n + 1] \in Nat
    BY <2>1, ElementOfSeq
  <2>3. Before(s, n + 1) = Before(s, (n + 1) - 1) + s[n + 1]
    BY <2>1, BeforeStep
  <2> QED
    BY <2>1, <2>2, <2>3
<1>3. P = Nat
  <2>1. P \in SUBSET Nat
    OBVIOUS
  <2> HIDE DEF P
  <2> QED
    BY <1>1, <1>2, <2>1, Sizes!NatSetInduction
<1> QED
  BY <1>0, <1>3

LEMMA TotalType == \A s \in Seq(Nat) : Total(s) \in Nat
<1> TAKE s \in Seq(Nat)
<1>1. Len(s) \in 0..Len(s)
  BY LenProperties
<1> QED
  BY <1>1, BeforeType, BeforeAll

(* What comes before a later element is no less, and more by what lies     *)
(* between.                                                                *)
LEMMA BeforeGrows ==
  ASSUME NEW s \in Seq(Nat), NEW m \in 0..Len(s)
  PROVE  \A n \in m..Len(s) : Before(s, m) <= Before(s, n)
<1> DEFINE P == {n \in Nat : m <= n /\ n <= Len(s) => Before(s, m) <= Before(s, n)}
<1>0. Len(s) \in Nat /\ Before(s, m) \in Nat
  BY LenProperties, BeforeType
<1>1. 0 \in P
  <2>1. m <= 0 => m = 0
    OBVIOUS
  <2> QED
    BY <1>0, <2>1
<1>2. ASSUME NEW n \in P PROVE n + 1 \in P
  <2> SUFFICES ASSUME m <= n + 1, n + 1 <= Len(s) PROVE Before(s, m) <= Before(s, n + 1)
    OBVIOUS
  <2>1. n + 1 \in 1..Len(s) /\ (n + 1) - 1 = n /\ n \in 0..Len(s)
    BY <1>0
  <2>2. s[n + 1] \in Nat /\ Before(s, n) \in Nat
    BY <2>1, ElementOfSeq, BeforeType
  <2>3. Before(s, n + 1) = Before(s, n) + s[n + 1]
    BY <2>1, BeforeStep
  <2>4. CASE m <= n
    BY <1>0, <2>1, <2>2, <2>3, <2>4
  <2>5. CASE m = n + 1
    BY <1>0, <2>5
  <2> QED
    BY <2>1, <2>4, <2>5
<1>3. P = Nat
  <2>1. P \in SUBSET Nat
    OBVIOUS
  <2> HIDE DEF P
  <2> QED
    BY <1>1, <1>2, <2>1, Sizes!NatSetInduction
<1> QED
  BY <1>0, <1>3

LEMMA ElementsFit ==
  ASSUME NEW s \in Seq(Nat), NEW n \in 1..Len(s)
  PROVE  Before(s, n - 1) + s[n] <= Total(s)
<1>1. Len(s) \in Nat
  BY LenProperties
<1>2. n \in 0..Len(s) /\ Len(s) \in n..Len(s)
  BY <1>1
<1>3. Before(s, n) <= Before(s, Len(s))
  BY <1>2, BeforeGrows
<1> QED
  BY <1>3, BeforeStep, BeforeAll

(* Of two sequences, one behind the other, the first is summed as before,  *)
(* the second on top of it.                                                *)
LEMMA BeforeConcat ==
  ASSUME NEW s \in Seq(Nat), NEW t \in Seq(Nat)
  PROVE  /\ \A n \in 0..Len(s) : Before(s \o t, n) = Before(s, n)
         /\ \A n \in 0..Len(t) : Before(s \o t, Len(s) + n) = Total(s) + Before(t, n)
<1> DEFINE u == s \o t
           P == {n \in Nat : n <= Len(t) => Before(u, Len(s) + n) = Total(s) + Before(t, n)}
<1>0. /\ Len(s) \in Nat /\ Len(t) \in Nat /\ u \in Seq(Nat) /\ Len(u) = Len(s) + Len(t)
      /\ \A k \in 1..Len(u) : u[k] = IF k <= Len(s) THEN s[k] ELSE t[k - Len(s)]
  BY LenProperties, ConcatProperties
<1>1. 0 \in P
  <2>1. SubSeq(u, 1, Len(s)) = s
    BY <1>0
  <2>2. Len(s) + 0 = Len(s)
    BY <1>0
  <2>3. Total(s) \in Nat
    BY TotalType
  <2>4. Before(u, Len(s) + 0) = Total(s)
    BY <2>1, <2>2 DEF Before
  <2>5. Before(t, 0) = 0
    BY BeforeNone
  <2> HIDE DEF u
  <2> QED
    BY <2>3, <2>4, <2>5
<1> HIDE DEF u
<1>2. ASSUME NEW n \in P PROVE n + 1 \in P
  <2> SUFFICES ASSUME n + 1 <= Len(t)
               PROVE  Before(u, Len(s) + (n + 1)) = Total(s) + Before(t, n + 1)
    OBVIOUS
  <2>1. n \in Nat /\ n + 1 \in 1..Len(t) /\ (n + 1) - 1 = n /\ n \in 0..Len(t)
    BY <1>0
  <2>2. t[n + 1] \in Nat /\ Before(t, n) \in Nat /\ Total(s) \in Nat
    BY <2>1, ElementOfSeq, BeforeType, TotalType
  <2>3. Before(t, n + 1) = Before(t, n) + t[n + 1]
    BY <2>1, BeforeStep
  <2> DEFINE k == Len(s) + (n + 1)
  <2>4. k \in 1..Len(u) /\ k - 1 = Len(s) + n /\ k - Len(s) = n + 1 /\ ~ (k <= Len(s))
    BY <1>0, <2>1
  <2>5. Before(u, k - 1) = Total(s) + Before(t, n)
    BY <2>1, <2>4
  <2> HIDE DEF k
  <2>6. Before(u, k) = Before(u, k - 1) + t[n + 1]
    BY <1>0, <2>4, BeforeStep
  <2>7. Before(u, k) = Total(s) + Before(t, n + 1)
    BY <2>2, <2>3, <2>5, <2>6
  <2> QED
    BY <2>7 DEF k
<1>3. P = Nat
  <2>1. P \in SUBSET Nat
    OBVIOUS
  <2> HIDE DEF P
  <2> QED
    BY <1>1, <1>2, <2>1, Sizes!NatSetInduction
<1>4. \A n \in 0..Len(t) : Before(u, Len(s) + n) = Total(s) + Before(t, n)
  BY <1>0, <1>3
<1>5. \A n \in 0..Len(s) : Before(u, n) = Before(s, n)
  <2> TAKE n \in 0..Len(s)
  <2>1. CASE n = 0
    BY <2>1, BeforeNone
  <2>2. CASE n \in 1..Len(s)
    <3>1. 1 \in 1..Len(s)
      BY <1>0, <2>2
    <3>2. SubSeq(s \o t, 1, n) = SubSeq(s, 1, n)
      BY <2>2, <3>1, SubSeqOfConcat1
    <3> QED
      BY <3>2 DEF Before, u
  <2> QED
    BY <1>0, <2>1, <2>2
<1> QED
  BY <1>4, <1>5 DEF u

LEMMA TotalConcat ==
  ASSUME NEW s \in Seq(Nat), NEW t \in Seq(Nat)
  PROVE  Total(s \o t) = Total(s) + Total(t)
<1>1. Len(t) \in 0..Len(t) /\ s \o t \in Seq(Nat) /\ Len(s \o t) = Len(s) + Len(t)
  BY LenProperties, ConcatProperties
<1>2. Before(s \o t, Len(s) + Len(t)) = Total(s) + Before(t, Len(t))
  BY <1>1, BeforeConcat
<1> QED
  BY <1>1, <1>2, BeforeAll

-----------------------------------------------------------------------------
(* The layout of an MP4.                                                   *)

VideoTracks == [samples : Seq(Nat), sync : Seq(Nat), av1c : Nat,
                timescale : Nat \ {0}, delta : Nat]
AudioTracks == [samples : Seq(Nat), timescale : Nat \ {0}, delta : Nat]

LEMMA Narrow ==
  /\ \A x \in Nat : x <= MaxU32 => U32(x) = x
  /\ \A x \in Nat : Told(x) = x
  BY OutputsAssumption DEF U32, Told, Wide

LEMMA DurationType ==
  ASSUME NEW t, t.samples \in Seq(Nat), t.delta \in Nat, t.timescale \in Nat \ {0}
  PROVE  MediaDuration(t) \in Nat /\ Millis(t) \in Nat
<1> DEFINE n == Len(t.samples)
           d == t.delta * n
<1>1. n \in Nat
  BY LenProperties
<1> HIDE DEF n
<1>2. d \in Nat
  BY <1>1
<1>3. MediaDuration(t) = d
  BY DEF MediaDuration, n
<1> HIDE DEF d
<1> DEFINE c == t.timescale
<1>4. c \in Nat \ {0} /\ Millis(t) = (d * 1000) \div c
  BY <1>3 DEF Millis
<1> HIDE DEF c
<1> DEFINE e == d * 1000
<1>5. e \in Nat
  BY <1>2
<1> HIDE DEF e
<1>6. e \div c \in Nat
  BY <1>4, <1>5
<1> QED
  BY <1>2, <1>3, <1>4, <1>6 DEF e

LEMMA TagsType == \A m \in Seq(Nat) : udta(m) \in Nat
<1> TAKE m \in Seq(Nat)
<1> DEFINE boxes == [k \in DOMAIN m |-> Bx(Bx(8 + m[k]))]
<1>1. boxes \in Seq(Nat)
  <2>1. Len(m) \in Nat /\ DOMAIN m = 1..Len(m) /\ \A k \in 1..Len(m) : m[k] \in Nat
    BY LenProperties, ElementOfSeq
  <2>2. boxes \in [1..Len(m) -> Nat]
    BY <2>1 DEF Bx
  <2> HIDE DEF boxes
  <2> QED
    BY <2>1, <2>2, SeqDef
<1> DEFINE n == Total(boxes)
<1>2. n \in Nat
  BY <1>1, TotalType
<1>3. udta(m) = IF m = << >> THEN 0 ELSE Bx(FullBox(hdlr(4) + Bx(n)))
  BY Zenon DEF udta
<1> HIDE DEF n
<1> QED
  BY <1>2, <1>3 DEF Bx, FullBox, hdlr

(* Boxes have a size; moov's is the same whatever the offsets in it.       *)
LEMMA MoovType ==
  ASSUME NEW v \in VideoTracks, NEW a, a # NoAudio => a \in AudioTracks, NEW m \in Seq(Nat)
  PROVE  build_moov(v, a, m, 0, 0) \in Nat
<1>1. /\ v.samples \in Seq(Nat) /\ v.delta \in Nat /\ v.timescale \in Nat \ {0}
      /\ v.sync \in Seq(Nat) /\ v.av1c \in Nat
  BY DEF VideoTracks
<1>2. ASSUME a # NoAudio
      PROVE  a.samples \in Seq(Nat) /\ a.delta \in Nat /\ a.timescale \in Nat \ {0}
  BY <1>2 DEF AudioTracks
<1>3. \A n \in Nat : mvhd(n).size \in Nat /\ tkhd(n).size \in Nat /\ mdhd(n).size \in Nat
  BY DEF mvhd, tkhd, mdhd, TimedBox, FullBox, Bx
<1>4. MovieMillis(v, a) \in Nat
  BY <1>1, <1>2, DurationType DEF MovieMillis, Larger
<1>5. \A e, n, k \in Nat : stbl(e, n, k) \in Nat
  BY DEF stbl, FullBox, Bx
<1>6. /\ \A d \in Nat : \A n \in Nat : mdia(d, n) \in Nat /\ trak(d, n) \in Nat
      /\ \A n \in Nat : minf_video(n) \in Nat /\ minf_audio(n) \in Nat
  <2>1. hdlr(HandlerName) \in Nat /\ dinf \in Nat
    BY DEF hdlr, HandlerName, dinf, FullBox, Bx
  <2>2. ASSUME NEW d \in Nat, NEW n \in Nat PROVE mdia(d, n) \in Nat /\ trak(d, n) \in Nat
    <3>1. mdhd(d).size \in Nat /\ tkhd(d).size \in Nat
      BY <1>3
    <3>2. mdhd(d).size + hdlr(HandlerName) + n \in Nat /\ tkhd(d).size + n \in Nat
      BY <2>1, <3>1
    <3>3. \A x \in Nat : Bx(x) \in Nat
      BY DEF Bx
    <3> QED
      BY <3>2, <3>3, Zenon DEF mdia, trak
  <2>3. ASSUME NEW n \in Nat PROVE minf_video(n) \in Nat /\ minf_audio(n) \in Nat
    BY <2>1 DEF minf_video, minf_audio, FullBox, Bx
  <2> QED
    BY <2>2, <2>3
<1>7. av01_sample_entry(v.av1c) \in Nat /\ mp4a_sample_entry \in Nat
  BY <1>1 DEF av01_sample_entry, mp4a_sample_entry, FullBox, Bx
<1>8. \A ms \in Nat : video_trak(v, ms) \in Nat
  <2>1. Len(v.samples) \in Nat /\ Len(v.sync) \in Nat /\ MediaDuration(v) \in Nat
    BY <1>1, LenProperties, DurationType
  <2>2. stbl(av01_sample_entry(v.av1c), Len(v.samples), Len(v.sync)) \in Nat
    BY <1>5, <1>7, <2>1
  <2> QED
    BY <1>6, <2>1, <2>2, Zenon DEF video_trak
<1>9. a # NoAudio => \A ms \in Nat : audio_trak(a, ms) \in Nat
  <2> SUFFICES ASSUME a # NoAudio PROVE \A ms \in Nat : audio_trak(a, ms) \in Nat
    OBVIOUS
  <2>1. Len(a.samples) \in Nat /\ MediaDuration(a) \in Nat
    BY <1>2, LenProperties, DurationType
  <2>2. stbl(mp4a_sample_entry, Len(a.samples), 0) \in Nat
    BY <1>5, <1>7, <2>1
  <2> QED
    BY <1>6, <2>1, <2>2, Zenon DEF audio_trak
<1> DEFINE ms == MovieMillis(v, a)
           av == IF a = NoAudio THEN 0 ELSE audio_trak(a, ms)
<1>10. mvhd(ms).size \in Nat /\ video_trak(v, ms) \in Nat /\ av \in Nat /\ udta(m) \in Nat
  BY <1>3, <1>4, <1>8, <1>9, TagsType
<1>11. build_moov(v, a, m, 0, 0) = Bx(mvhd(ms).size + video_trak(v, ms) + av + udta(m))
  BY Zenon DEF build_moov
<1> HIDE DEF ms, av
<1> QED
  BY <1>10, <1>11 DEF Bx

(* The file that is written. *)
FileFrom(f, v, a, m) ==
  /\ f.moov = build_moov(v, a, m, 0, 0)
  /\ f.mvhd = mvhd(MovieMillis(v, a))
  /\ f.video = Tables(v, FtypSize + f.moov + 8, MovieMillis(v, a))
  /\ f.audio = IF a = NoAudio THEN NoAudio
               ELSE Tables(a, (FtypSize + f.moov + 8) + Total(v.samples), MovieMillis(v, a))
  /\ f.mdatSize = U32(U32(Total(v.samples)
                            + IF a = NoAudio THEN 0 ELSE Total(a.samples)) + 8)
  /\ f.payload = v.samples \o IF a = NoAudio THEN << >> ELSE a.samples

LEMMA FileIs == \A f, v, a, m : f = write(v, a, m) => FileFrom(f, v, a, m)
<1> SUFFICES ASSUME NEW f, NEW v, NEW a, NEW m, f = write(v, a, m) PROVE FileFrom(f, v, a, m)
  OBVIOUS
<1>1. \A x, y : build_moov(v, a, m, x, y) = build_moov(v, a, m, 0, 0)
  BY Zenon DEF build_moov
<1> QED
  BY <1>1 DEF write, AudioOffset, FileFrom

(* What tables tell of a chunk of samples s that starts at off.            *)
Chunk(tab, s, off) ==
  /\ tab.stco = off /\ tab.stsz = s /\ tab.stsc = Len(s)
  /\ \A k \in 1..Len(s) : Located(tab, k) = [at |-> off + Before(s, k - 1), len |-> s[k]]

(* A chunk that ends below the limit is told as it is. *)
LEMMA ChunkTold ==
  ASSUME NEW t, t.samples \in Seq(Nat), NEW off \in Nat, off + Total(t.samples) <= MaxU32,
         NEW ms, NEW tab, tab = Tables(t, off, ms)
  PROVE  Chunk(tab, t.samples, off)
<1> DEFINE s == t.samples
<1>1. s \in Seq(Nat) /\ Total(s) \in Nat /\ Len(s) \in Nat /\ DOMAIN s = 1..Len(s)
  BY TotalType, LenProperties
<1>2. /\ tab.stco = U32(off) /\ tab.stsc = Len(s)
      /\ tab.stsz = [k \in DOMAIN s |-> U32(s[k])]
  BY DEF Tables
<1> HIDE DEF s
<1>3. off + Total(s) <= MaxU32
  BY DEF s
<1>4. U32(off) = off
  BY <1>1, <1>3, Narrow, OutputsAssumption
<1>5. \A k \in DOMAIN s : U32(s[k]) = s[k]
  <2> TAKE k \in DOMAIN s
  <2>1. k \in 1..Len(s) /\ s[k] \in Nat /\ k - 1 \in 0..Len(s)
    BY <1>1, ElementOfSeq
  <2>2. Before(s, k - 1) \in Nat
    BY <1>1, <2>1, BeforeType
  <2>3. Before(s, k - 1) + s[k] <= Total(s)
    BY <1>1, <2>1, ElementsFit
  <2>4. s[k] <= MaxU32
    BY <1>1, <1>3, <2>1, <2>2, <2>3, OutputsAssumption
  <2> QED
    BY <2>1, <2>4, Narrow
<1>6. tab.stsz = s
  <2>1. s = [k \in DOMAIN s |-> s[k]]
    BY <1>1
  <2> QED
    BY <1>2, <1>5, <2>1
<1> QED
  BY <1>2, <1>4, <1>6 DEF Chunk, Located, Before, s

(* The tables of a file that ends below the limit lead to every sample.    *)
LEMMA SamplesLie ==
  ASSUME NEW v \in VideoTracks, NEW a, a # NoAudio => a \in AudioTracks, NEW m \in Seq(Nat),
         file = write(v, a, m), FileLen <= MaxU32
  PROVE  LET n == Len(file.video.stsz)
         IN /\ \A k \in 1..n : Located(file.video, k) = Lies(k)
            /\ file.audio # NoAudio =>
                 \A k \in DOMAIN file.audio.stsz : Located(file.audio, k) = Lies(n + k)
            /\ file.mdatSize = 8 + Total(file.payload)
            /\ n = file.video.stsc
<1> DEFINE s == v.samples
           u == IF a = NoAudio THEN << >> ELSE a.samples
           d == FtypSize + file.moov + 8
           n == Len(s)
           ms == MovieMillis(v, a)
<1>0. FileFrom(file, v, a, m)
  BY FileIs, Zenon
<1>1. file.moov \in Nat
  BY <1>0, MoovType DEF FileFrom
<1>2. d \in Nat
  BY <1>1 DEF FtypSize, Bx
<1>3. s \in Seq(Nat) /\ u \in Seq(Nat)
  BY DEF VideoTracks, AudioTracks
<1>4. /\ Len(s) \in Nat /\ Len(u) \in Nat /\ Total(s) \in Nat /\ Total(u) \in Nat
      /\ DOMAIN u = 1..Len(u) /\ Total(s \o u) = Total(s) + Total(u)
  BY <1>3, LenProperties, TotalType, TotalConcat
<1>5. /\ file.video = Tables(v, d, ms)
      /\ file.audio = IF a = NoAudio THEN NoAudio ELSE Tables(a, d + Total(s), ms)
      /\ file.payload = s \o u
  <2>1. /\ file.audio = IF a = NoAudio THEN NoAudio
                        ELSE Tables(a, (FtypSize + file.moov + 8) + Total(v.samples), ms)
        /\ file.payload = v.samples \o IF a = NoAudio THEN << >> ELSE a.samples
        /\ file.video = Tables(v, FtypSize + file.moov + 8, ms)
    BY <1>0 DEF FileFrom
  <2> QED
    BY <2>1, Zenon
<1>6. file.mdatSize = U32(U32(Total(s) + Total(u)) + 8)
  <2>1. Total(u) = IF a = NoAudio THEN 0 ELSE Total(a.samples)
    BY TotalEmpty
  <2>2. file.mdatSize = U32(U32(Total(s) + IF a = NoAudio THEN 0 ELSE Total(a.samples)) + 8)
    BY <1>0, Zenon DEF FileFrom
  <2> HIDE DEF u, s
  <2> QED
    BY <2>1, <2>2
<1>7. d + (Total(s) + Total(u)) <= MaxU32
  <2>1. FileLen = d + Total(file.payload)
    BY DEF FileLen
  <2> HIDE DEF d, s, u
  <2> QED
    BY <1>4, <1>5, <2>1
<1>8. a # NoAudio => u = a.samples
  OBVIOUS
<1>9. \A k \in 1..Len(s) + Len(u) : Lies(k) = [at |-> d + Before(s \o u, k - 1), len |-> (s \o u)[k]]
  BY <1>5 DEF Lies, Before
<1>10. v.samples = s
  OBVIOUS
<1> HIDE DEF d, s, u, ms
<1>11. /\ file.video.stsz = s /\ file.video.stsc = n
       /\ \A k \in 1..n : Located(file.video, k) = [at |-> d + Before(s, k - 1), len |-> s[k]]
  <2>1. d + Total(s) <= MaxU32
    BY <1>2, <1>4, <1>7, OutputsAssumption
  <2>2. v.samples \in Seq(Nat) /\ d + Total(v.samples) <= MaxU32
    BY <1>3, <1>10, <2>1
  <2>3. file.video = Tables(v, d, ms)
    BY <1>5
  <2>4. Chunk(file.video, v.samples, d)
    BY <1>2, <2>2, <2>3, ChunkTold, Zenon
  <2>5. Chunk(file.video, s, d)
    BY <1>10, <2>4
  <2> QED
    BY <2>5, Zenon DEF Chunk
<1>12. \A k \in 1..n : Located(file.video, k) = Lies(k)
  <2> TAKE k \in 1..n
  <2>1. k - 1 \in 0..Len(s) /\ k \in 1..Len(s) + Len(u)
    BY <1>4
  <2>2. Before(s \o u, k - 1) = Before(s, k - 1)
    BY <1>3, <2>1, BeforeConcat
  <2>3. (s \o u)[k] = s[k]
    BY <1>3, <1>4, <2>1, ConcatProperties
  <2> QED
    BY <1>9, <1>11, <2>1, <2>2, <2>3
<1>13. ASSUME file.audio # NoAudio
       PROVE  \A k \in DOMAIN file.audio.stsz : Located(file.audio, k) = Lies(n + k)
  <2>1. a # NoAudio /\ file.audio = Tables(a, d + Total(s), ms) /\ u = a.samples
    BY <1>5, <1>8, <1>13
  <2> DEFINE off == d + Total(s)
  <2>2. off \in Nat /\ off + Total(u) <= MaxU32
    BY <1>2, <1>4, <1>7
  <2>3. file.audio = Tables(a, off, ms)
    BY <2>1
  <2> HIDE DEF off
  <2>4. a.samples \in Seq(Nat) /\ off + Total(a.samples) <= MaxU32
    BY <1>3, <2>1, <2>2
  <2>5. Chunk(file.audio, a.samples, off)
    BY <2>2, <2>3, <2>4, ChunkTold, Zenon
  <2>6. /\ file.audio.stsz = u
        /\ \A k \in 1..Len(u) :
             Located(file.audio, k) = [at |-> off + Before(u, k - 1), len |-> u[k]]
    <3>1. Chunk(file.audio, u, off)
      BY <2>1, <2>5
    <3> QED
      BY <3>1, Zenon DEF Chunk
  <2>7. ASSUME NEW k \in 1..Len(u) PROVE Located(file.audio, k) = Lies(n + k)
    <3>1. /\ k - 1 \in 0..Len(u) /\ n + k \in 1..Len(s) + Len(u) /\ (n + k) - 1 = Len(s) + (k - 1)
          /\ ~ (n + k <= Len(s)) /\ (n + k) - Len(s) = k
      BY <1>4
    <3>2. Before(s \o u, (n + k) - 1) = Total(s) + Before(u, k - 1)
      BY <1>3, <3>1, BeforeConcat
    <3>3. (s \o u)[n + k] = u[k]
      BY <1>3, <3>1, ConcatProperties
    <3>4. Before(u, k - 1) \in Nat
      BY <1>3, <3>1, BeforeType
    <3>5. d + (Total(s) + Before(u, k - 1)) = off + Before(u, k - 1)
      BY <1>2, <1>4, <3>4 DEF off
    <3>6. Lies(n + k) = [at |-> d + (Total(s) + Before(u, k - 1)), len |-> u[k]]
      BY <1>9, <3>1, <3>2, <3>3
    <3> QED
      BY <2>6, <3>5, <3>6
  <2> QED
    BY <1>4, <2>6, <2>7
<1>14. file.mdatSize = 8 + Total(file.payload)
  <2> DEFINE x == Total(s) + Total(u)
  <2>1. x \in Nat /\ 8 + x \in Nat /\ x <= MaxU32 /\ x + 8 <= MaxU32 /\ x + 8 = 8 + x
    <3>1. d >= 8
      BY <1>1 DEF d, FtypSize, Bx
    <3> QED
      BY <1>2, <1>4, <1>7, <3>1, OutputsAssumption
  <2>2. file.mdatSize = U32(U32(x) + 8) /\ Total(file.payload) = x
    BY <1>4, <1>5, <1>6
  <2> HIDE DEF x
  <2>3. U32(x) = x /\ U32(x + 8) = x + 8
    BY <2>1, Narrow
  <2> QED
    BY <2>1, <2>2, <2>3
<1> QED
  BY <1>11, <1>12, <1>13, <1>14

(* A box tells its duration as it is, in a field that holds it.            *)
Tells(box, d) == box.duration = d /\ (box.version = 1 \/ d <= MaxU32)

LEMMA BoxTells == \A p : \A d \in Nat : Tells(TimedBox(d, p), d)
<1> SUFFICES ASSUME NEW d \in Nat, NEW p PROVE Tells(TimedBox(d, p), d)
  OBVIOUS
<1>1. /\ TimedBox(d, p).duration = Told(d)
      /\ TimedBox(d, p).version = IF d > MaxU32 THEN 1 ELSE 0
  BY DEF TimedBox, Wide
<1> QED
  BY <1>1, Narrow, OutputsAssumption DEF Tells

(* What the boxes of a track tell of it.                                   *)
TrackTold(tab, t, ms) ==
  /\ Tells(tab.mdhd, t.delta * Len(t.samples)) /\ Tells(tab.tkhd, ms)
  /\ tab.delta = t.delta /\ tab.stsc = Len(t.samples) /\ tab.timescale = t.timescale

LEMMA TablesTell ==
  ASSUME NEW t, t.samples \in Seq(Nat), t.delta \in Nat, t.timescale \in Nat \ {0},
         NEW off, NEW ms \in Nat
  PROVE  TrackTold(Tables(t, off, ms), t, ms)
<1>1. MediaDuration(t) \in Nat
  BY DurationType
<1>2. Tells(mdhd(MediaDuration(t)), MediaDuration(t)) /\ Tells(tkhd(ms), ms)
  BY <1>1, BoxTells DEF mdhd, tkhd
<1> DEFINE tab == Tables(t, off, ms)
<1>3. /\ tab.mdhd = mdhd(MediaDuration(t)) /\ tab.tkhd = tkhd(ms)
      /\ tab.delta = t.delta /\ tab.stsc = Len(t.samples) /\ tab.timescale = t.timescale
  BY DEF Tables
<1> HIDE DEF tab
<1>4. MediaDuration(t) = t.delta * Len(t.samples)
  BY DEF MediaDuration
<1>5. TrackTold(tab, t, ms)
  BY <1>2, <1>3, <1>4, Zenon DEF TrackTold
<1> QED
  BY <1>5 DEF tab

(* The durations told are those of the tracks. *)
LEMMA DurationsTold ==
  ASSUME NEW v \in VideoTracks, NEW a, a # NoAudio => a \in AudioTracks, NEW m,
         NEW f, f = write(v, a, m)
  PROVE  /\ Tells(f.mvhd, MovieMillis(v, a))
         /\ TrackTold(f.video, v, MovieMillis(v, a))
         /\ a # NoAudio => TrackTold(f.audio, a, MovieMillis(v, a))
<1> DEFINE ms == MovieMillis(v, a)
<1>1. v.samples \in Seq(Nat) /\ v.delta \in Nat /\ v.timescale \in Nat \ {0}
  BY DEF VideoTracks
<1>2. a # NoAudio => a.samples \in Seq(Nat) /\ a.delta \in Nat /\ a.timescale \in Nat \ {0}
  BY DEF AudioTracks
<1>3. ms \in Nat
  BY <1>1, <1>2, DurationType DEF MovieMillis, Larger
<1>4. FileFrom(f, v, a, m)
  BY FileIs, Zenon
<1>5. /\ f.mvhd = mvhd(ms) /\ f.video = Tables(v, FtypSize + f.moov + 8, ms)
      /\ a # NoAudio =>
           f.audio = Tables(a, (FtypSize + f.moov + 8) + Total(v.samples), ms)
  BY <1>4, Zenon DEF FileFrom
<1> HIDE DEF ms
<1>6. Tells(f.mvhd, ms)
  BY <1>3, <1>5, BoxTells DEF mvhd
<1>7. TrackTold(f.video, v, ms)
  BY <1>1, <1>3, <1>5, TablesTell
<1>8. a # NoAudio => TrackTold(f.audio, a, ms)
  BY <1>2, <1>3, <1>5, TablesTell
<1> QED
  BY <1>6, <1>7, <1>8 DEF ms

-----------------------------------------------------------------------------
(* The inductive invariant.                                                *)

(* The inputs stay what they are, and nothing is written before its phase. *)
Inputs ==
  /\ video \in Videos /\ meta \in Metas /\ adts \in AdtsFiles
  /\ phase \in {"container", "adts", "mp4", "ivf"} => file = NoFile /\ packets = << >>
  /\ phase = "container" => audio = NoAudio /\ offset = 0 /\ config = NoFile
  /\ phase = "adts" => adts # NoAudio
  /\ phase \in {"ivf", "written", "read", "readback"} => adts = NoAudio

(* What is in front of an access unit: something that reads as a header of *)
(* its length, and declares what the first one did.                        *)
HeaderAt(f, c, u) ==
  \E h \in HeadersAt(f, u.at - 7) : h.coded = 7 + u.len /\ ConfigOf(h) = c

(* The frames in front of the k-th say their true lengths. *)
TrueUpTo(f, k) == \A j \in DOMAIN f : j < k => Truthful(f[j])

InStep(f, us, k) == TrueUpTo(f, k) => k \in DOMAIN f /\ us[k].at = FrameStart(f, k) + 7

(* The access units reach from the first byte to the parser, a header      *)
(* before each, and the parser is in step with the frames as long as these *)
(* say their true lengths.                                                 *)
CutTo(f, us, c, off) ==
  /\ us \in Seq(AccessUnits) /\ us # << >>
  /\ c # NoFile /\ c.rate \in Nat \ {0}
  /\ us[1].at = 7
  /\ \A k \in 2..Len(us) : us[k].at = us[k - 1].at + us[k - 1].len + 7
  /\ us[Len(us)].at + us[Len(us)].len = off
  /\ \A k \in 1..Len(us) : HeaderAt(f, c, us[k]) /\ InStep(f, us, k)
  /\ TrueUpTo(f, Len(us) + 1) =>
        Len(us) \in 0..Len(f) /\ off = Before(Lens(f), Len(us))

AudioCut ==
  /\ phase \in {"adts", "mp4", "played"} /\ audio # NoAudio =>
        offset \in Nat /\ CutTo(adts, audio, config, offset)
  /\ phase = "adts" /\ audio = NoAudio => offset = 0 /\ config = NoFile
  /\ phase \in {"mp4", "played"} /\ audio # NoAudio => offset = Total(Lens(adts))
  /\ phase = "refused" /\ adts # NoAudio => ~ Proper(adts)

Mp4Written == phase = "played" => file = write(VideoTrack, AudioTrack, meta)

Packets == [ts : Nat, size : Nat]
PacketSizes(ps) == [k \in DOMAIN ps |-> 12 + ps[k].size]
Whole(f) == f.header_len + Total(PacketSizes(f.packets))

(* An IVF file: nothing is in it but its header and packets, or less.      *)
IvfFile(f) ==
  /\ f.header_len \in Nat /\ f.packets \in Seq(Packets)
  /\ f.len \in Int /\ f.len <= Whole(f)

(* The reader stands behind the packets it returned, which are the first.  *)
IvfRead ==
  /\ phase \in {"written", "read", "readback"} => IvfFile(file)
  /\ phase = "written" => packets = << >>
  /\ phase \in {"read", "readback"} =>
       /\ file.header_len >= 32
       /\ Len(packets) \in 0..Len(file.packets)
       /\ packets = SubSeq(file.packets, 1, Len(packets))
       /\ offset = file.header_len + Before(PacketSizes(file.packets), Len(packets))
       /\ offset <= file.len
  /\ phase = "readback" => offset = file.len
  /\ phase = "refused" /\ file # NoFile => file.header_len < 32 \/ file.len < Whole(file)

IInv == Inputs /\ AudioCut /\ Mp4Written /\ IvfRead

-----------------------------------------------------------------------------
(* Where something starts.                                                 *)

LEMMA StartsInside ==
  ASSUME NEW sizes, NEW at, StartingAt(sizes, at) # 0
  PROVE  /\ StartingAt(sizes, at) \in DOMAIN sizes
         /\ Total(SubSeq(sizes, 1, StartingAt(sizes, at) - 1)) = at
<1> DEFINE here == {k \in DOMAIN sizes : Total(SubSeq(sizes, 1, k - 1)) = at}
<1>1. StartingAt(sizes, at) = IF here = {} THEN 0 ELSE CHOOSE k \in here : TRUE
  BY Zenon DEF StartingAt
<1>2. here # {} => (CHOOSE k \in here : TRUE) \in here
  OBVIOUS
<1> QED
  BY <1>1, <1>2

(* Something has a size, so only one thing starts at a place. *)
LEMMA StartsThere ==
  ASSUME NEW sizes \in Seq(Nat), \A k \in 1..Len(sizes) : sizes[k] > 0, NEW n \in 1..Len(sizes)
  PROVE  StartingAt(sizes, Before(sizes, n - 1)) = n
<1> DEFINE at == Before(sizes, n - 1)
           here == {k \in DOMAIN sizes : Total(SubSeq(sizes, 1, k - 1)) = at}
<1>1. StartingAt(sizes, at) = IF here = {} THEN 0 ELSE CHOOSE k \in here : TRUE
  BY Zenon DEF StartingAt
<1>2. Len(sizes) \in Nat /\ DOMAIN sizes = 1..Len(sizes)
  BY LenProperties
<1>3. n \in here
  BY <1>2 DEF Before
<1>4. ASSUME NEW j \in 1..Len(sizes), NEW k \in 1..Len(sizes), j < k
      PROVE  Before(sizes, j - 1) < Before(sizes, k - 1)
  <2>1. j \in 0..Len(sizes) /\ k - 1 \in j..Len(sizes) /\ j - 1 \in 0..Len(sizes)
        /\ k - 1 \in 0..Len(sizes)
    BY <1>2, <1>4
  <2>2. Before(sizes, j) <= Before(sizes, k - 1)
    BY <2>1, BeforeGrows
  <2>3. Before(sizes, j) = Before(sizes, j - 1) + sizes[j]
    BY BeforeStep
  <2>4. Before(sizes, j - 1) \in Nat /\ Before(sizes, k - 1) \in Nat /\ sizes[j] \in Nat
    BY <2>1, BeforeType, ElementOfSeq
  <2> QED
    BY <2>2, <2>3, <2>4
<1>5. \A k \in here : k = n
  <2> TAKE k \in here
  <2>1. k \in 1..Len(sizes) /\ Before(sizes, k - 1) = at
    BY <1>2 DEF Before
  <2>2. at \in Nat
    <3>1. n - 1 \in 0..Len(sizes)
      BY <1>2
    <3> QED
      BY <3>1, BeforeType
  <2>3. ~ (k < n) /\ ~ (n < k)
    BY <1>4, <2>1, <2>2
  <2> QED
    BY <1>2, <2>1, <2>3
<1> HIDE DEF here
<1>6. (CHOOSE k \in here : TRUE) \in here
  BY <1>3
<1> QED
  BY <1>1, <1>3, <1>5, <1>6

-----------------------------------------------------------------------------
(* Each part of the invariant is kept.                                     *)

LEMMA InputsKept == Inputs /\ [Next]_vars => Inputs'
<1> SUFFICES ASSUME Inputs, [Next]_vars PROVE Inputs'
  OBVIOUS
<1> USE DEF Inputs, KeepInputs
<1>1. CASE ChooseMp4
  BY <1>1 DEF ChooseMp4
<1>2. CASE ChooseIvf
  BY <1>2 DEF ChooseIvf
<1>3. CASE ParseAdts
  BY <1>3 DEF ParseAdts
<1>4. CASE AdtsDone
  BY <1>4 DEF AdtsDone
<1>5. CASE WriteMp4
  BY <1>5 DEF WriteMp4
<1>6. CASE WriteIvf
  BY <1>6 DEF WriteIvf
<1>7. CASE OtherIvf
  BY <1>7 DEF OtherIvf
<1>8. CASE OpenIvf
  BY <1>8 DEF OpenIvf
<1>9. CASE ReadPacket
  BY <1>9 DEF ReadPacket
<1>10. CASE EndOfIvf
  BY <1>10 DEF EndOfIvf
<1>11. CASE UNCHANGED vars
  BY <1>11 DEF vars
<1> QED
  BY <1>1, <1>2, <1>3, <1>4, <1>5, <1>6, <1>7, <1>8, <1>9, <1>10, <1>11 DEF Next

(* An ADTS file: its headers stand within its frames.                      *)
IsStream(f) ==
  /\ f \in Seq(AdtsFrames)
  /\ \A k \in DOMAIN f : \A h \in f[k].headers : h.at < f[k].len

LEMMA LensType ==
  ASSUME NEW f, IsStream(f)
  PROVE  /\ Lens(f) \in Seq(Nat) /\ Len(Lens(f)) = Len(f)
         /\ Len(f) \in Nat /\ DOMAIN f = 1..Len(f)
         /\ \A k \in 1..Len(f) : /\ f[k] \in AdtsFrames /\ Lens(f)[k] = f[k].len
                                 /\ f[k].len \in Nat /\ f[k].len >= 7
                                 /\ f[k].headers \in SUBSET AdtsHeaders
<1> DEFINE z == Lens(f)
<1>1. /\ Len(f) \in Nat /\ DOMAIN f = 1..Len(f)
      /\ \A k \in 1..Len(f) : f[k] \in AdtsFrames
  BY LenProperties, ElementOfSeq DEF IsStream
<1>2. \A k \in 1..Len(f) : /\ f[k].len \in Nat /\ f[k].len >= 7
                           /\ f[k].headers \in SUBSET AdtsHeaders
  BY <1>1 DEF AdtsFrames
<1>3. z \in [1..Len(f) -> Nat] /\ \A k \in 1..Len(f) : z[k] = f[k].len
  BY <1>1, <1>2 DEF Lens
<1> HIDE DEF z
<1>4. z \in Seq(Nat) /\ Len(z) = Len(f)
  BY <1>1, <1>3, SeqDef
<1> QED
  BY <1>1, <1>2, <1>3, <1>4 DEF z

LEMMA HeaderType == \A h \in AdtsHeaders : h.at \in Nat /\ h.coded \in Nat /\ h.rate \in Nat
<1> TAKE h \in AdtsHeaders
<1> DEFINE c == h.coded
           x == h.at
           r == h.rate
<1>1. x \in Nat /\ c \in 0..8191 /\ r \in Nat
  BY SMTT(30) DEF AdtsHeaders
<1> HIDE DEF c, x, r
<1>2. c \in Nat
  BY <1>1
<1> QED
  BY <1>1, <1>2 DEF c, x, r

(* Where a frame starts nothing but its own header stands. *)
LEMMA OnlyItsHeader ==
  ASSUME NEW f, IsStream(f), NEW n \in 1..Len(f),
         NEW h \in HeadersAt(f, Before(Lens(f), n - 1))
  PROVE  h \in f[n].headers /\ h.at = 0 /\ h \in AdtsHeaders
<1> DEFINE z == Lens(f)
           at == Before(z, n - 1)
<1>1. /\ z \in Seq(Nat) /\ Len(z) = Len(f) /\ Len(f) \in Nat /\ DOMAIN f = 1..Len(f)
      /\ \A k \in 1..Len(f) : /\ z[k] = f[k].len /\ z[k] \in Nat /\ z[k] >= 7
                              /\ f[k].headers \in SUBSET AdtsHeaders
  BY LensType
<1>2. PICK k \in 1..Len(f) : h \in f[k].headers /\ Before(z, k - 1) + h.at = at
  <2>1. PICK k \in DOMAIN f : h \in {g \in f[k].headers : FrameStart(f, k) + g.at = at}
    BY Zenon DEF HeadersAt
  <2>2. FrameStart(f, k) = Before(z, k - 1)
    BY Zenon DEF FrameStart, Before
  <2> HIDE DEF z, at
  <2> QED
    BY <1>1, <2>1, <2>2
<1> HIDE DEF z
<1>3. h \in AdtsHeaders /\ h.at \in Nat /\ h.at < z[k]
  <2>1. h \in AdtsHeaders /\ h.at < f[k].len
    BY <1>1, <1>2 DEF IsStream
  <2> QED
    BY <1>1, <2>1, HeaderType
<1>4. ASSUME NEW i \in 1..Len(f), NEW j \in 1..Len(f), i < j
      PROVE  Before(z, i - 1) + z[i] <= Before(z, j - 1)
  <2>1. i \in 1..Len(z) /\ i \in 0..Len(z) /\ j - 1 \in i..Len(z)
    BY <1>1, <1>4
  <2>2. Before(z, i) <= Before(z, j - 1)
    BY <1>1, <2>1, BeforeGrows
  <2>3. Before(z, i) = Before(z, i - 1) + z[i]
    BY <1>1, <2>1, BeforeStep
  <2> QED
    BY <2>2, <2>3
<1>5. \A j \in 1..Len(f) : Before(z, j - 1) \in Nat
  <2> TAKE j \in 1..Len(f)
  <2>1. j - 1 \in 0..Len(z)
    BY <1>1
  <2> QED
    BY <1>1, <2>1, BeforeType
<1>6. ~ (k < n)
  <2> SUFFICES ASSUME k < n PROVE FALSE
    OBVIOUS
  <2>1. Before(z, k - 1) + z[k] <= at /\ Before(z, k - 1) \in Nat /\ at \in Nat
    BY <1>4, <1>5
  <2> QED
    BY <1>1, <1>2, <1>3, <2>1
<1>7. ~ (n < k)
  <2> SUFFICES ASSUME n < k PROVE FALSE
    OBVIOUS
  <2>1. at + z[n] <= Before(z, k - 1) /\ Before(z, k - 1) \in Nat /\ at \in Nat
    BY <1>4, <1>5
  <2>2. z[n] \in Nat /\ z[n] >= 7
    BY <1>1
  <2> HIDE DEF at
  <2> QED
    BY <1>2, <1>3, <2>1, <2>2
<1>8. k = n
  BY <1>1, <1>6, <1>7
<1>9. at \in Nat
  BY <1>5
<1> QED
  BY <1>2, <1>3, <1>8, <1>9

(* Nothing is parsed yet, or the units so far are. *)
CutSoFar(f, us, c, off) ==
  \/ us = << >> /\ off = 0 /\ c = NoFile
  \/ CutTo(f, us, c, off)

(* While the frames say their true lengths the parser stands at one.       *)
LEMMA StandsAtFrame ==
  ASSUME NEW f, IsStream(f), NEW us, NEW c, NEW off, CutSoFar(f, us, c, off),
         off < Total(Lens(f)), TrueUpTo(f, Len(us) + 1)
  PROVE  /\ Len(us) \in Nat /\ Len(us) + 1 \in 1..Len(f)
         /\ off = Before(Lens(f), Len(us))
<1>1. Len(f) \in Nat /\ Len(Lens(f)) = Len(f) /\ Lens(f) \in Seq(Nat)
  BY LensType
<1>2. Len(us) \in 0..Len(f) /\ off = Before(Lens(f), Len(us))
  <2>1. CASE us = << >> /\ off = 0 /\ c = NoFile
    <3>1. Len(us) = 0 /\ Before(Lens(f), 0) = 0
      BY <2>1, BeforeNone
    <3> QED
      BY <1>1, <2>1, <3>1
  <2>2. CASE CutTo(f, us, c, off)
    BY <2>2 DEF CutTo
  <2> QED
    BY <2>1, <2>2 DEF CutSoFar
<1>3. Len(us) # Len(f)
  <2> SUFFICES ASSUME Len(us) = Len(f) PROVE FALSE
    OBVIOUS
  <2>1. off = Total(Lens(f))
    BY <1>1, <1>2, BeforeAll
  <2>2. Total(Lens(f)) \in Nat
    BY <1>1, TotalType
  <2> QED
    BY <2>1, <2>2
<1> QED
  BY <1>1, <1>2, <1>3

(* One access unit more. *)
LEMMA OneUnitMore ==
  ASSUME NEW f, IsStream(f), NEW us \in Seq(AccessUnits), NEW c, NEW off \in Nat,
         CutSoFar(f, us, c, off), off < Total(Lens(f)),
         NEW h \in HeadersAt(f, off), h.coded \in Nat, h.coded >= 7,
         h.rate \in Nat \ {0}, c = NoFile \/ c = ConfigOf(h)
  PROVE  CutTo(f, Append(us, [at |-> off + 7, len |-> h.coded - 7]), ConfigOf(h), off + h.coded)
<1> DEFINE x == [at |-> off + 7, len |-> h.coded - 7]
           ws == Append(us, x)
           n == Len(us)
           m == n + 1
           e == ConfigOf(h)
           z == Lens(f)
<1>1. /\ x \in AccessUnits /\ x.at = off + 7 /\ x.at - 7 = off /\ 7 + x.len = h.coded
      /\ x.at + x.len = off + h.coded
  BY DEF AccessUnits
<1>2. e # NoFile /\ e.rate \in Nat \ {0}
  <2>1. DOMAIN e = {"profile", "rate", "channels"} /\ DOMAIN NoFile = {"kind"}
    BY DEF ConfigOf, NoFile
  <2> QED
    BY <2>1 DEF ConfigOf
<1>3. n \in Nat /\ m \in Nat
  BY LenProperties
<1>4. /\ ws \in Seq(AccessUnits) /\ Len(ws) = m /\ ws # << >>
      /\ ws[m] = x /\ \A j \in 1..n : ws[j] = us[j]
  BY <1>1, AppendProperties
<1>5. ASSUME us # << >> PROVE CutTo(f, us, c, off) /\ c = e
  BY <1>5 DEF CutSoFar, CutTo
<1>6. us = << >> => off = 0 /\ n = 0
  BY <1>3 DEF CutSoFar, CutTo
<1>7. n >= 1 => us # << >>
  OBVIOUS
<1>8. \A j \in DOMAIN f : j \in Nat
  BY LensType
<1> HIDE DEF x, ws, n, e
<1>9. ws[1].at = 7
  <2>1. CASE us = << >>
    BY <1>1, <1>4, <1>6, <2>1
  <2>2. CASE us # << >>
    <3>1. 1 \in 1..n /\ us[1].at = 7
      <4>1. n # 0
        BY <2>2, EmptySeq DEF n
      <4> QED
        BY <1>3, <1>5, <2>2, <4>1 DEF CutTo
    <3> QED
      BY <1>4, <3>1
  <2> QED
    BY <2>1, <2>2
<1>10. ASSUME NEW j \in 2..m PROVE ws[j].at = ws[j - 1].at + ws[j - 1].len + 7
  <2>1. j - 1 \in 1..n /\ n >= 1
    BY <1>3
  <2>2. CutTo(f, us, c, off)
    BY <1>5, <1>7, <2>1
  <2>3. CASE j \in 2..n
    BY <1>3, <1>4, <2>1, <2>2, <2>3 DEF CutTo, n
  <2>4. CASE j = m
    <3>1. j - 1 = n /\ ws[j] = x /\ ws[j - 1] = us[n]
      BY <1>3, <1>4, <2>1, <2>4
    <3>2. us[n].at + us[n].len = off
      BY <2>2 DEF CutTo, n
    <3> QED
      BY <1>1, <3>1, <3>2
  <2> QED
    BY <1>3, <2>3, <2>4
<1>11. TrueUpTo(f, m) => m \in 1..Len(f) /\ off = Before(z, n)
  BY StandsAtFrame DEF n
<1>12. ASSUME NEW j \in 1..m PROVE HeaderAt(f, e, ws[j]) /\ InStep(f, ws, j)
  <2>1. CASE j = m
    <3>1. HeaderAt(f, e, x)
      BY <1>1 DEF HeaderAt, e
    <3>2. InStep(f, ws, m)
      <4> SUFFICES ASSUME TrueUpTo(f, m)
                   PROVE  m \in DOMAIN f /\ ws[m].at = FrameStart(f, m) + 7
        BY DEF InStep
      <4>1. m - 1 = n
        BY <1>3
      <4>2. FrameStart(f, m) = Before(z, n)
        BY <4>1, Zenon DEF FrameStart, Before
      <4>3. m \in DOMAIN f
        BY <1>11, LensType
      <4> QED
        BY <1>1, <1>4, <1>11, <4>2, <4>3
    <3> QED
      BY <1>4, <2>1, <3>1, <3>2
  <2>2. CASE j \in 1..n
    <3>1. n >= 1
      BY <1>3, <2>2
    <3>2. CutTo(f, us, c, off) /\ c = e
      BY <1>5, <1>7, <3>1
    <3>3. HeaderAt(f, c, us[j]) /\ InStep(f, us, j)
      BY <2>2, <3>2 DEF CutTo, n
    <3>4. ws[j] = us[j]
      BY <1>4, <2>2
    <3> QED
      BY <3>2, <3>3, <3>4, Zenon DEF InStep
  <2> QED
    BY <1>3, <2>1, <2>2
<1>13. ASSUME TrueUpTo(f, m + 1) PROVE m \in 0..Len(f) /\ off + h.coded = Before(z, m)
  <2>1. TrueUpTo(f, m)
    BY <1>3, <1>8, <1>13 DEF TrueUpTo
  <2>2. m \in 1..Len(f) /\ off = Before(z, n) /\ m - 1 = n
    BY <1>3, <1>11, <2>1
  <2>3. h \in f[m].headers /\ h.at = 0
    BY <2>2, OnlyItsHeader DEF z
  <2>4. Truthful(f[m])
    <3>1. m \in DOMAIN f /\ m < m + 1
      BY <1>3, <2>2, LensType
    <3> QED
      BY <1>13, <3>1 DEF TrueUpTo
  <2>5. h.coded = f[m].len
    BY <2>3, <2>4 DEF Truthful
  <2>6. z \in Seq(Nat) /\ m \in 1..Len(z) /\ z[m] = f[m].len /\ Len(f) \in Nat
    BY <2>2, LensType DEF z
  <2>7. Before(z, m) = Before(z, m - 1) + z[m]
    BY <2>6, BeforeStep
  <2> QED
    BY <2>2, <2>5, <2>6, <2>7
<1>14. ws[Len(ws)].at + ws[Len(ws)].len = off + h.coded
  BY <1>1, <1>4
<1> HIDE DEF m
<1>15. CutTo(f, ws, e, off + h.coded)
  BY <1>2, <1>4, <1>9, <1>10, <1>12, <1>13, <1>14 DEF CutTo, z
<1> QED
  BY <1>15 DEF ws, x, e

(* A proper stream always has one to offer. *)
LEMMA ProperGoesOn ==
  ASSUME NEW f, IsStream(f), Proper(f), NEW us, NEW c, NEW off, CutSoFar(f, us, c, off),
         off < Total(Lens(f))
  PROVE  \E h \in HeadersAt(f, off) :
            /\ Total(Lens(f)) - off >= 7 /\ Supported(h)
            /\ h.coded >= 7 /\ h.coded <= Total(Lens(f)) - off
            /\ c = NoFile \/ c = ConfigOf(h)
<1> DEFINE n == Len(us)
           m == n + 1
           z == Lens(f)
           all == Total(z)
<1>1. TrueUpTo(f, m)
  BY DEF Proper, TrueUpTo
<1>2. n \in Nat /\ m \in 1..Len(f) /\ off = Before(z, n) /\ m - 1 = n
  <2>1. n \in Nat /\ m \in 1..Len(f) /\ off = Before(z, n)
    BY <1>1, StandsAtFrame
  <2> QED
    BY <2>1
<1>3. /\ z \in Seq(Nat) /\ Len(z) = Len(f) /\ Len(f) \in Nat /\ DOMAIN f = 1..Len(f)
      /\ z[m] = f[m].len /\ z[m] \in Nat /\ z[m] >= 7
  BY <1>2, LensType
<1>4. FrameStart(f, m) = off
  BY <1>2, Zenon DEF FrameStart, Before
<1>5. off \in Nat
  <2>1. n \in 0..Len(z)
    BY <1>2, <1>3
  <2> QED
    BY <1>2, <1>3, <2>1, BeforeType
<1>6. off + z[m] <= all /\ all \in Nat
  <2>1. m \in 1..Len(z)
    BY <1>2, <1>3
  <2> QED
    BY <1>2, <1>3, <2>1, ElementsFit, TotalType
<1> HIDE DEF n, m, z, all
<1>7. m \in DOMAIN f /\ Truthful(f[m])
  BY <1>2, <1>3 DEF Proper
<1>8. PICK h \in f[m].headers : h.at = 0
  BY <1>7 DEF Truthful
<1>9. h.coded = z[m]
  BY <1>3, <1>7, <1>8 DEF Truthful
<1>10. h \in HeadersAt(f, off)
  <2>1. FrameStart(f, m) + h.at = off
    BY <1>4, <1>5, <1>8
  <2> QED
    BY <1>7, <2>1 DEF HeadersAt
<1>11. h \in TrueHeaders(f) /\ Supported(h)
  <2>1. h \in TrueHeaders(f)
    BY <1>7, <1>8 DEF TrueHeaders
  <2> QED
    BY <2>1 DEF Proper
<1>12. c = NoFile \/ c = ConfigOf(h)
  <2> SUFFICES ASSUME CutTo(f, us, c, off) PROVE c = ConfigOf(h)
    BY DEF CutSoFar
  <2>1. us[1].at = 7 /\ 1 \in 1..Len(us)
    <3>1. us \in Seq(AccessUnits) /\ us # << >> /\ us[1].at = 7
      BY DEF CutTo
    <3>2. Len(us) # 0 /\ Len(us) \in Nat
      BY <3>1, EmptySeq, LenProperties
    <3> QED
      BY <3>1, <3>2
  <2>2. PICK g \in HeadersAt(f, us[1].at - 7) : ConfigOf(g) = c
    BY <2>1 DEF CutTo, HeaderAt
  <2>3. us[1].at - 7 = 0 /\ Before(Lens(f), 1 - 1) = 0 /\ 1 \in 1..Len(f)
    <3>1. 1 - 1 = 0 /\ Before(Lens(f), 0) = 0
      BY BeforeNone
    <3> QED
      BY <1>2, <1>3, <2>1, <3>1
  <2>4. g \in HeadersAt(f, Before(Lens(f), 1 - 1))
    BY <2>2, <2>3
  <2>5. g \in f[1].headers /\ g.at = 0
    BY <2>3, <2>4, OnlyItsHeader
  <2>6. g \in TrueHeaders(f)
    BY <1>3, <2>3, <2>5 DEF TrueHeaders
  <2> QED
    BY <1>11, <2>2, <2>6 DEF Proper
<1>13. all - off >= 7 /\ h.coded >= 7 /\ h.coded <= all - off
  BY <1>3, <1>5, <1>6, <1>9
<1> QED
  BY <1>10, <1>11, <1>12, <1>13 DEF all, z

(* A proper stream has audio in it. *)
LEMMA ProperHasFrames ==
  ASSUME NEW f, IsStream(f), Proper(f) PROVE Total(Lens(f)) # 0
<1>1. Len(f) \in Nat /\ Len(f) # 0
  BY LensType, EmptySeq DEF Proper, IsStream
<1>2. /\ 1 \in 1..Len(Lens(f)) /\ Lens(f) \in Seq(Nat)
      /\ Lens(f)[1] \in Nat /\ Lens(f)[1] >= 7
  BY <1>1, LensType
<1>3. Before(Lens(f), 1 - 1) + Lens(f)[1] <= Total(Lens(f))
  BY <1>2, ElementsFit
<1>4. Before(Lens(f), 1 - 1) = 0 /\ Total(Lens(f)) \in Nat
  BY <1>2, BeforeNone, TotalType
<1> QED
  BY <1>2, <1>3, <1>4

LEMMA AdtsIsStream == Inputs /\ adts # NoAudio => IsStream(adts)
BY OutputsAssumption DEF Inputs, IsStream

(* One header of an ADTS stream. *)
LEMMA ParseKeeps == Inputs /\ AudioCut /\ ParseAdts => AudioCut'
<1> SUFFICES ASSUME Inputs, AudioCut, ParseAdts PROVE AudioCut'
  OBVIOUS
<1> DEFINE all == Total(Lens(adts))
           left == all - offset
           us == IF audio = NoAudio THEN << >> ELSE audio
           taken == {h \in HeadersAt(adts, offset) : ~ AdtsRefuses(h, left)}
<1>1. /\ phase = "adts" /\ left > 0 /\ adts' = adts
      /\ \/ taken = {} /\ phase' = "refused"
         \/ \E h \in taken : /\ audio' = Append(us, AccessUnit(h))
                             /\ config' = ConfigOf(h)
                             /\ offset' = offset + h.coded
                             /\ phase' = "adts"
  BY Zenon DEF ParseAdts, KeepInputs
<1>2. adts # NoAudio /\ IsStream(adts)
  BY <1>1, AdtsIsStream DEF Inputs
<1>3. /\ offset \in Nat /\ us \in Seq(AccessUnits)
      /\ CutSoFar(adts, us, config, offset)
  <2>1. CASE audio = NoAudio
    BY <1>1, <2>1, EmptySeq DEF AudioCut, CutSoFar
  <2>2. CASE audio # NoAudio
    BY <1>1, <2>2 DEF AudioCut, CutSoFar, CutTo
  <2> QED
    BY <2>1, <2>2
<1>4. all \in Nat /\ offset < all
  <2>1. all \in Nat
    BY <1>2, LensType, TotalType
  <2> HIDE DEF all
  <2> QED
    BY <1>1, <1>3, <2>1
<1>5. CASE taken = {} /\ phase' = "refused"
  <2> SUFFICES ASSUME Proper(adts) PROVE FALSE
    BY <1>1, <1>5 DEF AudioCut
  <2>1. PICK h \in HeadersAt(adts, offset) :
            /\ left >= 7 /\ Supported(h) /\ h.coded >= 7 /\ h.coded <= left
            /\ config = NoFile \/ config = ConfigOf(h)
    BY <1>2, <1>3, <1>4, ProperGoesOn
  <2>2. h.coded \in Nat /\ left \in Int
    <3>1. h \in AdtsHeaders
      <4>1. PICK k \in DOMAIN adts : h \in adts[k].headers
        BY <2>1 DEF HeadersAt
      <4> QED
        BY <1>2, <4>1, LensType
    <3>2. h.coded \in Nat
      BY <3>1, HeaderType
    <3> QED
      BY <1>3, <1>4, <3>2
  <2> HIDE DEF left
  <2>3. ~ AdtsRefuses(h, left)
    BY <2>1, <2>2 DEF AdtsRefuses, Supported
  <2> QED
    BY <1>5, <2>1, <2>3
<1>6. ASSUME NEW h \in taken, audio' = Append(us, AccessUnit(h)), config' = ConfigOf(h),
             offset' = offset + h.coded, phase' = "adts"
      PROVE  AudioCut'
  <2>1. h \in HeadersAt(adts, offset) /\ ~ AdtsRefuses(h, left)
    OBVIOUS
  <2>2. h \in AdtsHeaders
    <3>1. PICK k \in DOMAIN adts : h \in adts[k].headers
      BY <2>1 DEF HeadersAt
    <3> QED
      BY <1>2, <3>1, LensType
  <2>3. h.coded \in Nat /\ h.rate \in Nat
    BY <2>2, HeaderType
  <2> HIDE DEF left
  <2>4. h.coded >= 7 /\ h.rate # 0 /\ (config = NoFile \/ config = ConfigOf(h))
    BY <2>1, <2>3 DEF AdtsRefuses
  <2> HIDE DEF us
  <2>5. CutTo(adts, audio', config', offset')
    BY <1>2, <1>3, <1>4, <1>6, <2>1, <2>3, <2>4, OneUnitMore DEF AccessUnit, all
  <2>6. audio' # NoAudio /\ offset' \in Nat
    <3>1. audio' \in Seq(AccessUnits)
      BY <2>5 DEF CutTo
    <3>2. NoAudio \notin Seq(AccessUnits)
      BY OutputsAssumption
    <3>3. offset + h.coded \in Nat
      BY <1>3, <2>3
    <3> QED
      BY <1>6, <3>1, <3>2, <3>3
  <2> QED
    BY <1>1, <1>6, <2>5, <2>6 DEF AudioCut
<1> QED
  BY <1>1, <1>5, <1>6

LEMMA AudioKept == Inputs /\ AudioCut /\ [Next]_vars => AudioCut'
<1> SUFFICES ASSUME Inputs, AudioCut, [Next]_vars PROVE AudioCut'
  OBVIOUS
<1>1. CASE ChooseMp4
  <2>1. /\ phase' \in {"adts", "mp4"}
        /\ audio' = NoAudio /\ offset' = 0 /\ config' = NoFile
    BY <1>1 DEF ChooseMp4, Inputs
  <2> QED
    BY <2>1 DEF AudioCut
<1>2. CASE ParseAdts
  BY <1>2, ParseKeeps
<1>3. CASE AdtsDone
  <2>1. /\ phase = "adts" /\ offset = Total(Lens(adts))
        /\ phase' = IF audio = NoAudio THEN "refused" ELSE "mp4"
        /\ offset' = offset /\ audio' = audio /\ config' = config /\ adts' = adts
    BY <1>3 DEF AdtsDone, KeepInputs
  <2>2. CASE audio = NoAudio
    <3>1. offset = 0 /\ IsStream(adts) /\ phase' = "refused"
      BY <2>1, <2>2, AdtsIsStream DEF AudioCut, Inputs
    <3>2. ~ Proper(adts)
      BY <2>1, <3>1, ProperHasFrames
    <3> QED
      BY <2>1, <3>1, <3>2 DEF AudioCut
  <2>3. CASE audio # NoAudio
    <3>1. phase' = "mp4" /\ offset \in Nat /\ CutTo(adts, audio, config, offset)
      BY <2>1, <2>3 DEF AudioCut
    <3> QED
      BY <2>1, <2>3, <3>1 DEF AudioCut
  <2> QED
    BY <2>2, <2>3
<1>4. CASE WriteMp4
  <2>1. /\ phase = "mp4" /\ phase' = "played"
        /\ offset' = offset /\ audio' = audio /\ config' = config /\ adts' = adts
    BY <1>4 DEF WriteMp4, KeepInputs
  <2> QED
    BY <2>1 DEF AudioCut
<1>5. CASE ChooseIvf \/ WriteIvf \/ OtherIvf \/ OpenIvf \/ ReadPacket \/ EndOfIvf
  <2>1. /\ phase' \in {"ivf", "needs_mp4", "refused", "written", "read", "readback"}
        /\ phase' = "refused" => adts' = NoAudio
    BY <1>5 DEF ChooseIvf, WriteIvf, OtherIvf, OpenIvf, ReadPacket, EndOfIvf, Inputs, KeepInputs
  <2> QED
    BY <2>1 DEF AudioCut
<1>6. CASE UNCHANGED vars
  <2>1. /\ phase' = phase /\ offset' = offset /\ audio' = audio /\ config' = config
        /\ adts' = adts
    BY <1>6 DEF vars
  <2> QED
    BY <2>1 DEF AudioCut
<1> QED
  BY <1>1, <1>2, <1>3, <1>4, <1>5, <1>6 DEF Next

LEMMA Mp4Kept == Mp4Written /\ [Next]_vars => Mp4Written'
<1> SUFFICES ASSUME Mp4Written, [Next]_vars, phase' = "played"
             PROVE  file' = write(VideoTrack, AudioTrack, meta)'
  BY DEF Mp4Written
<1> DEFINE v == VideoTrack
           a == AudioTrack
<1>0. ASSUME video' = video, audio' = audio, config' = config
      PROVE  v' = v /\ a' = a
  <2>1. VideoTrack' = VideoTrack
    BY <1>0 DEF VideoTrack
  <2>2. AudioTrack' = AudioTrack
    BY <1>0 DEF AudioTrack
  <2> QED
    BY <2>1, <2>2
<1>1. CASE WriteMp4
  <2>1. /\ file' = write(v, a, meta) /\ meta' = meta
        /\ video' = video /\ audio' = audio /\ config' = config
    BY <1>1, Zenon DEF WriteMp4, KeepInputs
  <2>2. v' = v /\ a' = a
    BY <1>0, <2>1
  <2> HIDE DEF v, a
  <2>3. file' = write(v', a', meta')
    BY <2>1, <2>2
  <2> QED
    BY <2>3 DEF v, a
<1>2. CASE UNCHANGED vars
  <2>1. /\ phase' = phase /\ file' = file /\ meta' = meta
        /\ video' = video /\ audio' = audio /\ config' = config
    BY <1>2 DEF vars
  <2>2. v' = v /\ a' = a
    BY <1>0, <2>1
  <2>3. file = write(v, a, meta)
    BY <2>1 DEF Mp4Written
  <2> HIDE DEF v, a
  <2>4. file' = write(v', a', meta')
    BY <2>1, <2>2, <2>3
  <2> QED
    BY <2>4 DEF v, a
<1>3. CASE ChooseMp4 \/ ChooseIvf \/ ParseAdts \/ AdtsDone \/ WriteIvf \/ OtherIvf
              \/ OpenIvf \/ ReadPacket \/ EndOfIvf
  <2>1. phase' # "played"
    BY <1>3 DEF ChooseMp4, ChooseIvf, ParseAdts, AdtsDone, WriteIvf, OtherIvf, OpenIvf,
                ReadPacket, EndOfIvf
  <2> QED
    BY <2>1
<1> QED
  BY <1>1, <1>2, <1>3 DEF Next

-----------------------------------------------------------------------------
(* IVF files and their reader.                                             *)

LEMMA PacketSizesType ==
  \A ps \in Seq(Packets) :
     /\ PacketSizes(ps) \in Seq(Nat) /\ Len(PacketSizes(ps)) = Len(ps)
     /\ DOMAIN ps = 1..Len(ps) /\ Len(ps) \in Nat
     /\ \A k \in 1..Len(ps) : PacketSizes(ps)[k] = 12 + ps[k].size /\ PacketSizes(ps)[k] >= 12
<1> TAKE ps \in Seq(Packets)
<1> DEFINE z == PacketSizes(ps)
<1>1. /\ Len(ps) \in Nat /\ DOMAIN ps = 1..Len(ps)
      /\ \A k \in 1..Len(ps) : ps[k].size \in Nat
  <2>1. \A k \in 1..Len(ps) : ps[k] \in Packets
    BY ElementOfSeq
  <2> QED
    BY <2>1, LenProperties DEF Packets
<1>2. z \in [1..Len(ps) -> Nat] /\ \A k \in 1..Len(ps) : z[k] = 12 + ps[k].size /\ z[k] >= 12
  BY <1>1 DEF PacketSizes
<1> HIDE DEF z
<1>3. z \in Seq(Nat) /\ Len(z) = Len(ps)
  BY <1>1, <1>2, SeqDef
<1> QED
  BY <1>1, <1>2, <1>3 DEF z

(* What a writer leaves is an IVF file. *)
LEMMA WritesIvf ==
  ASSUME NEW h \in Nat, NEW den, NEW num, NEW ps \in Seq(Packets), NEW cut \in Nat,
         NEW f, f = IvfOf(h, den, num, ps, cut)
  PROVE  IvfFile(f)
<1>1. Total(PacketSizes(ps)) \in Nat
  BY PacketSizesType, TotalType
<1>2. f.header_len = h /\ f.packets = ps /\ f.len = h + Total(PacketSizes(ps)) - cut
  BY DEF IvfOf, PacketSizes
<1> DEFINE n == Total(PacketSizes(ps))
<1>3. n \in Nat /\ f.len = h + n - cut /\ Whole(f) = h + n
  BY <1>1, <1>2 DEF Whole
<1> HIDE DEF n
<1>4. f.len \in Int /\ f.len <= Whole(f)
  BY <1>3
<1> QED
  BY <1>2, <1>4 DEF IvfFile

LEMMA OnePacketMore == IvfRead /\ ReadPacket => IvfRead'
<1> SUFFICES ASSUME IvfRead, ReadPacket PROVE IvfRead'
  OBVIOUS
<1> DEFINE ps == file.packets
           z == PacketSizes(ps)
           n == Len(packets)
           k == StartingAt(<<file.header_len>> \o z, offset) - 1
<1>1. /\ phase = "read" /\ offset < file.len /\ file' = file
      /\ IF k \notin DOMAIN ps \/ offset + 12 > file.len \/ offset + z[k] > file.len
         THEN phase' = "refused"
         ELSE /\ packets' = Append(packets, ps[k])
              /\ offset' = offset + z[k]
              /\ phase' = "read"
  BY Zenon DEF ReadPacket, PacketSizes
<1>2. /\ IvfFile(file) /\ file.header_len >= 32 /\ n \in 0..Len(ps)
      /\ packets = SubSeq(ps, 1, n)
      /\ offset = file.header_len + Before(z, n) /\ offset <= file.len
  BY <1>1 DEF IvfRead
<1>3. /\ file.header_len \in Nat /\ ps \in Seq(Packets) /\ file.len \in Int
      /\ file.len <= file.header_len + Total(z)
  BY <1>2 DEF IvfFile, Whole
<1>4. /\ z \in Seq(Nat) /\ Len(z) = Len(ps) /\ DOMAIN ps = 1..Len(ps) /\ Len(ps) \in Nat
      /\ \A j \in 1..Len(ps) : z[j] >= 12
  BY <1>3, PacketSizesType
<1>5. Total(z) \in Nat /\ Before(z, n) \in Nat /\ Before(z, Len(z)) = Total(z)
  BY <1>2, <1>4, TotalType, BeforeType, BeforeAll
<1> HIDE DEF k, z, ps, n
<1>6. n + 1 \in 1..Len(ps)
  <2>1. n # Len(ps)
    BY <1>1, <1>2, <1>3, <1>4, <1>5
  <2> QED
    BY <1>2, <1>4, <2>1
<1>7. k = n + 1
  <2> DEFINE head == <<file.header_len>>
             m == n + 2
  <2>1. head \in Seq(Nat) /\ Len(head) = 1 /\ Total(head) = file.header_len
    <3>1. head = Append(<< >>, file.header_len) /\ << >> \in Seq(Nat)
      OBVIOUS
    <3>2. Total(head) = 0 + file.header_len
      BY <1>3, <3>1, TotalAppend, TotalEmpty
    <3> QED
      BY <1>3, <3>2
  <2>2. /\ head \o z \in Seq(Nat) /\ Len(head \o z) = 1 + Len(z)
        /\ \A j \in 1..Len(head \o z) : (head \o z)[j] > 0
    <3>1. head[1] > 0
      BY <1>2, <1>3
    <3> HIDE DEF head
    <3>2. /\ head \o z \in Seq(Nat) /\ Len(head \o z) = 1 + Len(z)
          /\ \A j \in 1..1 + Len(z) : (head \o z)[j] = IF j <= 1 THEN head[j] ELSE z[j - 1]
      <4>1. /\ head \o z \in Seq(Nat) /\ Len(head \o z) = Len(head) + Len(z)
            /\ \A j \in 1..Len(head) + Len(z) :
                  (head \o z)[j] = IF j <= Len(head) THEN head[j] ELSE z[j - Len(head)]
        BY <1>4, <2>1, ConcatProperties, ZenonT(30)
      <4> QED
        BY <2>1, <4>1
    <3>3. ASSUME NEW j \in 1..1 + Len(z) PROVE (head \o z)[j] > 0
      <4>1. CASE j = 1
        BY <3>1, <3>2, <4>1
      <4>2. CASE j # 1
        <5>1. j - 1 \in 1..Len(ps) /\ ~ (j <= 1)
          BY <1>4, <4>2
        <5>2. z[j - 1] >= 12 /\ z[j - 1] \in Nat
          BY <1>4, <5>1, ElementOfSeq
        <5>3. (head \o z)[j] = z[j - 1]
          BY <3>2, <5>1
        <5> QED
          BY <5>2, <5>3
      <4> QED
        BY <4>1, <4>2
    <3> QED
      BY <3>2, <3>3
  <2>3. Before(head \o z, Len(head) + n) = Total(head) + Before(z, n)
    BY <1>2, <1>4, <2>1, BeforeConcat
  <2> HIDE DEF head
  <2>4. m \in 1..Len(head \o z) /\ m - 1 = Len(head) + n
    BY <1>2, <1>4, <1>6, <2>1, <2>2
  <2> HIDE DEF m
  <2>5. StartingAt(head \o z, Before(head \o z, m - 1)) = m
    BY <2>2, <2>4, StartsThere
  <2>6. StartingAt(head \o z, offset) = m
    BY <1>2, <2>1, <2>3, <2>4, <2>5
  <2> QED
    BY <1>2, <1>4, <2>6 DEF k, head, m
<1>8. /\ Before(z, n + 1) = Before(z, n) + z[n + 1] /\ z[n + 1] >= 12 /\ z[n + 1] \in Nat
      /\ Before(z, n + 1) <= Total(z)
  <2> DEFINE m == n + 1
  <2>1. m \in 1..Len(z) /\ m - 1 = n /\ m \in 0..Len(z) /\ Len(z) \in m..Len(z)
    BY <1>2, <1>4, <1>6
  <2> HIDE DEF m
  <2>2. Before(z, m) = Before(z, m - 1) + z[m]
    BY <1>4, <2>1, BeforeStep
  <2>3. Before(z, m) <= Before(z, Len(z))
    BY <1>4, <2>1, BeforeGrows
  <2>4. z[m] >= 12 /\ z[m] \in Nat
    BY <1>4, <2>1, ElementOfSeq
  <2> QED
    BY <1>5, <2>1, <2>2, <2>3, <2>4 DEF m
(* As numbers: the file's length and header, what lies before the reader,  *)
(* the next packet and all of them.                                        *)
<1> DEFINE fl == file.len
           hl == file.header_len
           b == Before(z, n)
           e == z[n + 1]
           t == Total(z)
<1>11. /\ fl \in Int /\ hl \in Nat /\ b \in Nat /\ e \in Nat /\ t \in Nat /\ e >= 12
       /\ fl <= hl + t /\ offset = hl + b /\ b + e <= t
       /\ Before(z, n + 1) = b + e
  BY <1>2, <1>3, <1>5, <1>8
<1>12. /\ k \in DOMAIN ps
       /\ IF offset + 12 > fl \/ offset + e > fl THEN phase' = "refused"
          ELSE packets' = Append(packets, ps[n + 1]) /\ offset' = offset + e /\ phase' = "read"
  BY <1>1, <1>4, <1>6, <1>7
<1> HIDE DEF fl, hl, b, e, t
<1>9. CASE offset + 12 > fl \/ offset + e > fl
  <2>1. phase' = "refused"
    BY <1>9, <1>12
  <2>2. fl < hl + t
    BY <1>9, <1>11
  <2>3. file'.len < Whole(file')
    BY <1>1, <2>2 DEF Whole, z, ps, fl, hl, t
  <2> QED
    BY <2>1, <2>3 DEF IvfRead
<1>10. CASE ~ (offset + 12 > fl) /\ ~ (offset + e > fl)
  <2>1. packets' = Append(packets, ps[n + 1]) /\ offset' = offset + e /\ phase' = "read"
    BY <1>10, <1>12
  <2> DEFINE m == n + 1
  <2>2. /\ m \in Nat /\ n \in Nat /\ m \in 0..Len(ps)
        /\ SubSeq(ps, 1, m) = Append(SubSeq(ps, 1, n), ps[m]) /\ Len(SubSeq(ps, 1, m)) = m
    BY <1>2, <1>3, <1>4, <1>6
  <2>3. packets' = SubSeq(ps, 1, m) /\ Len(packets') = m
    BY <1>2, <2>1, <2>2
  <2>4. offset' = file.header_len + Before(z, m) /\ offset' <= file.len
    <3>1. offset' = hl + (b + e) /\ offset' <= fl
      BY <1>10, <1>11, <2>1
    <3> QED
      BY <1>11, <3>1 DEF hl, fl
  <2> HIDE DEF m
  <2>5. /\ file'.header_len >= 32
        /\ Len(packets') \in 0..Len(file'.packets)
        /\ packets' = SubSeq(file'.packets, 1, Len(packets'))
        /\ offset' = file'.header_len + Before(PacketSizes(file'.packets), Len(packets'))
        /\ offset' <= file'.len
    BY <1>1, <1>2, <2>2, <2>3, <2>4 DEF ps, z
  <2>6. IvfFile(file')
    BY <1>1, <1>2
  <2> QED
    BY <2>1, <2>5, <2>6 DEF IvfRead
<1> QED
  BY <1>9, <1>10

LEMMA IvfKept == Inputs /\ IvfRead /\ [Next]_vars => IvfRead'
<1> SUFFICES ASSUME Inputs, IvfRead, [Next]_vars PROVE IvfRead'
  OBVIOUS
<1>1. CASE ChooseMp4 \/ ChooseIvf \/ ParseAdts \/ AdtsDone
  <2>1. phase' \in {"adts", "mp4", "ivf", "needs_mp4", "refused"} /\ file' = file /\ file = NoFile
    BY <1>1 DEF ChooseMp4, ChooseIvf, ParseAdts, AdtsDone, Inputs
  <2> QED
    BY <2>1 DEF IvfRead
<1>2. CASE WriteMp4
  <2>1. phase' = "played"
    BY <1>2 DEF WriteMp4
  <2> QED
    BY <2>1 DEF IvfRead
<1>3. video.samples \in Seq(Nat \ {0}) /\ HeaderLens \subseteq Nat /\ Cuts \subseteq Nat
  BY OutputsAssumption DEF Inputs, VideoInputs
<1>4. \A c \in Nat : [k \in DOMAIN video.samples |->
                        [ts |-> c * k, size |-> video.samples[k]]] \in Seq(Packets)
  <2> TAKE c \in Nat
  <2> DEFINE s == video.samples
             ps == [k \in DOMAIN s |-> [ts |-> c * k, size |-> s[k]]]
  <2>1. Len(s) \in Nat /\ DOMAIN s = 1..Len(s) /\ \A k \in 1..Len(s) : s[k] \in Nat
    BY <1>3, LenProperties, ElementOfSeq
  <2> HIDE DEF s
  <2>2. \A k \in 1..Len(s) : c * k \in Nat
    BY <2>1
  <2>3. ps \in [1..Len(s) -> Packets]
    BY <2>1, <2>2 DEF Packets
  <2> HIDE DEF ps
  <2>4. ps \in Seq(Packets)
    BY <2>1, <2>3, SeqDef
  <2> QED
    BY <2>4 DEF ps, s
<1>5. [k \in DOMAIN video.samples |-> [ts |-> k - 1, size |-> video.samples[k]]] \in Seq(Packets)
  <2> DEFINE s == video.samples
             ps == [k \in DOMAIN s |-> [ts |-> k - 1, size |-> s[k]]]
  <2>1. Len(s) \in Nat /\ DOMAIN s = 1..Len(s) /\ \A k \in 1..Len(s) : s[k] \in Nat
    BY <1>3, LenProperties, ElementOfSeq
  <2> HIDE DEF s
  <2>2. \A k \in 1..Len(s) : k - 1 \in Nat
    BY <2>1
  <2>3. ps \in [1..Len(s) -> Packets]
    BY <2>1, <2>2 DEF Packets
  <2> HIDE DEF ps
  <2>4. ps \in Seq(Packets)
    BY <2>1, <2>3, SeqDef
  <2> QED
    BY <2>4 DEF ps, s
<1>6. CASE WriteIvf
  <2>1. IvfFile(file')
    <3>1. 32 \in Nat /\ 0 \in Nat
      OBVIOUS
    <3> QED
      BY <1>5, <1>6, <3>1, WritesIvf, Zenon DEF WriteIvf
  <2>2. phase' = "written" /\ packets' = packets /\ packets = << >>
    BY <1>6 DEF WriteIvf, Inputs
  <2> QED
    BY <2>1, <2>2 DEF IvfRead
<1>7. CASE OtherIvf
  <2>1. IvfFile(file')
    <3>1. 7 \in Nat
      OBVIOUS
    <3> QED
      BY <1>3, <1>4, <1>7, <3>1, WritesIvf, Zenon DEF OtherIvf
  <2>2. phase' = "written" /\ packets' = packets /\ packets = << >>
    BY <1>7 DEF OtherIvf, Inputs
  <2> QED
    BY <2>1, <2>2 DEF IvfRead
<1>8. CASE OpenIvf
  <2>1. /\ phase = "written" /\ file' = file /\ packets' = packets /\ packets = << >>
        /\ IvfFile(file)
        /\ IF file.header_len < 32 \/ file.header_len > file.len
           THEN phase' = "refused"
           ELSE phase' = "read" /\ offset' = file.header_len
    BY <1>8 DEF OpenIvf, IvfStart, IvfRead
  <2> DEFINE z == PacketSizes(file.packets)
  <2>2. /\ file.header_len \in Nat /\ Total(z) \in Nat /\ file.packets \in Seq(Packets)
        /\ file.len \in Int /\ Whole(file) = file.header_len + Total(z)
    BY <2>1, PacketSizesType, TotalType DEF IvfFile, Whole
  <2>3. CASE file.header_len < 32 \/ file.header_len > file.len
    <3>1. phase' = "refused"
      BY <2>1, <2>3
    <3> HIDE DEF z
    <3>2. file.header_len < 32 \/ file.len < Whole(file)
      BY <2>2, <2>3
    <3>3. file'.header_len < 32 \/ file'.len < Whole(file')
      BY <2>1, <3>2
    <3> QED
      BY <3>1, <3>3 DEF IvfRead
  <2>4. CASE ~ (file.header_len < 32) /\ ~ (file.header_len > file.len)
    <3>1. phase' = "read" /\ offset' = file.header_len
      BY <2>1, <2>4
    <3>2. Before(z, 0) = 0 /\ Len(<< >>) = 0 /\ SubSeq(file.packets, 1, 0) = << >>
      BY BeforeNone, SubSeqEmpty
    <3>3. 0 \in 0..Len(file.packets)
      BY <2>2, LenProperties
    <3>4. /\ file.header_len >= 32 /\ file.header_len <= file.len
          /\ file.header_len = file.header_len + 0
      BY <2>2, <2>4
    <3> QED
      BY <2>1, <3>1, <3>2, <3>3, <3>4 DEF IvfRead
  <2> QED
    BY <2>3, <2>4
<1>9. CASE ReadPacket
  BY <1>9, OnePacketMore
<1>10. CASE EndOfIvf
  <2>1. /\ phase = "read" /\ offset >= file.len /\ phase' = "readback"
        /\ offset' = offset /\ file' = file /\ packets' = packets
    BY <1>10 DEF EndOfIvf
  <2>2. offset = file.len
    <3>1. /\ file.header_len \in Nat /\ file.len \in Int /\ offset <= file.len
          /\ file.packets \in Seq(Packets) /\ Len(packets) \in 0..Len(file.packets)
          /\ offset = file.header_len + Before(PacketSizes(file.packets), Len(packets))
      BY <2>1 DEF IvfRead, IvfFile
    <3>2. Before(PacketSizes(file.packets), Len(packets)) \in Nat
      BY <3>1, PacketSizesType, BeforeType
    <3> QED
      BY <2>1, <3>1, <3>2
  <2> QED
    BY <2>1, <2>2 DEF IvfRead
<1>11. CASE UNCHANGED vars
  BY <1>11, Zenon DEF vars, IvfRead
<1> QED
  BY <1>1, <1>2, <1>6, <1>7, <1>8, <1>9, <1>10, <1>11 DEF Next

-----------------------------------------------------------------------------
(* The tracks that build_output makes are tracks.                          *)

(* A reduced fraction has neither a zero numerator nor a zero denominator. *)
LEMMA Reduced ==
  ASSUME NEW x \in Nat \ {0}, NEW y \in Nat \ {0}
  PROVE  (x \div GcdOf(x, y)) \in Nat \ {0} /\ (y \div GcdOf(x, y)) \in Nat \ {0}
<1> DEFINE C == {d \in 1..x : x % d = 0 /\ y % d = 0}
           g == GcdOf(x, y)
<1>1. C \in SUBSET (0..x) /\ 1 \in C
  <2>1. x % 1 = 0 /\ y % 1 = 0
    OBVIOUS
  <2> QED
    BY <2>1
<1>2. PICK d \in C : \A e \in C : e <= d
  <2>1. x \in Nat /\ C # {}
    BY <1>1
  <2> HIDE DEF C
  <2> QED
    BY <1>1, <2>1, Sizes!GreatestNumber
<1>3. \A e \in (d + 1)..x : x % e # 0 \/ y % e # 0
  <2> TAKE e \in (d + 1)..x
  <2>1. d \in Nat /\ e \in 1..x /\ ~ (e <= d)
    OBVIOUS
  <2>2. e \notin C
    BY <1>2, <2>1
  <2> QED
    BY <2>1, <2>2
<1>4. g \in 1..x /\ x % g = 0 /\ y % g = 0
  <2>1. g = CHOOSE c \in 1..x : /\ x % c = 0 /\ y % c = 0
                                /\ \A e \in (c + 1)..x : x % e # 0 \/ y % e # 0
    BY Zenon DEF GcdOf
  <2>2. d \in 1..x /\ x % d = 0 /\ y % d = 0
    OBVIOUS
  <2> HIDE DEF g
  <2> QED
    BY <1>3, <2>1, <2>2, Zenon
<1> HIDE DEF g
<1>5. \A n \in Nat \ {0}, c \in Nat \ {0} : n % c = 0 => (n \div c) \in Nat \ {0}
  OBVIOUS
<1>6. g \in Nat \ {0}
  BY <1>4
<1> QED
  BY <1>4, <1>5, <1>6 DEF g

LEMMA RateType ==
  ASSUME NEW v \in VideoInputs
  PROVE  OutRate(v)[1] \in Nat \ {0} /\ OutRate(v)[2] \in Nat
<1>1. v.den \in Nat /\ v.num \in Nat /\ v.fps \in Nat
  BY DEF VideoInputs
<1> DEFINE r == Rate(v.den, v.num)
<1>2. r[1] \in Nat \ {0} /\ r[2] \in Nat
  <2>1. CASE v.den = 0 \/ v.num = 0
    BY <2>1 DEF Rate
  <2>2. CASE v.den # 0 /\ v.num # 0
    <3>1. r = <<v.den \div GcdOf(v.den, v.num), v.num \div GcdOf(v.den, v.num)>>
      BY <2>2, Zenon DEF Rate
    <3>2. /\ v.den \in Nat \ {0} /\ v.num \in Nat \ {0}
      BY <1>1, <2>2
    <3>3. /\ (v.den \div GcdOf(v.den, v.num)) \in Nat \ {0}
          /\ (v.num \div GcdOf(v.den, v.num)) \in Nat \ {0}
      BY <3>2, Reduced
    <3> QED
      BY <3>1, <3>3
  <2> QED
    BY <2>1, <2>2
<1>3. OutRate(v) = IF v.fps > 0 THEN <<v.fps, 1>> ELSE r
  BY Zenon DEF OutRate
<1> HIDE DEF r
<1>4. CASE v.fps = 0
  <2>1. OutRate(v) = r
    BY <1>3, <1>4
  <2> QED
    BY <1>2, <2>1
<1>5. CASE v.fps # 0
  <2>1. OutRate(v) = <<v.fps, 1>>
    <3> DEFINE f == v.fps
    <3>1. f \in Nat /\ f # 0 /\ OutRate(v) = IF f > 0 THEN <<f, 1>> ELSE r
      BY <1>1, <1>3, <1>5
    <3> HIDE DEF f
    <3>2. OutRate(v) = <<f, 1>>
      BY <3>1
    <3> QED
      BY <3>2 DEF f
  <2> QED
    BY <1>1, <1>5, <2>1
<1> QED
  BY <1>4, <1>5

LEMMA TracksType ==
  Inputs /\ AudioCut /\ phase = "played" =>
    /\ VideoTrack \in VideoTracks
    /\ AudioTrack # NoAudio => AudioTrack \in AudioTracks
    /\ audio = NoAudio => AudioTrack = NoAudio
<1> SUFFICES ASSUME Inputs, AudioCut, phase = "played"
             PROVE  /\ VideoTrack \in VideoTracks
                    /\ AudioTrack # NoAudio => AudioTrack \in AudioTracks
                    /\ audio = NoAudio => AudioTrack = NoAudio
  OBVIOUS
<1>1. video \in VideoInputs
  BY OutputsAssumption DEF Inputs
<1>2. VideoTrack \in VideoTracks
  <2>1. /\ video.samples \in Seq(Nat) /\ video.sync \in Seq(Nat) /\ video.av1c \in Nat
    <3>1. video.samples \in Seq(Nat \ {0}) /\ Nat \ {0} \subseteq Nat
      BY <1>1 DEF VideoInputs
    <3>2. video.samples \in Seq(Nat)
      BY <3>1, SeqMonotonic, Zenon
    <3> QED
      BY <1>1, <3>2 DEF VideoInputs
  <2>2. OutRate(video)[1] \in Nat \ {0} /\ OutRate(video)[2] \in Nat
    BY <1>1, RateType
  <2> QED
    BY <2>1, <2>2 DEF VideoTrack, VideoTracks
<1>3. ASSUME audio # NoAudio PROVE AudioTrack \in AudioTracks
  <2>1. audio \in Seq(AccessUnits) /\ config.rate \in Nat \ {0}
    BY <1>3 DEF AudioCut, CutTo
  <2> DEFINE s == [k \in DOMAIN audio |-> audio[k].len]
  <2>2. /\ Len(audio) \in Nat /\ DOMAIN audio = 1..Len(audio)
        /\ \A k \in 1..Len(audio) : audio[k].len \in Nat
    <3>1. \A k \in 1..Len(audio) : audio[k] \in AccessUnits
      BY <2>1, ElementOfSeq
    <3> QED
      BY <2>1, <3>1, LenProperties DEF AccessUnits
  <2>3. s \in [1..Len(audio) -> Nat]
    BY <2>2
  <2>4. AudioTrack = [samples |-> s, timescale |-> config.rate, delta |-> 1024]
    BY <1>3, SMTT(30) DEF AudioTrack
  <2> HIDE DEF s
  <2>5. s \in Seq(Nat)
    BY <2>2, <2>3, SeqDef
  <2> QED
    BY <2>1, <2>4, <2>5 DEF AudioTracks
<1>4. audio = NoAudio => AudioTrack = NoAudio
  BY DEF AudioTrack
<1> QED
  BY <1>2, <1>3, <1>4

(* A quotient that is rounded down is too small by less than one. *)
RoundsDown(q, x, y) == q \in Nat /\ q * y <= 1000 * x /\ (q + 1) * y > 1000 * x

LEMMA RoundedDown ==
  ASSUME NEW x \in Nat, NEW y \in Nat \ {0}, NEW q, q = (x * 1000) \div y
  PROVE  RoundsDown(q, x, y)
<1> DEFINE z == x * 1000
<1>1. z \in Nat /\ z = 1000 * x /\ q = z \div y
  OBVIOUS
<1> HIDE DEF z
<1>2. q \in Nat /\ q * y <= z /\ (q + 1) * y > z
  BY <1>1
<1> QED
  BY <1>1, <1>2 DEF RoundsDown

(* A film of at least as many ticks is at least as long. *)
LEMMA LongerTakesLonger ==
  ASSUME NEW q \in Nat, NEW r \in Nat, NEW y \in Nat, NEW bound \in Nat,
         q <= r, (q + 1) * y > bound
  PROVE  (r + 1) * y > bound
<1> DEFINE w == r - q
<1>1. w \in Nat /\ r = q + w
  OBVIOUS
<1> HIDE DEF w
<1>2. (q + w + 1) * y = (q + 1) * y + w * y /\ w * y \in Nat /\ (q + 1) * y \in Nat
  BY <1>1
<1> QED
  BY <1>1, <1>2

-----------------------------------------------------------------------------
(* The theorems.                                                           *)

LEMMA Initially == Init => IInv
<1> SUFFICES ASSUME Init PROVE IInv
  OBVIOUS
<1>1. Inputs
  BY DEF Init, Inputs
<1>2. AudioCut
  BY DEF Init, AudioCut
<1>3. Mp4Written
  BY DEF Init, Mp4Written
<1>4. IvfRead
  BY DEF Init, IvfRead
<1> QED
  BY <1>1, <1>2, <1>3, <1>4 DEF IInv

LEMMA Invariant == Spec => []IInv
<1>1. IInv /\ [Next]_vars => IInv'
  BY InputsKept, AudioKept, Mp4Kept, IvfKept, Zenon DEF IInv
<1> QED
  BY <1>1, Initially, PTL DEF Spec

(* In a file of up to 2^32 bytes the tables of both tracks lead to exactly *)
(* the bytes of each sample: the offsets that are only known once moov is  *)
(* measured, and the sizes, whatever tags, sync samples and wide boxes     *)
(* make of moov (mp4.rs 474-535).                                          *)
THEOREM SamplesAreFound == Spec => []SamplesFound
<1>1. IInv => SamplesFound
  <2> SUFFICES ASSUME IInv, phase = "played", FileLen <= MaxU32
               PROVE  LET n == Len(file.video.stsz)
                      IN /\ \A k \in 1..n : Located(file.video, k) = Lies(k)
                         /\ file.audio # NoAudio =>
                              \A k \in DOMAIN file.audio.stsz :
                                 Located(file.audio, k) = Lies(n + k)
                         /\ file.mdatSize = 8 + Total(file.payload)
                         /\ n = file.video.stsc
    BY Zenon DEF SamplesFound
  <2> DEFINE v == VideoTrack
             a == AudioTrack
  <2>1. /\ v \in VideoTracks /\ (a # NoAudio => a \in AudioTracks)
        /\ file = write(v, a, meta) /\ meta \in Seq(Nat)
    BY TracksType, OutputsAssumption DEF IInv, Mp4Written, Inputs
  <2> HIDE DEF v, a
  <2> QED
    BY <2>1, SamplesLie
<1> QED
  BY <1>1, Invariant, PTL

(* A track of d ticks, ts to the second, in whole milliseconds is no longer *)
(* than a movie of at least as many.                                       *)
LEMMA NoLonger ==
  ASSUME NEW d \in Nat, NEW ts \in Nat \ {0}, NEW ms, ms = (d * 1000) \div ts,
         NEW movie \in Nat, ms <= movie
  PROVE  1000 * d < (movie + 1) * ts
<1> DEFINE true == 1000 * d
<1>1. RoundsDown(ms, d, ts)
  BY RoundedDown
<1>2. ms \in Nat /\ true \in Nat /\ ts \in Nat /\ (ms + 1) * ts > true
  BY <1>1 DEF RoundsDown
<1> HIDE DEF true
<1>3. (movie + 1) * ts > true
  BY <1>2, LongerTakesLonger
<1>4. (movie + 1) * ts \in Nat
  BY <1>2
<1> QED
  BY <1>2, <1>3, <1>4 DEF true

(* Every duration a player reads is the true one, in a field that holds    *)
(* it, above 32 bits too, and the movie is as long as its longest track,   *)
(* neither less nor more to the millisecond, in every header that says so  *)
(* (mp4.rs 223-300, 461-513).                                              *)
THEOREM DurationsAreTrue == Spec => []DurationsTrue
<1>1. IInv => DurationsTrue
  <2> SUFFICES ASSUME IInv, phase = "played" PROVE DurationsTrue
    BY DEF DurationsTrue
  <2> DEFINE v == VideoTrack
             a == AudioTrack
             movie == MovieMillis(v, a)
  <2>1. /\ v \in VideoTracks /\ (a # NoAudio => a \in AudioTracks) /\ file = write(v, a, meta)
    BY TracksType DEF IInv, Mp4Written
  <2>2. Tracks = {file.video} \cup (IF a = NoAudio THEN {} ELSE {file.audio})
    BY DEF Tracks
  <2> HIDE DEF v, a
  <2>3. /\ v.samples \in Seq(Nat) /\ v.delta \in Nat /\ v.timescale \in Nat \ {0}
        /\ a # NoAudio =>
             a.samples \in Seq(Nat) /\ a.delta \in Nat /\ a.timescale \in Nat \ {0}
    BY <2>1 DEF VideoTracks, AudioTracks
  <2>4. /\ Millis(v) \in Nat
        /\ a # NoAudio => Millis(a) \in Nat
        /\ movie = IF a = NoAudio THEN Millis(v) ELSE Larger(Millis(v), Millis(a))
    BY <2>3, DurationType DEF MovieMillis
  <2>5. /\ movie \in Nat /\ Millis(v) <= movie
        /\ a # NoAudio => Millis(a) <= movie
        /\ movie = Millis(v) \/ (a # NoAudio /\ movie = Millis(a))
    <3> HIDE DEF movie
    <3>1. CASE a = NoAudio
      BY <2>4, <3>1
    <3>2. CASE a # NoAudio
      BY <2>4, <3>2 DEF Larger
    <3> QED
      BY <3>1, <3>2
  <2>6. /\ Tells(file.mvhd, movie) /\ TrackTold(file.video, v, movie)
        /\ a # NoAudio => TrackTold(file.audio, a, movie)
    BY <2>1, DurationsTold
  <2> HIDE DEF movie
  <2>7. ASSUME NEW t, NEW tab, TrackTold(tab, t, movie), Millis(t) <= movie,
               t.samples \in Seq(Nat), t.delta \in Nat, t.timescale \in Nat \ {0}
        PROVE  /\ tab.mdhd.duration = tab.delta * tab.stsc
               /\ 1000 * tab.mdhd.duration < (movie + 1) * tab.timescale
               /\ tab.tkhd.duration = movie
               /\ \A b \in {tab.tkhd, tab.mdhd} : b.version = 1 \/ b.duration <= MaxU32
               /\ movie = Millis(t) => movie * tab.timescale <= 1000 * tab.mdhd.duration
    <3> DEFINE d == t.delta * Len(t.samples)
               ts == t.timescale
               ms == (d * 1000) \div ts
    <3>1. d \in Nat
      BY <2>7, DurationType DEF MediaDuration
    <3>2. Millis(t) = ms
      BY DEF Millis, MediaDuration
    <3>3. /\ tab.mdhd.duration = d /\ d = tab.delta * tab.stsc
          /\ tab.timescale = ts /\ tab.tkhd.duration = movie
          /\ tab.mdhd.version = 1 \/ d <= MaxU32
          /\ tab.tkhd.version = 1 \/ movie <= MaxU32
      BY <2>7, Zenon DEF TrackTold, Tells
    <3>4. ts \in Nat \ {0}
      BY <2>7
    <3> HIDE DEF d, ts
    <3>5. RoundsDown(ms, d, ts)
      BY <3>1, <3>4, RoundedDown
    <3>6. ms * ts <= 1000 * d
      BY <3>5 DEF RoundsDown
    <3>7. ms <= movie
      BY <2>7, <3>2
    <3>8. 1000 * d < (movie + 1) * ts
      <4> HIDE DEF ms
      <4>1. ms = (d * 1000) \div ts
        BY DEF ms
      <4> QED
        BY <2>5, <3>1, <3>4, <3>7, <4>1, NoLonger
    <3> HIDE DEF ms
    <3> QED
      BY <3>2, <3>3, <3>6, <3>8
  <2>8. /\ \A t \in Tracks :
             /\ t.mdhd.duration = t.delta * t.stsc
             /\ 1000 * t.mdhd.duration < (movie + 1) * t.timescale
             /\ t.tkhd.duration = movie
             /\ \A b \in {t.tkhd, t.mdhd} : b.version = 1 \/ b.duration <= MaxU32
        /\ \E t \in Tracks : movie * t.timescale <= 1000 * t.mdhd.duration
    <3> DEFINE Good(t) == /\ t.mdhd.duration = t.delta * t.stsc
                          /\ 1000 * t.mdhd.duration < (movie + 1) * t.timescale
                          /\ t.tkhd.duration = movie
                          /\ \A b \in {t.tkhd, t.mdhd} : b.version = 1 \/ b.duration <= MaxU32
               Full(t) == movie * t.timescale <= 1000 * t.mdhd.duration
    <3>1. Good(file.video) /\ (movie = Millis(v) => Full(file.video))
      BY <2>3, <2>5, <2>6, <2>7
    <3>2. a # NoAudio => Good(file.audio) /\ (movie = Millis(a) => Full(file.audio))
      BY <2>3, <2>5, <2>6, <2>7
    <3> HIDE DEF Good, Full
    <3>3. (\A t \in Tracks : Good(t)) /\ (\E t \in Tracks : Full(t))
      BY <2>2, <2>5, <3>1, <3>2, Zenon
    <3> QED
      BY <3>3, Zenon DEF Good, Full
  <2>9. /\ file.mvhd.duration = movie
        /\ file.mvhd.version = 1 \/ file.mvhd.duration <= MaxU32
    BY <2>6, Zenon DEF Tells
  <2>10. ASSUME NEW b \in {file.mvhd} \cup UNION {{t.tkhd, t.mdhd} : t \in Tracks}
         PROVE  b.version = 1 \/ b.duration <= MaxU32
    <3>1. CASE b = file.mvhd
      BY <2>9, <3>1
    <3>2. CASE b \in UNION {{t.tkhd, t.mdhd} : t \in Tracks}
      <4>1. PICK t \in Tracks : b \in {t.tkhd, t.mdhd}
        BY <3>2
      <4>2. \A c \in {t.tkhd, t.mdhd} : c.version = 1 \/ c.duration <= MaxU32
        BY <2>8
      <4> QED
        BY <4>1, <4>2
    <3> QED
      BY <3>1, <3>2
  <2> DEFINE said == file.mvhd.duration
  <2>11. said = movie
    BY <2>9
  <2> HIDE DEF said
  <2>12. /\ \A t \in Tracks :
              /\ t.mdhd.duration = t.delta * t.stsc
              /\ 1000 * t.mdhd.duration < (said + 1) * t.timescale
              /\ t.tkhd.duration = said
         /\ \E t \in Tracks : said * t.timescale <= 1000 * t.mdhd.duration
    <3>1. ASSUME NEW t \in Tracks
          PROVE  /\ t.mdhd.duration = t.delta * t.stsc
                 /\ 1000 * t.mdhd.duration < (said + 1) * t.timescale
                 /\ t.tkhd.duration = said
      <4>1. /\ t.mdhd.duration = t.delta * t.stsc
            /\ 1000 * t.mdhd.duration < (movie + 1) * t.timescale
            /\ t.tkhd.duration = movie
        BY <2>8
      <4> QED
        BY <2>11, <4>1
    <3>2. PICK t \in Tracks : movie * t.timescale <= 1000 * t.mdhd.duration
      BY <2>8
    <3>3. said * t.timescale <= 1000 * t.mdhd.duration
      BY <2>11, <3>2
    <3> QED
      BY <3>1, <3>3
  <2> QED
    BY <2>10, <2>12, Zenon DEF DurationsTrue, said
<1> QED
  BY <1>1, Invariant, PTL

(* The audio track is the whole stream without its headers, all of those   *)
(* of the one configuration the track declares; it is that of the frames   *)
(* as long as these say their true lengths, whatever their audio looks     *)
(* like, and a proper stream is not refused (adts.rs 24-94).               *)
THEOREM AudioIsExact == Spec => []AccessUnitsExact
<1>1. IInv => AccessUnitsExact
  <2> SUFFICES ASSUME IInv PROVE AccessUnitsExact
    OBVIOUS
  <2>1. ASSUME audio # NoAudio, phase \in {"mp4", "played"}
        PROVE  /\ audio[1].at = 7
               /\ \A k \in 2..Len(audio) :
                     audio[k].at = audio[k - 1].at + audio[k - 1].len + 7
               /\ Last(audio).at + Last(audio).len = Total(Lens(adts))
               /\ \A k \in DOMAIN audio :
                    /\ \E h \in HeadersAt(adts, audio[k].at - 7) :
                         h.coded = 7 + audio[k].len /\ ConfigOf(h) = config
                    /\ (\A j \in DOMAIN adts : j < k => Truthful(adts[j])) =>
                         k \in DOMAIN adts /\ audio[k].at = FrameStart(adts, k) + 7
    <3>1. CutTo(adts, audio, config, offset) /\ offset = Total(Lens(adts))
      BY <2>1 DEF IInv, AudioCut
    <3>2. DOMAIN audio = 1..Len(audio)
      BY <3>1, LenProperties DEF CutTo
    <3> QED
      BY <3>1, <3>2, Zenon DEF CutTo, HeaderAt, InStep, TrueUpTo, Last
  <2>2. adts # NoAudio /\ phase = "refused" => ~ Proper(adts)
    BY DEF IInv, AudioCut
  <2> QED
    BY <2>1, <2>2, Zenon DEF AccessUnitsExact
<1> QED
  BY <1>1, Invariant, PTL

(* An IVF file is read back as the packets it was written with, a cut one  *)
(* only when the cut is between two packets, and nothing but a cut or a    *)
(* bad header has a file refused (ivf.rs 49-117).                          *)
THEOREM IvfIsReadBack == Spec => []IvfReadsBack
<1>1. IInv => IvfReadsBack
  <2> SUFFICES ASSUME IInv PROVE IvfReadsBack
    OBVIOUS
  <2>1. ASSUME phase = "readback"
        PROVE  /\ packets = SubSeq(file.packets, 1, Len(packets))
               /\ file.len = file.header_len + Total(PacketSizes(packets))
    <3> DEFINE ps == file.packets
               n == Len(packets)
    <3>1. /\ IvfFile(file) /\ n \in 0..Len(ps) /\ packets = SubSeq(ps, 1, n)
          /\ file.len = file.header_len + Before(PacketSizes(ps), n)
      BY <2>1 DEF IInv, IvfRead
    <3>2. ps \in Seq(Packets)
      BY <3>1 DEF IvfFile
    <3>3. /\ PacketSizes(ps) \in Seq(Nat) /\ Len(PacketSizes(ps)) = Len(ps) /\ Len(ps) \in Nat
          /\ \A k \in 1..Len(ps) : PacketSizes(ps)[k] = 12 + ps[k].size
      BY <3>2, PacketSizesType
    <3> HIDE DEF ps, n
    <3>4. /\ packets \in Seq(Packets) /\ Len(packets) = n
          /\ \A k \in 1..n : packets[k] = ps[k]
      <4>1. \A k \in 1..n : k \in 1..Len(ps) /\ ps[k] \in Packets
        BY <3>1, <3>2, <3>3, ElementOfSeq
      <4>2. n \in Int /\ n \in Nat
        BY <3>1, <3>3
      <4>3. SubSeq(ps, 1, n) \in Seq(Packets) /\ \A k \in 1..n : SubSeq(ps, 1, n)[k] = ps[k]
        BY <3>2, <3>3, <4>1, <4>2
      <4> QED
        BY <3>1, <4>3 DEF n
    <3>5. /\ PacketSizes(packets) \in Seq(Nat) /\ Len(PacketSizes(packets)) = n
          /\ \A k \in 1..n : PacketSizes(packets)[k] = 12 + packets[k].size
      BY <3>4, PacketSizesType
    <3> DEFINE z == PacketSizes(ps)
               y == PacketSizes(packets)
    <3>6. \A k \in 1..n : y[k] = z[k]
      BY <3>1, <3>3, <3>4, <3>5
    <3> HIDE DEF z, y
    <3>7. SubSeq(z, 1, n) \in Seq(Nat) /\ Len(SubSeq(z, 1, n)) = n
          /\ \A k \in 1..n : SubSeq(z, 1, n)[k] = z[k]
      BY <3>1, <3>3 DEF z
    <3>8. y = SubSeq(z, 1, n)
      BY <3>5, <3>6, <3>7, SeqEqual DEF y
    <3> QED
      BY <3>1, <3>8 DEF Before, z, y, ps, n
  <2>2. phase = "refused" /\ file # NoFile => file.header_len < 32 \/ file.len < Whole(file)
    BY DEF IInv, IvfRead
  <2> QED
    BY <2>1, <2>2, Zenon DEF IvfReadsBack, Whole, PacketSizes
<1> QED
  BY <1>1, Invariant, PTL

===============================================================================
