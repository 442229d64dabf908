---------------------------- MODULE PlaybackProofs ----------------------------
(***************************************************************************)
(* For every playlist, gop, header and number of slots: types, the stream  *)
(* grammar, key_samples, the right picture on the screen, one TU for every *)
(* frame that was asked for, and the slide show of StillVideo.             *)
(***************************************************************************)
EXTENDS InspectedPlayback, SequenceTheorems, FiniteSetTheorems, WellFoundedInduction, TLAPS

(* The lowest of some slots is one of them: every nonempty set of naturals *)
(* has a least element (lowest_refreshed_slot, assemble.rs:140-142).       *)
LEMMA LeastExists ==
  ASSUME NEW S \in SUBSET Nat, S # {}
  PROVE  \E s \in S : \A t \in S : s <= t
<1> DEFINE Less == {p \in Nat \X Nat : p[1] < p[2]}
<1>1. IsWellFoundedOn(Less, Nat)
  BY NatLessThanWellFounded, Zenon DEF OpToRel
<1> HIDE DEF Less
<1>2. PICK s \in S : \A t \in S : ~ (<<t, s>> \in Less)
  BY <1>1, WFMin
<1>3. \A t \in S : s <= t
  <2> TAKE t \in S
  <2>1. <<t, s>> \notin Less
    BY <1>2
  <2> QED
    BY <2>1 DEF Less
<1> QED
  BY <1>3

LEMMA LowestInSet ==
  ASSUME NEW R \in SUBSET Slots, R # {}
  PROVE  Lowest(R) \in R
<1>1. R \in SUBSET Nat
  BY AssembleAssumption DEF Slots
<1> QED
  BY <1>1, LeastExists DEF Lowest

LEMMA GreatestExists ==
  ASSUME NEW S \in SUBSET Nat, NEW w \in Nat, S # {}, \A s \in S : s <= w
  PROVE  \E s \in S : \A t \in S : t <= s
<1> DEFINE D == {w - s : s \in S}
<1>1. D \in SUBSET Nat /\ D # {}
  <2>1. \A s \in S : s \in Nat /\ w - s \in Nat
    OBVIOUS
  <2>2. D \subseteq Nat
    BY <2>1
  <2>3. PICK s \in S : TRUE
    OBVIOUS
  <2>4. w - s \in D
    BY <2>3
  <2> QED
    BY <2>2, <2>4
<1>2. PICK d \in D : \A e \in D : d <= e
  BY <1>1, LeastExists
<1>3. PICK s \in S : d = w - s
  OBVIOUS
<1>4. \A t \in S : t <= s
  <2> TAKE t \in S
  <2>1. w - t \in D
    OBVIOUS
  <2> QED
    BY <1>2, <1>3, <2>1, SMTT(30)
<1> QED
  BY <1>4

-------------------------------------------------------------------------------
(* The inductive invariant.  TypeOK alone says nothing of where the loops  *)
(* stand, RightPicture nothing of the slots; the parts below add both.     *)

(* What each phase has established, and what a prepared segment is good    *)
(* for: its re-shows name a slot its golden refreshes, and a spliced       *)
(* golden was measured behind its own keyframe.                            *)
Stage ==
  /\ phase \in {"headers", "prepare", "emit", "done"} => segs # <<>> /\ gop >= 2
  /\ phase \notin {"emit", "done"} => tus = <<>> /\ keySamples = <<>>
  /\ phase \in {"params", "headers"} => prepped = <<>> /\ i = 1
  /\ phase = "prepare" => /\ Len(prepped) = i - 1 /\ i <= Len(segs) + 1
                          /\ sh.id \in Headers
  /\ phase \in {"emit", "done"} => Len(prepped) = Len(segs) /\ i <= Len(segs)
  /\ phase # "done" => pos = 0
  /\ \A n \in 1..Len(prepped) :
       /\ prepped[n].slot \in prepped[n].refresh
       /\ prepped[n].spliced => prepped[n].context = [s \in Slots |-> KeyPic(n)]

(* A golden stands right behind its keyframe, a re-show behind a golden or *)
(* another re-show of the same segment.                                    *)
Grammar ==
  /\ \A p \in 1..Len(tus) :
       /\ tus[p].seg \in 1..Len(prepped)
       /\ tus[p].kind = "golden" => /\ p > 1 /\ tus[p-1].kind = "key"
                                    /\ tus[p-1].seg = tus[p].seg
       /\ tus[p].kind = "show" => /\ p > 1 /\ tus[p-1].kind # "key"
                                  /\ tus[p-1].seg = tus[p].seg
  /\ (phase = "emit" /\ goldenEmitted) =>
       /\ Len(tus) > 0 /\ tus[Len(tus)].seg = i /\ tus[Len(tus)].kind # "key"

(* keySamples names the key TUs, in increasing order. *)
Samples ==
  /\ \A p \in 1..Len(tus) : tus[p].kind = "key" =>
       \E n \in 1..Len(keySamples) : keySamples[n] = p
  /\ \A n \in 1..Len(keySamples) :
       keySamples[n] \in 1..Len(tus) /\ tus[keySamples[n]].kind = "key"
  /\ \A m, n \in 1..Len(keySamples) : m < n => keySamples[m] < keySamples[n]

(* Every TU is at most gop behind a keyframe, and while a segment is not   *)
(* done its last chunk was a full gop, so one re-show may still follow.    *)
Reach ==
  /\ \A w \in 1..Len(tus) : \E k \in 1..Len(tus) :
       tus[k].kind = "key" /\ k <= w /\ w - k <= gop
  /\ (phase = "emit" /\ goldenEmitted /\ left > 0) =>
       /\ Len(tus) - gop + 1 \in 1..Len(tus)
       /\ tus[Len(tus) - gop + 1].kind = "key"

(* What the player's slots hold at the TU on the screen. *)
Screen ==
  pos > 0 =>
    /\ tus[pos].kind = "key" => dpb = [s \in Slots |-> KeyPic(tus[pos].seg)]
    /\ tus[pos].kind # "key" => dpb[prepped[tus[pos].seg].slot] = GoldenPic(tus[pos].seg)
    /\ RightPicture

-------------------------------------------------------------------------------
LEMMA InputTypes ==
  ASSUME TypeOK
  PROVE  /\ segs \in Seq(SegmentType) /\ gop \in Nat
         /\ \A n \in 1..Len(segs) : segs[n] \in SegmentType /\ FromSplit(segs[n])
<1> DEFINE S == {sg \in SegmentType : FromSplit(sg)}
<1>1. segs \in Seq(S) /\ gop \in Nat
  BY AssembleAssumption DEF TypeOK
<1>2. \A n \in 1..Len(segs) : segs[n] \in S
  <2> HIDE DEF S
  <2> QED
    BY <1>1, ElementOfSeq
<1>3. segs \in [1..Len(segs) -> SegmentType] /\ Len(segs) \in Nat
  <2>1. Len(segs) \in Nat /\ segs \in [1..Len(segs) -> S]
    <3> HIDE DEF S
    <3> QED
      BY <1>1, LenProperties
  <2> QED
    BY <2>1
<1>4. segs \in Seq(SegmentType)
  BY <1>3, SeqDef
<1> QED
  BY <1>1, <1>2, <1>4

LEMMA ChunkBounds ==
  ASSUME TypeOK, Stage, phase = "emit", left > 0
  PROVE  /\ Chunk \in Nat /\ Chunk >= 1 /\ Chunk <= left /\ Chunk <= gop
         /\ Chunk = left \/ Chunk = gop
BY InputTypes DEF TypeOK, Stage, Chunk, Min2

(* What an emitted chunk adds to the stream, TU by TU. *)
LEMMA GopAppended ==
  ASSUME TypeOK, Stage, EmitGop
  PROVE  /\ Len(tus') = Len(tus) + Chunk
         /\ \A p \in 1..Len(tus) : tus'[p] = tus[p]
         /\ \A p \in 1..Chunk : tus'[Len(tus) + p] =
              Tu(IF p = 1 THEN "key" ELSE IF p = 2 THEN "golden" ELSE "show", i)
         /\ tus' \in Seq(TuType)
<1> DEFINE g == GopTUs(i, Chunk)
<1>1. Chunk \in Nat /\ Chunk >= 1
  BY ChunkBounds DEF EmitGop
<1>2. g \in [1..Chunk -> TuType]
  BY <1>1 DEF GopTUs, Tu, TypeOK, TuType
<1>5. \A p \in 1..Chunk : g[p] =
        Tu(IF p = 1 THEN "key" ELSE IF p = 2 THEN "golden" ELSE "show", i)
  BY DEF GopTUs
<1>4. tus \in Seq(TuType) /\ tus' = tus \o g
  BY DEF TypeOK, EmitGop
<1> HIDE DEF g
<1>3. g \in Seq(TuType) /\ Len(g) = Chunk
  <2>1. g \in Seq(TuType)
    BY <1>1, <1>2, SeqDef
  <2>2. DOMAIN g = 1..Chunk /\ DOMAIN g = 1..Len(g) /\ Len(g) \in Nat
    BY <1>2, <2>1, LenProperties
  <2> QED
    BY <1>1, <2>1, <2>2
<1>6. tus' \in Seq(TuType) /\ Len(tus') = Len(tus) + Len(g)
  BY <1>3, <1>4, ConcatProperties
<1>7. \A p \in 1..Len(tus) + Len(g) :
        tus'[p] = IF p <= Len(tus) THEN tus[p] ELSE g[p - Len(tus)]
  BY <1>3, <1>4, ConcatProperties
<1>8. Len(tus) \in Nat
  BY <1>4, LenProperties
<1>9. \A p \in 1..Len(tus) : tus'[p] = tus[p]
  BY <1>1, <1>3, <1>7, <1>8
<1>10. \A p \in 1..Chunk : tus'[Len(tus) + p] = g[p]
  BY <1>1, <1>3, <1>7, <1>8
<1> QED
  BY <1>3, <1>5, <1>6, <1>9, <1>10

LEMMA PictureTypes ==
  /\ Empty \in Picture /\ Garbage \in Picture
  /\ \A n \in Nat : KeyPic(n) \in Picture /\ GoldenPic(n) \in Picture
BY DEF Empty, Garbage, KeyPic, GoldenPic, Picture

LEMMA ScanFrameType ==
  ASSUME NEW d \in [Slots -> Picture], NEW f, NEW pic \in Picture
  PROVE  ScanFrame(d, f, pic) \in [Slots -> Picture]
BY PictureTypes DEF ScanFrame, Store

(* Scanning a shown KEY_FRAME leaves its picture in every slot. *)
LEMMA ScanOfKey ==
  ASSUME NEW d, NEW f, NEW pic, GoodKey(f)
  PROVE  ScanFrame(d, f, pic) = [s \in Slots |-> pic]
BY DEF ScanFrame, Store, Refresh, GoodKey

LEMMA SegmentFields ==
  ASSUME TypeOK, NEW n \in 1..Len(segs)
  PROVE  /\ segs[n].hdrs \in Seq(Headers) /\ segs[n].frames \in Nat
         /\ segs[n].goldenHdrs \in Seq(Headers)
         /\ segs[n].lead \in Nat /\ segs[n].goldenLead \in Nat
         /\ FromSplit(segs[n])
         /\ Refresh(segs[n].golden) \in SUBSET Slots
BY InputTypes DEF SegmentType, FrameType, Refresh

LEMMA EffectiveType ==
  ASSUME NEW h \in Headers, decoderModel \in BOOLEAN
  PROVE  Effective(h) \in HeaderType /\ Declared(h) \in HeaderType
         /\ Effective(h).id = h
BY AssembleAssumption DEF Effective, Declared, HeaderType

LEMMA PreparedFields ==
  ASSUME TypeOK, NEW n \in 1..Len(prepped)
  PROVE  /\ prepped[n] \in PreparedType /\ prepped[n].frames \in Nat
         /\ prepped[n].slot \in Slots /\ prepped[n].refresh \in SUBSET Slots
<1>1. prepped[n] \in PreparedType
  BY ElementOfSeq DEF TypeOK
<1> QED
  BY <1>1 DEF PreparedType

(* A TU's headers are replaced one by one. *)
LEMMA EmittedHeaders ==
  ASSUME TypeOK, NEW hs \in Seq(Headers)
  PROVE  /\ Emitted(hs) \in Seq(HeaderType) /\ Len(Emitted(hs)) = Len(hs)
         /\ \A k \in 1..Len(hs) :
              Emitted(hs)[k] = IF Rewrites(sh.id) THEN sh ELSE Declared(hs[k])
<1> DEFINE out == Emitted(hs)
<1>1. Len(hs) \in Nat /\ DOMAIN hs = 1..Len(hs)
  BY LenProperties
<1>2. \A k \in DOMAIN hs : hs[k] \in Headers
  BY <1>1, ElementOfSeq
<1>3. \A k \in DOMAIN hs : Declared(hs[k]) \in HeaderType
  BY <1>2, EffectiveType DEF TypeOK
<1>4. /\ out \in [1..Len(hs) -> HeaderType]
      /\ \A k \in 1..Len(hs) : out[k] = IF Rewrites(sh.id) THEN sh ELSE Declared(hs[k])
  BY <1>1, <1>3 DEF TypeOK, Emitted
<1>5. out \in Seq(HeaderType) /\ DOMAIN out = 1..Len(hs)
  <2> HIDE DEF out
  <2> QED
    BY <1>1, <1>4, SeqDef
<1>6. Len(out) = Len(hs)
  <2> HIDE DEF out
  <2> QED
    BY <1>1, <1>5, LenProperties
<1> QED
  BY <1>4, <1>5, <1>6

LEMMA PreparedOk ==
  ASSUME TypeOK, Stage, phase = "prepare", NEW n \in 1..Len(segs),
         GoodGolden(segs[n].golden), NEW c \in [Slots -> Picture]
  PROVE  /\ Prepared(n, c) \in PreparedType
         /\ Prepared(n, c).slot \in Prepared(n, c).refresh
<1> DEFINE out == Emitted(segs[n].hdrs)
           goldenOut == Emitted(segs[n].goldenHdrs)
           kf == Flags(KeyUnder(segs[n]))
           gf == Flags(GoldenUnder(segs[n]))
           R == Refresh(segs[n].golden)
<1>1. /\ segs[n].hdrs \in Seq(Headers) /\ segs[n].goldenHdrs \in Seq(Headers)
      /\ R \in SUBSET Slots /\ segs[n].frames \in Nat
  BY SegmentFields
<1>2. out \in Seq(HeaderType) /\ goldenOut \in Seq(HeaderType)
  BY <1>1, EmittedHeaders
<1>3. R # {} /\ Lowest(R) \in R
  BY <1>1, LowestInSet DEF GoodGolden
<1>4. \A h : Flags(h) \in 0..2
  BY DEF Flags
<1>5. kf \in 0..2 /\ gf \in 0..2
  BY <1>4
<1>6. Splices(sh.id) \in BOOLEAN
  BY AssembleAssumption DEF Splices, TypeOK, Stage
<1>7. Prepared(n, c) = [hdrs |-> out, goldenHdrs |-> goldenOut, keyFlags |-> kf,
        goldenFlags |-> gf, spliced |-> Splices(sh.id),
        context |-> c, refresh |-> R, slot |-> Lowest(R), frames |-> segs[n].frames]
  BY DEF Prepared
<1> HIDE DEF out, goldenOut, kf, gf, R
<1> QED
  BY <1>1, <1>2, <1>3, <1>5, <1>6, <1>7 DEF PreparedType

-------------------------------------------------------------------------------
IInv == TypeOK /\ Stage /\ Grammar /\ Samples /\ Reach /\ Screen

LEMMA InitIInv == PInit => IInv
<1> SUFFICES ASSUME PInit PROVE IInv
  OBVIOUS
<1> USE DEF PInit, Init
<1>1. TypeOK
  <2>1. /\ prepped \in Seq(PreparedType) /\ keySamples \in Seq(Nat \ {0})
        /\ tus \in Seq(TuType)
        /\ Len(tus) = 0
    BY EmptySeq
  <2>2. /\ scanDpb \in [Slots -> Picture] /\ dpb \in [Slots -> Picture]
        /\ display \in Picture
    BY PictureTypes DEF Cold
  <2>3. sh \in HeaderType
    BY DEF NoHeader, HeaderType
  <2>4. pos \in 0..Len(tus)
    BY <2>1
  <2>5. i \in Nat \ {0} /\ left \in Nat
    OBVIOUS
  <2> QED
    BY <2>1, <2>2, <2>3, <2>4, <2>5, Zenon DEF TypeOK
<1>2. Stage
  BY DEF Stage
<1> QED
  BY <1>1, <1>2 DEF IInv, Grammar, Samples, Reach, Screen

LEMMA LandIsSample ==
  ASSUME IInv, NEW w \in 1..Len(tus)
  PROVE  Land(w) \in 1..Len(tus) /\ tus[Land(w)].kind = "key" /\ Land(w) <= w
<1> DEFINE K == {k \in KeyPositions : k <= w}
<1>1. KeyPositions = {k \in 1..Len(tus) : tus[k].kind = "key"}
  <2>1. DOMAIN keySamples = 1..Len(keySamples)
    BY LenProperties DEF IInv, TypeOK
  <2>2. ASSUME NEW k \in KeyPositions PROVE k \in 1..Len(tus) /\ tus[k].kind = "key"
    BY <2>1, <2>2 DEF IInv, Samples, KeyPositions
  <2>3. ASSUME NEW k \in 1..Len(tus), tus[k].kind = "key" PROVE k \in KeyPositions
    BY <2>1, <2>3 DEF IInv, Samples, KeyPositions
  <2> QED
    BY <2>2, <2>3
<1>2. K # {}
  BY <1>1 DEF IInv, Reach
<1>3. K \in SUBSET Nat
  BY <1>1
<1>4. PICK k \in K : \A m \in K : m <= k
  <2>1. w \in Nat /\ \A m \in K : m <= w
    OBVIOUS
  <2> HIDE DEF K
  <2> QED
    BY <1>2, <1>3, <2>1, GreatestExists
<1>5. Land(w) \in KeyPositions /\ Land(w) <= w
  BY <1>4 DEF Land
<1> QED
  BY <1>1, <1>5

(* Playing a TU whose segment was prepared keeps the player well-typed. *)
LEMMA PlayTypes ==
  ASSUME IInv, NEW w \in 1..Len(tus), NEW d \in [Slots -> Picture], Play(w, d)
  PROVE  pos' \in 1..Len(tus) /\ dpb' \in [Slots -> Picture] /\ display' \in Picture
<1> DEFINE t == tus[w]
           g == prepped[t.seg]
<1>1. t \in TuType
  BY ElementOfSeq DEF IInv, TypeOK
<1>2. g \in PreparedType
  BY PreparedFields DEF IInv, Grammar
<1>3. t.seg \in Nat /\ GoldenPicture(t.seg, d) \in Picture
  BY <1>1, PictureTypes DEF GoldenPicture, TuType
<1>4. Decode(t, d) \in [Slots -> Picture]
  BY <1>3, PictureTypes DEF Decode, Store
<1>5. Shown(t, d) \in Picture
  BY <1>2, <1>3, PictureTypes DEF Shown, PreparedType
<1> QED
  BY <1>4, <1>5, PictureTypes DEF Play

LEMMA TypeStep == IInv /\ [PNext]_all => TypeOK'
<1> SUFFICES ASSUME IInv, [PNext]_all PROVE TypeOK'
  OBVIOUS
<1> USE DEF IInv, TypeOK
<1>1. CASE CheckParams /\ UNCHANGED player
  BY <1>1 DEF CheckParams, input, player
<1>2. CASE CheckHeaders /\ UNCHANGED player
  <2>1. CASE GoodHeaders
    <3>1. 1 \in 1..Len(segs)
      BY <2>1, <1>2, InputTypes DEF CheckHeaders, Stage
    <3>2. segs[1].hdrs \in Seq(Headers) /\ segs[1].hdrs # <<>>
      BY <3>1, <2>1, SegmentFields DEF GoodHeaders
    <3>3. segs[1].hdrs[1] \in Headers
      BY <3>2
    <3> QED
      BY <1>2, <2>1, <3>3, EffectiveType DEF CheckHeaders, input, player
  <2>2. CASE ~ GoodHeaders
    BY <1>2, <2>2 DEF CheckHeaders, input, player
  <2> QED
    BY <2>1, <2>2
<1>3. CASE PrepareSegment /\ UNCHANGED player
  <2> DEFINE key == segs[i].key
             golden == segs[i].golden
             context == IF Splices(sh.id) THEN ScanFrame(scanDpb, key, KeyPic(i))
                                          ELSE scanDpb
  <2>1. i \in 1..Len(segs) /\ phase = "prepare"
    BY <1>3, InputTypes DEF PrepareSegment
  <2>2. context \in [Slots -> Picture]
    BY ScanFrameType, PictureTypes
  <2>3. ScanFrame(context, golden, GoldenPic(i)) \in [Slots -> Picture]
    BY <2>2, ScanFrameType, PictureTypes
  <2>4. CASE GoodKey(key) /\ GoodGolden(golden)
    <3>1. Prepared(i, context) \in PreparedType
      BY <2>1, <2>2, <2>4, PreparedOk
    <3>4. prepped' = Append(prepped, Prepared(i, context)) /\ i' = i + 1 /\ phase' = phase
      BY <1>3, <2>4, Zenon DEF PrepareSegment
    <3>2. prepped' \in Seq(PreparedType) /\ i' = i + 1 /\ phase' = phase
      BY <3>1, <3>4, AppendProperties
    <3>3. scanDpb' \in [Slots -> Picture]
      BY <1>3, <2>4, <2>2, <2>3 DEF PrepareSegment
    <3> QED
      BY <1>3, <3>2, <3>3 DEF PrepareSegment, input, player
  <2>5. CASE ~ (GoodKey(key) /\ GoodGolden(golden))
    BY <1>3, <2>5 DEF PrepareSegment, input, player
  <2> QED
    BY <2>4, <2>5
<1>4. CASE BeginEmission /\ UNCHANGED player
  <2>1. 1 \in 1..Len(prepped)
    BY <1>4, InputTypes DEF BeginEmission, Stage
  <2>2. prepped[1].frames \in Nat
    BY <2>1, PreparedFields
  <2>3. left' \in Nat /\ i' = 1 /\ phase' = "emit"
    BY <1>4, <2>2 DEF BeginEmission
  <2>5. goldenEmitted' \in BOOLEAN
    BY <1>4, Zenon DEF BeginEmission
  <2>4. UNCHANGED <<segs, gop, decoderModel, sh, scanDpb, prepped, tus, keySamples,
                    pos, dpb, display>>
    BY <1>4 DEF BeginEmission, input, player
  <2> QED
    BY <2>3, <2>4, <2>5
<1>5. CASE EmitTail /\ UNCHANGED player
  <2>1. Tu("show", i) \in TuType
    BY DEF Tu, TuType
  <2>2. tus' \in Seq(TuType) /\ Len(tus') = Len(tus) + 1
    BY <1>5, <2>1, AppendProperties DEF EmitTail
  <2> QED
    BY <1>5, <2>2 DEF EmitTail, input, player
<1>6. CASE EmitGop /\ UNCHANGED player
  <2>1. Chunk \in Nat /\ Chunk <= left
    BY <1>6, ChunkBounds DEF EmitGop
  <2>2. tus' \in Seq(TuType)
        /\ Len(tus') = Len(tus) + Chunk
    BY <1>6, GopAppended
  <2>3. keySamples' \in Seq(Nat \ {0})
    BY <1>6, AppendProperties DEF EmitGop
  <2> QED
    BY <1>6, <2>1, <2>2, <2>3 DEF EmitGop, input, player
<1>7. CASE NextSegment /\ UNCHANGED player
  <2>1. i + 1 \in 1..Len(prepped)
    BY <1>7, InputTypes DEF NextSegment, Stage
  <2>2. prepped[i + 1].frames \in Nat
    BY <2>1, PreparedFields
  <2>3. left' \in Nat /\ i' = i + 1
    BY <1>7, <2>2 DEF NextSegment
  <2>5. goldenEmitted' \in BOOLEAN
    BY <1>7, Zenon DEF NextSegment
  <2>4. UNCHANGED <<segs, gop, decoderModel, phase, sh, scanDpb, prepped, tus, keySamples,
                    pos, dpb, display>>
    BY <1>7 DEF NextSegment, input, player
  <2> QED
    BY <2>3, <2>4, <2>5
<1>8. CASE Finish /\ UNCHANGED player
  BY <1>8 DEF Finish, input, player
<1>9. CASE PlayNext
  <2>1. pos + 1 \in 1..Len(tus) /\ Play(pos + 1, dpb)
    BY <1>9 DEF PlayNext
  <2>2. pos' \in 1..Len(tus) /\ dpb' \in [Slots -> Picture] /\ display' \in Picture
    BY <2>1, PlayTypes
  <2> QED
    BY <2>1, <2>2 DEF Play, vars
<1>10. ASSUME NEW w \in 1..Len(tus), SeekTo(w) PROVE TypeOK'
  <2>1. Cold \in [Slots -> Picture]
    BY PictureTypes DEF Cold
  <2>2. Land(w) \in 1..Len(tus) /\ Play(Land(w), Cold)
    BY <1>10, LandIsSample DEF SeekTo
  <2>3. pos' \in 1..Len(tus) /\ dpb' \in [Slots -> Picture] /\ display' \in Picture
    BY <2>1, <2>2, PlayTypes
  <2> QED
    BY <2>2, <2>3 DEF Play, vars
<1>11. CASE UNCHANGED all
  BY <1>11 DEF all
<1> QED
  BY <1>1, <1>2, <1>3, <1>4, <1>5, <1>6, <1>7, <1>8, <1>9, <1>10, <1>11
  DEF PNext, Assembling, Step

LEMMA StageStep == IInv /\ [PNext]_all => Stage'
<1> SUFFICES ASSUME IInv, [PNext]_all PROVE Stage'
  OBVIOUS
<1> USE DEF IInv, Stage
<1>1. CASE CheckParams /\ UNCHANGED player
  BY <1>1 DEF CheckParams, GoodParams, input, player
<1>2. CASE CheckHeaders /\ UNCHANGED player
  <2>1. CASE GoodHeaders
    <3>1. Len(segs) \in Nat \ {0}
      BY <1>2, InputTypes, EmptySeq DEF CheckHeaders
    <3>2. segs[1].hdrs \in Seq(Headers) /\ segs[1].hdrs # <<>>
      BY <3>1, <2>1, SegmentFields DEF GoodHeaders
    <3>3. segs[1].hdrs[1] \in Headers
      BY <3>2
    <3>4. sh'.id \in Headers
      BY <1>2, <2>1, <3>3, EffectiveType DEF CheckHeaders, TypeOK
    <3> QED
      BY <1>2, <2>1, <3>1, <3>4 DEF CheckHeaders, input, player
  <2>2. CASE ~ GoodHeaders
    BY <1>2, <2>2 DEF CheckHeaders, input, player
  <2> QED
    BY <2>1, <2>2
<1>3. CASE PrepareSegment /\ UNCHANGED player
  <2> DEFINE key == segs[i].key
             golden == segs[i].golden
             context == IF Splices(sh.id) THEN ScanFrame(scanDpb, key, KeyPic(i))
                                          ELSE scanDpb
  <2>1. i \in 1..Len(segs) /\ phase = "prepare" /\ Len(prepped) = i - 1
    BY <1>3, InputTypes DEF PrepareSegment, TypeOK
  <2>2. CASE GoodKey(key) /\ GoodGolden(golden)
    <3> DEFINE new == Prepared(i, context)
    <3>1. context \in [Slots -> Picture]
      BY ScanFrameType, PictureTypes DEF TypeOK
    <3>2. new \in PreparedType /\ new.slot \in new.refresh
      BY <2>1, <2>2, <3>1, PreparedOk
    <3>3. new.spliced => new.context = [s \in Slots |-> KeyPic(i)]
      BY <2>2, ScanOfKey DEF Prepared
    <3>4. prepped' = Append(prepped, new) /\ i' = i + 1 /\ phase' = phase
      BY <1>3, <2>2, Zenon DEF PrepareSegment
    <3>5. prepped \in Seq(PreparedType)
      BY DEF TypeOK
    <3> HIDE DEF new
    <3>6. /\ Len(prepped') = Len(prepped) + 1
          /\ \A n \in 1..Len(prepped) : prepped'[n] = prepped[n]
          /\ prepped'[Len(prepped) + 1] = new
      BY <3>2, <3>4, <3>5, AppendProperties
    <3>7. \A n \in 1..Len(prepped') :
            /\ prepped'[n].slot \in prepped'[n].refresh
            /\ prepped'[n].spliced => prepped'[n].context = [s \in Slots |-> KeyPic(n)]
      <4> TAKE n \in 1..Len(prepped')
      <4>1. CASE n \in 1..Len(prepped)
        BY <4>1, <3>6
      <4>2. CASE n = Len(prepped) + 1
        BY <4>2, <2>1, <3>2, <3>3, <3>6 DEF TypeOK
      <4> QED
        BY <4>1, <4>2, <2>1, <3>6 DEF TypeOK
    <3>8. UNCHANGED <<segs, gop, sh, tus, keySamples, pos>>
      BY <1>3 DEF PrepareSegment, input, player
    <3>9. phase' = "prepare" /\ Len(prepped') = i' - 1 /\ i' <= Len(segs') + 1
      BY <2>1, <3>4, <3>6, <3>8 DEF TypeOK
    <3> QED
      BY <2>1, <3>7, <3>8, <3>9
  <2>3. CASE ~ (GoodKey(key) /\ GoodGolden(golden))
    BY <1>3, <2>1, <2>3 DEF PrepareSegment, input, player
  <2> QED
    BY <2>2, <2>3
<1>4. CASE BeginEmission /\ UNCHANGED player
  <2>1. Len(segs) \in Nat \ {0}
    BY <1>4, InputTypes, EmptySeq DEF BeginEmission
  <2> QED
    BY <1>4, <2>1 DEF BeginEmission, input, player
<1>5. CASE EmitTail /\ UNCHANGED player
  BY <1>5 DEF EmitTail, input, player
<1>6. CASE EmitGop /\ UNCHANGED player
  BY <1>6 DEF EmitGop, input, player
<1>7. CASE NextSegment /\ UNCHANGED player
  BY <1>7, InputTypes DEF NextSegment, input, player, TypeOK
<1>8. CASE Finish /\ UNCHANGED player
  BY <1>8 DEF Finish, input, player
<1>9. CASE PlayNext
  BY <1>9 DEF PlayNext, Play, vars
<1>10. ASSUME NEW w \in 1..Len(tus), SeekTo(w) PROVE Stage'
  BY <1>10 DEF SeekTo, Play, vars
<1>11. CASE UNCHANGED all
  BY <1>11 DEF all
<1> QED
  BY <1>1, <1>2, <1>3, <1>4, <1>5, <1>6, <1>7, <1>8, <1>9, <1>10, <1>11
  DEF PNext, Assembling, Step

LEMMA TailAppended ==
  ASSUME TypeOK, EmitTail
  PROVE  /\ tus' \in Seq(TuType) /\ Len(tus') = Len(tus) + 1
         /\ \A p \in 1..Len(tus) : tus'[p] = tus[p]
         /\ tus'[Len(tus) + 1] = Tu("show", i)
<1>1. Tu("show", i) \in TuType
  BY DEF Tu, TuType, TypeOK
<1> QED
  BY <1>1, AppendProperties DEF EmitTail, TypeOK

(* Only the two emitting steps touch the output. *)
OutputKept == UNCHANGED <<tus, keySamples>>

LEMMA StepKinds ==
  ASSUME IInv, [PNext]_all
  PROVE  \/ EmitTail /\ UNCHANGED player
         \/ EmitGop /\ UNCHANGED player
         \/ /\ OutputKept
            /\ gop' = gop /\ (phase' = "emit" /\ goldenEmitted' =>
                 phase = "emit" /\ goldenEmitted /\ i' = i /\ left' = left)
            /\ prepped' = prepped \/ tus = <<>>
<1>1. CASE CheckParams \/ CheckHeaders
  BY <1>1 DEF CheckParams, CheckHeaders, OutputKept, input
<1>2. CASE PrepareSegment
  BY <1>2 DEF PrepareSegment, OutputKept, input, IInv, Stage
<1>3. CASE BeginEmission \/ NextSegment
  BY <1>3 DEF BeginEmission, NextSegment, OutputKept, input
<1>4. CASE Finish
  BY <1>4 DEF Finish, OutputKept, input
<1>5. CASE PlayNext
  BY <1>5 DEF PlayNext, Play, vars, OutputKept
<1>6. ASSUME NEW w \in 1..Len(tus), SeekTo(w)
      PROVE  OutputKept /\ UNCHANGED <<gop, phase, goldenEmitted, i, left, prepped>>
  BY <1>6 DEF SeekTo, Play, vars, OutputKept
<1>7. CASE UNCHANGED all
  BY <1>7 DEF all, OutputKept
<1> QED
  BY <1>1, <1>2, <1>3, <1>4, <1>5, <1>6, <1>7 DEF PNext, Assembling, Step

LEMMA GrammarStep == IInv /\ [PNext]_all => Grammar'
<1> SUFFICES ASSUME IInv, [PNext]_all PROVE Grammar'
  OBVIOUS
<1> USE DEF IInv, Grammar
<1>0. /\ Len(tus) \in Nat /\ Len(prepped) \in Nat /\ Len(segs) \in Nat /\ i \in Nat \ {0}
  BY InputTypes, LenProperties DEF TypeOK
<1>1. CASE EmitTail
  <2>1. /\ Len(tus') = Len(tus) + 1 /\ tus'[Len(tus) + 1] = Tu("show", i)
        /\ \A p \in 1..Len(tus) : tus'[p] = tus[p]
    BY <1>1, TailAppended
  <2>2. UNCHANGED <<prepped, i, phase>> /\ goldenEmitted /\ phase = "emit"
    BY <1>1 DEF EmitTail
  <2>3. i \in 1..Len(prepped)
    BY <1>0, <2>2 DEF Stage
  <2>4. Tu("show", i).kind = "show" /\ Tu("show", i).seg = i
    BY DEF Tu
  <2>5. /\ Len(tus) > 0 /\ tus[Len(tus)].seg = i /\ tus[Len(tus)].kind # "key"
    BY <2>2
  <2>6. ASSUME NEW p \in 1..Len(tus')
        PROVE  /\ tus'[p].seg \in 1..Len(prepped')
               /\ tus'[p].kind = "golden" => /\ p > 1 /\ tus'[p-1].kind = "key"
                                             /\ tus'[p-1].seg = tus'[p].seg
               /\ tus'[p].kind = "show" => /\ p > 1 /\ tus'[p-1].kind # "key"
                                           /\ tus'[p-1].seg = tus'[p].seg
    <3>1. CASE p \in 1..Len(tus)
      <4>1. tus'[p] = tus[p] /\ (p > 1 => tus'[p-1] = tus[p-1])
        BY <1>0, <3>1, <2>1
      <4> QED
        BY <3>1, <4>1, <2>2
    <3>2. CASE p = Len(tus) + 1
      <4>1. tus'[p-1] = tus[Len(tus)] /\ p > 1
        BY <1>0, <3>2, <2>1, <2>5
      <4> QED
        BY <3>2, <4>1, <2>1, <2>2, <2>3, <2>4, <2>5
    <3> QED
      BY <1>0, <2>1, <3>1, <3>2
  <2>7. Len(tus') > 0 /\ tus'[Len(tus')].seg = i' /\ tus'[Len(tus')].kind # "key"
    BY <1>0, <2>1, <2>2, <2>4
  <2> QED
    BY <2>6, <2>7
<1>2. CASE EmitGop
  <2>1. /\ Len(tus') = Len(tus) + Chunk
        /\ \A p \in 1..Len(tus) : tus'[p] = tus[p]
        /\ \A p \in 1..Chunk : tus'[Len(tus) + p] =
             Tu(IF p = 1 THEN "key" ELSE IF p = 2 THEN "golden" ELSE "show", i)
    BY <1>2, GopAppended
  <2>2. Chunk \in Nat /\ Chunk >= 1
    BY <1>2, ChunkBounds DEF EmitGop
  <2>3. UNCHANGED <<prepped, i, phase>> /\ i \in 1..Len(prepped)
    BY <1>0, <1>2 DEF EmitGop, Stage
  <2>4. \A p \in 1..Chunk :
          /\ tus'[Len(tus) + p].seg = i
          /\ tus'[Len(tus) + p].kind = IF p = 1 THEN "key" ELSE IF p = 2 THEN "golden" ELSE "show"
    <3> TAKE p \in 1..Chunk
    <3> DEFINE k == IF p = 1 THEN "key" ELSE IF p = 2 THEN "golden" ELSE "show"
    <3>1. tus'[Len(tus) + p] = Tu(k, i)
      BY <2>1
    <3> HIDE DEF k
    <3>2. tus'[Len(tus) + p].seg = i /\ tus'[Len(tus) + p].kind = k
      BY <3>1 DEF Tu
    <3> QED
      BY <3>2 DEF k
  <2>5. ASSUME NEW p \in 1..Len(tus')
        PROVE  /\ tus'[p].seg \in 1..Len(prepped')
               /\ tus'[p].kind = "golden" => /\ p > 1 /\ tus'[p-1].kind = "key"
                                             /\ tus'[p-1].seg = tus'[p].seg
               /\ tus'[p].kind = "show" => /\ p > 1 /\ tus'[p-1].kind # "key"
                                           /\ tus'[p-1].seg = tus'[p].seg
    <3>1. CASE p \in 1..Len(tus)
      <4>1. tus'[p] = tus[p] /\ (p > 1 => tus'[p-1] = tus[p-1])
        BY <1>0, <3>1, <2>1
      <4> QED
        BY <3>1, <4>1, <2>3
    <3>2. CASE p > Len(tus)
      <4> DEFINE q == p - Len(tus)
      <4>1. q \in 1..Chunk /\ p = Len(tus) + q
        BY <1>0, <2>1, <2>2, <3>2
      <4>2. q > 1 => q - 1 \in 1..Chunk /\ p - 1 = Len(tus) + (q - 1)
        <5> HIDE DEF q
        <5>1. q \in Nat /\ q <= Chunk
          BY <2>2, <4>1
        <5> QED
          BY <1>0, <2>2, <4>1, <5>1
      <4>3. /\ tus'[p].seg = i
            /\ tus'[p].kind = IF q = 1 THEN "key" ELSE IF q = 2 THEN "golden" ELSE "show"
        BY <2>4, <4>1
      <4>4. q > 1 => /\ tus'[p-1].seg = i
                     /\ tus'[p-1].kind = IF q - 1 = 1 THEN "key"
                          ELSE IF q - 1 = 2 THEN "golden" ELSE "show"
        BY <2>4, <4>2
      <4> HIDE DEF q
      <4> QED
        BY <1>0, <2>2, <2>3, <4>1, <4>3, <4>4
    <3> QED
      BY <1>0, <2>1, <2>2, <3>1, <3>2
  <2>6. goldenEmitted' => Chunk >= 2
    <3>1. goldenEmitted' => Chunk # 1 \/ Chunk >= 2
      BY <1>2, Zenon DEF EmitGop
    <3> QED
      BY <2>2, <3>1
  <2>7. ASSUME goldenEmitted'
        PROVE  Len(tus') > 0 /\ tus'[Len(tus')].seg = i' /\ tus'[Len(tus')].kind # "key"
    <3>1. Chunk \in 1..Chunk /\ Chunk # 1 /\ Len(tus') > 0
      BY <1>0, <2>1, <2>2, <2>6, <2>7
    <3> QED
      BY <2>1, <2>3, <2>4, <3>1, SMTT(30)
  <2> QED
    BY <2>5, <2>7
<1>3. CASE /\ OutputKept
           /\ gop' = gop /\ (phase' = "emit" /\ goldenEmitted' =>
                phase = "emit" /\ goldenEmitted /\ i' = i /\ left' = left)
           /\ prepped' = prepped \/ tus = <<>>
  BY <1>3 DEF OutputKept
<1> QED
  BY <1>1, <1>2, <1>3, StepKinds

LEMMA SamplesStep == IInv /\ [PNext]_all => Samples'
<1> SUFFICES ASSUME IInv, [PNext]_all PROVE Samples'
  OBVIOUS
<1> USE DEF IInv, Samples
<1>0. Len(tus) \in Nat /\ Len(keySamples) \in Nat
  BY LenProperties DEF TypeOK
<1>1. CASE EmitTail
  <2>1. /\ Len(tus') = Len(tus) + 1 /\ tus'[Len(tus) + 1].kind = "show"
        /\ \A p \in 1..Len(tus) : tus'[p] = tus[p]
    BY <1>1, TailAppended DEF Tu
  <2>2. keySamples' = keySamples
    BY <1>1 DEF EmitTail
  <2>3. ASSUME NEW p \in 1..Len(tus'), tus'[p].kind = "key"
        PROVE  \E n \in 1..Len(keySamples') : keySamples'[n] = p
    <3>1. p \in 1..Len(tus)
      BY <1>0, <2>1, <2>3
    <3> QED
      BY <2>1, <2>2, <2>3, <3>1
  <2>4. \A n \in 1..Len(keySamples') :
          keySamples'[n] \in 1..Len(tus') /\ tus'[keySamples'[n]].kind = "key"
    BY <1>0, <2>1, <2>2
  <2> QED
    BY <2>2, <2>3, <2>4
<1>2. CASE EmitGop
  <2> DEFINE new == Len(tus) + 1
  <2>1. Chunk \in Nat /\ Chunk >= 1
    BY <1>2, ChunkBounds DEF EmitGop
  <2>2. /\ Len(tus') = Len(tus) + Chunk
        /\ \A p \in 1..Len(tus) : tus'[p] = tus[p]
        /\ \A p \in 1..Chunk : tus'[Len(tus) + p] =
             Tu(IF p = 1 THEN "key" ELSE IF p = 2 THEN "golden" ELSE "show", i)
    BY <1>2, GopAppended
  <2>3. tus'[new].kind = "key"
    <3>1. tus'[new] = Tu("key", i)
      BY <2>1, <2>2
    <3> QED
      BY <3>1 DEF Tu
  <2>4. \A p \in 1..Chunk : tus'[Len(tus) + p].kind = "key" => p = 1
    <3> TAKE p \in 1..Chunk
    <3> DEFINE k == IF p = 1 THEN "key" ELSE IF p = 2 THEN "golden" ELSE "show"
    <3>1. tus'[Len(tus) + p] = Tu(k, i)
      BY <2>2
    <3>2. k = "key" => p = 1
      OBVIOUS
    <3> HIDE DEF k
    <3> QED
      BY <3>1, <3>2 DEF Tu
  <2>5. /\ Len(keySamples') = Len(keySamples) + 1
        /\ \A n \in 1..Len(keySamples) : keySamples'[n] = keySamples[n]
        /\ keySamples'[Len(keySamples) + 1] = new
    <3>1. keySamples \in Seq(Nat \ {0}) /\ new \in Nat \ {0}
      BY <1>0 DEF TypeOK
    <3>2. keySamples' = Append(keySamples, new)
      BY <1>2 DEF EmitGop
    <3> QED
      BY <3>1, <3>2, AppendProperties
  <2> DEFINE ks == keySamples
             ms == keySamples'
             last == Len(keySamples) + 1
  <2>10. /\ 1..Len(ms) = 1..Len(ks) \cup {last} /\ last \in 1..Len(ms)
         /\ \A n \in 1..Len(ks) : n < last /\ n \in 1..Len(ms)
         /\ \A n \in 1..Len(ks) : ms[n] = ks[n]
         /\ ms[last] = new
    BY <1>0, <2>5
  <2>6. ASSUME NEW p \in 1..Len(tus'), tus'[p].kind = "key"
        PROVE  \E n \in 1..Len(keySamples') : keySamples'[n] = p
    <3>1. CASE p \in 1..Len(tus)
      <4>1. PICK n \in 1..Len(keySamples) : keySamples[n] = p
        BY <2>2, <2>6, <3>1
      <4>2. n \in 1..Len(keySamples') /\ keySamples'[n] = p
        BY <2>10, <4>1
      <4> QED
        BY <4>2
    <3>2. CASE p > Len(tus)
      <4>1. p - Len(tus) \in 1..Chunk /\ p = Len(tus) + (p - Len(tus))
        BY <1>0, <2>1, <2>2, <3>2
      <4>2. p - Len(tus) = 1
        BY <2>4, <2>6, <4>1
      <4>3. p = new
        BY <1>0, <4>1, <4>2
      <4> HIDE DEF new, last
      <4> QED
        BY <2>10, <4>3
    <3> QED
      BY <1>0, <2>1, <2>2, <3>1, <3>2
  <2>7. \A n \in 1..Len(keySamples') :
          keySamples'[n] \in 1..Len(tus') /\ tus'[keySamples'[n]].kind = "key"
    <3> TAKE n \in 1..Len(keySamples')
    <3>1. CASE n \in 1..Len(keySamples)
      BY <1>0, <2>1, <2>2, <2>5, <3>1
    <3>2. CASE n = Len(keySamples) + 1
      BY <1>0, <2>1, <2>2, <2>3, <2>5, <3>2
    <3> QED
      BY <1>0, <2>5, <3>1, <3>2
  <2>8. \A m, n \in 1..Len(keySamples') : m < n => keySamples'[m] < keySamples'[n]
    <3> TAKE m, n \in 1..Len(keySamples')
    <3> HAVE m < n
    <3>1. m \in 1..Len(keySamples)
      BY <1>0, <2>5
    <3>4. keySamples[m] \in 1..Len(tus) /\ keySamples'[m] = keySamples[m]
      BY <2>10, <3>1
    <3>2. CASE n \in 1..Len(keySamples)
      BY <2>10, <3>1, <3>2
    <3>3. CASE n = Len(keySamples) + 1
      <4>1. keySamples'[n] = new
        BY <2>10, <3>3
      <4>2. keySamples[m] < new
        BY <1>0, <3>4
      <4> QED
        BY <3>4, <4>1, <4>2
    <3>5. n \in 1..Len(keySamples) \/ n = Len(keySamples) + 1
      BY <2>10
    <3> QED
      BY <3>2, <3>3, <3>5
  <2> QED
    BY <2>6, <2>7, <2>8
<1>3. CASE OutputKept
  BY <1>3 DEF OutputKept
<1> QED
  BY <1>1, <1>2, <1>3, StepKinds

LEMMA ReachStep == IInv /\ [PNext]_all => Reach'
<1> SUFFICES ASSUME IInv, [PNext]_all PROVE Reach'
  OBVIOUS
<1> USE DEF IInv, Reach
<1>0. Len(tus) \in Nat /\ gop \in Nat /\ left \in Nat
  BY InputTypes, LenProperties DEF TypeOK
<1>1. CASE EmitTail
  <2> DEFINE last == Len(tus) - gop + 1
  <2>1. /\ Len(tus') = Len(tus) + 1
        /\ \A p \in 1..Len(tus) : tus'[p] = tus[p]
    BY <1>1, TailAppended
  <2>2. gop' = gop /\ left' = 0 /\ last \in 1..Len(tus) /\ tus[last].kind = "key"
    BY <1>1 DEF EmitTail, input
  <2>3. ASSUME NEW w \in 1..Len(tus')
        PROVE  \E k \in 1..Len(tus') : tus'[k].kind = "key" /\ k <= w /\ w - k <= gop'
    <3>1. CASE w \in 1..Len(tus)
      <4>1. PICK k \in 1..Len(tus) : tus[k].kind = "key" /\ k <= w /\ w - k <= gop
        BY <3>1
      <4>2. k \in 1..Len(tus')
        BY <1>0, <2>1
      <4>3. tus'[k].kind = "key"
        BY <2>1, <4>1
      <4> QED
        BY <2>2, <4>1, <4>2, <4>3
    <3>2. CASE w = Len(tus) + 1
      <4>1. last <= w /\ w - last <= gop
        BY <1>0, <3>2
      <4> HIDE DEF last
      <4>2. last \in 1..Len(tus') /\ tus'[last].kind = "key"
        BY <1>0, <2>1, <2>2
      <4> QED
        BY <2>2, <4>1, <4>2
    <3> QED
      BY <1>0, <2>1, <3>1, <3>2
  <2> QED
    BY <2>2, <2>3
<1>2. CASE EmitGop
  <2> DEFINE new == Len(tus) + 1
  <2>1. /\ Chunk \in Nat /\ Chunk >= 1 /\ Chunk <= gop
        /\ Chunk = left \/ Chunk = gop
    BY <1>2, ChunkBounds DEF EmitGop
  <2>2. /\ Len(tus') = Len(tus) + Chunk
        /\ \A p \in 1..Len(tus) : tus'[p] = tus[p]
        /\ tus'[Len(tus) + 1] = Tu("key", i)
    BY <1>2, <2>1, GopAppended
  <2>3. gop' = gop /\ left' = left - Chunk
    BY <1>2 DEF EmitGop, input
  <2>4. tus'[new].kind = "key" /\ new \in 1..Len(tus')
    BY <1>0, <2>1, <2>2 DEF Tu
  <2>5. ASSUME NEW w \in 1..Len(tus')
        PROVE  \E k \in 1..Len(tus') : tus'[k].kind = "key" /\ k <= w /\ w - k <= gop'
    <3>1. CASE w \in 1..Len(tus)
      <4>1. PICK k \in 1..Len(tus) : tus[k].kind = "key" /\ k <= w /\ w - k <= gop
        BY <3>1
      <4> QED
        BY <1>0, <2>1, <2>2, <2>3, <4>1
    <3>2. CASE w > Len(tus)
      <4>1. new <= w /\ w - new <= gop
        BY <1>0, <2>1, <2>2, <3>2, SMTT(30)
      <4> QED
        BY <2>3, <2>4, <4>1
    <3> QED
      BY <1>0, <2>1, <2>2, <3>1, <3>2
  <2>6. left' > 0 => Len(tus') - gop' + 1 = new
    <3>1. left' > 0 => Chunk = gop
      BY <1>0, <2>1, <2>3
    <3> QED
      BY <1>0, <2>2, <2>3, <3>1
  <2> QED
    BY <2>4, <2>5, <2>6
<1>3. CASE /\ OutputKept
           /\ gop' = gop /\ (phase' = "emit" /\ goldenEmitted' =>
                phase = "emit" /\ goldenEmitted /\ i' = i /\ left' = left)
  BY <1>3 DEF OutputKept
<1> QED
  BY <1>1, <1>2, <1>3, StepKinds

(* One TU played from the slots its predecessor left, or a key TU from any. *)
LEMMA PlayShows ==
  ASSUME IInv, NEW w \in 1..Len(tus), NEW d \in [Slots -> Picture], Play(w, d),
         \/ tus[w].kind = "key"
         \/ w = pos + 1 /\ pos > 0 /\ d = dpb
  PROVE  Screen'
<1> DEFINE t == tus[w]
           n == tus[w].seg
           g == prepped[n]
<1>1. /\ n \in 1..Len(prepped) /\ n \in Nat
      /\ t.kind \in {"key", "golden", "show"}
  <2>1. t \in TuType
    BY ElementOfSeq DEF IInv, TypeOK
  <2>2. n \in 1..Len(prepped)
    BY DEF IInv, Grammar
  <2> QED
    BY <2>1, <2>2 DEF TuType
<1>2. /\ UNCHANGED <<tus, prepped>> /\ pos' = w
      /\ dpb' = Decode(t, d)
      /\ display' = IF Legal(t, d) THEN Shown(t, d) ELSE Garbage
  BY DEF Play, vars
<1>3. g.slot \in Slots /\ g.slot \in g.refresh
  BY <1>1, PreparedFields DEF IInv, Stage
<1>4. CASE t.kind = "key"
  <2>1. dpb' = [s \in Slots |-> KeyPic(n)] /\ display' = KeyPic(n)
    BY <1>2, <1>4 DEF Decode, Legal, Shown
  <2> QED
    BY <1>2, <1>4, <2>1 DEF Screen, RightPicture, KeyPic
<1>5. CASE t.kind = "golden"
  <2>1. tus[pos].kind = "key" /\ tus[pos].seg = n /\ d = dpb /\ pos > 0
    BY <1>5 DEF IInv, Grammar, TypeOK
  <2>2. d = [s \in Slots |-> KeyPic(n)]
    BY <2>1 DEF IInv, Screen
  <2>3. g.spliced => g.context = d
    BY <1>1, <2>2 DEF IInv, Stage
  <2>4. GoldenPicture(n, d) = GoldenPic(n)
    BY <2>2, <2>3 DEF GoldenPicture
  <2>5. dpb' = Store(d, g.refresh, GoldenPic(n)) /\ display' = GoldenPic(n)
    BY <1>2, <1>5, <2>4 DEF Decode, Legal, Shown
  <2>6. dpb'[g.slot] = GoldenPic(n)
    BY <1>3, <2>5 DEF Store
  <2>7. display'.seg = n /\ display'.kind = "golden"
    BY <2>5 DEF GoldenPic
  <2> QED
    BY <1>2, <1>5, <2>6, <2>7, SMTT(30) DEF Screen, RightPicture
<1>6. CASE t.kind = "show"
  <2>0. w = pos + 1 /\ pos > 0 /\ d = dpb /\ w - 1 = pos
    BY <1>6 DEF IInv, TypeOK
  <2>1. tus[pos].kind # "key" /\ tus[pos].seg = n /\ d = dpb /\ pos > 0
    BY <1>6, <2>0 DEF IInv, Grammar
  <2>2. d[g.slot] = GoldenPic(n)
    BY <2>1 DEF IInv, Screen
  <2>3. dpb' = d /\ display' = GoldenPic(n)
    BY <1>2, <1>6, <2>2 DEF Decode, Legal, Shown, GoldenPic
  <2> QED
    BY <1>2, <1>6, <2>2, <2>3 DEF Screen, RightPicture, GoldenPic
<1> QED
  BY <1>1, <1>4, <1>5, <1>6

LEMMA ScreenStep == IInv /\ [PNext]_all => Screen'
<1> SUFFICES ASSUME IInv, [PNext]_all PROVE Screen'
  OBVIOUS
<1>1. CASE Assembling
  <2>1. pos' = pos /\ phase # "done"
    BY <1>1 DEF Assembling, player, Step, CheckParams, CheckHeaders, PrepareSegment,
       BeginEmission, EmitTail, EmitGop, NextSegment, Finish
  <2> QED
    BY <2>1 DEF IInv, Stage, Screen
<1>2. CASE PlayNext
  <2>1. /\ pos + 1 \in 1..Len(tus) /\ Play(pos + 1, dpb) /\ pos \in Nat
        /\ dpb \in [Slots -> Picture]
    BY <1>2 DEF PlayNext, IInv, TypeOK
  <2>2. CASE pos > 0
    BY <2>1, <2>2, PlayShows
  <2>3. CASE pos = 0
    <3>1. tus[1] \in TuType
      BY <2>1, <2>3, ElementOfSeq DEF IInv, TypeOK
    <3>2. tus[1].kind = "key"
      BY <2>1, <2>3, <3>1 DEF IInv, Grammar, TuType
    <3> QED
      BY <2>1, <2>3, <3>2, PlayShows
  <2> QED
    BY <2>1, <2>2, <2>3
<1>3. ASSUME NEW w \in 1..Len(tus), SeekTo(w) PROVE Screen'
  <2>1. Cold \in [Slots -> Picture]
    BY PictureTypes DEF Cold
  <2> QED
    BY <1>3, <2>1, LandIsSample, PlayShows DEF SeekTo
<1>4. CASE UNCHANGED all
  BY <1>4 DEF all, IInv, Screen, RightPicture
<1> QED
  BY <1>1, <1>2, <1>3, <1>4 DEF PNext

-------------------------------------------------------------------------------
LEMMA Inductive == PSpec => []IInv
<1>1. IInv /\ [PNext]_all => IInv'
  BY TypeStep, StageStep, GrammarStep, SamplesStep, ReachStep, ScreenStep DEF IInv
<1> QED
  BY <1>1, InitIInv, PTL DEF PSpec

(* Every variable of the assembler and the player keeps its type. *)
THEOREM TypesHold == PSpec => []TypeOK
BY Inductive, PTL DEF IInv

(* However it is played and sought, the stream shows the image each TU     *)
(* belongs to, for every playlist, gop, header and number of slots.        *)
THEOREM ScreenIsRight == PSpec => []RightPicture
<1>1. IInv => RightPicture
  BY DEF IInv, Screen, RightPicture
<1> QED
  BY <1>1, Inductive, PTL

LEMMA SamplesListed == IInv => KeySamplesExact
<1> SUFFICES ASSUME IInv PROVE KeySamplesExact
  OBVIOUS
<1>1. /\ DOMAIN keySamples = 1..Len(keySamples)
      /\ DOMAIN tus = 1..Len(tus)
  BY LenProperties DEF IInv, TypeOK
<1>2. ASSUME NEW k \in KeyPositions PROVE k \in DOMAIN tus /\ tus[k].kind = "key"
  BY <1>1, <1>2 DEF IInv, Samples, KeyPositions
<1>3. ASSUME NEW k \in DOMAIN tus, tus[k].kind = "key" PROVE k \in KeyPositions
  BY <1>1, <1>3 DEF IInv, Samples, KeyPositions
<1>4. KeyPositions = {p \in DOMAIN tus : tus[p].kind = "key"}
  BY <1>2, <1>3
<1> QED
  BY <1>1, <1>4 DEF IInv, Samples, KeySamplesExact

(* key_samples is exactly the increasing list of keyframe positions. *)
THEOREM SamplesAreExact == PSpec => []KeySamplesExact
BY SamplesListed, Inductive, PTL

(* A player that starts at the sync sample at or before the frame asked    *)
(* for decodes at most gop frames more than it needs.                      *)
THEOREM SeekErrorBounded == PSpec => []SeekErrorWithinGop
<1>1. ASSUME IInv PROVE SeekErrorWithinGop
  <2>1. DOMAIN tus = 1..Len(tus) /\ DOMAIN keySamples = 1..Len(keySamples)
    BY <1>1, LenProperties DEF IInv, TypeOK
  <2>2. \A k \in 1..Len(tus) : tus[k].kind = "key" => k \in KeyPositions
    BY <1>1, <2>1 DEF IInv, Samples, KeyPositions
  <2> QED
    BY <1>1, <2>1, <2>2 DEF IInv, Reach, SeekErrorWithinGop
<1> QED
  BY <1>1, Inductive, PTL

-------------------------------------------------------------------------------
(***************************************************************************)
(* The whole playlist: a finished stream has one TU per requested frame,   *)
(* and whoever plays it or seeks in it sees the slide show StillVideo      *)
(* promises.                                                               *)
(***************************************************************************)
(* The two sums over the segments, as recursions: the ends of the          *)
(* segments, which grow without bound, and the total the code folds with   *)
(* u64::saturating_add (assemble.rs:228-231).                              *)
PlusFrames(x, n) == x + segs[n].frames
SatPlusFrames(x, n) == SatAdd(x, segs[n].frames)

Sums    == INSTANCE NatRecursion WITH base <- 0, Step <- PlusFrames
SatSums == INSTANCE NatRecursion WITH base <- 0, Step <- SatPlusFrames

EndOf == Slideshow!EndOf

-------------------------------------------------------------------------------
(* The ends of the segments: where each starts, and in which order.        *)

LEMMA EndsAre ==
  ASSUME TypeOK
  PROVE  /\ EndOf[0] = 0
         /\ \A n \in 1..Len(segs) : EndOf[n] = EndOf[n - 1] + segs[n].frames
         /\ \A n \in 0..Len(segs) : EndOf[n] \in Nat
<1>1. EndOf = [n \in Nat |-> IF n = 0 THEN 0 ELSE PlusFrames(EndOf[n - 1], n)]
  <2>1. EndOf = Sums!Rec
    BY Zenon DEF EndOf, Slideshow!EndOf, Sums!Rec, PlusFrames
  <2> QED
    BY <2>1, Sums!RecDefined
<1>2. EndOf[0] = 0
  BY <1>1
<1>3. Len(segs) \in Nat /\ \A n \in 1..Len(segs) : segs[n].frames \in Nat
  BY InputTypes, SegmentFields, LenProperties
<1>4. \A n \in 1..Len(segs) : EndOf[n] = EndOf[n - 1] + segs[n].frames
  <2> TAKE n \in 1..Len(segs)
  <2>1. n \in Nat /\ n # 0
    BY <1>3
  <2>2. EndOf[n] = PlusFrames(EndOf[n - 1], n)
    BY <1>1, <2>1, Zenon
  <2> QED
    BY <2>2 DEF PlusFrames
<1> HIDE DEF EndOf
<1> DEFINE P == {n \in Nat : n <= Len(segs) => EndOf[n] \in Nat}
<1>5. P \in SUBSET Nat
  OBVIOUS
<1>6. 0 \in P
  BY <1>2
<1>7. ASSUME NEW n \in P PROVE n + 1 \in P
  <2>1. n + 1 <= Len(segs) => n + 1 \in 1..Len(segs) /\ n <= Len(segs) /\ (n + 1) - 1 = n
    BY <1>3
  <2>2. n + 1 <= Len(segs) => EndOf[n + 1] = EndOf[n] + segs[n + 1].frames
    BY <1>4, <2>1
  <2> QED
    BY <1>3, <2>1, <2>2
<1>8. P = Nat
  <2> HIDE DEF P
  <2> QED
    BY <1>5, <1>6, <1>7, Sums!NatSetInduction
<1>9. \A n \in 0..Len(segs) : EndOf[n] \in Nat
  BY <1>3, <1>8
<1> QED
  BY <1>2, <1>4, <1>9

(* No segment ends before an earlier one.                                  *)
LEMMA EndsIncrease ==
  ASSUME TypeOK, NEW m \in 0..Len(segs), NEW n \in m..Len(segs)
  PROVE  EndOf[m] <= EndOf[n]
<1>1. Len(segs) \in Nat /\ \A k \in 1..Len(segs) : segs[k].frames \in Nat
  BY InputTypes, SegmentFields, LenProperties
<1> DEFINE P == {k \in Nat : m <= k /\ k <= Len(segs) => EndOf[m] <= EndOf[k]}
<1>2. P \in SUBSET Nat
  OBVIOUS
<1> HIDE DEF EndOf
<1>3. 0 \in P
  <2>1. m <= 0 => m = 0
    BY <1>1
  <2> QED
    BY <2>1, EndsAre
<1>4. ASSUME NEW k \in P PROVE k + 1 \in P
  <2> SUFFICES ASSUME m <= k + 1, k + 1 <= Len(segs) PROVE EndOf[m] <= EndOf[k + 1]
    OBVIOUS
  <2>1. k + 1 \in 1..Len(segs) /\ k \in 0..Len(segs) /\ (k + 1) - 1 = k /\ k + 1 \in 0..Len(segs)
    BY <1>1
  <2>2. EndOf[k + 1] = EndOf[k] + segs[k + 1].frames
    BY <2>1, EndsAre
  <2>3. EndOf[k] \in Nat /\ EndOf[k + 1] \in Nat /\ EndOf[m] \in Nat
    BY <2>1, EndsAre
  <2>4. CASE m <= k
    <3>1. EndOf[m] <= EndOf[k]
      BY <2>1, <2>4
    <3> QED
      BY <1>1, <2>1, <2>2, <2>3, <3>1
  <2>5. CASE m = k + 1
    BY <2>3, <2>5
  <2> QED
    BY <1>1, <2>4, <2>5
<1>5. P = Nat
  <2> HIDE DEF P
  <2> QED
    BY <1>2, <1>3, <1>4, Sums!NatSetInduction
<1> QED
  BY <1>1, <1>5

(* Frame w belongs to one segment only.                                    *)
LEMMA ImageIs ==
  ASSUME TypeOK, NEW n \in 1..Len(segs), NEW w \in Nat,
         EndOf[n - 1] < w, w <= EndOf[n]
  PROVE  Slideshow!ImageAt(w) = n
<1>1. Len(segs) \in Nat /\ DOMAIN segs = 1..Len(segs)
  BY InputTypes, LenProperties
<1> HIDE DEF EndOf
<1>2. ASSUME NEW m \in 1..Len(segs), EndOf[m - 1] < w, w <= EndOf[m]
      PROVE  m = n
  <2>0. /\ m - 1 \in 0..Len(segs) /\ n - 1 \in 0..Len(segs)
        /\ m \in 0..Len(segs) /\ n \in 0..Len(segs)
    BY <1>1
  <2>1. /\ EndOf[m - 1] \in Nat /\ EndOf[n - 1] \in Nat
        /\ EndOf[m] \in Nat /\ EndOf[n] \in Nat
    BY <2>0, EndsAre
  <2>2. CASE m < n
    <3>1. n - 1 \in m..Len(segs)
      BY <1>1, <2>2
    <3>2. EndOf[m] <= EndOf[n - 1]
      BY <2>0, <3>1, EndsIncrease
    <3> QED
      BY <1>2, <2>1, <3>2
  <2>3. CASE n < m
    <3>1. m - 1 \in n..Len(segs)
      BY <1>1, <2>3
    <3>2. EndOf[n] <= EndOf[m - 1]
      BY <2>0, <3>1, EndsIncrease
    <3> QED
      BY <1>2, <2>1, <3>2
  <2> QED
    BY <1>1, <2>2, <2>3
<1>3. Slideshow!ImageAt(w) =
        CHOOSE m \in 1..Len(segs) : EndOf[m - 1] < w /\ w <= EndOf[m]
  BY <1>1 DEF Slideshow!ImageAt, EndOf
<1> QED
  BY <1>2, <1>3

(* The saturating total is the plain one cut at the largest u64; under the *)
(* cap it is the plain one.                                                *)
LEMMA TotalIsPlain ==
  ASSUME TypeOK, Total <= MaxTotal
  PROVE  Total = EndOf[Len(segs)]
<1>1. TotalTo = [n \in Nat |-> IF n = 0 THEN 0 ELSE SatPlusFrames(TotalTo[n - 1], n)]
  <2>1. TotalTo = SatSums!Rec
    BY Zenon DEF TotalTo, SatSums!Rec, SatPlusFrames
  <2> QED
    BY <2>1, SatSums!RecDefined
<1>2. Len(segs) \in Nat /\ \A n \in 1..Len(segs) : segs[n].frames \in Nat
  BY InputTypes, SegmentFields, LenProperties
<1>3. TotalTo[0] = 0
  BY <1>1
<1>4. \A n \in 1..Len(segs) : TotalTo[n] = SatAdd(TotalTo[n - 1], segs[n].frames)
  BY <1>1, <1>2 DEF SatPlusFrames
<1> HIDE DEF EndOf
<1> DEFINE P == {n \in Nat : n <= Len(segs) => TotalTo[n] = Min2(EndOf[n], MaxU64)}
<1>5. P \in SUBSET Nat
  OBVIOUS
<1>6. 0 \in P
  BY <1>3, EndsAre, AssembleAssumption DEF Min2
<1>7. ASSUME NEW n \in P PROVE n + 1 \in P
  <2> SUFFICES ASSUME n + 1 <= Len(segs) PROVE TotalTo[n + 1] = Min2(EndOf[n + 1], MaxU64)
    OBVIOUS
  <2>1. n + 1 \in 1..Len(segs) /\ n \in 0..Len(segs) /\ (n + 1) - 1 = n
    BY <1>2
  <2>2. EndOf[n + 1] = EndOf[n] + segs[n + 1].frames /\ EndOf[n] \in Nat
    BY <2>1, EndsAre
  <2>3. TotalTo[n] = Min2(EndOf[n], MaxU64)
    BY <1>2, <2>1
  <2>4. TotalTo[n + 1] = Min2(TotalTo[n] + segs[n + 1].frames, MaxU64)
    BY <1>4, <2>1 DEF SatAdd
  <2> QED
    BY <1>2, <2>1, <2>2, <2>3, <2>4, AssembleAssumption DEF Min2
<1>8. P = Nat
  <2> HIDE DEF P
  <2> QED
    BY <1>5, <1>6, <1>7, Sums!NatSetInduction
<1>9. Total = Min2(EndOf[Len(segs)], MaxU64) /\ EndOf[Len(segs)] \in Nat
  BY <1>2, <1>8, EndsAre DEF Total
<1> QED
  BY <1>9, AssembleAssumption DEF Min2


-------------------------------------------------------------------------------
(* The inductive invariant.  IInv says where each TU stands, not how many  *)
(* there are: what the emission loop has left is what its segment still    *)
(* lacks, and each TU emitted lies within its segment's frames.            *)
Fits ==
  /\ phase \notin {"params", "error"} => Total >= 2 /\ Total <= MaxTotal
  /\ \A n \in 1..Len(prepped) : n <= Len(segs) /\ prepped[n].frames = segs[n].frames
  /\ phase = "emit" => /\ Len(tus) + left = EndOf[i]
                       /\ left <= segs[i].frames
  /\ phase = "done" => Len(tus) = EndOf[Len(segs)]
  /\ \A p \in 1..Len(tus) : EndOf[tus[p].seg - 1] < p /\ p <= EndOf[tus[p].seg]

LEMMA InitFits == PInit => Fits
BY EmptySeq DEF PInit, Init, Fits

(* The request does not change under way, nor what is computed from it.    *)
LEMMA RequestKept ==
  ASSUME [PNext]_all
  PROVE  UNCHANGED <<segs, gop>> /\ EndOf' = EndOf /\ Total' = Total
<1>1. UNCHANGED <<segs, gop>>
  BY DEF PNext, Assembling, Step, CheckParams, CheckHeaders, PrepareSegment, BeginEmission,
     EmitTail, EmitGop, NextSegment, Finish, PlayNext, SeekTo, Play, vars, all, input
<1>2. EndOf' = EndOf
  BY <1>1 DEF EndOf, Slideshow!EndOf
<1>3. Total' = Total
  BY <1>1 DEF Total, TotalTo
<1> QED
  BY <1>1, <1>2, <1>3

LEMMA FitsStep == IInv /\ Fits /\ [PNext]_all => Fits'
<1> SUFFICES ASSUME IInv, Fits, [PNext]_all PROVE Fits'
  OBVIOUS
<1>0. /\ TypeOK /\ Stage /\ Grammar
      /\ Len(segs) \in Nat /\ Len(tus) \in Nat /\ Len(prepped) \in Nat
      /\ i \in Nat \ {0} /\ left \in Nat
      /\ UNCHANGED <<segs, gop>> /\ EndOf' = EndOf /\ Total' = Total
  BY InputTypes, LenProperties, RequestKept DEF IInv, TypeOK
<1> DEFINE Rest == UNCHANGED <<prepped, tus>>
<1>1. CASE CheckParams
  <2>1. tus = <<>> /\ Rest /\ phase = "params"
    BY <1>0, <1>1 DEF CheckParams, Stage
  <2>2. phase' = (IF GoodParams THEN "headers" ELSE "error")
    BY <1>1 DEF CheckParams
  <2>3. GoodParams => Total >= 2 /\ Total <= MaxTotal
    BY DEF GoodParams
  <2> QED
    BY <1>0, <2>1, <2>2, <2>3 DEF Fits
<1>2. CASE CheckHeaders
  <2>1. Rest /\ phase = "headers" /\ phase' \in {"prepare", "error"}
    BY <1>2 DEF CheckHeaders
  <2> QED
    BY <1>0, <2>1 DEF Fits
<1>3. CASE PrepareSegment
  <2>1. /\ i \in 1..Len(segs) /\ phase = "prepare" /\ Len(prepped) = i - 1
        /\ tus = <<>> /\ tus' = tus /\ phase' \in {"prepare", "error"}
    BY <1>0, <1>3 DEF PrepareSegment, Stage
  <2>2. \/ prepped' = prepped
        \/ \E p : p.frames = segs[i].frames /\ prepped' = Append(prepped, p)
    BY <1>3, Zenon DEF PrepareSegment, Prepared
  <2>3. CASE prepped' = prepped
    BY <1>0, <2>1, <2>3 DEF Fits
  <2>4. ASSUME NEW p, p.frames = segs[i].frames, prepped' = Append(prepped, p)
        PROVE  Fits'
    <3>1. prepped \in Seq(PreparedType)
      BY <1>0 DEF TypeOK
    <3>2. Len(prepped') = i /\ \A n \in 1..Len(prepped') :
            prepped'[n] = IF n <= Len(prepped) THEN prepped[n] ELSE p
      BY <1>0, <2>1, <2>4, <3>1
    <3>3. ASSUME NEW n \in 1..Len(prepped')
          PROVE  n <= Len(segs) /\ prepped'[n].frames = segs[n].frames
      <4>1. CASE n <= Len(prepped)
        BY <1>0, <3>2, <4>1 DEF Fits
      <4>2. CASE n > Len(prepped)
        BY <1>0, <2>1, <2>4, <3>2, <4>2
      <4> QED
        BY <1>0, <3>2, <4>1, <4>2
    <3> QED
      BY <1>0, <2>1, <3>3 DEF Fits
  <2> QED
    BY <2>2, <2>3, <2>4
<1>4. CASE BeginEmission
  <2>1. /\ phase = "prepare" /\ Len(prepped) = Len(segs) /\ 1 \in 1..Len(segs)
        /\ tus = <<>> /\ Rest /\ phase' = "emit" /\ i' = 1 /\ left' = prepped[1].frames
    <3>1. /\ phase = "prepare" /\ Len(prepped) = Len(segs)
          /\ tus = <<>> /\ Rest /\ phase' = "emit" /\ i' = 1 /\ left' = prepped[1].frames
      BY <1>0, <1>4 DEF BeginEmission, Stage
    <3>2. segs # <<>>
      BY <1>0, <3>1 DEF Stage
    <3> QED
      BY <1>0, <3>1, <3>2, InputTypes, EmptySeq
  <2>2. EndOf[0] = 0 /\ EndOf[1] = EndOf[0] + segs[1].frames /\ segs[1].frames \in Nat
    BY <1>0, <2>1, EndsAre, SegmentFields
  <2>3. Len(tus') + left' = EndOf[i'] /\ left' <= segs'[i'].frames
    BY <1>0, <2>1, <2>2 DEF Fits
  <2> QED
    BY <1>0, <2>1, <2>3 DEF Fits
<1>5. CASE EmitTail
  <2>1. /\ Len(tus') = Len(tus) + 1 /\ tus'[Len(tus) + 1] = Tu("show", i)
        /\ \A p \in 1..Len(tus) : tus'[p] = tus[p]
    BY <1>0, <1>5, TailAppended
  <2>2. /\ phase = "emit" /\ phase' = phase /\ i' = i /\ left > 0 /\ left' = 0
        /\ prepped' = prepped /\ Chunk = 1
    BY <1>5 DEF EmitTail
  <2>3. left = 1
    <3>1. goldenEmitted /\ 1 = (IF left < gop THEN left ELSE gop)
      BY <1>5 DEF EmitTail, Chunk, Min2
    <3>2. gop >= 2 /\ gop \in Nat
      BY <1>0, <2>2, InputTypes DEF Stage
    <3> QED
      BY <1>0, <3>1, <3>2
  <2>4. i \in 1..Len(segs)
    BY <1>0, <2>2 DEF Stage
  <2>5. EndOf[i] = EndOf[i - 1] + segs[i].frames /\ EndOf[i - 1] \in Nat /\ segs[i].frames \in Nat
    <3>1. i - 1 \in 0..Len(segs)
      BY <1>0, <2>4
    <3> QED
      BY <1>0, <2>4, <3>1, EndsAre, SegmentFields
  <2>6. Len(tus) + left = EndOf[i] /\ left <= segs[i].frames
    BY <2>2 DEF Fits
  <2>7. ASSUME NEW p \in 1..Len(tus')
        PROVE  EndOf[tus'[p].seg - 1] < p /\ p <= EndOf[tus'[p].seg]
    <3>1. CASE p \in 1..Len(tus)
      BY <2>1, <3>1 DEF Fits
    <3>2. CASE p = Len(tus) + 1
      <4>1. tus'[p].seg = i
        BY <2>1, <3>2 DEF Tu
      <4> QED
        BY <1>0, <2>3, <2>5, <2>6, <3>2, <4>1
    <3> QED
      BY <1>0, <2>1, <3>1, <3>2
  <2>8. Len(tus') + left' = EndOf[i'] /\ left' <= segs[i'].frames
    BY <1>0, <2>1, <2>2, <2>3, <2>5, <2>6
  <2> QED
    BY <1>0, <2>2, <2>7, <2>8 DEF Fits
<1>6. CASE EmitGop
  <2>1. /\ Len(tus') = Len(tus) + Chunk
        /\ \A p \in 1..Len(tus) : tus'[p] = tus[p]
        /\ \A p \in 1..Chunk : tus'[Len(tus) + p] =
             Tu(IF p = 1 THEN "key" ELSE IF p = 2 THEN "golden" ELSE "show", i)
    BY <1>0, <1>6, GopAppended
  <2>2. Chunk \in Nat /\ Chunk >= 1 /\ Chunk <= left
    BY <1>0, <1>6, ChunkBounds DEF EmitGop
  <2>3. /\ phase = "emit" /\ phase' = phase /\ i' = i /\ left' = left - Chunk
        /\ prepped' = prepped
    BY <1>6 DEF EmitGop
  <2>4. i \in 1..Len(segs)
    BY <1>0, <2>3 DEF Stage
  <2>5. EndOf[i] = EndOf[i - 1] + segs[i].frames /\ EndOf[i - 1] \in Nat /\ segs[i].frames \in Nat
    <3>1. i - 1 \in 0..Len(segs)
      BY <1>0, <2>4
    <3> QED
      BY <1>0, <2>4, <3>1, EndsAre, SegmentFields
  <2>6. Len(tus) + left = EndOf[i] /\ left <= segs[i].frames
    BY <2>3 DEF Fits
  <2>7. ASSUME NEW p \in 1..Len(tus')
        PROVE  EndOf[tus'[p].seg - 1] < p /\ p <= EndOf[tus'[p].seg]
    <3>1. CASE p \in 1..Len(tus)
      BY <2>1, <3>1 DEF Fits
    <3>2. CASE p > Len(tus)
      <4>1. p - Len(tus) \in 1..Chunk /\ p = Len(tus) + (p - Len(tus))
        BY <1>0, <2>1, <2>2, <3>2
      <4>2. PICK k : tus'[p] = Tu(k, i)
        BY <2>1, <4>1
      <4>3. tus'[p].seg = i
        BY <4>2 DEF Tu
      <4> DEFINE len  == Len(tus)
                 from == EndOf[i - 1]
                 to   == EndOf[i]
                 size == segs[i].frames
      <4>4. /\ len \in Nat /\ left \in Nat /\ from \in Nat /\ size \in Nat
            /\ to = from + size /\ len + left = to /\ left <= size
            /\ p \in Nat /\ p > len /\ p <= len + Chunk
        BY <1>0, <2>1, <2>2, <2>5, <2>6, <3>2, LenProperties DEF TypeOK
      <4> HIDE DEF len, from, to, size
      <4>5. from < p /\ p <= to
        BY <2>2, <4>4
      <4> QED
        BY <4>3, <4>5 DEF from, to
    <3> QED
      BY <1>0, <2>1, <2>2, <3>1, <3>2
  <2>8. Len(tus') + left' = EndOf[i'] /\ left' <= segs[i'].frames
    BY <1>0, <2>1, <2>2, <2>3, <2>5, <2>6, SMTT(30)
  <2> QED
    BY <1>0, <2>3, <2>7, <2>8 DEF Fits
<1>7. CASE NextSegment
  <2>1. /\ phase = "emit" /\ phase' = phase /\ left = 0 /\ i + 1 \in 1..Len(segs)
        /\ i' = i + 1 /\ left' = prepped[i + 1].frames /\ Rest
        /\ Len(prepped) = Len(segs) /\ i \in 1..Len(segs)
    BY <1>0, <1>7 DEF NextSegment, Stage
  <2>2. /\ EndOf[i + 1] = EndOf[i] + segs[i + 1].frames /\ segs[i + 1].frames \in Nat
        /\ EndOf[i] \in Nat
    <3>1. i \in 0..Len(segs) /\ (i + 1) - 1 = i
      BY <1>0, <2>1
    <3>2. EndOf[i + 1] = EndOf[(i + 1) - 1] + segs[i + 1].frames
      BY <1>0, <2>1, EndsAre
    <3> QED
      BY <1>0, <2>1, <3>1, <3>2, EndsAre, SegmentFields
  <2>3. Len(tus) + left = EndOf[i] /\ prepped[i + 1].frames = segs[i + 1].frames
    BY <2>1 DEF Fits
  <2>4. Len(tus') + left' = EndOf[i'] /\ left' <= segs[i'].frames
    BY <1>0, <2>1, <2>2, <2>3
  <2> QED
    BY <1>0, <2>1, <2>4 DEF Fits
<1>8. CASE Finish
  <2>1. phase = "emit" /\ phase' = "done" /\ left = 0 /\ i = Len(segs) /\ Rest
    BY <1>8 DEF Finish
  <2>2. Len(tus') = EndOf[Len(segs)]
    BY <1>0, <2>1 DEF Fits
  <2> QED
    BY <1>0, <2>1, <2>2 DEF Fits
<1>9. CASE UNCHANGED vars
  <2>1. UNCHANGED <<phase, left, i>> /\ Rest
    BY <1>9 DEF vars
  <2> QED
    BY <1>0, <2>1 DEF Fits
<1> QED
  BY <1>1, <1>2, <1>3, <1>4, <1>5, <1>6, <1>7, <1>8, <1>9
  DEF PNext, Assembling, Step, PlayNext, SeekTo, Play, all, vars

LEMMA FitsAlways == PSpec => []Fits
BY InitFits, FitsStep, Inductive, PTL DEF PSpec

LEMMA FramesThere == IInv /\ Fits => OneTuPerFrame
<1> SUFFICES ASSUME IInv, Fits, phase = "done"
             PROVE  Len(tus) = Total /\ Len(tus) <= MaxTotal /\ tus[1].kind = "key"
  BY DEF OneTuPerFrame
<1>1. TypeOK /\ Grammar
  BY DEF IInv
<1>2. Total >= 2 /\ Total <= MaxTotal /\ Len(tus) = EndOf[Len(segs)]
  BY DEF Fits
<1>3. Total = EndOf[Len(segs)]
  BY <1>1, <1>2, TotalIsPlain
<1>4. Len(tus) \in Nat /\ 1 \in 1..Len(tus)
  BY <1>1, <1>2, <1>3, LenProperties DEF TypeOK
<1>5. tus[1] \in TuType
  BY <1>1, <1>4, ElementOfSeq DEF TypeOK
<1>6. tus[1].kind = "key"
  BY <1>1, <1>4, <1>5 DEF Grammar, TuType
<1> QED
  BY <1>2, <1>3, <1>6

(* Saturating addition, the early break of a short segment and the chunk   *)
(* cut at the end neither lose a requested frame nor add one, and a        *)
(* finished stream opens with a keyframe (assemble.rs:226-310).            *)
THEOREM EveryFrameIsThere == PSpec => []OneTuPerFrame
BY FramesThere, FitsAlways, Inductive, PTL

-------------------------------------------------------------------------------
(* The refinement, step by step.                                           *)

LEMMA InitShows == PInit => Slideshow!Init
BY AssembleAssumption DEF PInit, Init, Slideshow!Init, Empty

(* The sync sample a player lands on is at most gop frames back.           *)
LEMMA LandIsNear ==
  ASSUME IInv, NEW w \in 1..Len(tus)
  PROVE  w - Land(w) <= gop
<1>1. Len(tus) \in Nat /\ gop \in Nat
  BY InputTypes, LenProperties DEF IInv, TypeOK
<1>2. PICK k \in 1..Len(tus) : tus[k].kind = "key" /\ k <= w /\ w - k <= gop
  BY DEF IInv, Reach
<1>3. KeyPositions \in SUBSET Nat /\ k \in KeyPositions
  <2>1. DOMAIN keySamples = 1..Len(keySamples)
    BY LenProperties DEF IInv, TypeOK
  <2>2. k \in KeyPositions
    BY <1>2, <2>1 DEF IInv, Samples, KeyPositions
  <2>3. \A m \in KeyPositions : m \in 1..Len(tus)
    BY <2>1 DEF IInv, Samples, KeyPositions
  <2> QED
    BY <1>1, <2>2, <2>3
<1> DEFINE K == {m \in KeyPositions : m <= w}
<1>4. PICK g \in K : \A m \in K : m <= g
  <2>1. k \in K
    BY <1>2, <1>3
  <2>2. K \in SUBSET Nat /\ \A m \in K : m <= w
    BY <1>3
  <2> HIDE DEF K
  <2>3. w \in Nat
    BY <1>1
  <2> QED
    BY <2>1, <2>2, <2>3, GreatestExists
<1>5. Land(w) \in KeyPositions /\ \A m \in KeyPositions : m <= w => m <= Land(w)
  BY <1>4 DEF Land
<1>6. k <= Land(w)
  BY <1>2, <1>3, <1>5
<1> HIDE DEF K
<1>7. Land(w) \in Nat
  BY <1>3, <1>5
<1>8. k \in Nat /\ w \in Nat
  BY <1>1
<1> QED
  BY <1>1, <1>2, <1>6, <1>7, <1>8

LEMMA StepShows ==
  ASSUME IInv, Fits, [PNext]_all, IInv'
  PROVE  [Slideshow!Next]_(Slideshow!vars)
<1>0. /\ TypeOK /\ Len(segs) \in Nat /\ Len(tus) \in Nat /\ UNCHANGED <<segs, gop>>
  BY InputTypes, LenProperties, RequestKept DEF IInv, TypeOK
<1>1. CASE Assembling \/ UNCHANGED all
  <2>1. UNCHANGED <<pos, display>>
    BY <1>1 DEF Assembling, player, all
  <2> QED
    BY <1>0, <2>1 DEF Slideshow!vars
<1>2. ASSUME NEW w \in 1..Len(tus), NEW d, Play(w, d)
      PROVE  Slideshow!Display(w) /\ Slideshow!Length = Len(tus)
  <2>1. phase = "done" /\ pos' = w /\ tus' = tus
    BY <1>2 DEF Play, vars
  <2>2. RightPicture'
    BY DEF IInv, Screen, RightPicture
  <2>3. display'.seg = tus[w].seg
    BY <1>0, <2>1, <2>2 DEF RightPicture
  <2>4. tus[w].seg \in 1..Len(segs)
    <3>1. Len(prepped) = Len(segs) /\ tus[w].seg \in 1..Len(prepped)
      BY <2>1 DEF IInv, Stage, Grammar
    <3> QED
      BY <3>1
  <2>5. Slideshow!ImageAt(w) = tus[w].seg
    <3>1. EndOf[tus[w].seg - 1] < w /\ w <= EndOf[tus[w].seg]
      BY DEF Fits
    <3> QED
      BY <1>0, <2>4, <3>1, ImageIs
  <2>6. Slideshow!Length = Len(tus)
    BY <2>1 DEF Slideshow!Length, EndOf, Fits
  <2> QED
    BY <1>0, <2>1, <2>3, <2>5, <2>6 DEF Slideshow!Display
<1>3. CASE PlayNext
  <2>1. pos + 1 \in 1..Len(tus) /\ Play(pos + 1, dpb) /\ pos < Len(tus)
    BY <1>0, <1>3 DEF PlayNext, TypeOK
  <2>2. Slideshow!Display(pos + 1) /\ pos < Slideshow!Length
    BY <1>2, <2>1
  <2> QED
    BY <2>2 DEF Slideshow!Next, Slideshow!Advance
<1>4. ASSUME NEW w \in 1..Len(tus), SeekTo(w) PROVE Slideshow!Seek
  <2>1. Land(w) \in 1..Len(tus) /\ Land(w) <= w /\ w - Land(w) <= gop
    BY LandIsSample, LandIsNear
  <2>2. Play(Land(w), Cold)
    BY <1>4 DEF SeekTo
  <2>3. Slideshow!Display(Land(w)) /\ Slideshow!Length = Len(tus)
    BY <1>2, <2>1, <2>2
  <2>4. w \in 1..Slideshow!Length /\ Land(w) \in 1..w
    BY <1>0, <2>1, <2>3
  <2> QED
    BY <2>1, <2>3, <2>4 DEF Slideshow!Seek
<1> QED
  BY <1>1, <1>3, <1>4 DEF PNext, Slideshow!Next

(* Watching or seeking, whoever plays the assembled stream sees the        *)
(* request: PSpec implements the slide show.                               *)
THEOREM PlaysTheRequest == PSpec => ShowsPlaylist
<1>1. IInv /\ Fits /\ [PNext]_all /\ IInv' => [Slideshow!Next]_(Slideshow!vars)
  BY StepShows
<1> QED
  BY <1>1, InitShows, FitsAlways, Inductive, PTL DEF PSpec, ShowsPlaylist, Slideshow!Spec

-------------------------------------------------------------------------------
(***************************************************************************)
(* The finished stream: the headers in it, and what the inspector makes of *)
(* it.  analyze and checks are a fold over units and OBUs; ReportAt says   *)
(* what it has come to after p units.                                      *)
(***************************************************************************)
(* What the stream was made from: headers that agree with the canonical    *)
(* one, and pairs that were accepted.                                      *)
AcceptedAt(n) ==
  /\ GoodKey(segs[n].key) /\ GoodGolden(segs[n].golden)
  /\ prepped[n].hdrs = Emitted(segs[n].hdrs)
  /\ prepped[n].goldenHdrs = Emitted(segs[n].goldenHdrs)
  /\ prepped[n].keyFlags = Flags(KeyUnder(segs[n]))
  /\ prepped[n].goldenFlags = Flags(GoldenUnder(segs[n]))
  /\ prepped[n].refresh = Refresh(segs[n].golden)

Accepted ==
  /\ phase \in {"prepare", "emit", "done"} =>
       GoodHeaders /\ sh = Effective(segs[1].hdrs[1])
  /\ \A n \in 1..Len(prepped) : AcceptedAt(n)

LEMMA AcceptedKept ==
  ASSUME segs' = segs, decoderModel' = decoderModel, sh' = sh,
         NEW n, AcceptedAt(n), prepped'[n] = prepped[n]
  PROVE  AcceptedAt(n)'
<1>1. \A hs : Emitted(hs)' = Emitted(hs)
  BY Zenon DEF Emitted, Rewrites, Declared
<1>2. \A h : Flags(h)' = Flags(h)
  BY Zenon DEF Flags, Splices
<1>3. /\ Emitted(segs[n].hdrs)' = Emitted(segs[n].hdrs)
      /\ Emitted(segs[n].goldenHdrs)' = Emitted(segs[n].goldenHdrs)
      /\ Flags(KeyUnder(segs[n]))' = Flags(KeyUnder(segs[n]))
      /\ Flags(GoldenUnder(segs[n]))' = Flags(GoldenUnder(segs[n]))
  BY Zenon DEF Emitted, Rewrites, Declared, Flags, Splices, KeyUnder, GoldenUnder
<1> QED
  BY <1>3 DEF AcceptedAt

LEMMA AcceptedStep == IInv /\ Accepted /\ [PNext]_all => Accepted'
<1> SUFFICES ASSUME IInv, Accepted, [PNext]_all PROVE Accepted'
  OBVIOUS
<1>0. TypeOK /\ Stage
  BY DEF IInv
<1>1. CASE CheckParams /\ UNCHANGED player
  <2>1. phase' \in {"headers", "error"} /\ prepped' = <<>>
    BY <1>0, <1>1 DEF CheckParams, Stage
  <2> QED
    BY <2>1 DEF Accepted
<1>2. CASE CheckHeaders /\ UNCHANGED player
  <2>1. prepped' = <<>> /\ segs' = segs /\ decoderModel' = decoderModel
    BY <1>0, <1>2 DEF CheckHeaders, Stage, input
  <2>2. CASE GoodHeaders
    <3>1. sh' = Effective(segs[1].hdrs[1])
      BY <1>2, <2>2 DEF CheckHeaders
    <3>2. GoodHeaders' /\ sh' = Effective(segs[1].hdrs[1])'
      BY <2>1, <2>2, <3>1 DEF GoodHeaders, RewriteFails, Effective, Rewrites, Declared
    <3> QED
      BY <2>1, <3>2 DEF Accepted
  <2>3. CASE ~ GoodHeaders
    <3>1. phase' = "error"
      BY <1>2, <2>3 DEF CheckHeaders
    <3> QED
      BY <2>1, <3>1 DEF Accepted
  <2> QED
    BY <2>2, <2>3
<1>3. CASE PrepareSegment /\ UNCHANGED player
  <2>1. /\ phase = "prepare" /\ segs' = segs /\ decoderModel' = decoderModel /\ sh' = sh
        /\ Len(prepped) = i - 1 /\ prepped \in Seq(PreparedType)
    BY <1>0, <1>3 DEF PrepareSegment, input, Stage, TypeOK
  <2>2. GoodHeaders /\ sh = Effective(segs[1].hdrs[1])
    BY <2>1 DEF Accepted
  <2>3. GoodHeaders' /\ sh' = Effective(segs[1].hdrs[1])'
    BY <2>1, <2>2 DEF GoodHeaders, RewriteFails, Effective, Rewrites, Declared
  <2>4. CASE prepped' = prepped
    <3>1. \A n \in 1..Len(prepped) : AcceptedAt(n)'
      BY <2>1, <2>4, AcceptedKept DEF Accepted
    <3> QED
      BY <2>3, <2>4, <3>1 DEF Accepted
  <2>5. ASSUME NEW c, prepped' = Append(prepped, Prepared(i, c)),
               GoodKey(segs[i].key), GoodGolden(segs[i].golden)
        PROVE  Accepted'
    <3>1. i \in Nat /\ Len(prepped') = i
      BY <1>0, <2>1, <2>5 DEF TypeOK
    <3>2. /\ prepped'[i] = Prepared(i, c)
          /\ \A n \in 1..(i - 1) : prepped'[n] = prepped[n]
      BY <2>1, <2>5, <3>1
    <3>4. \A n \in 1..Len(prepped') : AcceptedAt(n)'
      <4> TAKE n \in 1..Len(prepped')
      <4>1. CASE n = i
        <5>1. prepped'[n] = Prepared(n, c)
          BY <3>2, <4>1
        <5>2. /\ Prepared(n, c).hdrs = Emitted(segs[n].hdrs)
              /\ Prepared(n, c).goldenHdrs = Emitted(segs[n].goldenHdrs)
              /\ Prepared(n, c).keyFlags = Flags(KeyUnder(segs[n]))
              /\ Prepared(n, c).goldenFlags = Flags(GoldenUnder(segs[n]))
              /\ Prepared(n, c).refresh = Refresh(segs[n].golden)
          BY DEF Prepared
        <5>3. /\ Emitted(segs[n].hdrs)' = Emitted(segs[n].hdrs)
              /\ Emitted(segs[n].goldenHdrs)' = Emitted(segs[n].goldenHdrs)
              /\ Flags(KeyUnder(segs[n]))' = Flags(KeyUnder(segs[n]))
              /\ Flags(GoldenUnder(segs[n]))' = Flags(GoldenUnder(segs[n]))
          BY <2>1, Zenon
          DEF Emitted, Rewrites, Declared, Flags, Splices, KeyUnder, GoldenUnder
        <5>4. GoodKey(segs[n].key) /\ GoodGolden(segs[n].golden)
          BY <2>5, <4>1
        <5> QED
          BY <2>1, <5>1, <5>2, <5>3, <5>4 DEF AcceptedAt
      <4>2. CASE n # i
        <5>1. n \in 1..Len(prepped) /\ prepped'[n] = prepped[n]
          BY <2>1, <3>1, <3>2, <4>2
        <5> QED
          BY <2>1, <5>1, AcceptedKept DEF Accepted
      <4> QED
        BY <4>1, <4>2
    <3> QED
      BY <2>1, <2>3, <3>4 DEF Accepted
  <2>6. \/ prepped' = prepped
        \/ /\ GoodKey(segs[i].key) /\ GoodGolden(segs[i].golden)
           /\ \E c : prepped' = Append(prepped, Prepared(i, c))
    BY <1>3, Zenon DEF PrepareSegment
  <2> QED
    BY <2>4, <2>5, <2>6
<1>4. ASSUME UNCHANGED <<input, sh, prepped>>,
             phase' \in {"prepare", "emit", "done"} => phase \in {"prepare", "emit", "done"}
      PROVE  Accepted'
  <2>1. segs' = segs /\ decoderModel' = decoderModel /\ sh' = sh /\ prepped' = prepped
    BY <1>4 DEF input
  <2>2. GoodHeaders => GoodHeaders'
    BY <2>1 DEF GoodHeaders, RewriteFails
  <2>3. Effective(segs[1].hdrs[1])' = Effective(segs[1].hdrs[1])
    BY <2>1 DEF Effective, Rewrites, Declared
  <2>4. \A n \in 1..Len(prepped) : AcceptedAt(n)'
    BY <2>1, AcceptedKept DEF Accepted
  <2> QED
    BY <1>4, <2>1, <2>2, <2>3, <2>4 DEF Accepted
<1>5. CASE BeginEmission
  BY <1>4, <1>5 DEF BeginEmission
<1>6. CASE EmitTail
  BY <1>4, <1>6 DEF EmitTail
<1>7. CASE EmitGop
  BY <1>4, <1>7 DEF EmitGop
<1>8. CASE NextSegment
  BY <1>4, <1>8 DEF NextSegment
<1>9. CASE Finish
  BY <1>4, <1>9 DEF Finish
<1>10. CASE UNCHANGED vars
  BY <1>4, <1>10 DEF vars, input
<1> QED
  BY <1>1, <1>2, <1>3, <1>5, <1>6, <1>7, <1>8, <1>9, <1>10
  DEF PNext, Assembling, Step, PlayNext, SeekTo, Play, all, vars

LEMMA AcceptedAlways == PSpec => []Accepted
<1>1. PInit => Accepted
  BY DEF PInit, Init, Accepted
<1> QED
  BY <1>1, AcceptedStep, Inductive, PTL DEF PSpec

(* Past the checks, with all segments prepared. *)
Settled == IInv /\ Accepted /\ phase \in {"emit", "done"}

LEMMA HeaderIs ==
  ASSUME Settled
  PROVE  /\ segs[1].hdrs[1] \in Headers /\ sh.id = segs[1].hdrs[1] /\ sh # NoHeader
         /\ sh = Effective(segs[1].hdrs[1])
         /\ \A n \in 1..Len(segs) : segs[n].hdrs \in Seq(Headers) /\ segs[n].hdrs # <<>>
<1>1. TypeOK /\ Stage /\ GoodHeaders /\ sh = Effective(segs[1].hdrs[1])
  BY DEF Settled, IInv, Accepted
<1>2. segs \in Seq(SegmentType) /\ segs # <<>>
  BY <1>1, InputTypes DEF Stage, Settled
<1>3. Len(segs) \in Nat /\ 1 \in 1..Len(segs)
  BY <1>2, LenProperties, EmptySeq
<1>4. \A n \in 1..Len(segs) : segs[n].hdrs \in Seq(Headers) /\ segs[n].hdrs # <<>>
  BY <1>1, <1>3, SegmentFields DEF GoodHeaders
<1>5. segs[1].hdrs[1] \in Headers
  <2> DEFINE hs == segs[1].hdrs
  <2>1. hs \in Seq(Headers) /\ hs # <<>>
    BY <1>3, <1>4
  <2> HIDE DEF hs
  <2>2. 1 \in 1..Len(hs)
    BY <2>1, LenProperties, EmptySeq
  <2>3. hs[1] \in Headers
    BY <2>1, <2>2, ElementOfSeq
  <2> QED
    BY <2>3 DEF hs
<1>6. sh.id = segs[1].hdrs[1]
  BY <1>1, <1>5, EffectiveType DEF TypeOK
<1>7. NoHeader.id = "none" /\ "none" \notin Headers
  BY AssembleAssumption DEF NoHeader
<1> QED
  BY <1>1, <1>4, <1>5, <1>6, <1>7

(* The headers of segment n, as they came and as they are emitted. *)
LEMMA SegmentHeaders ==
  ASSUME Settled, NEW n \in 1..Len(prepped)
  PROVE  /\ n \in 1..Len(segs)
         /\ segs[n].hdrs \in Seq(Headers) /\ Len(segs[n].hdrs) \in Nat \ {0}
         /\ segs[n].lead \in 1..Len(segs[n].hdrs)
         /\ segs[n].goldenHdrs \in Seq(Headers) /\ Len(segs[n].goldenHdrs) \in Nat
         /\ segs[n].goldenLead \in 0..Len(segs[n].goldenHdrs)
         /\ \A k \in 1..Len(segs[n].goldenHdrs) :
               segs[n].goldenHdrs[k] = segs[n].hdrs[Len(segs[n].hdrs)]
         /\ prepped[n].hdrs = Emitted(segs[n].hdrs)
         /\ prepped[n].goldenHdrs = Emitted(segs[n].goldenHdrs)
<1>1. TypeOK /\ n \in 1..Len(segs)
  BY DEF Settled, IInv, Stage
<1> DEFINE hs == segs[n].hdrs
           gs == segs[n].goldenHdrs
<1>2. hs \in Seq(Headers) /\ hs # <<>> /\ gs \in Seq(Headers) /\ FromSplit(segs[n])
      /\ segs[n].lead \in Nat /\ segs[n].goldenLead \in Nat
  BY <1>1, HeaderIs, SegmentFields
<1>3. Len(hs) \in Nat \ {0} /\ Len(gs) \in Nat /\ DOMAIN gs = 1..Len(gs)
  <2> HIDE DEF hs, gs
  <2> QED
    BY <1>2, LenProperties, EmptySeq
<1>4. /\ segs[n].lead \in 1..Len(hs) /\ segs[n].goldenLead \in 0..Len(gs)
      /\ \A k \in 1..Len(gs) : gs[k] = hs[Len(hs)]
  BY <1>2, <1>3 DEF FromSplit
<1>5. prepped[n].hdrs = Emitted(hs) /\ prepped[n].goldenHdrs = Emitted(gs)
  BY DEF Settled, Accepted, AcceptedAt
<1> QED
  BY <1>1, <1>2, <1>3, <1>4, <1>5

(* What an emitted header says of the model and what a frame coded under   *)
(* header c then carries.                                                  *)
LEMMA FlagsMeetHeader ==
  ASSUME NEW h \in Headers, sh = Effective(h), sh.id = h, decoderModel \in BOOLEAN,
         NEW c \in Headers, NEW x, x = IF Rewrites(sh.id) THEN sh ELSE Declared(c)
  PROVE  (Flags(c) = (IF x.model THEN 1 ELSE 0))
           <=> (Rewrites(sh.id) => Attr[c].model = Attr[sh.id].model)
<1>1. Attr[h].model \in BOOLEAN /\ Attr[c].model \in BOOLEAN /\ Attr[h].timing \in BOOLEAN
  BY AssembleAssumption
<1>2. Flags(c) = (IF Attr[c].model THEN 1 ELSE 0)
                   + (IF decoderModel /\ ~ Attr[h].model THEN 1 ELSE 0)
  BY DEF Flags, Splices
<1>3. CASE Rewrites(h)
  <2>1. x.model = (decoderModel \/ Attr[h].model)
    BY <1>3 DEF Effective
  <2> QED
    BY <1>1, <1>2, <1>3, <2>1
<1>4. CASE ~ Rewrites(h)
  <2>1. x.model = Attr[c].model /\ ~ decoderModel
    BY <1>4 DEF Declared, Rewrites
  <2> QED
    BY <1>1, <1>2, <1>4, <2>1
<1> QED
  BY <1>3, <1>4

(* The header in force for a frame is the one it was coded under, or the   *)
(* canonical one where headers are rewritten.                              *)
LEMMA InForceIs ==
  ASSUME Settled, NEW p \in 1..Len(tus), tus[p].kind # "show"
  PROVE  /\ InForce(p) = IF Rewrites(sh.id) THEN sh ELSE Declared(UnderOf(p))
         /\ FlagsOf(p) = Flags(UnderOf(p)) /\ UnderOf(p) \in Headers
<1>1. TypeOK /\ Grammar /\ tus \in Seq(TuType) /\ Len(tus) \in Nat
  BY LenProperties DEF Settled, IInv, TypeOK
<1> DEFINE n  == tus[p].seg
           hs == segs[n].hdrs
           gs == segs[n].goldenHdrs
<1>2. n \in 1..Len(prepped) /\ tus[p].kind \in {"key", "golden"}
  <2>1. tus[p] \in TuType
    BY <1>1, ElementOfSeq
  <2> QED
    BY <1>1, <2>1 DEF Grammar, TuType
<1>3. /\ hs \in Seq(Headers) /\ Len(hs) \in Nat \ {0} /\ segs[n].lead \in 1..Len(hs)
      /\ gs \in Seq(Headers) /\ Len(gs) \in Nat /\ segs[n].goldenLead \in 0..Len(gs)
      /\ prepped[n].hdrs = Emitted(hs) /\ prepped[n].goldenHdrs = Emitted(gs)
  BY <1>2, SegmentHeaders
<1>4. /\ Len(Emitted(hs)) = Len(hs)
      /\ \A k \in 1..Len(hs) :
           Emitted(hs)[k] = IF Rewrites(sh.id) THEN sh ELSE Declared(hs[k])
      /\ \A k \in 1..Len(gs) :
           Emitted(gs)[k] = IF Rewrites(sh.id) THEN sh ELSE Declared(gs[k])
  BY <1>1, <1>3, EmittedHeaders
<1>5. /\ \A k \in 1..Len(hs) : hs[k] \in Headers
      /\ \A k \in 1..Len(gs) : gs[k] \in Headers
  <2> HIDE DEF hs, gs
  <2> QED
    BY <1>3, ElementOfSeq
<1>6. AcceptedAt(n)
  BY <1>2 DEF Settled, Accepted
<1>7. CASE tus[p].kind = "key"
  <2>1. LeadOf(p) = segs[n].lead /\ Carried(p) = Emitted(hs) /\ UnderOf(p) = hs[segs[n].lead]
    BY <1>3, <1>7 DEF LeadOf, Carried, UnderOf, KeyUnder
  <2>2. FlagsOf(p) = Flags(UnderOf(p))
    BY <1>6, <1>7 DEF FlagsOf, UnderOf, AcceptedAt
  <2>3. InForce(p) = Emitted(hs)[segs[n].lead]
    BY <1>3, <2>1 DEF InForce
  <2> QED
    BY <1>3, <1>4, <1>5, <2>1, <2>2, <2>3
<1>8. CASE tus[p].kind = "golden" /\ segs[n].goldenLead # 0
  <2>1. /\ LeadOf(p) = segs[n].goldenLead /\ Carried(p) = Emitted(gs)
        /\ UnderOf(p) = gs[segs[n].goldenLead]
    BY <1>3, <1>8 DEF LeadOf, Carried, UnderOf, GoldenUnder
  <2>2. FlagsOf(p) = Flags(UnderOf(p))
    BY <1>6, <1>8 DEF FlagsOf, UnderOf, AcceptedAt
  <2>3. InForce(p) = Emitted(gs)[segs[n].goldenLead]
    BY <1>3, <1>8, <2>1 DEF InForce
  <2>4. segs[n].goldenLead \in 1..Len(gs)
    BY <1>3, <1>8
  <2> QED
    BY <1>4, <1>5, <2>1, <2>2, <2>3, <2>4
<1>9. CASE tus[p].kind = "golden" /\ segs[n].goldenLead = 0
  <2>1. LeadOf(p) = 0 /\ UnderOf(p) = hs[Len(hs)]
    BY <1>9 DEF LeadOf, UnderOf, GoldenUnder
  <2>2. FlagsOf(p) = Flags(UnderOf(p))
    BY <1>6, <1>9 DEF FlagsOf, UnderOf, AcceptedAt
  <2>3. p > 1 /\ tus[p - 1].kind = "key" /\ tus[p - 1].seg = n
    BY <1>1, <1>9 DEF Grammar
  <2>4. p - 1 \in 1..p - 1 /\ Carried(p - 1) = Emitted(hs)
    BY <1>3, <2>3 DEF Carried
  <2>5. Emitted(hs) \in Seq(HeaderType) /\ Emitted(hs) # <<>>
    BY <1>1, <1>3, <1>4, EmittedHeaders, EmptySeq
  <2>6. HeaderBefore(p) = p - 1
    <3> DEFINE A(q) == Carried(q) # <<>> /\ \A r \in q+1..p-1 : Carried(r) = <<>>
    <3>1. A(p - 1)
      BY <2>4, <2>5
    <3>2. \A q \in 1..p-1 : A(q) => q = p - 1
      BY <2>4, <2>5
    <3> QED
      BY <2>4, <3>1, <3>2 DEF HeaderBefore
  <2>7. InForce(p) = Emitted(hs)[Len(hs)]
    BY <1>4, <2>1, <2>4, <2>6 DEF InForce
  <2>8. Len(hs) \in 1..Len(hs)
    BY <1>3
  <2> QED
    BY <1>4, <1>5, <2>1, <2>2, <2>7, <2>8
<1> QED
  BY <1>2, <1>7, <1>8, <1>9

(* A player never meets a frame header that codes the removal flag twice,  *)
(* or lacks it where the header in force promises it, except exactly for   *)
(* frames whose own header and the canonical one differ on the model       *)
(* (assemble.rs:281-311).                                                  *)
THEOREM FlagsAreRight == PSpec => []FlagMatchesHeader
<1>1. IInv /\ Accepted => FlagMatchesHeader
  <2> SUFFICES ASSUME IInv, Accepted, NEW p \in DOMAIN tus, tus[p].kind # "show"
               PROVE  (FlagsOf(p) = (IF InForce(p).model THEN 1 ELSE 0)) =
                      (Rewrites(sh.id) => Attr[UnderOf(p)].model = Attr[sh.id].model)
    BY DEF FlagMatchesHeader
  <2>1. p \in 1..Len(tus) /\ decoderModel \in BOOLEAN
    BY LenProperties DEF IInv, TypeOK
  <2>2. Settled
    <3>1. tus # <<>>
      BY <2>1, EmptySeq
    <3> QED
      BY <3>1 DEF Settled, IInv, Stage
  <2> DEFINE c == UnderOf(p)
             h == sh.id
             x == InForce(p)
  <2>3. x = (IF Rewrites(sh.id) THEN sh ELSE Declared(c)) /\ FlagsOf(p) = Flags(c) /\ c \in Headers
    BY <2>1, <2>2, InForceIs
  <2>4. h \in Headers /\ sh = Effective(h)
    BY <2>2, HeaderIs
  <2> HIDE DEF c, x
  <2>5. (Flags(c) = (IF x.model THEN 1 ELSE 0))
          <=> (Rewrites(sh.id) => Attr[c].model = Attr[sh.id].model)
    BY <2>1, <2>3, <2>4, FlagsMeetHeader
  <2>6. (FlagsOf(p) = (IF x.model THEN 1 ELSE 0))
          <=> (Rewrites(sh.id) => Attr[c].model = Attr[sh.id].model)
    BY <2>3, <2>5
  <2> QED
    BY <2>6, Zenon DEF c, x
<1> QED
  BY <1>1, AcceptedAlways, Inductive, PTL

-------------------------------------------------------------------------------
(* analyze, as folds.                                                      *)
WalkObu(r, o) == Inspector!WalkObu(r, o)
WalkUnit(r, unit) == Inspector!AnalyzeUnit(r, unit)
NoKind == [is |-> "none"]

ObuWalk  == INSTANCE NatRecursion WITH base <- 0, Step <- WalkObu
UnitWalk == INSTANCE NatRecursion WITH base <- 0, Step <- WalkUnit

LEMMA ReportFold == Report = UnitWalk!FoldLeft(WalkUnit, Inspector!Blank, Written)
BY Zenon DEF Report, Inspector!Analyze, WalkUnit, Inspector!FoldLeft,
   Inspector!MapThenFoldSet, Inspector!Max,
   UnitWalk!FoldLeft, UnitWalk!MapThenFoldSet, UnitWalk!Max

LEMMA UnitFold ==
  ASSUME NEW r, NEW unit, ~ r.failed,
         NEW w, w = ObuWalk!FoldLeft(WalkObu, [r EXCEPT !.kinds = Append(@, NoKind)], unit),
         w.kinds[Len(w.kinds)] # NoKind
  PROVE  WalkUnit(r, unit) = w
<1> DEFINE b == [r EXCEPT !.kinds = Append(@, Inspector!NoKind)]
           v == Inspector!FoldLeft(Inspector!WalkObu, b, unit)
<1>1. WalkUnit(r, unit) = IF v.kinds[Len(v.kinds)] = Inspector!NoKind THEN Inspector!Fail(v) ELSE v
  BY Zenon DEF WalkUnit, Inspector!AnalyzeUnit
<1>2. Inspector!NoKind = NoKind
  BY DEF NoKind, Inspector!NoKind
<1>3. v = ObuWalk!FoldLeft(WalkObu, b, unit)
  BY Zenon DEF WalkObu, Inspector!FoldLeft, Inspector!MapThenFoldSet, Inspector!Max,
     ObuWalk!FoldLeft, ObuWalk!MapThenFoldSet, ObuWalk!Max
<1> HIDE DEF v
<1> QED
  BY <1>1, <1>2, <1>3

(* One OBU of each kind the assembler writes.                              *)
LEMMA HeaderWalked ==
  ASSUME NEW r, ~ r.failed, NEW h, r.sh \in {NoHeader, h}
  PROVE  WalkObu(r, HeaderObu(h)) = [r EXCEPT !.sh = h]
<1> DEFINE o == HeaderObu(h)
<1>1. o.ok /\ o.kind = "header" /\ o.hdr = h
  BY DEF HeaderObu, CodedObu
<1> HIDE DEF o
<1>2. WalkObu(r, o) = [r EXCEPT !.sh = o.hdr]
  BY <1>1 DEF WalkObu, Inspector!WalkObu
<1> QED
  BY <1>1, <1>2 DEF o

LEMMA ShowWalked ==
  ASSUME NEW r, ~ r.failed, r.haveDpb, r.sh # NoHeader, NEW s
  PROVE  WalkObu(r, ShowObu(s))
           = [r EXCEPT !.kinds[Len(r.kinds)] = [is |-> "show", wasKey |-> r.isKey[s]]]
<1> DEFINE o == ShowObu(s)
<1>1. o.ok /\ o.kind = "show" /\ o.slot = s
  BY DEF ShowObu, CodedObu
<1> HIDE DEF o
<1>2. WalkObu(r, o) = [r EXCEPT !.kinds[Len(r.kinds)] = Inspector!ShowKind(r, o)]
  BY <1>1 DEF WalkObu, Inspector!WalkObu
<1> QED
  BY <1>1, <1>2 DEF o, Inspector!ShowKind

LEMMA KeyWalked ==
  ASSUME NEW r, ~ r.failed, r.sh # NoHeader, NEW f, GoodKey(f)
  PROVE  WalkObu(r, CodedObu(f))
           = [r EXCEPT !.haveDpb = TRUE, !.isKey = [s \in Slots |-> TRUE],
                !.kinds[Len(r.kinds)] =
                   [is |-> "coded", ft |-> "KEY", shown |-> TRUE, showable |-> FALSE],
                !.keyTus = r.keyTus \cup {Len(r.kinds)}]
<1> DEFINE o == CodedObu(f)
<1>1. o.ok /\ o.kind = "coded" /\ o.ft = "KEY" /\ o.shown = TRUE
  BY DEF CodedObu, GoodKey
<1> HIDE DEF o
<1>2. Inspector!CodedKind(o)
        = [is |-> "coded", ft |-> "KEY", shown |-> TRUE, showable |-> FALSE]
  BY <1>1 DEF Inspector!CodedKind, Inspector!Showable
<1>3. Inspector!Tracked(r, o) = [s \in Slots |-> TRUE]
  BY <1>1 DEF Inspector!Tracked, Inspector!Refresh
<1>4. WalkObu(r, o)
        = [r EXCEPT !.haveDpb = TRUE, !.isKey = Inspector!Tracked(r, o),
             !.kinds[Len(r.kinds)] = Inspector!CodedKind(o),
             !.keyTus = r.keyTus \cup {Len(r.kinds)}, !.goldenTus = r.goldenTus]
  BY <1>1 DEF WalkObu, Inspector!WalkObu
<1> QED
  BY <1>2, <1>3, <1>4 DEF o

LEMMA GoldenWalked ==
  ASSUME NEW r, ~ r.failed, r.sh # NoHeader, NEW f, GoodGolden(f)
  PROVE  WalkObu(r, CodedObu(f))
           = [r EXCEPT !.haveDpb = TRUE,
                !.isKey = [s \in Slots |-> IF s \in Refresh(f) THEN FALSE ELSE r.isKey[s]],
                !.kinds[Len(r.kinds)] =
                   [is |-> "coded", ft |-> f.ft, shown |-> TRUE, showable |-> TRUE],
                !.goldenTus = r.goldenTus \cup {Len(r.kinds)}]
<1> DEFINE o == CodedObu(f)
<1>1. /\ o.ok /\ o.kind = "coded" /\ o.ft = f.ft /\ o.shown = TRUE /\ f.ft # "KEY"
      /\ o.refresh = f.refresh
  BY DEF CodedObu, GoodGolden, Showable
<1>0. f.shown = TRUE
  BY DEF GoodGolden
<1> HIDE DEF o
<1>2. Inspector!CodedKind(o)
        = [is |-> "coded", ft |-> f.ft, shown |-> TRUE, showable |-> TRUE]
  BY <1>1 DEF Inspector!CodedKind, Inspector!Showable
<1>3. Inspector!Refresh(o) = Refresh(f)
  BY <1>1 DEF Inspector!Refresh, Refresh
<1>4. Inspector!Tracked(r, o)
        = [s \in Slots |-> IF s \in Refresh(f) THEN FALSE ELSE r.isKey[s]]
  BY <1>1, <1>3 DEF Inspector!Tracked
<1>5. Inspector!Showable(o)
  BY <1>1 DEF Inspector!Showable
<1>6. WalkObu(r, o)
        = [r EXCEPT !.haveDpb = TRUE, !.isKey = Inspector!Tracked(r, o),
             !.kinds[Len(r.kinds)] = Inspector!CodedKind(o),
             !.keyTus = r.keyTus, !.goldenTus = r.goldenTus \cup {Len(r.kinds)}]
  BY <1>1, <1>5 DEF WalkObu, Inspector!WalkObu
<1> QED
  BY <1>2, <1>4, <1>6 DEF o

(* What the walk holds while nothing has failed, its fields one by one.    *)
Walked(h, isKey, have, kinds, keys, goldens) ==
  [sh |-> h, isKey |-> isKey, haveDpb |-> have, kinds |-> kinds,
   keyTus |-> keys, goldenTus |-> goldens, failed |-> FALSE]

KeyKind       == [is |-> "coded", ft |-> "KEY", shown |-> TRUE, showable |-> FALSE]
GoldenKind(f) == [is |-> "coded", ft |-> f.ft, shown |-> TRUE, showable |-> TRUE]
ReshowKind    == [is |-> "show", wasKey |-> FALSE]

KindType == {NoKind, KeyKind, ReshowKind}
              \cup [is : {"coded"}, ft : FrameTypes, shown : {TRUE}, showable : {TRUE}]

AllKey       == [s \in Slots |-> TRUE]
AllKeyBut(R) == [s \in Slots |-> IF s \in R THEN FALSE ELSE TRUE]

(* A unit's kind takes the place of the "none" it was opened with. *)
LEMMA KindSet ==
  ASSUME NEW kinds \in Seq(KindType), NEW k \in KindType
  PROVE  /\ Len(Append(kinds, NoKind)) = Len(kinds) + 1
         /\ [Append(kinds, NoKind) EXCEPT ![Len(kinds) + 1] = k] = Append(kinds, k)
         /\ Len(Append(kinds, k)) = Len(kinds) + 1
         /\ Append(kinds, k)[Len(kinds) + 1] = k
         /\ Append(kinds, k) \in Seq(KindType)
<1>0. NoKind \in KindType
  BY DEF KindType
<1> HIDE DEF KindType, NoKind
<1>1. /\ Len(Append(kinds, NoKind)) = Len(kinds) + 1
      /\ Len(Append(kinds, k)) = Len(kinds) + 1
      /\ Append(kinds, NoKind) \in Seq(KindType) /\ Append(kinds, k) \in Seq(KindType)
  BY <1>0, AppendProperties
<1>2. /\ \A q \in 1..Len(kinds) : Append(kinds, NoKind)[q] = Append(kinds, k)[q]
      /\ Append(kinds, k)[Len(kinds) + 1] = k
  BY <1>0, AppendProperties
<1>3. /\ DOMAIN Append(kinds, NoKind) = 1..Len(kinds) + 1
      /\ DOMAIN Append(kinds, k) = 1..Len(kinds) + 1
      /\ Len(kinds) \in Nat
  BY <1>1, LenProperties
<1> DEFINE a == Append(kinds, NoKind)
           c == Append(kinds, k)
           n == Len(kinds) + 1
           e == [a EXCEPT ![n] = k]
<1>4. /\ e \in Seq(KindType) /\ Len(e) = n
      /\ \A q \in 1..n : e[q] = IF q = n THEN k ELSE a[q]
  <2>1. n \in 1..Len(a) /\ a \in Seq(KindType) /\ Len(a) = n
    BY <1>1, <1>3
  <2> HIDE DEF a, n
  <2> QED
    BY <2>1, ExceptSeq
<1>5. c \in Seq(KindType) /\ Len(c) = n /\ \A q \in 1..n : c[q] = IF q = n THEN k ELSE a[q]
  BY <1>1, <1>2, <1>3
<1>6. e = c
  <2> HIDE DEF a, c, n, e
  <2> QED
    BY <1>4, <1>5, SeqEqual
<1> QED
  BY <1>1, <1>2, <1>6

(* A record with Walked's fields is Walked of them; with that, what an     *)
(* EXCEPT makes of it.                                                     *)
WalkedIn(A, B, C, D, E, F) == [sh : A, isKey : B, haveDpb : C, kinds : D,
                               keyTus : E, goldenTus : F, failed : {FALSE}]

LEMMA WalkedIs ==
  ASSUME NEW A, NEW B, NEW C, NEW D, NEW E, NEW F, NEW x \in WalkedIn(A, B, C, D, E, F)
  PROVE  x = Walked(x.sh, x.isKey, x.haveDpb, x.kinds, x.keyTus, x.goldenTus)
BY DEF Walked, WalkedIn

Updates(r, h, t, b, k, e, g) ==
  /\ \A v : [r EXCEPT !.sh = v] = Walked(v, t, b, k, e, g)
  /\ \A v : [r EXCEPT !.kinds = v] = Walked(h, t, b, v, e, g)
  /\ \A v, u : [r EXCEPT !.haveDpb = TRUE, !.isKey = u, !.kinds = v,
                  !.keyTus = r.keyTus \cup {Len(r.kinds)}]
               = Walked(h, u, TRUE, v, e \cup {Len(k)}, g)
  /\ \A v, u : [r EXCEPT !.haveDpb = TRUE, !.isKey = u, !.kinds = v,
                  !.goldenTus = r.goldenTus \cup {Len(r.kinds)}]
               = Walked(h, u, TRUE, v, e, g \cup {Len(k)})

LEMMA WalkedExcept ==
  ASSUME NEW h, NEW t, NEW b, NEW k, NEW e, NEW g,
         NEW r, r = Walked(h, t, b, k, e, g)
  PROVE  Updates(r, h, t, b, k, e, g)
<1>1. r \in WalkedIn({h}, {t}, {b}, {k}, {e}, {g}) /\ r.keyTus = e /\ r.goldenTus = g /\ r.kinds = k
  BY DEF Walked, WalkedIn
<1>2. ASSUME NEW v PROVE [r EXCEPT !.sh = v] = Walked(v, t, b, k, e, g)
  <2> DEFINE n == [r EXCEPT !.sh = v]
  <2>1. n \in WalkedIn({v}, {t}, {b}, {k}, {e}, {g})
    BY <1>1 DEF WalkedIn
  <2>2. /\ n.sh = v /\ n.isKey = t /\ n.haveDpb = b /\ n.kinds = k
        /\ n.keyTus = e /\ n.goldenTus = g
    BY <1>1 DEF WalkedIn
  <2>3. n = Walked(n.sh, n.isKey, n.haveDpb, n.kinds, n.keyTus, n.goldenTus)
    BY <2>1, WalkedIs
  <2> QED
    BY <2>2, <2>3, Zenon
<1>3. ASSUME NEW v PROVE [r EXCEPT !.kinds = v] = Walked(h, t, b, v, e, g)
  <2> DEFINE n == [r EXCEPT !.kinds = v]
  <2>1. n \in WalkedIn({h}, {t}, {b}, {v}, {e}, {g})
    BY <1>1 DEF WalkedIn
  <2>2. /\ n.sh = h /\ n.isKey = t /\ n.haveDpb = b /\ n.kinds = v
        /\ n.keyTus = e /\ n.goldenTus = g
    BY <1>1 DEF WalkedIn
  <2>3. n = Walked(n.sh, n.isKey, n.haveDpb, n.kinds, n.keyTus, n.goldenTus)
    BY <2>1, WalkedIs
  <2> QED
    BY <2>2, <2>3, Zenon
<1>4. ASSUME NEW v, NEW u
      PROVE  [r EXCEPT !.haveDpb = TRUE, !.isKey = u, !.kinds = v,
                !.keyTus = r.keyTus \cup {Len(r.kinds)}]
               = Walked(h, u, TRUE, v, e \cup {Len(k)}, g)
  <2> DEFINE f == e \cup {Len(k)}
             n == [r EXCEPT !.haveDpb = TRUE, !.isKey = u, !.kinds = v, !.keyTus = f]
  <2>0. r.keyTus \cup {Len(r.kinds)} = f
    BY <1>1
  <2> HIDE DEF f
  <2>1. n \in WalkedIn({h}, {u}, {TRUE}, {v}, {f}, {g})
    BY <1>1 DEF WalkedIn
  <2>2. /\ n.sh = h /\ n.isKey = u /\ n.haveDpb = TRUE /\ n.kinds = v
        /\ n.keyTus = f /\ n.goldenTus = g
    BY <1>1 DEF WalkedIn
  <2>3. n = Walked(n.sh, n.isKey, n.haveDpb, n.kinds, n.keyTus, n.goldenTus)
    BY <2>1, WalkedIs
  <2> QED
    BY <2>0, <2>2, <2>3, Zenon DEF f
<1>5. ASSUME NEW v, NEW u
      PROVE  [r EXCEPT !.haveDpb = TRUE, !.isKey = u, !.kinds = v,
                !.goldenTus = r.goldenTus \cup {Len(r.kinds)}]
               = Walked(h, u, TRUE, v, e, g \cup {Len(k)})
  <2> DEFINE f == g \cup {Len(k)}
             n == [r EXCEPT !.haveDpb = TRUE, !.isKey = u, !.kinds = v, !.goldenTus = f]
  <2>0. r.goldenTus \cup {Len(r.kinds)} = f
    BY <1>1
  <2> HIDE DEF f
  <2>1. n \in WalkedIn({h}, {u}, {TRUE}, {v}, {e}, {f})
    BY <1>1 DEF WalkedIn
  <2>2. /\ n.sh = h /\ n.isKey = u /\ n.haveDpb = TRUE /\ n.kinds = v
        /\ n.keyTus = e /\ n.goldenTus = f
    BY <1>1 DEF WalkedIn
  <2>3. n = Walked(n.sh, n.isKey, n.haveDpb, n.kinds, n.keyTus, n.goldenTus)
    BY <2>1, WalkedIs
  <2> QED
    BY <2>0, <2>2, <2>3, Zenon DEF f
<1> QED
  BY <1>2, <1>3, <1>4, <1>5, Zenon DEF Updates

(* A sequence header the walk knows, or its first, changes nothing else.   *)
LEMMA HeaderKept ==
  ASSUME NEW h, NEW g \in {NoHeader, h}, NEW isKey, NEW have, NEW a, NEW keys, NEW goldens
  PROVE  WalkObu(Walked(g, isKey, have, a, keys, goldens), HeaderObu(h))
           = Walked(h, isKey, have, a, keys, goldens)
<1> DEFINE r == Walked(g, isKey, have, a, keys, goldens)
<1>1. ~ r.failed /\ r.sh \in {NoHeader, h}
  BY DEF Walked
<1>2. r = Walked(g, isKey, have, a, keys, goldens)
  OBVIOUS
<1> HIDE DEF r
<1>3. Updates(r, g, isKey, have, a, keys, goldens)
  BY <1>2, WalkedExcept, Zenon
<1>4. [r EXCEPT !.sh = h] = Walked(h, isKey, have, a, keys, goldens)
  BY <1>3, Zenon DEF Updates
<1>5. WalkObu(r, HeaderObu(h)) = [r EXCEPT !.sh = h]
  BY <1>1, HeaderWalked
<1> QED
  BY <1>4, <1>5 DEF r

(* The four kinds of OBU, field by field. *)
Seen        == TRUE
Unset(t, s) == t[s] = FALSE

Walks(h, isKey, have, kinds, keys, goldens) ==
  /\ \A g \in {NoHeader, h} :
       WalkObu(Walked(g, isKey, have, Append(kinds, NoKind), keys, goldens), HeaderObu(h))
         = Walked(h, isKey, have, Append(kinds, NoKind), keys, goldens)
  /\ \A s : Unset(isKey, s) =>
       WalkObu(Walked(h, isKey, Seen, Append(kinds, NoKind), keys, goldens), ShowObu(s))
         = Walked(h, isKey, Seen, Append(kinds, ReshowKind), keys, goldens)
  /\ \A f : GoodKey(f) =>
       WalkObu(Walked(h, isKey, have, Append(kinds, NoKind), keys, goldens), CodedObu(f))
         = Walked(h, AllKey, Seen, Append(kinds, KeyKind),
                  keys \cup {Len(kinds) + 1}, goldens)
  /\ \A f : (GoodGolden(f) /\ f.ft \in FrameTypes /\ isKey = AllKey) =>
       WalkObu(Walked(h, isKey, have, Append(kinds, NoKind), keys, goldens), CodedObu(f))
         = Walked(h, AllKeyBut(Refresh(f)), Seen, Append(kinds, GoldenKind(f)),
                  keys, goldens \cup {Len(kinds) + 1})

LEMMA WalkedObus ==
  ASSUME NEW h, h # NoHeader, NEW isKey, NEW have, NEW keys, NEW goldens,
         NEW kinds \in Seq(KindType)
  PROVE  Walks(h, isKey, have, kinds, keys, goldens)
<1> DEFINE a == Append(kinds, NoKind)
<1>0. \A k \in KindType : Len(a) = Len(kinds) + 1 /\ [a EXCEPT ![Len(a)] = k] = Append(kinds, k)
  BY KindSet
<1> HIDE DEF a
<1>1. ASSUME NEW g \in {NoHeader, h}
      PROVE  WalkObu(Walked(g, isKey, have, a, keys, goldens), HeaderObu(h))
               = Walked(h, isKey, have, a, keys, goldens)
  BY HeaderKept
<1>2. ASSUME NEW s, isKey[s] = FALSE
      PROVE  WalkObu(Walked(h, isKey, TRUE, a, keys, goldens), ShowObu(s))
               = Walked(h, isKey, TRUE, Append(kinds, ReshowKind), keys, goldens)
  <2> DEFINE r == Walked(h, isKey, TRUE, a, keys, goldens)
  <2>1. ~ r.failed /\ r.haveDpb /\ r.sh # NoHeader /\ r.isKey[s] = FALSE /\ r.kinds = a
    BY <1>2 DEF Walked
  <2>2. [a EXCEPT ![Len(a)] = ReshowKind] = Append(kinds, ReshowKind)
    BY <1>0 DEF KindType
  <2>0. r = Walked(h, isKey, TRUE, a, keys, goldens)
    OBVIOUS
  <2> HIDE DEF r
  <2>9. Updates(r, h, isKey, TRUE, a, keys, goldens)
    BY <2>0, WalkedExcept, Zenon
  <2>3. [r EXCEPT !.kinds = [a EXCEPT ![Len(a)] = ReshowKind]]
          = Walked(h, isKey, TRUE, [a EXCEPT ![Len(a)] = ReshowKind], keys, goldens)
    BY <2>9, Zenon DEF Updates
  <2>4. WalkObu(r, ShowObu(s))
          = [r EXCEPT !.kinds[Len(r.kinds)] = [is |-> "show", wasKey |-> r.isKey[s]]]
    BY <2>1, ShowWalked
  <2>5. [is |-> "show", wasKey |-> r.isKey[s]] = ReshowKind
    BY <2>1 DEF ReshowKind
  <2>6. WalkObu(r, ShowObu(s)) = [r EXCEPT !.kinds[Len(r.kinds)] = ReshowKind]
    BY <2>4, <2>5
  <2>7. [r EXCEPT !.kinds[Len(r.kinds)] = ReshowKind]
          = [r EXCEPT !.kinds = [a EXCEPT ![Len(a)] = ReshowKind]]
    BY <2>1
  <2> QED
    BY <2>2, <2>3, <2>6, <2>7 DEF r
<1>3. ASSUME NEW f, GoodKey(f)
      PROVE  WalkObu(Walked(h, isKey, have, a, keys, goldens), CodedObu(f))
               = Walked(h, AllKey, TRUE, Append(kinds, KeyKind),
                        keys \cup {Len(kinds) + 1}, goldens)
  <2> DEFINE r == Walked(h, isKey, have, a, keys, goldens)
  <2>1. ~ r.failed /\ r.sh # NoHeader /\ r.kinds = a /\ r.keyTus = keys
    BY DEF Walked
  <2>2. [a EXCEPT ![Len(a)] = KeyKind] = Append(kinds, KeyKind) /\ Len(a) = Len(kinds) + 1
    BY <1>0 DEF KindType
  <2>0. r = Walked(h, isKey, have, a, keys, goldens)
    OBVIOUS
  <2> HIDE DEF r
  <2>9. Updates(r, h, isKey, have, a, keys, goldens)
    BY <2>0, WalkedExcept, Zenon
  <2>3. \A t, v : [r EXCEPT !.haveDpb = TRUE, !.isKey = t, !.kinds = v,
                     !.keyTus = r.keyTus \cup {Len(r.kinds)}]
                   = Walked(h, t, TRUE, v, keys \cup {Len(a)}, goldens)
    BY <2>9, Zenon DEF Updates
  <2>4. WalkObu(r, CodedObu(f))
          = [r EXCEPT !.haveDpb = TRUE, !.isKey = AllKey, !.kinds[Len(r.kinds)] = KeyKind,
               !.keyTus = r.keyTus \cup {Len(r.kinds)}]
    BY <1>3, <2>1, KeyWalked DEF AllKey, KeyKind
  <2>5. [r EXCEPT !.haveDpb = TRUE, !.isKey = AllKey, !.kinds[Len(r.kinds)] = KeyKind,
            !.keyTus = r.keyTus \cup {Len(r.kinds)}]
          = [r EXCEPT !.haveDpb = TRUE, !.isKey = AllKey,
               !.kinds = [a EXCEPT ![Len(a)] = KeyKind],
               !.keyTus = r.keyTus \cup {Len(r.kinds)}]
    BY <2>1
  <2> QED
    BY <2>2, <2>3, <2>4, <2>5 DEF r
<1>4. ASSUME NEW f, GoodGolden(f), f.ft \in FrameTypes, isKey = AllKey
      PROVE  WalkObu(Walked(h, isKey, have, a, keys, goldens), CodedObu(f))
               = Walked(h, AllKeyBut(Refresh(f)), TRUE, Append(kinds, GoldenKind(f)),
                        keys, goldens \cup {Len(kinds) + 1})
  <2> DEFINE r == Walked(h, isKey, have, a, keys, goldens)
             t0 == [s \in Slots |-> IF s \in Refresh(f) THEN FALSE ELSE r.isKey[s]]
  <2>1. ~ r.failed /\ r.sh # NoHeader /\ r.kinds = a /\ r.goldenTus = goldens
        /\ r.isKey = AllKey
    BY <1>4 DEF Walked
  <2>2. [a EXCEPT ![Len(a)] = GoldenKind(f)] = Append(kinds, GoldenKind(f))
        /\ Len(a) = Len(kinds) + 1
    BY <1>0, <1>4 DEF KindType, GoldenKind
  <2>0. r = Walked(h, isKey, have, a, keys, goldens)
    OBVIOUS
  <2> HIDE DEF r
  <2>9. Updates(r, h, isKey, have, a, keys, goldens)
    BY <2>0, WalkedExcept, Zenon
  <2>3. \A t, v : [r EXCEPT !.haveDpb = TRUE, !.isKey = t, !.kinds = v,
                     !.goldenTus = r.goldenTus \cup {Len(r.kinds)}]
                   = Walked(h, t, TRUE, v, keys, goldens \cup {Len(a)})
    BY <2>9, Zenon DEF Updates
  <2>4. WalkObu(r, CodedObu(f))
          = [r EXCEPT !.haveDpb = TRUE, !.isKey = t0, !.kinds[Len(r.kinds)] = GoldenKind(f),
               !.goldenTus = r.goldenTus \cup {Len(r.kinds)}]
    BY <1>4, <2>1, GoldenWalked DEF GoldenKind
  <2>5. t0 = AllKeyBut(Refresh(f))
    BY <2>1 DEF AllKey, AllKeyBut
  <2> HIDE DEF t0
  <2>6. [r EXCEPT !.haveDpb = TRUE, !.isKey = t0, !.kinds[Len(r.kinds)] = GoldenKind(f),
            !.goldenTus = r.goldenTus \cup {Len(r.kinds)}]
          = [r EXCEPT !.haveDpb = TRUE, !.isKey = t0,
               !.kinds = [a EXCEPT ![Len(a)] = GoldenKind(f)],
               !.goldenTus = r.goldenTus \cup {Len(r.kinds)}]
    BY <2>1
  <2> QED
    BY <2>2, <2>3, <2>4, <2>5, <2>6 DEF r
<1> QED
  BY <1>1, <1>2, <1>3, <1>4 DEF a, Walks, Seen, Unset

(* A unit's walk starts from the report with one more kind, "none".        *)
LEMMA UnitOpened ==
  ASSUME NEW r, ~ r.failed, r.kinds \in Seq(KindType),
         NEW a, a = [r EXCEPT !.kinds = Append(r.kinds, NoKind)],
         NEW unit, NEW w, w = ObuWalk!FoldLeft(WalkObu, a, unit),
         NEW k \in KindType, k.is # "none", w.kinds = Append(r.kinds, k)
  PROVE  WalkUnit(r, unit) = w
<1>1. w.kinds[Len(w.kinds)] # NoKind
  <2>1. Append(r.kinds, k)[Len(Append(r.kinds, k))] = k
    BY KindSet
  <2>2. NoKind.is = "none"
    BY DEF NoKind
  <2> QED
    BY <2>1, <2>2
<1> QED
  BY <1>1, UnitFold

LEMMA WalkedOpened ==
  ASSUME NEW h, NEW t, NEW b, NEW kinds, NEW e, NEW g,
         NEW r, r = Walked(h, t, b, kinds, e, g)
  PROVE  /\ ~ r.failed /\ r.kinds = kinds
         /\ Walked(h, t, b, Append(kinds, NoKind), e, g)
              = [r EXCEPT !.kinds = Append(r.kinds, NoKind)]
<1>1. ~ r.failed /\ r.kinds = kinds
  BY DEF Walked
<1>2. Updates(r, h, t, b, kinds, e, g)
  BY WalkedExcept, Zenon
<1>3. [r EXCEPT !.kinds = Append(kinds, NoKind)] = Walked(h, t, b, Append(kinds, NoKind), e, g)
  BY <1>2, Zenon DEF Updates
<1> QED
  BY <1>1, <1>3

(* The OBUs of a TU of q OBUs with one frame, m headers in front of it.    *)
Around(u, o, c, m, q) == \E S : /\ u \in Seq(S) /\ Len(u) = q
                                /\ \A k \in 1..q : u[k] = IF k = m + 1 THEN c ELSE o

(* The walk's record before the TU, in front of the frame and behind it.   *)
Through(o, c, m, first, mid, last) ==
  /\ WalkObu(first, o) = mid /\ WalkObu(mid, o) = mid
  /\ WalkObu(mid, c) = last /\ WalkObu(last, o) = last
  /\ m = 0 => first = mid

(* Headers, the frame, headers. *)
LEMMA UnitFolded ==
  ASSUME NEW o, NEW c, NEW first, NEW mid, NEW last, NEW q \in Nat, NEW m \in 0..q-1,
         Through(o, c, m, first, mid, last),
         NEW unit, Around(unit, o, c, m, q)
  PROVE  last = ObuWalk!FoldLeft(WalkObu, first, unit)
<1> DEFINE Q == {<<0, first>>} \cup {<<k, mid>> : k \in 1..m} \cup {<<k, last>> : k \in m+1..q}
           v == ObuWalk!FoldLeft(WalkObu, first, unit)
<1>0. /\ WalkObu(first, o) = mid /\ WalkObu(mid, o) = mid
      /\ WalkObu(mid, c) = last /\ WalkObu(last, o) = last
      /\ m = 0 => first = mid
  BY DEF Through
<1>1. PICK S : /\ unit \in Seq(S) /\ Len(unit) = q
               /\ \A k \in 1..q : unit[k] = IF k = m + 1 THEN c ELSE o
  BY DEF Around
<1>2. \A k \in 1..Len(unit) : \A a : <<k - 1, a>> \in Q => <<k, WalkObu(a, unit[k])>> \in Q
  <2> SUFFICES ASSUME NEW k \in 1..q, NEW a, <<k - 1, a>> \in Q
               PROVE  <<k, WalkObu(a, unit[k])>> \in Q
    BY <1>1
  <2>1. CASE k <= m
    <3>1. k \in 1..m /\ a \in {first, mid} /\ unit[k] = o
      BY <1>1, <2>1
    <3>2. WalkObu(a, unit[k]) = mid
      BY <1>0, <3>1
    <3> QED
      BY <3>1, <3>2
  <2>2. CASE k = m + 1
    <3>1. a = mid /\ unit[k] = c /\ k \in m+1..q
      BY <1>0, <1>1, <2>2
    <3> QED
      BY <1>0, <3>1
  <2>3. CASE k > m + 1
    <3>1. a = last /\ unit[k] = o /\ k \in m+1..q
      BY <1>1, <2>3
    <3> QED
      BY <1>0, <3>1
  <2> QED
    BY <2>1, <2>2, <2>3
<1>3. <<0, first>> \in Q
  OBVIOUS
<1>4. <<Len(unit), v>> \in Q
  <2> HIDE DEF Q
  <2> QED
    BY <1>1, <1>2, <1>3, ObuWalk!FoldInvariant
<1> HIDE DEF v
<1>5. last = v
  BY <1>1, <1>4
<1> QED
  BY <1>5 DEF v

(* A key TU: headers that agree, a keyframe and maybe more headers.        *)
LEMMA KeyUnitWalked ==
  ASSUME NEW h, h # NoHeader, NEW g \in {NoHeader, h}, NEW t, NEW b,
         NEW kinds \in Seq(KindType), NEW keys, NEW goldens,
         NEW f, GoodKey(f), NEW q \in Nat, NEW m \in 1..q-1,
         NEW unit, Around(unit, HeaderObu(h), CodedObu(f), m, q),
         NEW r, r = Walked(g, t, b, kinds, keys, goldens),
         NEW n, n = Len(Append(kinds, NoKind)),
         NEW w, w = Walked(h, AllKey, Seen, Append(kinds, KeyKind), keys \cup {n}, goldens)
  PROVE  WalkUnit(r, unit) = w
<1> DEFINE first == Walked(g, t, b, Append(kinds, NoKind), keys, goldens)
           mid   == Walked(h, t, b, Append(kinds, NoKind), keys, goldens)
           last  == Walked(h, AllKey, Seen, Append(kinds, KeyKind), keys \cup {n}, goldens)
           o     == HeaderObu(h)
           c     == CodedObu(f)
<1>0. Len(kinds) + 1 = n
  BY KindSet DEF KindType
<1>1. /\ WalkObu(first, o) = mid /\ WalkObu(mid, o) = mid
      /\ WalkObu(mid, c) = last
  <2>1. Walks(h, t, b, kinds, keys, goldens)
    BY WalkedObus, Zenon
  <2> QED
    BY <1>0, <2>1, Zenon DEF Walks
<1>2. WalkObu(last, o) = last
  BY HeaderKept
<1>3. ~ r.failed /\ r.kinds = kinds /\ first = [r EXCEPT !.kinds = Append(r.kinds, NoKind)]
  BY WalkedOpened, SMTT(30)
<1>4. KeyKind \in KindType /\ KeyKind.is # "none" /\ last.kinds = Append(kinds, KeyKind)
  BY DEF KindType, KeyKind, Walked
<1>5. w = last /\ Around(unit, o, c, m, q) /\ m \in 0..q-1 /\ m # 0
  OBVIOUS
<1> HIDE DEF first, mid, last, o, c
<1>6. Through(o, c, m, first, mid, last)
  BY <1>1, <1>2, <1>5 DEF Through
<1>7. last = ObuWalk!FoldLeft(WalkObu, first, unit)
  BY <1>5, <1>6, UnitFolded
<1>8. WalkUnit(r, unit) = last
  BY <1>3, <1>4, <1>7, UnitOpened, ZenonT(30)
<1> QED
  BY <1>5, <1>8

(* Units of one OBU. *)
LEMMA OneObu ==
  ASSUME NEW r, NEW o
  PROVE  WalkObu(r, o) = ObuWalk!FoldLeft(WalkObu, r, <<o>>)
<1>1. <<>> \in Seq({o}) /\ <<o>> = Append(<<>>, o) /\ o \in {o}
  OBVIOUS
<1>2. ObuWalk!FoldLeft(WalkObu, r, Append(<<>>, o))
        = WalkObu(ObuWalk!FoldLeft(WalkObu, r, <<>>), o)
  BY <1>1, ObuWalk!FoldAppend, Zenon
<1>3. ObuWalk!FoldLeft(WalkObu, r, <<>>) = r
  BY ObuWalk!FoldEmpty, Zenon
<1> QED
  BY <1>1, <1>2, <1>3

LEMMA GoldenUnitWalked ==
  ASSUME NEW h, h # NoHeader, NEW b, NEW kinds \in Seq(KindType), NEW keys, NEW goldens,
         NEW f, GoodGolden(f), f.ft \in FrameTypes, NEW q \in Nat, NEW m \in 0..q-1,
         NEW unit, Around(unit, HeaderObu(h), CodedObu(f), m, q),
         NEW r, r = Walked(h, AllKey, b, kinds, keys, goldens),
         NEW n, n = Len(Append(kinds, NoKind)),
         NEW w, w = Walked(h, AllKeyBut(Refresh(f)), Seen, Append(kinds, GoldenKind(f)),
                           keys, goldens \cup {n})
  PROVE  WalkUnit(r, unit) = w
<1> DEFINE t     == AllKey
           first == Walked(h, t, b, Append(kinds, NoKind), keys, goldens)
           last  == Walked(h, AllKeyBut(Refresh(f)), Seen, Append(kinds, GoldenKind(f)),
                           keys, goldens \cup {n})
           o     == HeaderObu(h)
           c     == CodedObu(f)
<1>0. Len(kinds) + 1 = n
  BY KindSet DEF KindType
<1>1. t = AllKey
  OBVIOUS
<1> HIDE DEF t
<1>2. WalkObu(first, c) = last
  <2>1. Walks(h, t, b, kinds, keys, goldens)
    BY WalkedObus, Zenon
  <2> QED
    BY <1>0, <1>1, <2>1, Zenon DEF Walks
<1>3. WalkObu(first, o) = first /\ WalkObu(last, o) = last
  BY HeaderKept
<1>4. ~ r.failed /\ r.kinds = kinds /\ first = [r EXCEPT !.kinds = Append(r.kinds, NoKind)]
  BY <1>1, WalkedOpened, SMTT(30)
<1>5. /\ GoldenKind(f) \in KindType /\ GoldenKind(f).is # "none"
      /\ last.kinds = Append(kinds, GoldenKind(f))
  BY DEF KindType, GoldenKind, Walked
<1>6. w = last /\ Around(unit, o, c, m, q)
  OBVIOUS
<1> HIDE DEF first, last, o, c
<1>7. Through(o, c, m, first, first, last)
  BY <1>2, <1>3 DEF Through
<1>8. last = ObuWalk!FoldLeft(WalkObu, first, unit)
  BY <1>6, <1>7, UnitFolded
<1>9. WalkUnit(r, unit) = last
  BY <1>4, <1>5, <1>8, UnitOpened, ZenonT(30)
<1> QED
  BY <1>6, <1>9

LEMMA ShowUnitWalked ==
  ASSUME NEW h, h # NoHeader, NEW t, NEW kinds \in Seq(KindType), NEW keys, NEW goldens,
         NEW s, Unset(t, s),
         NEW r, r = Walked(h, t, Seen, kinds, keys, goldens),
         NEW w, w = Walked(h, t, Seen, Append(kinds, ReshowKind), keys, goldens),
         NEW unit, unit = <<ShowObu(s)>>
  PROVE  WalkUnit(r, unit) = w
<1> DEFINE first == Walked(h, t, Seen, Append(kinds, NoKind), keys, goldens)
           last  == Walked(h, t, Seen, Append(kinds, ReshowKind), keys, goldens)
           o     == ShowObu(s)
<1>1. WalkObu(first, o) = last
  <2>1. Walks(h, t, Seen, kinds, keys, goldens)
    BY WalkedObus, Zenon
  <2> QED
    BY <2>1, Zenon DEF Walks
<1>2. ~ r.failed /\ r.kinds = kinds /\ first = [r EXCEPT !.kinds = Append(r.kinds, NoKind)]
  BY WalkedOpened, SMTT(30)
<1>3. /\ ReshowKind \in KindType /\ ReshowKind.is # "none"
      /\ last.kinds = Append(kinds, ReshowKind)
  BY DEF KindType, ReshowKind, Walked
<1>4. w = last /\ unit = <<o>>
  OBVIOUS
<1> HIDE DEF first, last, o
<1>5. last = ObuWalk!FoldLeft(WalkObu, first, <<o>>)
  BY <1>1, OneObu
<1>6. WalkUnit(r, <<o>>) = last
  BY <1>2, <1>3, <1>5, UnitOpened, ZenonT(30)
<1> QED
  BY <1>4, <1>6

-------------------------------------------------------------------------------
(* What the report has come to after the first p units of the stream. *)
KindOf(q) == CASE tus[q].kind = "key"    -> KeyKind
               [] tus[q].kind = "golden" -> GoldenKind(segs[tus[q].seg].golden)
               [] OTHER                  -> ReshowKind

KindsTo(p)   == [q \in 1..p |-> KindOf(q)]
KeysTo(p)    == {q \in 1..p : tus[q].kind = "key"}
GoldensTo(p) == {q \in 1..p : tus[q].kind = "golden"}

(* Of each slot: does the last keyframe still stand in it.                 *)
TrackedAt(p) ==
  IF p = 0 THEN [s \in Slots |-> FALSE]
  ELSE IF tus[p].kind = "key" THEN AllKey
  ELSE AllKeyBut(Refresh(segs[tus[p].seg].golden))

HeaderAt(p) == IF p = 0 THEN NoHeader ELSE sh
AnyAt(p)    == IF p = 0 THEN FALSE ELSE TRUE

ReportAt(p) ==
  Walked(HeaderAt(p), TrackedAt(p), AnyAt(p), KindsTo(p), KeysTo(p), GoldensTo(p))

(* A finished stream of accepted pairs under one header. *)
Finished == IInv /\ Accepted /\ phase = "done" /\ OneHeader

(* A coded TU of the stream, its frame behind at least `least` headers. *)
CodedUnit(u, f, least) == \E q \in Nat : \E m \in 0..q-1 :
  m >= least /\ Around(u, HeaderObu(sh), CodedObu(f), m, q)

(* All headers a segment is written with are the canonical one. *)
LEMMA HeadersAgree ==
  ASSUME Finished, NEW n \in 1..Len(prepped)
  PROVE  /\ n \in 1..Len(segs) /\ TypeOK
         /\ \E q \in Nat : /\ segs[n].lead \in 1..q /\ Len(prepped[n].hdrs) = q
                           /\ \A k \in 1..q : prepped[n].hdrs[k] = sh
         /\ \E q \in Nat : /\ segs[n].goldenLead \in 0..q /\ Len(prepped[n].goldenHdrs) = q
                           /\ \A k \in 1..q : prepped[n].goldenHdrs[k] = sh
<1> DEFINE hs == segs[n].hdrs
           gs == segs[n].goldenHdrs
<1>1. Settled /\ TypeOK
  BY DEF Finished, Settled, IInv
<1>2. /\ n \in 1..Len(segs)
      /\ hs \in Seq(Headers) /\ Len(hs) \in Nat \ {0} /\ segs[n].lead \in 1..Len(hs)
      /\ gs \in Seq(Headers) /\ Len(gs) \in Nat /\ segs[n].goldenLead \in 0..Len(gs)
      /\ \A k \in 1..Len(gs) : gs[k] = hs[Len(hs)]
      /\ prepped[n].hdrs = Emitted(hs) /\ prepped[n].goldenHdrs = Emitted(gs)
  BY <1>1, SegmentHeaders
<1>3. n \in DOMAIN segs /\ DOMAIN hs = 1..Len(hs)
  <2>1. segs \in Seq(SegmentType)
    BY InputTypes DEF Finished, IInv
  <2>2. n \in DOMAIN segs
    BY <1>2, <2>1, LenProperties
  <2> HIDE DEF hs
  <2> QED
    BY <1>2, <2>2, LenProperties
<1>4. ASSUME ~ Rewrites(sh.id), NEW k \in 1..Len(hs) PROVE Declared(hs[k]) = sh
  <2>1. ~ Rewrites(segs[1].hdrs[1])
    BY <1>1, <1>4, HeaderIs
  <2>2. hs[k] = segs[1].hdrs[1]
    BY <1>3, <1>4, <2>1 DEF Finished, OneHeader
  <2>3. sh = Declared(segs[1].hdrs[1])
    BY <1>1, <2>1, HeaderIs DEF Effective
  <2> QED
    BY <2>2, <2>3
<1>5. ASSUME ~ Rewrites(sh.id), NEW k \in 1..Len(gs) PROVE Declared(gs[k]) = sh
  <2>1. Len(hs) \in 1..Len(hs) /\ gs[k] = hs[Len(hs)]
    BY <1>2
  <2> HIDE DEF hs, gs
  <2> QED
    BY <1>4, <1>5, <2>1
<1> HIDE DEF hs, gs
<1>6. /\ Len(Emitted(hs)) = Len(hs) /\ \A k \in 1..Len(hs) : Emitted(hs)[k] = sh
      /\ Len(Emitted(gs)) = Len(gs) /\ \A k \in 1..Len(gs) : Emitted(gs)[k] = sh
  BY <1>1, <1>2, <1>4, <1>5, EmittedHeaders
<1> QED
  BY <1>1, <1>2, <1>6

(* A TU written with headers that are all the canonical one. *)
LEMMA UnitShape ==
  ASSUME NEW q \in Nat, NEW hs, Len(hs) = q, \A k \in 1..q : hs[k] = sh,
         NEW m \in 0..q, NEW f
  PROVE  Around(Unit(hs, m, f), HeaderObu(sh), CodedObu(f), m, q + 1)
<1> DEFINE o == HeaderObu(sh)
           c == CodedObu(f)
           S == {o, c}
           front == [k \in 1..m |-> HeaderObu(hs[k])]
           one   == <<c>>
           back  == [k \in 1..q - m |-> HeaderObu(hs[m + k])]
           u == (front \o one) \o back
<1>1. Unit(hs, m, f) = u
  BY DEF Unit
<1>0. m \in Nat /\ q - m \in Nat
  OBVIOUS
<1>2. /\ front \in Seq(S) /\ Len(front) = m /\ \A k \in 1..m : front[k] = o
      /\ back \in Seq(S) /\ Len(back) = q - m /\ \A k \in 1..q - m : back[k] = o
      /\ one \in Seq(S) /\ Len(one) = 1 /\ one[1] = c
  <2>1. front \in [1..m -> S] /\ \A k \in 1..m : front[k] = o
    OBVIOUS
  <2>2. back \in [1..q - m -> S] /\ \A k \in 1..q - m : back[k] = o
    OBVIOUS
  <2>3. one \in Seq(S) /\ Len(one) = 1 /\ one[1] = c
    OBVIOUS
  <2> HIDE DEF front, back, one, S, o, c
  <2> QED
    BY <1>0, <2>1, <2>2, <2>3, SeqDef, LenProperties
<1> HIDE DEF front, back, one, S, o, c
<1>3. /\ front \o one \in Seq(S) /\ Len(front \o one) = m + 1
      /\ \A k \in 1..m + 1 : (front \o one)[k] = IF k <= m THEN front[k] ELSE one[k - m]
  <2>1. /\ front \o one \in Seq(S) /\ Len(front \o one) = Len(front) + Len(one)
        /\ \A k \in 1..Len(front) + Len(one) :
             (front \o one)[k] = IF k <= Len(front) THEN front[k] ELSE one[k - Len(front)]
    BY <1>2, ConcatProperties
  <2> QED
    BY <1>2, <2>1
<1>4. \A k \in 1..m + 1 : (front \o one)[k] = IF k = m + 1 THEN c ELSE o
  BY <1>2, <1>3
<1> DEFINE fo == front \o one
<1> HIDE DEF fo
<1>5. /\ u \in Seq(S) /\ Len(u) = q + 1
      /\ \A k \in 1..q + 1 : u[k] = IF k <= m + 1 THEN fo[k] ELSE back[k - (m + 1)]
  <2>1. u = fo \o back /\ fo \in Seq(S) /\ Len(fo) = m + 1
    BY <1>3 DEF fo
  <2> HIDE DEF u
  <2> QED
    BY <1>0, <1>2, <2>1, ConcatProperties
<1>6. \A k \in 1..q + 1 : u[k] = IF k = m + 1 THEN c ELSE o
  <2>1. \A k \in 1..m + 1 : fo[k] = IF k = m + 1 THEN c ELSE o
    BY <1>4 DEF fo
  <2> HIDE DEF u
  <2>2. ASSUME NEW k \in m + 2..q + 1 PROVE u[k] = o
    <3>1. k \in 1..q + 1 /\ ~ (k <= m + 1) /\ k - (m + 1) \in 1..q - m
      BY <1>0
    <3> QED
      BY <1>2, <1>5, <3>1
  <2> QED
    BY <1>5, <2>1, <2>2
<1> HIDE DEF u
<1> QED
  BY <1>1, <1>5, <1>6 DEF Around, o, c

(* The stream, unit by unit. *)
LEMMA UnitIs ==
  ASSUME Finished, NEW p \in 1..Len(tus), NEW n, n = tus[p].seg
  PROVE  /\ n \in 1..Len(segs) /\ n \in 1..Len(prepped)
         /\ GoodKey(segs[n].key) /\ GoodGolden(segs[n].golden)
         /\ segs[n].golden.ft \in FrameTypes
         /\ tus[p].kind \in {"key", "golden", "show"}
         /\ tus[p].kind = "key" => CodedUnit(Written[p], segs[n].key, 1)
         /\ tus[p].kind = "golden" => CodedUnit(Written[p], segs[n].golden, 0)
         /\ tus[p].kind = "show" => Written[p] = <<ShowObu(prepped[n].slot)>>
<1>1. TypeOK /\ tus \in Seq(TuType)
  BY DEF Finished, IInv, TypeOK
<1>2. n \in 1..Len(prepped)
  BY DEF Finished, IInv, Grammar
<1>3. n \in 1..Len(segs)
  BY <1>2, HeadersAgree
<1>4. GoodKey(segs[n].key) /\ GoodGolden(segs[n].golden)
  BY <1>2 DEF Finished, Accepted, AcceptedAt
<1>5. segs[n].golden.ft \in FrameTypes
  BY <1>1, <1>3, InputTypes DEF SegmentType, FrameType
<1>6. tus[p].kind \in {"key", "golden", "show"}
  <2>1. tus[p] \in TuType
    BY <1>1, ElementOfSeq
  <2> QED
    BY <2>1 DEF TuType
<1>7. Written[p] = Obus(tus[p])
  BY <1>1, LenProperties DEF Written
<1>8. ASSUME tus[p].kind = "key" PROVE CodedUnit(Written[p], segs[n].key, 1)
  <2>1. PICK q \in Nat : /\ segs[n].lead \in 1..q /\ Len(prepped[n].hdrs) = q
                         /\ \A k \in 1..q : prepped[n].hdrs[k] = sh
    BY <1>2, HeadersAgree
  <2>2. Written[p] = Unit(prepped[n].hdrs, segs[n].lead, segs[n].key)
    BY <1>7, <1>8 DEF Obus
  <2>3. Around(Written[p], HeaderObu(sh), CodedObu(segs[n].key), segs[n].lead, q + 1)
    BY <2>1, <2>2, UnitShape
  <2>4. segs[n].lead \in 0..(q + 1) - 1 /\ segs[n].lead >= 1 /\ q + 1 \in Nat
    BY <2>1
  <2> QED
    BY <2>3, <2>4, Zenon DEF CodedUnit
<1>9. ASSUME tus[p].kind = "golden" PROVE CodedUnit(Written[p], segs[n].golden, 0)
  <2>1. PICK q \in Nat : /\ segs[n].goldenLead \in 0..q /\ Len(prepped[n].goldenHdrs) = q
                         /\ \A k \in 1..q : prepped[n].goldenHdrs[k] = sh
    BY <1>2, HeadersAgree
  <2>2. Written[p] = Unit(prepped[n].goldenHdrs, segs[n].goldenLead, segs[n].golden)
    BY <1>7, <1>9 DEF Obus
  <2> DEFINE hs == prepped[n].goldenHdrs
             m  == segs[n].goldenLead
             f  == segs[n].golden
  <2>3. Around(Written[p], HeaderObu(sh), CodedObu(f), m, q + 1)
    <3>1. Len(hs) = q /\ (\A k \in 1..q : hs[k] = sh) /\ m \in 0..q /\ Written[p] = Unit(hs, m, f)
      BY <2>1, <2>2
    <3> HIDE DEF hs, m, f
    <3> QED
      BY <3>1, UnitShape
  <2>4. segs[n].goldenLead \in 0..(q + 1) - 1 /\ segs[n].goldenLead >= 0 /\ q + 1 \in Nat
    BY <2>1
  <2> QED
    BY <2>3, <2>4, Zenon DEF CodedUnit
<1>10. tus[p].kind = "show" => Written[p] = <<ShowObu(prepped[n].slot)>>
  BY <1>7 DEF Obus
<1> QED
  BY <1>2, <1>3, <1>4, <1>5, <1>6, <1>8, <1>9, <1>10

LEMMA KindIs ==
  ASSUME Finished, NEW p \in 1..Len(tus)
  PROVE  /\ KindOf(p) \in KindType
         /\ tus[p].kind = "key" => KindOf(p) = KeyKind
         /\ tus[p].kind = "golden" => KindOf(p) = GoldenKind(segs[tus[p].seg].golden)
         /\ tus[p].kind = "show" => KindOf(p) = ReshowKind
<1>1. /\ tus[p].kind \in {"key", "golden", "show"}
      /\ segs[tus[p].seg].golden.ft \in FrameTypes
  BY UnitIs
<1>2. /\ tus[p].kind = "key" => KindOf(p) = KeyKind
      /\ tus[p].kind = "golden" => KindOf(p) = GoldenKind(segs[tus[p].seg].golden)
      /\ tus[p].kind = "show" => KindOf(p) = ReshowKind
  BY DEF KindOf
<1>3. KeyKind \in KindType /\ ReshowKind \in KindType
      /\ GoldenKind(segs[tus[p].seg].golden) \in KindType
  BY <1>1 DEF KindType, GoldenKind
<1> QED
  BY <1>1, <1>2, <1>3

LEMMA KindsGrow ==
  ASSUME Finished, NEW p \in 1..Len(tus)
  PROVE  /\ KindsTo(p - 1) \in Seq(KindType) /\ Len(KindsTo(p - 1)) + 1 = p
         /\ KindsTo(p) = Append(KindsTo(p - 1), KindOf(p))
<1> DEFINE a == KindsTo(p - 1)
           c == KindsTo(p)
           k == KindOf(p)
<1>0. p \in Nat /\ p - 1 \in Nat /\ (p - 1) + 1 = p /\ Len(tus) \in Nat
  BY LenProperties DEF Finished, IInv, TypeOK
<1>1. \A q \in 1..p : q \in 1..Len(tus) /\ KindOf(q) \in KindType
  BY <1>0, KindIs
<1>2. a \in [1..p - 1 -> KindType] /\ c \in [1..p -> KindType]
  BY <1>0, <1>1 DEF KindsTo
<1>3. \A q \in 1..p : c[q] = IF q = p THEN k ELSE a[q]
  BY <1>0 DEF KindsTo
<1>4. k \in KindType
  BY <1>0, <1>1
<1> HIDE DEF a, c, k
<1>5. a \in Seq(KindType) /\ Len(a) = p - 1 /\ c \in Seq(KindType) /\ Len(c) = p
  <2>1. a \in Seq(KindType) /\ c \in Seq(KindType)
    BY <1>0, <1>2, SeqDef
  <2>2. DOMAIN a = 1..p - 1 /\ DOMAIN c = 1..p
    BY <1>2
  <2> QED
    BY <1>0, <2>1, <2>2, LenProperties
<1>6. /\ Append(a, k) \in Seq(KindType) /\ Len(Append(a, k)) = p
      /\ \A q \in 1..p : Append(a, k)[q] = IF q = p THEN k ELSE a[q]
  BY <1>0, <1>4, <1>5, AppendProperties
<1>7. c = Append(a, k)
  BY <1>3, <1>5, <1>6, SeqEqual
<1> QED
  BY <1>0, <1>5, <1>7 DEF a, c, k

LEMMA SetsGrow ==
  ASSUME Finished, NEW p \in 1..Len(tus)
  PROVE  /\ KeysTo(p) = IF tus[p].kind = "key" THEN KeysTo(p - 1) \cup {p} ELSE KeysTo(p - 1)
         /\ GoldensTo(p) = IF tus[p].kind = "golden" THEN GoldensTo(p - 1) \cup {p}
                           ELSE GoldensTo(p - 1)
<1>1. p \in Nat /\ 1..p = (1..p - 1) \cup {p}
  BY LenProperties DEF Finished, IInv, TypeOK
<1> QED
  BY <1>1 DEF KeysTo, GoldensTo

(* One more unit. *)
LEMMA ReportStep ==
  ASSUME Finished, NEW p \in 1..Len(tus)
  PROVE  WalkUnit(ReportAt(p - 1), Written[p]) = ReportAt(p)
<1> DEFINE n == tus[p].seg
           f == segs[n].golden
           g == HeaderAt(p - 1)
           t == TrackedAt(p - 1)
           b == AnyAt(p - 1)
           kinds == KindsTo(p - 1)
           keys == KeysTo(p - 1)
           goldens == GoldensTo(p - 1)
           r == ReportAt(p - 1)
           w == ReportAt(p)
           unit == Written[p]
<1>0. p \in Nat /\ p # 0 /\ Len(tus) \in Nat /\ TypeOK /\ Grammar /\ Stage
  BY LenProperties DEF Finished, IInv, TypeOK
<1>1. r = Walked(g, t, b, kinds, keys, goldens)
  BY DEF ReportAt
<1>2. w = Walked(sh, TrackedAt(p), Seen, KindsTo(p), KeysTo(p), GoldensTo(p))
  BY <1>0 DEF ReportAt, HeaderAt, AnyAt, Seen
<1>3. kinds \in Seq(KindType) /\ Len(kinds) + 1 = p /\ KindsTo(p) = Append(kinds, KindOf(p))
  BY KindsGrow
<1>9. p = Len(Append(kinds, NoKind))
  <2>1. KeyKind \in KindType
    BY DEF KindType
  <2> QED
    BY <1>3, <2>1, KindSet
<1>4. sh # NoHeader /\ g \in {NoHeader, sh}
  BY HeaderIs DEF HeaderAt, Settled, Finished
<1>5. tus[p].kind \in {"key", "golden", "show"} /\ n \in 1..Len(prepped)
  BY UnitIs
<1>6. CASE tus[p].kind = "key"
  <2> DEFINE key == segs[n].key
             o == HeaderObu(sh)
             c == CodedObu(key)
  <2>1. GoodKey(key) /\ CodedUnit(unit, key, 1)
    BY <1>6, UnitIs
  <2>2. KindOf(p) = KeyKind /\ KeysTo(p) = keys \cup {p} /\ GoldensTo(p) = goldens
    BY <1>6, KindIs, SetsGrow
  <2>3. TrackedAt(p) = AllKey
    BY <1>0, <1>6 DEF TrackedAt
  <2> HIDE DEF g, t, b, kinds, keys, goldens, key, r, w, unit
  <2>4. PICK q \in Nat : \E m \in 0..q-1 : m >= 1 /\ Around(unit, o, c, m, q)
    BY <2>1 DEF CodedUnit
  <2>5. PICK m \in 1..q-1 : Around(unit, o, c, m, q)
    <3> HIDE DEF o, c
    <3> QED
      BY <2>4
  <2>6. GoodKey(key)
    BY <2>1
  <2>7. w = Walked(sh, AllKey, Seen, Append(kinds, KeyKind), keys \cup {p}, goldens)
    BY <1>2, <1>3, <2>2, <2>3
  <2>8. WalkUnit(r, unit) = w
    BY <1>1, <1>3, <1>4, <1>9, <2>5, <2>6, <2>7, KeyUnitWalked, SMTT(30)
  <2> QED
    BY <2>8 DEF r, w, unit
<1>7. CASE tus[p].kind = "golden"
  <2> DEFINE o == HeaderObu(sh)
             c == CodedObu(f)
  <2>1. GoodGolden(f) /\ f.ft \in FrameTypes /\ CodedUnit(unit, f, 0)
    BY <1>7, UnitIs
  <2>2. KindOf(p) = GoldenKind(f) /\ KeysTo(p) = keys /\ GoldensTo(p) = goldens \cup {p}
    BY <1>7, KindIs, SetsGrow
  <2>3. TrackedAt(p) = AllKeyBut(Refresh(f))
    BY <1>0, <1>7 DEF TrackedAt
  <2>4. p > 1 /\ tus[p - 1].kind = "key"
    BY <1>0, <1>7 DEF Grammar
  <2>5. p - 1 # 0
    BY <1>0, <2>4
  <2>6. g = sh /\ t = AllKey
    BY <2>4, <2>5 DEF HeaderAt, TrackedAt
  <2> HIDE DEF g, t, b, kinds, keys, goldens, f, r, w, unit
  <2>7. PICK q \in Nat : \E m \in 0..q-1 : Around(unit, o, c, m, q)
    BY <2>1 DEF CodedUnit
  <2>8. PICK m \in 0..q-1 : Around(unit, o, c, m, q)
    BY <2>7
  <2>9. r = Walked(sh, AllKey, b, kinds, keys, goldens)
    BY <1>1, <2>6
  <2>10. w = Walked(sh, AllKeyBut(Refresh(f)), Seen, Append(kinds, GoldenKind(f)),
                    keys, goldens \cup {p})
    BY <1>2, <1>3, <2>2, <2>3
  <2>11. WalkUnit(r, unit) = w
    BY <1>3, <1>4, <1>9, <2>1, <2>8, <2>9, <2>10, GoldenUnitWalked, SMTT(30)
  <2> QED
    BY <2>11 DEF r, w, unit
<1>8. CASE tus[p].kind = "show"
  <2> DEFINE s == prepped[n].slot
  <2>1. unit = <<ShowObu(s)>>
    BY <1>8, UnitIs
  <2>2. KindOf(p) = ReshowKind /\ KeysTo(p) = keys /\ GoldensTo(p) = goldens
    BY <1>8, KindIs, SetsGrow
  <2>3. p > 1 /\ tus[p - 1].kind # "key" /\ tus[p - 1].seg = n
    BY <1>0, <1>8 DEF Grammar
  <2>4. p - 1 # 0
    BY <1>0, <2>3
  <2>5. t = AllKeyBut(Refresh(f)) /\ TrackedAt(p) = t
    BY <1>0, <1>8, <2>3, <2>4 DEF TrackedAt
  <2>6. s \in Refresh(f) /\ s \in Slots
    <3>1. prepped[n].slot \in prepped[n].refresh /\ prepped[n].slot \in Slots
      BY <1>0, <1>5, PreparedFields DEF Stage
    <3>2. prepped[n].refresh = Refresh(f)
      BY <1>5 DEF Finished, Accepted, AcceptedAt
    <3> QED
      BY <3>1, <3>2
  <2>7. Unset(t, s)
    BY <2>5, <2>6 DEF AllKeyBut, Unset
  <2>8. g = sh /\ b = Seen
    BY <2>4 DEF HeaderAt, AnyAt, Seen
  <2> HIDE DEF g, t, b, kinds, keys, goldens, f, s, r, w, unit
  <2>9. r = Walked(sh, t, Seen, kinds, keys, goldens)
    BY <1>1, <2>8
  <2>10. w = Walked(sh, t, Seen, Append(kinds, ReshowKind), keys, goldens)
    BY <1>2, <1>3, <2>2, <2>5, <2>8
  <2>11. WalkUnit(r, unit) = w
    BY <1>3, <1>4, <2>1, <2>7, <2>8, <2>9, <2>10, ShowUnitWalked, SMTT(30)
  <2> QED
    BY <2>11 DEF r, w, unit
<1> QED
  BY <1>5, <1>6, <1>7, <1>8

LEMMA ReportIs == ASSUME Finished PROVE Report = ReportAt(Len(tus))
<1> DEFINE L == Len(tus)
           S == {Written[p] : p \in 1..L}
           Q == {<<p, ReportAt(p)>> : p \in 0..L}
<1>1. L \in Nat /\ DOMAIN tus = 1..L
  BY LenProperties DEF Finished, IInv, TypeOK
<1>2. Written \in Seq(S) /\ Len(Written) = L
  <2>1. Written \in [1..L -> S] /\ DOMAIN Written = 1..L
    BY <1>1 DEF Written
  <2> HIDE DEF S, L
  <2>2. Written \in Seq(S)
    BY <1>1, <2>1, SeqDef
  <2> QED
    BY <1>1, <2>1, <2>2, LenProperties
<1>3. Inspector!Blank = ReportAt(0)
  <2>1. KindsTo(0) = <<>>
    <3>1. KindsTo(0) \in Seq({}) /\ Len(KindsTo(0)) = 0
      <4>1. KindsTo(0) \in [1..0 -> {}] /\ DOMAIN KindsTo(0) = 1..0
        BY DEF KindsTo
      <4>2. KindsTo(0) \in Seq({})
        BY <4>1, SeqDef
      <4> QED
        BY <4>1, <4>2, LenProperties
    <3> QED
      BY <3>1, EmptySeq
  <2>2. KeysTo(0) = {} /\ GoldensTo(0) = {}
    BY DEF KeysTo, GoldensTo
  <2>3. HeaderAt(0) = NoHeader /\ TrackedAt(0) = [s \in Slots |-> FALSE] /\ AnyAt(0) = FALSE
    BY DEF HeaderAt, TrackedAt, AnyAt
  <2>4. ReportAt(0) = Walked(NoHeader, [s \in Slots |-> FALSE], FALSE, <<>>, {}, {})
    BY <2>1, <2>2, <2>3 DEF ReportAt
  <2> QED
    BY <2>4, Zenon DEF Inspector!Blank, Walked
<1>4. <<0, ReportAt(0)>> \in Q
  <2>1. 0 \in 0..L
    BY <1>1
  <2> QED
    BY <2>1
<1>5. \A k \in 1..Len(Written) : \A a :
        <<k - 1, a>> \in Q => <<k, WalkUnit(a, Written[k])>> \in Q
  <2> SUFFICES ASSUME NEW k \in 1..L, NEW a, <<k - 1, a>> \in Q
               PROVE  <<k, WalkUnit(a, Written[k])>> \in Q
    BY <1>2
  <2>1. a = ReportAt(k - 1) /\ k \in 0..L
    BY <1>1
  <2>2. WalkUnit(ReportAt(k - 1), Written[k]) = ReportAt(k)
    BY ReportStep
  <2> QED
    BY <2>1, <2>2
<1> DEFINE w == UnitWalk!FoldLeft(WalkUnit, Inspector!Blank, Written)
<1>6. <<L, w>> \in Q
  <2> DEFINE blank == Inspector!Blank
  <2>1. <<0, blank>> \in Q
    BY <1>3, <1>4
  <2> HIDE DEF Q, S, L, blank
  <2>2. <<Len(Written), UnitWalk!FoldLeft(WalkUnit, blank, Written)>> \in Q
    BY <1>2, <1>5, <2>1, UnitWalk!FoldInvariant
  <2> QED
    BY <1>2, <2>2 DEF blank
<1>7. Report = w
  BY ReportFold
<1> HIDE DEF w, L
<1> QED
  BY <1>6, <1>7 DEF L

(* The checks on that report. *)
LEMMA Agrees ==
  ASSUME Finished, 1 \in 1..Len(tus), tus[1].kind = "key",
         \A n \in DOMAIN segs : Pairable(segs[n].golden)
  PROVE  /\ Inspector!Passes(Report)
         /\ Report.keyTus = {p \in 1..Len(tus) : tus[p].kind = "key"}
         /\ Report.goldenTus = {p \in 1..Len(tus) : tus[p].kind = "golden"}
<1> DEFINE L == Len(tus)
           r == Report
<1>1. r = Walked(HeaderAt(L), TrackedAt(L), AnyAt(L), KindsTo(L), KeysTo(L), GoldensTo(L))
  BY ReportIs DEF ReportAt
<1>2. L \in Nat /\ L # 0
  BY LenProperties DEF Finished, IInv, TypeOK
<1>3. /\ ~ r.failed /\ r.sh = sh /\ r.kinds = KindsTo(L)
      /\ r.keyTus = KeysTo(L) /\ r.goldenTus = GoldensTo(L)
  <2>1. HeaderAt(L) = sh
    BY <1>2 DEF HeaderAt
  <2> HIDE DEF r, L
  <2> QED
    BY <1>1, <2>1 DEF Walked
<1>4. sh # NoHeader
  BY HeaderIs DEF Settled, Finished
<1>5. DOMAIN r.kinds = 1..L /\ \A n \in 1..L : r.kinds[n] = KindOf(n)
  BY <1>3 DEF KindsTo
<1> HIDE DEF r
<1>6. r.kinds # <<>> /\ r.kinds[1] = KeyKind
  <2>1. KindOf(1) = KeyKind
    BY KindIs
  <2>2. 1 \in DOMAIN r.kinds
    BY <1>5
  <2>3. r.kinds # <<>>
    BY <2>2
  <2> QED
    BY <1>5, <2>1, <2>3
<1>7. \A n \in 1..L : \/ r.kinds[n] = KeyKind /\ tus[n].kind = "key"
                      \/ r.kinds[n] = GoldenKind(segs[tus[n].seg].golden) /\ tus[n].kind = "golden"
                      \/ r.kinds[n] = ReshowKind /\ tus[n].kind = "show"
  BY <1>5, KindIs, UnitIs
<1>8. Inspector!Analyzed(r) /\ Inspector!FirstIsKey(r)
  BY <1>3, <1>4, <1>6 DEF Inspector!Analyzed, Inspector!FirstIsKey, KeyKind
<1>14. ASSUME NEW n \in DOMAIN r.kinds
       PROVE  /\ r.kinds[n].is = "show" => ~ r.kinds[n].wasKey
              /\ r.kinds[n].is = "coded" => r.kinds[n].shown
  <2> DEFINE k == r.kinds[n]
  <2>1. CASE k = KeyKind
    <3>1. KeyKind.is = "coded" /\ KeyKind.shown
      BY DEF KeyKind
    <3> QED
      BY <2>1, <3>1
  <2>2. CASE k = GoldenKind(segs[tus[n].seg].golden)
    <3>1. \A f : GoldenKind(f).is = "coded" /\ GoldenKind(f).shown
      BY DEF GoldenKind
    <3> QED
      BY <2>2, <3>1
  <2>3. CASE k = ReshowKind
    <3>1. ReshowKind.is = "show" /\ ~ ReshowKind.wasKey
      BY DEF ReshowKind
    <3> QED
      BY <2>3, <3>1
  <2> QED
    BY <1>5, <1>7, <2>1, <2>2, <2>3
<1>9. Inspector!NoKeyReshown(r)
  BY <1>14 DEF Inspector!NoKeyReshown
<1>10. Inspector!EveryUnitShows(r)
  BY <1>14 DEF Inspector!EveryUnitShows
<1>11. Inspector!GoldensInter(r)
  <2> SUFFICES ASSUME NEW n \in r.goldenTus
               PROVE  /\ r.kinds[n].is = "coded" /\ r.kinds[n].ft \in {"INTER", "SWITCH"}
                      /\ r.kinds[n].showable
    BY DEF Inspector!GoldensInter
  <2>1. n \in 1..L /\ tus[n].kind = "golden"
    BY <1>3 DEF GoldensTo
  <2> DEFINE f == segs[tus[n].seg].golden
  <2>2. r.kinds[n] = GoldenKind(f)
    BY <1>7, <2>1
  <2>3. f.ft \in FrameTypes /\ GoodGolden(f) /\ tus[n].seg \in 1..Len(segs)
    BY <2>1, UnitIs
  <2>4. Pairable(f)
    <3>1. segs \in Seq(SegmentType)
      BY InputTypes DEF Finished, IInv
    <3> QED
      BY <2>3, <3>1, LenProperties
  <2>5. f.ft \in {"INTER", "SWITCH"}
    BY <2>3, <2>4 DEF FrameTypes, GoodGolden, Pairable
  <2> HIDE DEF f
  <2> QED
    BY <2>2, <2>5 DEF GoldenKind
<1>12. r.keyTus # {}
  <2>1. 1 \in KeysTo(L)
    BY <1>2 DEF KeysTo
  <2> QED
    BY <1>3, <2>1
<1>13. Inspector!Passes(r)
  BY <1>8, <1>9, <1>10, <1>11, <1>12 DEF Inspector!Passes
<1> QED
  BY <1>3, <1>13 DEF r, KeysTo, GoldensTo

(* What assemble_multi writes passes every check of `info --check`, and    *)
(* the inspector finds exactly the keyframes and goldens that were written *)
(* ("The invariant checks `stillcast` streams must satisfy",               *)
(* inspect.rs:240-242).                                                    *)
THEOREM InspectorPasses == PSpec => []InspectorAgrees
<1>1. IInv /\ Fits /\ Accepted => InspectorAgrees
  <2> SUFFICES ASSUME IInv, Fits, Accepted, phase = "done", OneHeader,
                      \A n \in DOMAIN segs : Pairable(segs[n].golden)
               PROVE  /\ Inspector!Passes(Report)
                      /\ Report.keyTus = KeyPositions
                      /\ Report.goldenTus = {p \in DOMAIN tus : tus[p].kind = "golden"}
    BY DEF InspectorAgrees
  <2>1. Finished
    BY DEF Finished
  <2>2. Len(tus) \in Nat /\ DOMAIN tus = 1..Len(tus)
    BY LenProperties DEF IInv, TypeOK
  <2>3. Len(tus) = Total /\ tus[1].kind = "key" /\ Total >= 2
    BY FramesThere DEF OneTuPerFrame, Fits
  <2>4. 1 \in 1..Len(tus)
    BY <2>2, <2>3
  <2>5. KeyPositions = {p \in DOMAIN tus : tus[p].kind = "key"}
    BY SamplesListed DEF KeySamplesExact
  <2> QED
    BY <2>1, <2>2, <2>3, <2>4, <2>5, Agrees
<1> QED
  BY <1>1, Inductive, FitsAlways, AcceptedAlways, PTL
===============================================================================
