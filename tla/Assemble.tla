------------------------------- MODULE Assemble -------------------------------
(***************************************************************************)
(* assemble_multi (assemble.rs): checks the request, settles the sequence  *)
(* header every image must share, validates and rewrites each image's      *)
(* (key TU, golden TU) pair, and emits the long stream                     *)
(*     [K][G][show_existing]* [K][G][show_existing]* ...                   *)
(* chunk by chunk.  Payloads are abstracted to what a decoder tells apart: *)
(* which image a picture is of, which slots a frame refreshes, which       *)
(* header governs it and whether it codes the decoder model's flag.        *)
(***************************************************************************)
EXTENDS Integers, Sequences, FiniteSets

CONSTANTS
  Headers,    \* sequence headers, told apart by their bytes
  Attr,       \* what a header declares: timing, equal interval, model, ok
  NumSlots,   \* reference slots (eight in AV1)
  Playlists,  \* segment lists a caller may pass
  Gops,       \* gop_size values a caller may pass
  MaxTotal,   \* MAX_TOTAL_FRAMES
  MaxU64      \* the largest u64

Slots == 0..NumSlots-1

FrameTypes == {"KEY", "INTER", "INTRA_ONLY", "SWITCH"}

(* The first frame of a TU: a coded frame with its raw header fields, a    *)
(* show_existing_frame, or nothing the parsers accept.                     *)
FrameType == [kind : {"coded", "show", "unparsable"}, ft : FrameTypes,
              shown : BOOLEAN, showable : BOOLEAN, refresh : SUBSET Slots]

(* struct Segment: its key TU and its golden TU, each with the sequence    *)
(* headers it carries, how many of them stand in front of its frame, and   *)
(* the frame; and how long it is shown.                                    *)
SegmentType == [hdrs : Seq(Headers), lead : Nat, key : FrameType,
                goldenHdrs : Seq(Headers), goldenLead : Nat, golden : FrameType,
                frames : Nat]

(* What split_input hands over: a key TU whose frame has a header in front *)
(* of it, and a golden TU that carries none or the key TU's last again     *)
(* (SplitInput, OneHeader).                                                *)
FromSplit(sg) ==
  /\ sg.hdrs # <<>> => sg.lead \in 1..Len(sg.hdrs)
  /\ sg.goldenLead <= Len(sg.goldenHdrs)
  /\ \A k \in DOMAIN sg.goldenHdrs :
        sg.hdrs # <<>> /\ sg.goldenHdrs[k] = sg.hdrs[Len(sg.hdrs)]

(* The header each of the two frames was coded under. *)
KeyUnder(sg)    == sg.hdrs[sg.lead]
GoldenUnder(sg) == IF sg.goldenLead = 0 THEN sg.hdrs[Len(sg.hdrs)]
                   ELSE sg.goldenHdrs[sg.goldenLead]

ASSUME AssembleAssumption ==
  /\ Attr \in [Headers -> [timing : BOOLEAN, equal : BOOLEAN,
                           model : BOOLEAN, ok : BOOLEAN]]
  /\ "none" \notin Headers
  /\ NumSlots \in Nat \ {0}
  /\ Playlists \subseteq Seq({sg \in SegmentType : FromSplit(sg)})
  /\ Gops \subseteq Nat
  /\ MaxTotal \in Nat /\ MaxU64 \in Nat /\ MaxTotal < MaxU64

VARIABLES
  segs, gop, decoderModel,   \* the arguments
  phase,      \* "params", "headers", "prepare", "emit", "done", "error"
  i,          \* the segment a loop is at
  sh,         \* the canonical header: sh_eff and seq_header_obu
  scanDpb,    \* the slots the header scanner tracks across segments
  prepped,    \* the accepted segments, as emitted
  left, goldenEmitted,       \* the emission loop's locals
  tus, keySamples            \* the output

input == <<segs, gop, decoderModel>>
vars  == <<segs, gop, decoderModel, phase, i, sh, scanDpb, prepped,
           left, goldenEmitted, tus, keySamples>>

Min2(a, b) == IF a < b THEN a ELSE b

Slip_WrappingAdd(a, b) == (a + b) % (MaxU64 + 1)

(* u64::saturating_add, folded over the segments' frames. *)
SatAdd(a, b) == Min2(a + b, MaxU64)

TotalTo[n \in Nat] ==
  IF n = 0 THEN 0 ELSE SatAdd(TotalTo[n - 1], segs[n].frames)

Total == TotalTo[Len(segs)]

-------------------------------------------------------------------------------
(* Sequence headers.  A header in the output is an input header with the   *)
(* timing and decoder model the rewrite may have declared.                 *)

Declared(h) == [id |-> h, timing |-> Attr[h].timing, model |-> Attr[h].model]

NoHeader == [id |-> "none", timing |-> FALSE, model |-> FALSE]

Rewrites(h) == decoderModel \/ ~ Attr[h].timing

(* with_decoder_model_rate refuses to declare a model over timing with     *)
(* variable intervals, and leaves a declared model alone.                  *)
RewriteFails(h) == /\ decoderModel /\ ~ Attr[h].model
                   /\ Attr[h].timing /\ ~ Attr[h].equal

Effective(h) == IF Rewrites(h)
                THEN [id |-> h, timing |-> TRUE,
                      model |-> decoderModel \/ Attr[h].model]
                ELSE Declared(h)

Slip_SplicesAlways(h) == decoderModel

(* Every frame header is given a flag unless the canonical header h says   *)
(* that the frames code it already.                                        *)
Splices(h) == decoderModel /\ ~ Attr[h].model

(* The removal flags in the emitted header of a frame coded under header   *)
(* h: its own, and the spliced one.                                        *)
Flags(h) == (IF Attr[h].model THEN 1 ELSE 0) + (IF Splices(sh.id) THEN 1 ELSE 0)

-------------------------------------------------------------------------------
(* Frames and slots. *)

Showable(f) == IF f.shown THEN f.ft # "KEY" ELSE f.showable

Refresh(f) == IF f.ft = "SWITCH" \/ (f.ft = "KEY" /\ f.shown)
              THEN Slots ELSE f.refresh

Slip_SlotAbove(R) == (CHOOSE s \in R : \A t \in R : s <= t) + 1

Lowest(R) == CHOOSE s \in R : \A t \in R : s <= t

Empty     == [kind |-> "empty", seg |-> 0]
KeyPic(n) == [kind |-> "key", seg |-> n]
GoldenPic(n) == [kind |-> "golden", seg |-> n]

Store(d, R, pic) == [s \in Slots |-> IF s \in R THEN pic ELSE d[s]]

(* scan_uncompressed_header: a shown KEY_FRAME resets the tracked slots,   *)
(* then the frame takes the slots it refreshes.                            *)
ScanFrame(d, f, pic) ==
  LET e == IF f.ft = "KEY" /\ f.shown THEN [s \in Slots |-> Empty] ELSE d
  IN  Store(e, Refresh(f), pic)

GoodKey(f) == f.kind = "coded" /\ f.ft = "KEY" /\ f.shown

GoodGolden(f) == /\ f.kind = "coded" /\ f.shown /\ Showable(f) /\ f.ft # "KEY"
                 /\ Refresh(f) # {}

-------------------------------------------------------------------------------
Init ==
  /\ segs \in Playlists /\ gop \in Gops /\ decoderModel \in BOOLEAN
  /\ phase = "params" /\ i = 1 /\ sh = NoHeader
  /\ scanDpb = [s \in Slots |-> Empty]
  /\ prepped = <<>> /\ left = 0 /\ goldenEmitted = FALSE
  /\ tus = <<>> /\ keySamples = <<>>

GoodParams == /\ segs # <<>> /\ gop >= 2 /\ Total >= 2
              /\ \A n \in DOMAIN segs : segs[n].frames >= 1
              /\ Total <= MaxTotal

CheckParams ==
  /\ phase = "params"
  /\ phase' = IF GoodParams THEN "headers" ELSE "error"
  /\ UNCHANGED <<input, i, sh, scanDpb, prepped, left, goldenEmitted, tus, keySamples>>

(* The first header of the first segment is canonical; the last header of  *)
(* every other segment must have its bytes.                                *)
GoodHeaders ==
  /\ segs[1].hdrs # <<>>
  /\ LET h == segs[1].hdrs[1]
     IN  /\ Attr[h].ok
         /\ \A n \in 2..Len(segs) : /\ segs[n].hdrs # <<>>
                                    /\ segs[n].hdrs[Len(segs[n].hdrs)] = h
         /\ ~ RewriteFails(h)

CheckHeaders ==
  /\ phase = "headers"
  /\ IF GoodHeaders
     THEN phase' = "prepare" /\ sh' = Effective(segs[1].hdrs[1])
     ELSE phase' = "error" /\ UNCHANGED sh
  /\ UNCHANGED <<input, i, scanDpb, prepped, left, goldenEmitted, tus, keySamples>>

(* A TU's headers as emitted: each replaced by the rewritten canonical     *)
(* one, or all left as they came.                                          *)
Emitted(hs) == [k \in DOMAIN hs |-> IF Rewrites(sh.id) THEN sh ELSE Declared(hs[k])]

Slip_GoldenHeaderKept(n, context) ==
  [hdrs       |-> Emitted(segs[n].hdrs),
   goldenHdrs |-> [k \in DOMAIN segs[n].goldenHdrs |-> Declared(segs[n].goldenHdrs[k])],
   keyFlags   |-> Flags(KeyUnder(segs[n])), goldenFlags |-> Flags(GoldenUnder(segs[n])),
   spliced    |-> Splices(sh.id), context |-> context,
   refresh    |-> Refresh(segs[n].golden),
   slot       |-> Lowest(Refresh(segs[n].golden)), frames |-> segs[n].frames]

(* The emitted form of segment n.  `context` is what the scanner believed  *)
(* the slots held when it measured the golden's header.                    *)
Prepared(n, context) ==
  [hdrs       |-> Emitted(segs[n].hdrs), goldenHdrs |-> Emitted(segs[n].goldenHdrs),
   keyFlags   |-> Flags(KeyUnder(segs[n])), goldenFlags |-> Flags(GoldenUnder(segs[n])),
   spliced    |-> Splices(sh.id), context |-> context,
   refresh    |-> Refresh(segs[n].golden),
   slot       |-> Lowest(Refresh(segs[n].golden)), frames |-> segs[n].frames]

PrepareSegment ==
  /\ phase = "prepare" /\ i <= Len(segs)
  /\ LET key     == segs[i].key
         golden  == segs[i].golden
         context == IF Splices(sh.id) THEN ScanFrame(scanDpb, key, KeyPic(i))
                                      ELSE scanDpb
     IN  IF GoodKey(key) /\ GoodGolden(golden)
         THEN /\ prepped' = Append(prepped, Prepared(i, context))
              /\ scanDpb' = IF Splices(sh.id)
                            THEN ScanFrame(context, golden, GoldenPic(i)) ELSE context
              /\ i' = i + 1 /\ UNCHANGED phase
         ELSE phase' = "error" /\ UNCHANGED <<prepped, scanDpb, i>>
  /\ UNCHANGED <<input, sh, left, goldenEmitted, tus, keySamples>>

BeginEmission ==
  /\ phase = "prepare" /\ i = Len(segs) + 1
  /\ phase' = "emit" /\ i' = 1
  /\ left' = prepped[1].frames /\ goldenEmitted' = FALSE
  /\ UNCHANGED <<input, sh, scanDpb, prepped, tus, keySamples>>

-------------------------------------------------------------------------------
Tu(kind, n) == [kind |-> kind, seg |-> n]

Slip_ChunkUncut == left

Slip_ChunkUncapped == gop

Chunk == Min2(left, gop)

(* The TUs of one chunk: the key, the golden, then re-shows of it. *)
GopTUs(n, len) ==
  [p \in 1..len |-> Tu(IF p = 1 THEN "key" ELSE IF p = 2 THEN "golden" ELSE "show", n)]

(* A trailing single frame re-shows the golden instead of costing a key. *)
EmitTail ==
  /\ phase = "emit" /\ left > 0 /\ Chunk = 1 /\ goldenEmitted
  /\ tus' = Append(tus, Tu("show", i))
  /\ left' = 0
  /\ UNCHANGED <<input, phase, i, sh, scanDpb, prepped, goldenEmitted, keySamples>>

Slip_ZeroBasedSamples ==
  /\ phase = "emit" /\ left > 0 /\ ~ (Chunk = 1 /\ goldenEmitted)
  /\ keySamples' = Append(keySamples, Len(tus))
  /\ tus' = tus \o GopTUs(i, Chunk)
  /\ goldenEmitted' = (goldenEmitted \/ Chunk >= 2)
  /\ left' = left - Chunk
  /\ UNCHANGED <<input, phase, i, sh, scanDpb, prepped>>

EmitGop ==
  /\ phase = "emit" /\ left > 0 /\ ~ (Chunk = 1 /\ goldenEmitted)
  /\ keySamples' = Append(keySamples, Len(tus) + 1)
  /\ tus' = tus \o GopTUs(i, Chunk)
  /\ goldenEmitted' = (goldenEmitted \/ Chunk >= 2)
  /\ left' = left - Chunk
  /\ UNCHANGED <<input, phase, i, sh, scanDpb, prepped>>

Slip_GoldenOfBefore ==
  /\ phase = "emit" /\ left = 0 /\ i < Len(segs)
  /\ i' = i + 1 /\ left' = prepped[i + 1].frames
  /\ UNCHANGED <<input, phase, sh, scanDpb, prepped, goldenEmitted, tus, keySamples>>

NextSegment ==
  /\ phase = "emit" /\ left = 0 /\ i < Len(segs)
  /\ i' = i + 1 /\ left' = prepped[i + 1].frames /\ goldenEmitted' = FALSE
  /\ UNCHANGED <<input, phase, sh, scanDpb, prepped, tus, keySamples>>

Finish ==
  /\ phase = "emit" /\ left = 0 /\ i = Len(segs)
  /\ phase' = "done"
  /\ UNCHANGED <<input, i, sh, scanDpb, prepped, left, goldenEmitted, tus, keySamples>>

Step == \/ CheckParams \/ CheckHeaders \/ PrepareSegment \/ BeginEmission
        \/ EmitTail \/ EmitGop \/ NextSegment \/ Finish

Spec == Init /\ [][Step]_vars

===============================================================================
