-------------------------------- MODULE Headers --------------------------------
(***************************************************************************)
(* The headers of one image on their way through assemble_multi: its       *)
(* sequence header is parsed, rewritten and emitted, then its keyframe and *)
(* its golden are walked, spliced where the decoder model asks for it, and *)
(* read again the way a reader of the output does: under the emitted       *)
(* sequence header and against the slots of the output.                    *)
(***************************************************************************)
EXTENDS FrameHeader

CONSTANTS
  HeaderInputs,  \* values of the syntax elements of a sequence header
  KeyInputs(_),    \* of a frame header in a key TU, under a sequence header
  GoldenInputs(_), \* of a frame header in a golden TU
  RateNum, RateDen  \* the rate the caller asks for

(* Elements have the types of the code; the removal flag, which only a     *)
(* header with a decoder model codes, is absent without one.               *)
ASSUME HeadersAssumption ==
  /\ RateNum \in Nat /\ RateDen \in Nat
  /\ HeaderInputs \subseteq SequenceHeader
  /\ \A h \in HeaderInputs : \A c \in KeyInputs(h) \cup GoldenInputs(h) :
       c \in FrameElements /\ (c.removal_time_present => HasModel(h))

VARIABLES
  phase,        \* "parse", "settle", "key", "golden", "done", "error"
  raw,          \* the elements of the sequence header as coded
  sh,           \* the parsed header
  emitted,      \* the header that is written to the output
  decoderModel, \* the caller's choice
  inDpb,        \* the slots the scanner tracks
  outDpb,       \* the slots of a reader of the output
  altQ,         \* a decoder's saved quantizer features, by slot
  walk          \* the frame header walked last, and its fields in the output

vars == <<phase, raw, sh, emitted, decoderModel, inDpb, outDpb, altQ, walk>>

NoWalk == [kind |-> "none"]

NoAltQ == [seg \in Segments |-> 0]

Init ==
  /\ phase = "parse"
  /\ raw \in HeaderInputs /\ decoderModel \in BOOLEAN
  /\ sh = raw /\ emitted = raw
  /\ inDpb = DefaultDpb /\ outDpb = DefaultDpb
  /\ altQ = [s \in Slots |-> NoAltQ] /\ walk = NoWalk

(* check_supported. *)
Supported(h) == /\ ~ h.reduced_still_picture_header /\ ~ h.frame_id_numbers_present
                /\ ~ NeedsTemporalPoint(h) /\ ~ h.film_grain_params_present

ParseHeader ==
  /\ phase = "parse"
  /\ IF Parses(raw)
     THEN /\ sh' = ParseSequenceHeader(raw)
          /\ phase' = IF Supported(sh') THEN "settle" ELSE "error"
     ELSE phase' = "error" /\ UNCHANGED sh
  /\ UNCHANGED <<raw, emitted, decoderModel, inDpb, outDpb, altQ, walk>>

Rewritten(h) ==
  IF decoderModel
  THEN WithDecoderModelRate(h, AtLeast1(RateNum), AtLeast1(RateDen))
  ELSE IF ~ h.timing_info_present
  THEN WithTimingInfoRate(h, AtLeast1(RateNum), AtLeast1(RateDen)) ELSE h

SettleHeader ==
  /\ phase = "settle"
  /\ IF decoderModel /\ VariableInterval(sh)
     THEN phase' = "error" /\ UNCHANGED emitted
     ELSE phase' = "key" /\ emitted' = Rewritten(sh)
  /\ UNCHANGED <<raw, sh, decoderModel, inDpb, outDpb, altQ, walk>>

Splices == decoderModel /\ ~ sh.decoder_model_info_present

(* A decoder's quantizer features: two's complement values, loaded from    *)
(* the primary reference when the header leaves them unchanged.            *)
TwosComplement(n, v) == IF v < 0 THEN -(2^(n-1)) - v ELSE v

DecoderAltQ(c) ==
  IF ~ c.segmentation_enabled THEN NoAltQ
  ELSE IF ~ UpdatesSegments(c) THEN altQ[c.ref_frame_idx[PrimaryRef(c)]]
  ELSE [seg \in Segments |->
          IF <<seg, AltQ>> \in c.features THEN TwosComplement(9, c.feature_value) ELSE 0]

(* tu_insert_removal_flag, or the frame left as it is, and its reading.    *)
Written(c) == IF Splices THEN Spliced(sh, c, inDpb) ELSE ScanFields(sh, c, inDpb)

Accepted(c) == (Splices => ~ ScanRefuses(sh, c)) /\ ~ InfoRefuses(emitted, c)

Walk(c) ==
  /\ walk' = [kind |-> "frame", c |-> c,
              coded   |-> ScanFields(sh, c, inDpb),
              written |-> Written(c),
              reread  |-> ScanFields(emitted, c, outDpb),
              lossless |-> [seg \in Segments |-> Clamp(c.base_q_idx + DecoderAltQ(c)[seg], 0, 255)]]
  /\ inDpb'  = AfterFrame(sh, c, inDpb)
  /\ outDpb' = AfterFrame(emitted, c, outDpb)
  /\ altQ'   = [s \in Slots |-> IF s \in Refresh(c) THEN DecoderAltQ(c) ELSE altQ[s]]
  /\ UNCHANGED <<raw, sh, emitted, decoderModel>>

(* A key TU must hold a shown KEY_FRAME. *)
WalkKey ==
  /\ phase = "key"
  /\ \E c \in KeyInputs(raw) :
       /\ Accepted(c) /\ ResetsDecoder(c)
       /\ phase' = "golden" /\ Walk(c)

(* A golden TU a shown, showable frame that takes a slot. *)
WalkGolden ==
  /\ phase = "golden"
  /\ \E c \in GoldenInputs(raw) :
       /\ Accepted(c) /\ c.show_frame /\ c.frame_type # KEY_FRAME /\ Refresh(c) # {}
       /\ phase' = "done" /\ Walk(c)

Next == ParseHeader \/ SettleHeader \/ WalkKey \/ WalkGolden

Spec == Init /\ [][Next]_vars

-------------------------------------------------------------------------------
(* Properties. *)

(* seq_header.rs promises that a parsed header is emitted bit for bit: the *)
(* header of an input that declares a model already is rebuilt by the      *)
(* emitter and its frame headers are not touched.                          *)
HeaderReEmitted ==
  phase \notin {"parse", "error"} => EmitSequenceHeader(sh) = ParseFields(raw)

(* A rewritten header is read as what it was meant to declare; a field the *)
(* emitter codes under another condition than the parser would shift the   *)
(* rest.                                                                   *)
RewriteReadsBack ==
  phase \in {"key", "golden", "done"} =>
    /\ ParseFields(emitted) = EmitSequenceHeader(emitted)
    /\ ParseSequenceHeader(emitted) = emitted

(* The three readers agree bit by bit on the part of the header they       *)
(* share, so the refresh flags that choose the golden's slot and the       *)
(* references that the inspector reports are those of the full walk.       *)
ParsersAgree ==
  walk.kind = "frame" =>
    /\ IsPrefix(InfoFields(sh, walk.c), walk.coded)
    /\ ~ Intra(walk.c) => IsPrefix(RefSlotFields(sh, walk.c), walk.coded)

(* A frame header of the output, read under the output's sequence header   *)
(* and slots, is the input's with an absent removal time, field by field   *)
(* to its end, and leaves the same slots behind: the flag stands where the *)
(* model wants it, and only in headers that do not code it already.  The   *)
(* bytes of the tiles stay whole behind it, also when the header ended on  *)
(* a byte boundary and so grows by a byte.                                 *)
FramesReadBack ==
  walk.kind = "frame" =>
    /\ walk.written = walk.reread /\ inDpb = outDpb
    /\ Splices => \A tiles \in 0..2 :
         SplicedBytes(Bits(walk.coded), ByteAligned(Bits(walk.coded)) + tiles)
           = ByteAligned(Bits(walk.written)) + tiles

(* The walk and a decoder agree whether the frame is lossless, which       *)
(* decides whether whole groups of fields behind it are coded.             *)
LosslessAsDecoded ==
  walk.kind = "frame" /\ NoDeltas(sh, walk.c) =>
    (CodedLossless(sh, walk.c) <=> \A seg \in Segments : walk.lossless[seg] = 0)

===============================================================================
