------------------------------ MODULE FrameHeader ------------------------------
(***************************************************************************)
(* The uncompressed frame header (uheader.rs) as three readers see it: the *)
(* full walk of scan_uncompressed_header, the short one of                 *)
(* parse_frame_header_info (frame_header.rs) and the one of                *)
(* inter_ref_slots (inspect.rs); and the splice that puts the flag of the  *)
(* decoder model into a header that has been walked.                       *)
(*                                                                         *)
(* As in SeqHeader, `c` holds a value for every syntax element, and what a *)
(* reader reads is a sequence of fields that depends on the sequence       *)
(* header sh, on earlier elements and, in the full walk, on the slots dpb. *)
(***************************************************************************)
EXTENDS SeqHeader

KEY_FRAME        == 0
INTER_FRAME      == 1
INTRA_ONLY_FRAME == 2
SWITCH_FRAME     == 3

PRIMARY_REF_NONE == 7
Slots            == 0..7
Refs             == 0..6     \* REFS_PER_FRAME
Segments         == 0..7

(* A shift by k; the provers know of ^ only that it is an integer. *)
Pow2[k \in Nat] == IF k = 0 THEN 1 ELSE 2 * Pow2[k - 1]

MaxOf(a, b) == IF a > b THEN a ELSE b
MinOf(a, b) == IF a < b THEN a ELSE b
Clamp(x, lo, hi) == MaxOf(lo, MinOf(x, hi))

(* RefSlot: what a header may later be read against. *)
NoSlot == [order_hint |-> 0, upscaled_width |-> 0, frame_width |-> 0, frame_height |-> 0,
           render_width |-> 0, render_height |-> 0, is_key_frame |-> FALSE]

DefaultDpb == [s \in Slots |-> NoSlot]

(* su(n) as the code reads it: a sign and n - 1 bits of magnitude. *)
Su(n, v) == F(n, IF v < 0 THEN 2^(n-1) - v ELSE v)

(* ns(n): w - 1 or w bits, by the value. *)
Ns(n, v) == LET w == Log2(n) + 1
            IN  IF v < 2^w - n THEN F(w - 1, v) ELSE F(w, v + 2^w - n)

(* The first k that reaches the target: as many as do not.  A coded size   *)
(* has at most 16 bits, and so does what is asked of k.                    *)
TileLog2(blk, target) == Cardinality({k \in 0..16 : blk * 2^k < target})

(* `more` further steps are coded before the value, as far as they go. *)
DecodeSubexp(numSyms, more) ==
  LET mk(k) == IF k = 0 THEN 0 ELSE 2^(k + 2)
      b2(k) == IF k = 0 THEN 3 ELSE k + 2
      last  == Cardinality({k \in 0..20 : numSyms > mk(k) + 3 * 2^b2(k)})
      steps == MinOf(more, last)
      ones  == [k \in 1..steps |-> [n |-> 1, v |-> 1]]
  IN  ones \o (IF steps = last THEN Ns(MaxOf(numSyms - mk(last), 1), 0)
               ELSE Flag(FALSE) \o F(b2(steps), 0))

-------------------------------------------------------------------------------
(* The elements.  A size is coded less one; found_ref is 7 when no         *)
(* reference is taken; filter_deltas are the deltas that are updated.      *)

FrameElements ==
  [frame_type : 0..3, show_frame : BOOLEAN, presentation_time : Nat,
   showable_frame : BOOLEAN, error_resilient : BOOLEAN, disable_cdf_update : BOOLEAN,
   allow_screen_content_tools : BOOLEAN, force_integer_mv : BOOLEAN,
   frame_size_override_flag : BOOLEAN, order_hint : Nat, primary_ref_frame : 0..7,
   removal_time_present : BOOLEAN, refresh_frame_flags : SUBSET Slots,
   use_superres : BOOLEAN, coded_denom : 0..7, width : Nat \ {0}, height : Nat \ {0},
   render_differs : BOOLEAN, render_width : Nat \ {0}, render_height : Nat \ {0},
   found_ref : 0..7, allow_intrabc : BOOLEAN, frame_refs_short_signaling : BOOLEAN,
   ref_frame_idx : [Refs -> Slots], allow_high_precision_mv : BOOLEAN,
   is_filter_switchable : BOOLEAN, is_motion_mode_switchable : BOOLEAN,
   use_ref_frame_mvs : BOOLEAN, disable_end_update : BOOLEAN, uniform_tiles : BOOLEAN,
   tile_cols_log2 : Nat, tile_rows_log2 : Nat, tile_width : Nat \ {0},
   tile_height : Nat \ {0}, base_q_idx : Nat, delta_q_y_dc : Int, delta_q_u_dc : Int,
   delta_q_u_ac : Int, delta_q_v_dc : Int, delta_q_v_ac : Int, diff_uv_delta : BOOLEAN,
   using_qmatrix : BOOLEAN, segmentation_enabled : BOOLEAN,
   segmentation_update_map : BOOLEAN, segmentation_update_data : BOOLEAN,
   features : SUBSET (Segments \X (0..7)), feature_value : Int, delta_q_present : BOOLEAN,
   delta_lf_present : BOOLEAN, filter_level : Nat, filter_delta_enabled : BOOLEAN,
   filter_delta_update : BOOLEAN, filter_deltas : SUBSET (1..10), cdef_bits : 0..3,
   lr_luma : 0..3, lr_chroma : 0..3, lr_unit_shift : BOOLEAN, tx_mode_select : BOOLEAN,
   reference_select : BOOLEAN, skip_mode_present : BOOLEAN, allow_warped_motion : BOOLEAN,
   reduced_tx_set : BOOLEAN, gm_type : [Refs -> 0..3], subexp_more : Nat]

-------------------------------------------------------------------------------
(* What the elements mean. *)

Intra(c) == c.frame_type \in {KEY_FRAME, INTRA_ONLY_FRAME}

ResetsDecoder(c) == c.frame_type = KEY_FRAME /\ c.show_frame

(* A SWITCH_FRAME and a shown KEY_FRAME code neither their error           *)
(* resilience nor their refresh flags.                                     *)
Forced(c) == c.frame_type = SWITCH_FRAME \/ ResetsDecoder(c)

ErrorResilient(c) == Forced(c) \/ c.error_resilient

Showable(c) == IF c.show_frame THEN c.frame_type # KEY_FRAME ELSE c.showable_frame

ScreenContent(sh, c) == IF sh.seq_force_screen_content_tools = SELECT
                        THEN c.allow_screen_content_tools
                        ELSE sh.seq_force_screen_content_tools = 1

ForceIntegerMv(sh, c) ==
  \/ Intra(c)
  \/ /\ ScreenContent(sh, c)
     /\ IF sh.seq_force_integer_mv = SELECT THEN c.force_integer_mv
        ELSE sh.seq_force_integer_mv = 1

SizeOverride(c) == c.frame_type = SWITCH_FRAME \/ c.frame_size_override_flag

PrimaryRef(c) == IF Intra(c) \/ ErrorResilient(c) THEN PRIMARY_REF_NONE ELSE c.primary_ref_frame

Refresh(c) == IF Forced(c) THEN Slots ELSE c.refresh_frame_flags

FlagsValue(R) == LET upto[k \in 0..8] == IF k = 0 THEN 0
                                         ELSE upto[k-1] + (IF (k-1) \in R THEN 2^(k-1) ELSE 0)
                 IN  upto[8]

Hint(sh, c) == c.order_hint % 2^sh.order_hint_bits

NeedsTemporalPoint(sh) == sh.decoder_model_info_present /\ ~ sh.equal_picture_interval

NumPlanes(sh) == IF sh.mono_chrome THEN 1 ELSE 3

-------------------------------------------------------------------------------
(* The walk up to the place where the decoder model's flag stands. *)

BeforeRemoval(sh, c) ==
  Flag(FALSE) \o F(2, c.frame_type) \o Flag(c.show_frame)
  \o When(c.show_frame /\ NeedsTemporalPoint(sh),
          F(sh.frame_presentation_time_length_minus_1 + 1, c.presentation_time))
  \o When(~ c.show_frame, Flag(c.showable_frame))
  \o When(~ Forced(c), Flag(c.error_resilient))
  \o Flag(c.disable_cdf_update)
  \o When(sh.seq_force_screen_content_tools = SELECT, Flag(c.allow_screen_content_tools))
  \o When(ScreenContent(sh, c) /\ sh.seq_force_integer_mv = SELECT, Flag(c.force_integer_mv))
  \o When(c.frame_type # SWITCH_FRAME, Flag(c.frame_size_override_flag))
  \o F(sh.order_hint_bits, Hint(sh, c))
  \o When(~ Intra(c) /\ ~ ErrorResilient(c), F(3, c.primary_ref_frame))

(* A removal time for each operating point that has a model. *)
Removal(sh, c) ==
  When(sh.decoder_model_info_present,
       Flag(c.removal_time_present)
       \o When(c.removal_time_present,
               FlattenSeq([k \in DOMAIN sh.operating_points |->
                 When(sh.operating_points[k].decoder_model_present,
                      F(sh.buffer_removal_time_length_minus_1 + 1, k))])))

RefreshFlags(c) == When(~ Forced(c), F(8, FlagsValue(c.refresh_frame_flags)))

RefOrderHints(sh, c) ==
  When(/\ ~ Intra(c) \/ Refresh(c) # Slots
       /\ ErrorResilient(c) /\ sh.enable_order_hint,
       [k \in 1..8 |-> [n |-> sh.order_hint_bits, v |-> 0]])

-------------------------------------------------------------------------------
(* Frame size.  A frame is stored with the size it is upscaled to. *)

Denom(sh, c) == IF sh.enable_superres /\ c.use_superres THEN c.coded_denom + 9 ELSE 8

Scaled(sh, c, upscaled) == (upscaled * 8 + Denom(sh, c) \div 2) \div Denom(sh, c)

SuperresParams(sh, c) ==
  When(sh.enable_superres, Flag(c.use_superres) \o When(c.use_superres, F(3, c.coded_denom)))

FrameSize(sh, c) ==
  When(SizeOverride(c), F(sh.frame_width_bits_minus_1 + 1, c.width - 1)
                        \o F(sh.frame_height_bits_minus_1 + 1, c.height - 1))
  \o SuperresParams(sh, c)

RenderSize(c) == Flag(c.render_differs)
                 \o When(c.render_differs, F(16, c.render_width - 1) \o F(16, c.render_height - 1))

WithRefs(c) == ~ Intra(c) /\ SizeOverride(c) /\ ~ ErrorResilient(c)

(* found_ref is coded for each reference until one is taken. *)
FrameSizeWithRefs(sh, c) ==
  IF c.found_ref \in Refs
  THEN [k \in 1..(c.found_ref + 1) |-> [n |-> 1, v |-> IF k > c.found_ref THEN 1 ELSE 0]]
       \o SuperresParams(sh, c)
  ELSE [k \in 1..7 |-> [n |-> 1, v |-> 0]] \o FrameSize(sh, c) \o RenderSize(c)

SizeOf(sh, c, dpb) ==
  LET fromRef == WithRefs(c) /\ c.found_ref \in Refs
      slot    == dpb[c.ref_frame_idx[c.found_ref]]
      up      == IF fromRef THEN slot.upscaled_width
                 ELSE IF SizeOverride(c) THEN c.width ELSE sh.max_frame_width
      height  == IF fromRef THEN slot.frame_height
                 ELSE IF SizeOverride(c) THEN c.height ELSE sh.max_frame_height
  IN  [upscaled_width |-> up, frame_width |-> Scaled(sh, c, up), frame_height |-> height,
       render_width  |-> IF fromRef THEN slot.render_width
                         ELSE IF c.render_differs THEN c.render_width ELSE up,
       render_height |-> IF fromRef THEN slot.render_height
                         ELSE IF c.render_differs THEN c.render_height ELSE height]

CodesIntrabc(sh, c, size) == /\ Intra(c) /\ ScreenContent(sh, c)
                             /\ size.upscaled_width = size.frame_width

Intrabc(sh, c, size) == CodesIntrabc(sh, c, size) /\ c.allow_intrabc

RefFields(sh, c) ==
  When(sh.enable_order_hint, Flag(c.frame_refs_short_signaling))
  \o [k \in 1..7 |-> [n |-> 3, v |-> c.ref_frame_idx[k - 1]]]

SizeAndRefs(sh, c, size) ==
  IF Intra(c)
  THEN FrameSize(sh, c) \o RenderSize(c)
       \o When(CodesIntrabc(sh, c, size), Flag(c.allow_intrabc))
  ELSE RefFields(sh, c)
       \o (IF WithRefs(c) THEN FrameSizeWithRefs(sh, c) ELSE FrameSize(sh, c) \o RenderSize(c))
       \o When(~ ForceIntegerMv(sh, c), Flag(c.allow_high_precision_mv))
       \o Flag(c.is_filter_switchable) \o When(~ c.is_filter_switchable, F(2, 0))
       \o Flag(c.is_motion_mode_switchable)
       \o When(~ ErrorResilient(c) /\ sh.enable_ref_frame_mvs, Flag(c.use_ref_frame_mvs))

-------------------------------------------------------------------------------
(* Tiles.  Lengths are in superblocks. *)

TileLimits(sh, size) ==
  LET mi    == IF sh.use_128x128_superblock THEN 32 ELSE 16
      sb(px) == (2 * ((px + 7) \div 8) + mi - 1) \div mi
      cols  == sb(size.frame_width)
      rows  == sb(size.frame_height)
      width == 4096 \div (4 * mi)
      minCols == TileLog2(width, cols)
  IN  [cols |-> cols, rows |-> rows, width |-> width, minCols |-> minCols,
       maxCols  |-> TileLog2(1, MinOf(cols, 64)),
       maxRows  |-> TileLog2(1, MinOf(rows, 64)),
       minTiles |-> MaxOf(minCols,
                          TileLog2((4096 * 2304) \div (4 * mi * 4 * mi), rows * cols))]

(* One increment bit per doubling, and a zero unless the limit is reached. *)
Increments(from, to, limit) ==
  [k \in 1..(to - from) |-> [n |-> 1, v |-> 1]] \o When(to < limit, Flag(FALSE))

(* Tiles of `want` superblocks in a row, each at most `most`. *)
TileSizes(total, most, want) ==
  LET step  == MinOf(want, most)
      count == (total + step - 1) \div step
  IN  [k \in 1..count |->
         LET left == total - (k - 1) * step
         IN  Ns(MinOf(left, most), MinOf(left, step) - 1)[1]]

UniformLog2(c, t) ==
  LET cols == Clamp(c.tile_cols_log2, t.minCols, MaxOf(t.minCols, t.maxCols))
      from == MaxOf(t.minTiles - cols, 0)
  IN  [cols |-> cols, from |-> from,
       rows |-> Clamp(c.tile_rows_log2, from, MaxOf(from, t.maxRows))]

TileHeight(c, t) ==
  LET area   == IF t.minTiles > 0 THEN (t.rows * t.cols) \div Pow2[t.minTiles + 1]
                ELSE t.rows * t.cols
      widest == MinOf(MinOf(c.tile_width, t.width), t.cols)
  IN  MaxOf(area \div widest, 1)

TileInfo(sh, c, size) ==
  LET t       == TileLimits(sh, size)
      uniform == UniformLog2(c, t)
      widths  == TileSizes(t.cols, t.width, c.tile_width)
      heights == TileSizes(t.rows, TileHeight(c, t), c.tile_height)
      cols    == IF c.uniform_tiles THEN uniform.cols ELSE TileLog2(1, Len(widths))
      rows    == IF c.uniform_tiles THEN uniform.rows ELSE TileLog2(1, Len(heights))
  IN  Flag(c.uniform_tiles)
      \o (IF c.uniform_tiles
          THEN Increments(t.minCols, uniform.cols, t.maxCols)
               \o Increments(uniform.from, uniform.rows, t.maxRows)
          ELSE widths \o heights)
      \o When(cols > 0 \/ rows > 0, F(cols + rows, 0) \o F(2, 0))

-------------------------------------------------------------------------------
(* Quantizer and segmentation, which decide whether the frame is lossless. *)

DeltaQ(v) == Flag(v # 0) \o When(v # 0, Su(7, v))

SeparateUv(sh, c) == sh.separate_uv_delta_q /\ c.diff_uv_delta

QuantizationParams(sh, c) ==
  F(8, c.base_q_idx) \o DeltaQ(c.delta_q_y_dc)
  \o When(NumPlanes(sh) > 1,
          When(sh.separate_uv_delta_q, Flag(c.diff_uv_delta))
          \o DeltaQ(c.delta_q_u_dc) \o DeltaQ(c.delta_q_u_ac)
          \o When(SeparateUv(sh, c), DeltaQ(c.delta_q_v_dc) \o DeltaQ(c.delta_q_v_ac)))
  \o Flag(c.using_qmatrix)
  \o When(c.using_qmatrix, F(4, 0) \o F(4, 0) \o When(sh.separate_uv_delta_q, F(4, 0)))

SegFeatureBits   == <<8, 6, 6, 6, 6, 3, 0, 0>>
SegFeatureSigned == {0, 1, 2, 3, 4}
AltQ             == 0

(* The coded value is a sign and a magnitude in the reader's eyes. *)
FeatureField(c, lvl) ==
  IF lvl \in SegFeatureSigned THEN Su(1 + SegFeatureBits[lvl + 1], c.feature_value)
  ELSE F(SegFeatureBits[lvl + 1], 0)

UpdatesSegments(c) == PrimaryRef(c) = PRIMARY_REF_NONE \/ c.segmentation_update_data

SegmentationParams(c) ==
  Flag(c.segmentation_enabled)
  \o When(c.segmentation_enabled,
          When(PrimaryRef(c) # PRIMARY_REF_NONE,
               Flag(c.segmentation_update_map) \o When(c.segmentation_update_map, Flag(FALSE))
               \o Flag(c.segmentation_update_data))
          \o When(UpdatesSegments(c),
                  FlattenSeq([k \in 1..64 |->
                    LET seg == (k - 1) \div 8
                        lvl == (k - 1) % 8
                    IN  Flag(<<seg, lvl>> \in c.features)
                        \o When(<<seg, lvl>> \in c.features, FeatureField(c, lvl))])))

(* Features stay clear when the header does not code them. *)
AltQOf(c, seg) == IF /\ c.segmentation_enabled /\ UpdatesSegments(c)
                     /\ <<seg, AltQ>> \in c.features
                  THEN c.feature_value ELSE 0

NoDeltas(sh, c) ==
  /\ c.delta_q_y_dc = 0
  /\ NumPlanes(sh) > 1 => /\ c.delta_q_u_dc = 0 /\ c.delta_q_u_ac = 0
                          /\ SeparateUv(sh, c) => c.delta_q_v_dc = 0 /\ c.delta_q_v_ac = 0

CodedLossless(sh, c) ==
  /\ NoDeltas(sh, c)
  /\ \A seg \in Segments : Clamp(c.base_q_idx + AltQOf(c, seg), 0, 255) = 0

DeltaParams(sh, c, size) ==
  When(c.base_q_idx > 0, Flag(c.delta_q_present) \o When(c.delta_q_present, F(2, 0)))
  \o When(c.base_q_idx > 0 /\ c.delta_q_present /\ ~ Intrabc(sh, c, size),
          Flag(c.delta_lf_present) \o When(c.delta_lf_present, F(2, 0) \o F(1, 0)))

-------------------------------------------------------------------------------
(* Filters. *)

LoopFilterParams(sh, c, size, lossless) ==
  When(~ lossless /\ ~ Intrabc(sh, c, size),
       F(6, c.filter_level) \o F(6, c.filter_level)
       \o When(NumPlanes(sh) > 1 /\ c.filter_level # 0, F(6, 0) \o F(6, 0))
       \o F(3, 0) \o Flag(c.filter_delta_enabled)
       \o When(c.filter_delta_enabled,
               Flag(c.filter_delta_update)
               \o When(c.filter_delta_update,
                       FlattenSeq([k \in 1..10 |-> Flag(k \in c.filter_deltas)
                                                   \o When(k \in c.filter_deltas, Su(7, 1))]))))

CdefParams(sh, c, size, lossless) ==
  When(~ lossless /\ ~ Intrabc(sh, c, size) /\ sh.enable_cdef,
       F(2, 0) \o F(2, c.cdef_bits)
       \o FlattenSeq([k \in 1..2^c.cdef_bits |->
                        F(4, 0) \o F(2, 0) \o When(NumPlanes(sh) > 1, F(4, 0) \o F(2, 0))]))

LrParams(sh, c, size, allLossless) ==
  LET usesLr     == c.lr_luma # 0 \/ (NumPlanes(sh) > 1 /\ c.lr_chroma # 0)
      usesChroma == NumPlanes(sh) > 1 /\ c.lr_chroma # 0
  IN  When(~ allLossless /\ ~ Intrabc(sh, c, size) /\ sh.enable_restoration,
           F(2, c.lr_luma) \o When(NumPlanes(sh) > 1, F(2, c.lr_chroma) \o F(2, 0))
           \o When(usesLr,
                   Flag(c.lr_unit_shift)
                   \o When(~ sh.use_128x128_superblock /\ c.lr_unit_shift, F(1, 0))
                   \o When(sh.subsample_x /\ sh.subsample_y /\ usesChroma, F(1, 0))))

-------------------------------------------------------------------------------
(* Skip mode is coded only when the references lie on suitable sides. *)

RelativeDist(bits, a, b) ==
  LET m == 2^(bits - 1) IN ((a - b + m) % (2 * m)) - m

SidesAllow(bits, now, hints) ==
  LET dist(a, b) == RelativeDist(bits, a, b)
      none       == -1
      nearer(best, h) == dist(h, now) < 0 /\ (best = none \/ dist(h, best) > 0)
      forward[k \in -1..6] == IF k = -1 THEN none
                              ELSE IF nearer(forward[k-1], hints[k]) THEN hints[k]
                              ELSE forward[k-1]
      backward == \E k \in Refs : dist(hints[k], now) > 0
      second   == \E k \in Refs : dist(hints[k], forward[6]) < 0
  IN  forward[6] # none /\ (backward \/ second)

RefHints(c, dpb) == [k \in Refs |-> dpb[c.ref_frame_idx[k]].order_hint]

SkipModeParams(sh, c, dpb) ==
  When(/\ ~ Intra(c) /\ c.reference_select /\ sh.enable_order_hint
       /\ SidesAllow(sh.order_hint_bits, Hint(sh, c), RefHints(c, dpb)),
       Flag(c.skip_mode_present))

(* 0 identity, 1 translation, 2 rotation and zoom, 3 affine. *)
GlobalParam(precise, more, type, idx) ==
  LET bits == IF idx >= 2 \/ type # 1 THEN 12 ELSE IF precise THEN 9 ELSE 8
  IN  DecodeSubexp(2 * 2^bits + 1, more)

GlobalMotion(precise, more, t) ==
  LET param(idx) == GlobalParam(precise, more, t, idx)
  IN  Flag(t # 0) \o When(t # 0, Flag(t = 2))
      \o When(t \in {1, 3}, Flag(t = 1))
      \o When(t >= 2, param(2) \o param(3))
      \o When(t = 3, param(4) \o param(5))
      \o When(t >= 1, param(0) \o param(1))

PreciseMv(sh, c) == c.allow_high_precision_mv /\ ~ ForceIntegerMv(sh, c)

GlobalMotionParams(sh, c) ==
  When(~ Intra(c),
       FlattenSeq([k \in 1..7 |->
                     GlobalMotion(PreciseMv(sh, c), c.subexp_more, c.gm_type[k - 1])]))

-------------------------------------------------------------------------------
(* The full walk. *)

(* What scan_uncompressed_header bails out on. *)
ScanRefuses(sh, c) ==
  \/ sh.reduced_still_picture_header \/ sh.film_grain_params_present
  \/ sh.frame_id_numbers_present
  \/ ~ Intra(c) /\ sh.enable_order_hint /\ c.frame_refs_short_signaling

BeforeTiles(sh, c, size) ==
  Removal(sh, c) \o RefreshFlags(c) \o RefOrderHints(sh, c)
  \o SizeAndRefs(sh, c, size) \o When(~ c.disable_cdf_update, Flag(c.disable_end_update))

FromTiles(sh, c, dpb, size) ==
  LET lossless    == CodedLossless(sh, c)
      allLossless == lossless /\ size.frame_width = size.upscaled_width
  IN  TileInfo(sh, c, size) \o QuantizationParams(sh, c) \o SegmentationParams(c)
      \o DeltaParams(sh, c, size)
      \o LoopFilterParams(sh, c, size, lossless) \o CdefParams(sh, c, size, lossless)
      \o LrParams(sh, c, size, allLossless)
      \o When(~ lossless, Flag(c.tx_mode_select))
      \o When(~ Intra(c), Flag(c.reference_select))
      \o SkipModeParams(sh, c, dpb)
      \o When(~ Intra(c) /\ ~ ErrorResilient(c) /\ sh.enable_warped_motion,
              Flag(c.allow_warped_motion))
      \o Flag(c.reduced_tx_set) \o GlobalMotionParams(sh, c)

(* The slots the header is read against: none after a shown KEY_FRAME. *)
Entering(c, dpb) == IF ResetsDecoder(c) THEN DefaultDpb ELSE dpb

ScanFields(sh, c, dpb) ==
  LET slots == Entering(c, dpb)
      size  == SizeOf(sh, c, slots)
  IN  BeforeRemoval(sh, c) \o BeforeTiles(sh, c, size) \o FromTiles(sh, c, slots, size)

AfterFrame(sh, c, dpb) ==
  LET slots == Entering(c, dpb)
      size  == SizeOf(sh, c, slots)
      slot  == [order_hint |-> Hint(sh, c), upscaled_width |-> size.upscaled_width,
                frame_width |-> size.frame_width, frame_height |-> size.frame_height,
                render_width |-> size.render_width, render_height |-> size.render_height,
                is_key_frame |-> c.frame_type = KEY_FRAME]
  IN  [s \in Slots |-> IF s \in Refresh(c) THEN slot ELSE slots[s]]

-------------------------------------------------------------------------------
(* parse_frame_header_info: to the refresh flags. *)

InfoRefuses(sh, c) == \/ sh.reduced_still_picture_header \/ sh.frame_id_numbers_present
                      \/ c.show_frame /\ NeedsTemporalPoint(sh)

Slip_OverrideAlways(sh, c) ==
  Flag(FALSE) \o F(2, c.frame_type) \o Flag(c.show_frame)
  \o When(~ c.show_frame, Flag(c.showable_frame))
  \o When(~ Forced(c), Flag(c.error_resilient))
  \o Flag(c.disable_cdf_update)
  \o When(sh.seq_force_screen_content_tools = SELECT, Flag(c.allow_screen_content_tools))
  \o When(ScreenContent(sh, c) /\ sh.seq_force_integer_mv = SELECT, Flag(c.force_integer_mv))
  \o Flag(c.frame_size_override_flag) \o F(sh.order_hint_bits, Hint(sh, c))
  \o When(~ Intra(c) /\ ~ ErrorResilient(c), F(3, c.primary_ref_frame))
  \o Removal(sh, c)
  \o When(~ Forced(c), F(8, FlagsValue(c.refresh_frame_flags)))

InfoFields(sh, c) ==
  Flag(FALSE) \o F(2, c.frame_type) \o Flag(c.show_frame)
  \o When(~ c.show_frame, Flag(c.showable_frame))
  \o When(~ Forced(c), Flag(c.error_resilient))
  \o Flag(c.disable_cdf_update)
  \o When(sh.seq_force_screen_content_tools = SELECT, Flag(c.allow_screen_content_tools))
  \o When(ScreenContent(sh, c) /\ sh.seq_force_integer_mv = SELECT, Flag(c.force_integer_mv))
  \o When(c.frame_type # SWITCH_FRAME, Flag(c.frame_size_override_flag))
  \o F(sh.order_hint_bits, Hint(sh, c))
  \o When(~ Intra(c) /\ ~ ErrorResilient(c), F(3, c.primary_ref_frame))
  \o Removal(sh, c)
  \o When(~ Forced(c), F(8, FlagsValue(c.refresh_frame_flags)))

(* inter_ref_slots: to ref_frame_idx, of frames that are not intra. *)
RefSlotFields(sh, c) ==
  LET switch    == c.frame_type = SWITCH_FRAME
      resilient == switch \/ c.error_resilient
  IN  Flag(FALSE) \o F(2, c.frame_type) \o Flag(c.show_frame)
      \o When(c.show_frame /\ NeedsTemporalPoint(sh),
              F(sh.frame_presentation_time_length_minus_1 + 1, c.presentation_time))
      \o When(~ c.show_frame, Flag(c.showable_frame))
      \o When(~ switch, Flag(c.error_resilient))
      \o Flag(c.disable_cdf_update)
      \o When(sh.seq_force_screen_content_tools = SELECT, Flag(c.allow_screen_content_tools))
      \o When(ScreenContent(sh, c) /\ sh.seq_force_integer_mv = SELECT, Flag(c.force_integer_mv))
      \o When(~ switch, Flag(c.frame_size_override_flag))
      \o F(sh.order_hint_bits, Hint(sh, c))
      \o When(~ resilient, F(3, c.primary_ref_frame))
      \o Removal(sh, c)
      \o When(~ switch, F(8, FlagsValue(c.refresh_frame_flags)))
      \o When(resilient /\ sh.enable_order_hint,
              [k \in 1..8 |-> [n |-> sh.order_hint_bits, v |-> 0]])
      \o RefFields(sh, c)

-------------------------------------------------------------------------------
(* splice_header_bits: the inserted field between the two parts, the rest  *)
(* re-aligned.  `spare` counts the whole bytes behind the header.          *)

Slip_SpliceAfterFlags(sh, c, dpb) ==
  LET read == ScanFields(sh, c, dpb)
      at   == Len(BeforeRemoval(sh, c) \o RefreshFlags(c))
  IN  SubSeq(read, 1, at) \o Flag(FALSE) \o SubSeq(read, at + 1, Len(read))

Spliced(sh, c, dpb) ==
  LET read == ScanFields(sh, c, dpb)
      at   == Len(BeforeRemoval(sh, c))
  IN  SubSeq(read, 1, at) \o Flag(FALSE) \o SubSeq(read, at + 1, Len(read))

ByteAligned(bits) == (bits + 7) \div 8

(* Length of the new payload: the header's bytes, then what stood behind   *)
(* the last byte of the old header.                                        *)
SplicedBytes(headerBits, payloadBytes) ==
  ByteAligned(headerBits + 1) + (payloadBytes - ByteAligned(headerBits))

===============================================================================
