------------------------------- MODULE SeqHeader -------------------------------
(***************************************************************************)
(* The sequence header (seq_header.rs): what the parser reads, what it     *)
(* stores, what the emitter writes, and the two rewrites that declare      *)
(* timing and a decoder model.                                             *)
(*                                                                         *)
(* A bit string is a sequence of fields, each a width and a value.  Two    *)
(* sequences are the same bits for a reader exactly when widths and values *)
(* agree, so a reader that asks for another width has lost its place.  The *)
(* argument `e` of ParseFields holds a value for every syntax element of   *)
(* the input; it has the fields of struct SequenceHeader, and an element   *)
(* the input does not code is ignored.                                     *)
(***************************************************************************)
EXTENDS Integers, Sequences, FiniteSets, SequencesExt

SELECT == 2      \* SELECT_SCREEN_CONTENT_TOOLS, SELECT_INTEGER_MV

UNSPECIFIED == 2 \* colour description when none is coded

(* floor(log2(n)) of a positive n below 2^31. *)
Log2(n) == Cardinality({k \in 1..30 : 2^k <= n})

(* f(n): an n-bit field. *)
F(n, v) == <<[n |-> n, v |-> v]>>

Flag(b) == F(1, IF b THEN 1 ELSE 0)

(* uvlc(): k zeros, a one and k more bits, for a value of k + 1 bits. *)
Uvlc(v) == F(2 * Log2(v + 1) + 1, v)

When(b, fs) == IF b THEN fs ELSE <<>>

Bits(fs) == LET upto[k \in Nat] == IF k = 0 THEN 0 ELSE upto[k-1] + fs[k].n
            IN  upto[Len(fs)]

-------------------------------------------------------------------------------
(* struct OperatingPoint and struct SequenceHeader.  A width is coded less *)
(* one, and there is an operating point more than the count says.          *)

OperatingPoint ==
  [idc : Nat, seq_level_idx : Nat, seq_tier : BOOLEAN, decoder_model_present : BOOLEAN,
   decoder_buffer_delay : Nat, encoder_buffer_delay : Nat, low_delay_mode : BOOLEAN,
   initial_display_delay_present : BOOLEAN, initial_display_delay_minus_1 : Nat]

PointLists == Seq(OperatingPoint) \ {<<>>}

SequenceHeader ==
  [seq_profile : Nat, still_picture : BOOLEAN, reduced_still_picture_header : BOOLEAN,
   timing_info_present : BOOLEAN, equal_picture_interval : BOOLEAN,
   num_units_in_display_tick : Nat, time_scale : Nat, num_ticks_per_picture_minus_1 : Nat,
   decoder_model_info_present : BOOLEAN, buffer_delay_length_minus_1 : Nat,
   num_units_in_decoding_tick : Nat, buffer_removal_time_length_minus_1 : Nat,
   frame_presentation_time_length_minus_1 : Nat, initial_display_delay_present : BOOLEAN,
   operating_points : PointLists, seq_level_idx : Nat,
   frame_width_bits_minus_1 : Nat, frame_height_bits_minus_1 : Nat,
   max_frame_width : Nat \ {0}, max_frame_height : Nat \ {0},
   frame_id_numbers_present : BOOLEAN, delta_frame_id_length_minus_2 : Nat,
   additional_frame_id_length_minus_1 : Nat, use_128x128_superblock : BOOLEAN,
   enable_filter_intra : BOOLEAN, enable_intra_edge_filter : BOOLEAN,
   enable_interintra_compound : BOOLEAN, enable_masked_compound : BOOLEAN,
   enable_warped_motion : BOOLEAN, enable_dual_filter : BOOLEAN, enable_order_hint : BOOLEAN,
   order_hint_bits : Nat, enable_jnt_comp : BOOLEAN, enable_ref_frame_mvs : BOOLEAN,
   seq_choose_screen_content_tools : BOOLEAN, seq_force_screen_content_tools : 0..SELECT,
   seq_choose_integer_mv : BOOLEAN, seq_force_integer_mv : 0..SELECT,
   enable_superres : BOOLEAN, enable_cdef : BOOLEAN, enable_restoration : BOOLEAN,
   high_bitdepth : BOOLEAN, twelve_bit : BOOLEAN, bit_depth : Nat, mono_chrome : BOOLEAN,
   color_description_present : BOOLEAN, color_primaries : Nat,
   transfer_characteristics : Nat, matrix_coefficients : Nat, color_range : BOOLEAN,
   subsample_x : BOOLEAN, subsample_y : BOOLEAN, chroma_sample_position : Nat,
   separate_uv_delta_q : BOOLEAN, film_grain_params_present : BOOLEAN]

-------------------------------------------------------------------------------
(* The parser. *)

TimingInfo(e) ==
  F(32, e.num_units_in_display_tick) \o F(32, e.time_scale)
  \o Flag(e.equal_picture_interval)
  \o When(e.equal_picture_interval, Uvlc(e.num_ticks_per_picture_minus_1))

DecoderModelInfo(e) ==
  F(5, e.buffer_delay_length_minus_1) \o F(32, e.num_units_in_decoding_tick)
  \o F(5, e.buffer_removal_time_length_minus_1)
  \o F(5, e.frame_presentation_time_length_minus_1)

(* decoder_model_info_present is read behind timing_info only. *)
HasModel(e) == e.timing_info_present /\ e.decoder_model_info_present

OperatingParametersInfo(e, op) ==
  F(e.buffer_delay_length_minus_1 + 1, op.decoder_buffer_delay)
  \o F(e.buffer_delay_length_minus_1 + 1, op.encoder_buffer_delay)
  \o Flag(op.low_delay_mode)

OperatingPointFields(e, op) ==
  F(12, op.idc) \o F(5, op.seq_level_idx)
  \o When(op.seq_level_idx > 7, Flag(op.seq_tier))
  \o When(HasModel(e), Flag(op.decoder_model_present)
                       \o When(op.decoder_model_present, OperatingParametersInfo(e, op)))
  \o When(e.initial_display_delay_present,
          Flag(op.initial_display_delay_present)
          \o When(op.initial_display_delay_present, F(4, op.initial_display_delay_minus_1)))

OperatingPoints(e) ==
  Flag(e.timing_info_present)
  \o When(e.timing_info_present,
          TimingInfo(e) \o Flag(e.decoder_model_info_present)
          \o When(e.decoder_model_info_present, DecoderModelInfo(e)))
  \o Flag(e.initial_display_delay_present)
  \o F(5, Len(e.operating_points) - 1)
  \o FlattenSeq([k \in DOMAIN e.operating_points |->
                   OperatingPointFields(e, e.operating_points[k])])

SizeFields(e) ==
  F(4, e.frame_width_bits_minus_1) \o F(4, e.frame_height_bits_minus_1)
  \o F(e.frame_width_bits_minus_1 + 1, e.max_frame_width - 1)
  \o F(e.frame_height_bits_minus_1 + 1, e.max_frame_height - 1)
  \o When(~ e.reduced_still_picture_header,
          Flag(e.frame_id_numbers_present)
          \o When(e.frame_id_numbers_present,
                  F(4, e.delta_frame_id_length_minus_2)
                  \o F(3, e.additional_frame_id_length_minus_1)))

(* seq_force_... is read as one bit when it is not left to each frame. *)
ForceScreenContent(e) == IF e.seq_choose_screen_content_tools THEN SELECT
                         ELSE e.seq_force_screen_content_tools

InterTools(e) ==
  Flag(e.enable_interintra_compound) \o Flag(e.enable_masked_compound)
  \o Flag(e.enable_warped_motion) \o Flag(e.enable_dual_filter)
  \o Flag(e.enable_order_hint)
  \o When(e.enable_order_hint, Flag(e.enable_jnt_comp) \o Flag(e.enable_ref_frame_mvs))
  \o Flag(e.seq_choose_screen_content_tools)
  \o When(~ e.seq_choose_screen_content_tools, F(1, e.seq_force_screen_content_tools))
  \o When(ForceScreenContent(e) > 0,
          Flag(e.seq_choose_integer_mv)
          \o When(~ e.seq_choose_integer_mv, F(1, e.seq_force_integer_mv)))
  \o When(e.enable_order_hint, F(3, e.order_hint_bits - 1))

BitDepth(e) == IF ~ e.high_bitdepth THEN 8
               ELSE IF e.seq_profile = 2 /\ e.twelve_bit THEN 12 ELSE 10

Mono(e) == e.seq_profile # 1 /\ e.mono_chrome

(* BT.709 primaries, sRGB transfer, identity matrix. *)
ImpliedRgb(e) == /\ e.color_description_present /\ e.color_primaries = 1
                 /\ e.transfer_characteristics = 13 /\ e.matrix_coefficients = 0

(* Chroma subsampling follows from the profile but for 12-bit profile 2. *)
CodesSubsampling(e) == e.seq_profile = 2 /\ BitDepth(e) = 12

SubX(e) == CASE e.seq_profile = 0 -> TRUE
             [] e.seq_profile = 1 -> FALSE
             [] OTHER -> CodesSubsampling(e) => e.subsample_x

SubY(e) == CASE e.seq_profile = 0 -> TRUE
             [] e.seq_profile = 1 -> FALSE
             [] OTHER -> CodesSubsampling(e) /\ e.subsample_x /\ e.subsample_y

ColorConfig(e) ==
  Flag(e.high_bitdepth)
  \o When(e.seq_profile = 2 /\ e.high_bitdepth, Flag(e.twelve_bit))
  \o When(e.seq_profile # 1, Flag(e.mono_chrome))
  \o Flag(e.color_description_present)
  \o When(e.color_description_present,
          F(8, e.color_primaries) \o F(8, e.transfer_characteristics)
          \o F(8, e.matrix_coefficients))
  \o When(Mono(e) \/ ~ ImpliedRgb(e), Flag(e.color_range))
  \o When(~ Mono(e) /\ ~ ImpliedRgb(e),
          When(CodesSubsampling(e), Flag(e.subsample_x) \o When(e.subsample_x, Flag(e.subsample_y)))
          \o When(SubX(e) /\ SubY(e), F(2, e.chroma_sample_position)))
  \o Flag(e.separate_uv_delta_q)

(* The fields parse_sequence_header reads, in order; it refuses profiles   *)
(* above 2.                                                                *)
Parses(e) == e.seq_profile <= 2

ParseFields(e) ==
  F(3, e.seq_profile) \o Flag(e.still_picture) \o Flag(e.reduced_still_picture_header)
  \o (IF e.reduced_still_picture_header THEN F(5, e.seq_level_idx) ELSE OperatingPoints(e))
  \o SizeFields(e)
  \o Flag(e.use_128x128_superblock) \o Flag(e.enable_filter_intra)
  \o Flag(e.enable_intra_edge_filter)
  \o When(~ e.reduced_still_picture_header, InterTools(e))
  \o Flag(e.enable_superres) \o Flag(e.enable_cdef) \o Flag(e.enable_restoration)
  \o ColorConfig(e) \o Flag(e.film_grain_params_present)

-------------------------------------------------------------------------------
(* What the parser stores: the elements it has read, and the defaults of   *)
(* SequenceHeader for those it has not.                                    *)

DefaultOp == [idc |-> 0, seq_level_idx |-> 0, seq_tier |-> FALSE,
              decoder_model_present |-> FALSE, decoder_buffer_delay |-> 0,
              encoder_buffer_delay |-> 0, low_delay_mode |-> FALSE,
              initial_display_delay_present |-> FALSE, initial_display_delay_minus_1 |-> 0]

StoredOp(e, op) ==
  LET model == HasModel(e) /\ op.decoder_model_present
      delay == e.initial_display_delay_present /\ op.initial_display_delay_present
  IN  [idc |-> op.idc, seq_level_idx |-> op.seq_level_idx,
       seq_tier                      |-> op.seq_level_idx > 7 /\ op.seq_tier,
       decoder_model_present         |-> model,
       decoder_buffer_delay          |-> IF model THEN op.decoder_buffer_delay ELSE 0,
       encoder_buffer_delay          |-> IF model THEN op.encoder_buffer_delay ELSE 0,
       low_delay_mode                |-> model /\ op.low_delay_mode,
       initial_display_delay_present |-> delay,
       initial_display_delay_minus_1 |-> IF delay THEN op.initial_display_delay_minus_1 ELSE 0]

StoredTiming(e) ==
  LET full   == ~ e.reduced_still_picture_header
      timing == full /\ e.timing_info_present
      equal  == timing /\ e.equal_picture_interval
      model  == full /\ HasModel(e)
  IN  [e EXCEPT
        !.timing_info_present = timing, !.equal_picture_interval = equal,
        !.num_units_in_display_tick = IF timing THEN @ ELSE 0,
        !.time_scale = IF timing THEN @ ELSE 0,
        !.num_ticks_per_picture_minus_1 = IF equal THEN @ ELSE 0,
        !.decoder_model_info_present = model,
        !.buffer_delay_length_minus_1 = IF model THEN @ ELSE 0,
        !.num_units_in_decoding_tick = IF model THEN @ ELSE 0,
        !.buffer_removal_time_length_minus_1 = IF model THEN @ ELSE 0,
        !.frame_presentation_time_length_minus_1 = IF model THEN @ ELSE 0,
        !.initial_display_delay_present = full /\ @,
        !.operating_points = IF full THEN [k \in DOMAIN @ |-> StoredOp(e, @[k])]
                             ELSE <<[DefaultOp EXCEPT !.seq_level_idx = e.seq_level_idx]>>,
        !.seq_level_idx = IF full THEN e.operating_points[1].seq_level_idx ELSE @]

StoredTools(e) ==
  LET full  == ~ e.reduced_still_picture_header
      ids   == full /\ e.frame_id_numbers_present
      hints == full /\ e.enable_order_hint
      mvs   == full /\ ForceScreenContent(e) > 0
  IN  [e EXCEPT
        !.frame_id_numbers_present = ids,
        !.delta_frame_id_length_minus_2 = IF ids THEN @ ELSE 0,
        !.additional_frame_id_length_minus_1 = IF ids THEN @ ELSE 0,
        !.enable_interintra_compound = full /\ @, !.enable_masked_compound = full /\ @,
        !.enable_warped_motion = full /\ @, !.enable_dual_filter = full /\ @,
        !.enable_order_hint = hints, !.order_hint_bits = IF hints THEN @ ELSE 0,
        !.enable_jnt_comp = hints /\ @, !.enable_ref_frame_mvs = hints /\ @,
        !.seq_choose_screen_content_tools = full /\ @,
        !.seq_force_screen_content_tools = IF full THEN ForceScreenContent(e) ELSE SELECT,
        !.seq_choose_integer_mv = mvs /\ @,
        !.seq_force_integer_mv = IF mvs /\ ~ e.seq_choose_integer_mv THEN @ ELSE SELECT]

StoredColor(e) ==
  LET coded == ~ Mono(e) /\ ~ ImpliedRgb(e)
      desc  == e.color_description_present
  IN  [e EXCEPT
        !.twelve_bit = e.seq_profile = 2 /\ e.high_bitdepth /\ @,
        !.bit_depth = BitDepth(e), !.mono_chrome = Mono(e),
        !.color_primaries = IF desc THEN @ ELSE UNSPECIFIED,
        !.transfer_characteristics = IF desc THEN @ ELSE UNSPECIFIED,
        !.matrix_coefficients = IF desc THEN @ ELSE UNSPECIFIED,
        !.color_range = (Mono(e) \/ coded) /\ @,
        !.subsample_x = coded /\ SubX(e), !.subsample_y = coded /\ SubY(e),
        !.chroma_sample_position = IF coded /\ SubX(e) /\ SubY(e) THEN @ ELSE 0]

ParseSequenceHeader(e) == StoredColor(StoredTools(StoredTiming(e)))

-------------------------------------------------------------------------------
(* The emitter, from a stored header h. *)

EmitOp(h, op) ==
  F(12, op.idc) \o F(5, op.seq_level_idx)
  \o When(op.seq_level_idx > 7, Flag(op.seq_tier))
  \o When(h.decoder_model_info_present,
          Flag(op.decoder_model_present)
          \o When(op.decoder_model_present,
                  F(h.buffer_delay_length_minus_1 + 1, op.decoder_buffer_delay)
                  \o F(h.buffer_delay_length_minus_1 + 1, op.encoder_buffer_delay)
                  \o Flag(op.low_delay_mode)))
  \o When(h.initial_display_delay_present,
          Flag(op.initial_display_delay_present)
          \o When(op.initial_display_delay_present, F(4, op.initial_display_delay_minus_1)))

EmitTiming(h) ==
  Flag(h.timing_info_present)
  \o When(h.timing_info_present,
          F(32, h.num_units_in_display_tick) \o F(32, h.time_scale)
          \o Flag(h.equal_picture_interval)
          \o When(h.equal_picture_interval, Uvlc(h.num_ticks_per_picture_minus_1))
          \o Flag(h.decoder_model_info_present)
          \o When(h.decoder_model_info_present,
                  F(5, h.buffer_delay_length_minus_1) \o F(32, h.num_units_in_decoding_tick)
                  \o F(5, h.buffer_removal_time_length_minus_1)
                  \o F(5, h.frame_presentation_time_length_minus_1)))
  \o Flag(h.initial_display_delay_present)
  \o F(5, Len(h.operating_points) - 1)
  \o FlattenSeq([k \in DOMAIN h.operating_points |-> EmitOp(h, h.operating_points[k])])

EmitSize(h) ==
  F(4, h.frame_width_bits_minus_1) \o F(4, h.frame_height_bits_minus_1)
  \o F(h.frame_width_bits_minus_1 + 1, h.max_frame_width - 1)
  \o F(h.frame_height_bits_minus_1 + 1, h.max_frame_height - 1)
  \o When(~ h.reduced_still_picture_header,
          Flag(h.frame_id_numbers_present)
          \o When(h.frame_id_numbers_present,
                  F(4, h.delta_frame_id_length_minus_2)
                  \o F(3, h.additional_frame_id_length_minus_1)))

Slip_EmitToolsUnforced(h) ==
  Flag(h.enable_interintra_compound) \o Flag(h.enable_masked_compound)
  \o Flag(h.enable_warped_motion) \o Flag(h.enable_dual_filter)
  \o Flag(h.enable_order_hint)
  \o When(h.enable_order_hint, Flag(h.enable_jnt_comp) \o Flag(h.enable_ref_frame_mvs))
  \o Flag(h.seq_choose_screen_content_tools)
  \o F(1, h.seq_force_screen_content_tools)
  \o When(h.enable_order_hint, F(3, h.order_hint_bits - 1))

EmitTools(h) ==
  Flag(h.enable_interintra_compound) \o Flag(h.enable_masked_compound)
  \o Flag(h.enable_warped_motion) \o Flag(h.enable_dual_filter)
  \o Flag(h.enable_order_hint)
  \o When(h.enable_order_hint, Flag(h.enable_jnt_comp) \o Flag(h.enable_ref_frame_mvs))
  \o Flag(h.seq_choose_screen_content_tools)
  \o When(~ h.seq_choose_screen_content_tools, F(1, h.seq_force_screen_content_tools))
  \o When(h.seq_force_screen_content_tools > 0,
          Flag(h.seq_choose_integer_mv)
          \o When(~ h.seq_choose_integer_mv, F(1, h.seq_force_integer_mv)))
  \o When(h.enable_order_hint, F(3, h.order_hint_bits - 1))

EmitColor(h) ==
  LET implied == /\ h.color_primaries = 1 /\ h.transfer_characteristics = 13
                 /\ h.matrix_coefficients = 0
  IN  Flag(h.high_bitdepth)
      \o When(h.seq_profile = 2 /\ h.high_bitdepth, Flag(h.twelve_bit))
      \o When(h.seq_profile # 1, Flag(h.mono_chrome))
      \o Flag(h.color_description_present)
      \o When(h.color_description_present,
              F(8, h.color_primaries) \o F(8, h.transfer_characteristics)
              \o F(8, h.matrix_coefficients))
      \o When(h.mono_chrome \/ ~ implied, Flag(h.color_range))
      \o When(~ h.mono_chrome /\ ~ implied,
              When(h.seq_profile = 2 /\ h.bit_depth = 12,
                   Flag(h.subsample_x) \o When(h.subsample_x, Flag(h.subsample_y)))
              \o When(h.subsample_x /\ h.subsample_y, F(2, h.chroma_sample_position)))
      \o Flag(h.separate_uv_delta_q)

EmitSequenceHeader(h) ==
  F(3, h.seq_profile) \o Flag(h.still_picture) \o Flag(h.reduced_still_picture_header)
  \o (IF h.reduced_still_picture_header THEN F(5, h.seq_level_idx) ELSE EmitTiming(h))
  \o EmitSize(h)
  \o Flag(h.use_128x128_superblock) \o Flag(h.enable_filter_intra)
  \o Flag(h.enable_intra_edge_filter)
  \o When(~ h.reduced_still_picture_header, EmitTools(h))
  \o Flag(h.enable_superres) \o Flag(h.enable_cdef) \o Flag(h.enable_restoration)
  \o EmitColor(h) \o Flag(h.film_grain_params_present)

-------------------------------------------------------------------------------
(* The rewrites. *)

AtLeast1(x) == IF x > 1 THEN x ELSE 1

WithTimingInfoRate(h, num, den) ==
  [h EXCEPT !.timing_info_present = TRUE, !.equal_picture_interval = TRUE,
            !.num_units_in_display_tick = AtLeast1(den), !.time_scale = AtLeast1(num),
            !.num_ticks_per_picture_minus_1 = 0]

(* with_decoder_model_rate bails out here. *)
VariableInterval(h) == /\ ~ h.decoder_model_info_present
                       /\ h.timing_info_present /\ ~ h.equal_picture_interval

(* The model declares 32-bit delays for every operating point; a header    *)
(* that has one is left alone, and declared timing is kept.                *)
Modelled(h, num) ==
  [h EXCEPT !.decoder_model_info_present = TRUE,
            !.buffer_delay_length_minus_1 = 31, !.num_units_in_decoding_tick = num,
            !.buffer_removal_time_length_minus_1 = 15,
            !.frame_presentation_time_length_minus_1 = 23,
            !.operating_points =
               [k \in DOMAIN @ |-> [@[k] EXCEPT !.decoder_model_present = TRUE,
                  !.decoder_buffer_delay = 90000, !.encoder_buffer_delay = 90000,
                  !.low_delay_mode = FALSE]]]

Slip_ModelAlone(h, num, den) ==
  IF h.decoder_model_info_present THEN h ELSE Modelled(h, num)

WithDecoderModelRate(h, num, den) ==
  IF h.decoder_model_info_present THEN h
  ELSE Modelled(IF h.timing_info_present THEN h ELSE WithTimingInfoRate(h, num, den), num)

===============================================================================
