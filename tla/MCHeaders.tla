------------------------------- MODULE MCHeaders -------------------------------
(***************************************************************************)
(* Instance of Headers.  The syntax elements of a sequence header and of a *)
(* frame header fall into groups that interact within themselves; each     *)
(* group is varied over its combinations with the others at a base value,  *)
(* and the sequence headers that frames depend on are crossed with them.   *)
(***************************************************************************)
EXTENDS Headers

BaseOp == [DefaultOp EXCEPT !.seq_level_idx = 4]

BaseHeader ==
  [seq_profile |-> 0, still_picture |-> FALSE, reduced_still_picture_header |-> FALSE,
   timing_info_present |-> FALSE, equal_picture_interval |-> FALSE,
   decoder_model_info_present |-> FALSE, frame_id_numbers_present |-> FALSE,
   use_128x128_superblock |-> FALSE, enable_order_hint |-> TRUE, order_hint_bits |-> 3,
   seq_force_screen_content_tools |-> 1, seq_force_integer_mv |-> 1,
   film_grain_params_present |-> FALSE, max_frame_width |-> 320, max_frame_height |-> 64,
   bit_depth |-> 8, mono_chrome |-> FALSE, seq_level_idx |-> 4,
   subsample_x |-> TRUE, subsample_y |-> TRUE, chroma_sample_position |-> 1,
   num_units_in_display_tick |-> 1001, time_scale |-> 30000,
   num_ticks_per_picture_minus_1 |-> 2, buffer_delay_length_minus_1 |-> 9,
   num_units_in_decoding_tick |-> 7, buffer_removal_time_length_minus_1 |-> 4,
   frame_presentation_time_length_minus_1 |-> 5, initial_display_delay_present |-> FALSE,
   operating_points |-> <<BaseOp>>, frame_width_bits_minus_1 |-> 12,
   frame_height_bits_minus_1 |-> 8, delta_frame_id_length_minus_2 |-> 3,
   additional_frame_id_length_minus_1 |-> 2, enable_filter_intra |-> FALSE,
   enable_intra_edge_filter |-> TRUE, enable_interintra_compound |-> FALSE,
   enable_masked_compound |-> TRUE, enable_warped_motion |-> TRUE,
   enable_dual_filter |-> FALSE, enable_jnt_comp |-> TRUE, enable_ref_frame_mvs |-> TRUE,
   seq_choose_screen_content_tools |-> TRUE, seq_choose_integer_mv |-> TRUE,
   enable_superres |-> FALSE, enable_cdef |-> TRUE, enable_restoration |-> TRUE,
   high_bitdepth |-> FALSE, twelve_bit |-> FALSE, color_description_present |-> FALSE,
   color_primaries |-> 1, transfer_characteristics |-> 13, matrix_coefficients |-> 0,
   color_range |-> TRUE, separate_uv_delta_q |-> TRUE]

TwoOps == <<[BaseOp EXCEPT !.decoder_model_present = TRUE, !.decoder_buffer_delay = 5,
                           !.encoder_buffer_delay = 6, !.low_delay_mode = TRUE],
            [BaseOp EXCEPT !.idc = 1, !.seq_level_idx = 9, !.seq_tier = TRUE,
                           !.initial_display_delay_present = TRUE,
                           !.initial_display_delay_minus_1 = 3]>>

TimingHeaders ==
  {[BaseHeader EXCEPT !.timing_info_present = t, !.equal_picture_interval = e,
                      !.decoder_model_info_present = m, !.initial_display_delay_present = d,
                      !.operating_points = ops] :
     t \in BOOLEAN, e \in BOOLEAN, m \in BOOLEAN, d \in {TRUE}, ops \in {<<BaseOp>>, TwoOps}}

ToolHeaders ==
  {[BaseHeader EXCEPT !.enable_order_hint = o, !.seq_choose_screen_content_tools = cs,
                      !.seq_force_screen_content_tools = fs, !.seq_choose_integer_mv = ci,
                      !.seq_force_integer_mv = fi] :
     o \in BOOLEAN, cs \in BOOLEAN, fs \in 0..1, ci \in BOOLEAN, fi \in 0..1}

ColorHeaders ==
  {[BaseHeader EXCEPT !.seq_profile = p, !.high_bitdepth = h, !.twelve_bit = t,
                      !.mono_chrome = m, !.color_description_present = d,
                      !.color_primaries = cp, !.subsample_x = sx, !.subsample_y = sy] :
     p \in 0..2, h \in BOOLEAN, t \in BOOLEAN, m \in BOOLEAN, d \in BOOLEAN, cp \in {1, 9},
     sx \in BOOLEAN, sy \in BOOLEAN}

RefusedHeaders ==
  {[BaseHeader EXCEPT !.reduced_still_picture_header = TRUE],
   [BaseHeader EXCEPT !.frame_id_numbers_present = TRUE],
   [BaseHeader EXCEPT !.film_grain_params_present = TRUE],
   [BaseHeader EXCEPT !.seq_profile = 3]}

SizeHeaders ==
  {[BaseHeader EXCEPT !.use_128x128_superblock = b, !.max_frame_width = w,
                      !.enable_superres = s, !.enable_order_hint = o, !.mono_chrome = m] :
     b \in BOOLEAN, w \in {320, 5000}, s \in BOOLEAN, o \in {TRUE}, m \in BOOLEAN}

MCHeaderInputs == TimingHeaders \cup ToolHeaders \cup ColorHeaders \cup RefusedHeaders
                  \cup SizeHeaders

-------------------------------------------------------------------------------
BaseFrame ==
  [frame_type |-> KEY_FRAME, show_frame |-> TRUE, presentation_time |-> 3,
   showable_frame |-> FALSE, error_resilient |-> FALSE, disable_cdf_update |-> FALSE,
   allow_screen_content_tools |-> FALSE, force_integer_mv |-> FALSE,
   frame_size_override_flag |-> FALSE, order_hint |-> 0, primary_ref_frame |-> 0,
   removal_time_present |-> FALSE, refresh_frame_flags |-> {0, 2}, use_superres |-> FALSE,
   coded_denom |-> 3, width |-> 128, height |-> 32, render_differs |-> FALSE,
   render_width |-> 100, render_height |-> 30, found_ref |-> 1, allow_intrabc |-> FALSE,
   frame_refs_short_signaling |-> FALSE, ref_frame_idx |-> [k \in Refs |-> k],
   allow_high_precision_mv |-> FALSE, is_filter_switchable |-> FALSE,
   is_motion_mode_switchable |-> TRUE, use_ref_frame_mvs |-> TRUE,
   disable_end_update |-> TRUE, uniform_tiles |-> TRUE, tile_cols_log2 |-> 1,
   tile_rows_log2 |-> 0, tile_width |-> 3, tile_height |-> 1, base_q_idx |-> 60,
   delta_q_y_dc |-> 0, delta_q_u_dc |-> 0, delta_q_u_ac |-> 0, delta_q_v_dc |-> 0,
   delta_q_v_ac |-> 0, diff_uv_delta |-> FALSE, using_qmatrix |-> FALSE,
   segmentation_enabled |-> FALSE, segmentation_update_map |-> TRUE,
   segmentation_update_data |-> TRUE, features |-> {}, feature_value |-> 0,
   delta_q_present |-> FALSE, delta_lf_present |-> TRUE, filter_level |-> 5,
   filter_delta_enabled |-> FALSE, filter_delta_update |-> TRUE, filter_deltas |-> {2, 9},
   cdef_bits |-> 1, lr_luma |-> 1, lr_chroma |-> 2, lr_unit_shift |-> TRUE,
   tx_mode_select |-> TRUE, reference_select |-> FALSE, skip_mode_present |-> TRUE,
   allow_warped_motion |-> FALSE, reduced_tx_set |-> FALSE,
   gm_type |-> [k \in Refs |-> 0], subexp_more |-> 1]

AllSegments == {<<seg, AltQ>> : seg \in Segments}

LosslessKey == [BaseFrame EXCEPT !.base_q_idx = 0, !.segmentation_enabled = TRUE,
                                 !.features = AllSegments, !.feature_value = 9]

(* Frames do not depend on the colour of a header beyond its planes. *)
FrameHeaders == TimingHeaders \cup ToolHeaders \cup SizeHeaders

KeyVariants ==
  {BaseFrame, LosslessKey,
   [BaseFrame EXCEPT !.show_frame = FALSE],
   [BaseFrame EXCEPT !.base_q_idx = 0, !.order_hint = 5],
   [BaseFrame EXCEPT !.order_hint = 1, !.removal_time_present = TRUE, !.disable_cdf_update = TRUE]}
  \cup {[BaseFrame EXCEPT !.allow_screen_content_tools = TRUE, !.allow_intrabc = b,
                          !.use_superres = s, !.delta_q_present = TRUE] :
          b \in BOOLEAN, s \in BOOLEAN}
  \cup {[BaseFrame EXCEPT !.frame_size_override_flag = TRUE, !.render_differs = TRUE,
                          !.uniform_tiles = u] : u \in BOOLEAN}

Golden == [BaseFrame EXCEPT !.frame_type = INTER_FRAME, !.order_hint = 1]

Goldens ==
  {[Golden EXCEPT !.frame_type = t, !.error_resilient = er, !.show_frame = sf] :
     t \in {KEY_FRAME, INTER_FRAME, INTRA_ONLY_FRAME, SWITCH_FRAME},
     er \in BOOLEAN, sf \in BOOLEAN}

SizedGoldens ==
  {[Golden EXCEPT !.frame_type = t, !.frame_size_override_flag = TRUE, !.found_ref = f,
                  !.use_superres = s] :
     t \in {INTER_FRAME, INTRA_ONLY_FRAME}, f \in {0, 6, 7}, s \in BOOLEAN}

PredictedGoldens ==
  {[Golden EXCEPT !.reference_select = TRUE, !.order_hint = h,
                  !.removal_time_present = r, !.refresh_frame_flags = {7}] :
     h \in {0, 1, 7}, r \in BOOLEAN}
  \cup {[Golden EXCEPT !.gm_type = [k \in Refs |-> k % 4], !.subexp_more = m,
                       !.force_integer_mv = i, !.allow_screen_content_tools = TRUE,
                       !.allow_high_precision_mv = TRUE] : m \in {0, 20}, i \in BOOLEAN}

CodedGoldens ==
  {[Golden EXCEPT !.base_q_idx = q, !.segmentation_enabled = TRUE,
                  !.segmentation_update_data = u, !.features = AllSegments,
                  !.feature_value = v] :
     q \in {0, 60}, u \in BOOLEAN, v \in {9, -60, -1}}
  \cup {[Golden EXCEPT !.delta_q_y_dc = 3, !.diff_uv_delta = TRUE, !.delta_q_v_ac = -2,
                       !.using_qmatrix = TRUE, !.filter_delta_enabled = TRUE,
                       !.features = {<<1, 5>>, <<3, 7>>}, !.segmentation_enabled = TRUE,
                       !.filter_level = 0, !.lr_chroma = 0],
        [Golden EXCEPT !.frame_refs_short_signaling = TRUE],
        [Golden EXCEPT !.refresh_frame_flags = {}]}

GoldenVariants == Goldens \cup SizedGoldens \cup PredictedGoldens \cup CodedGoldens

Coded(h, C) == {c \in C : c.removal_time_present => HasModel(h)}

MCKeyInputs(h) == IF h \in FrameHeaders THEN Coded(h, KeyVariants) ELSE {BaseFrame}

MCGoldenInputs(h) == IF h \in FrameHeaders THEN Coded(h, GoldenVariants) ELSE {Golden}

===============================================================================
