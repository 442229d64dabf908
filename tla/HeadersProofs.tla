----------------------------- MODULE HeadersProofs -----------------------------
(***************************************************************************)
(* Proofs about Headers, for every sequence header and frame header of the *)
(* types of the code.  They go by fields: first what strings of fields     *)
(* satisfy, then sequence headers, group by group (the emitter against the *)
(* parser, the two rewrites), then frame headers, group by group (the      *)
(* three readers, and the walk of the output against that of the input),   *)
(* and last the invariant of assemble_multi's use of them.                 *)
(***************************************************************************)
EXTENDS Headers, SequenceTheorems, FiniteSetTheorems, TLAPS

Wider(n, field) == n + field.n

Doubled(x, n) == 2 * x

Widths == INSTANCE NatRecursion WITH base <- 0, Step <- Wider
Shifts == INSTANCE NatRecursion WITH base <- 1, Step <- Doubled

-------------------------------------------------------------------------------
(* Bit strings.  What a field holds is of no matter to where the next one  *)
(* stands, so only its width is typed.                                     *)

FieldString(s) == \E S : s \in Seq(S) /\ \A x \in S : x.n \in Nat

LEMMA SeqWider == \A S, T, s : s \in Seq(S) /\ S \subseteq T => s \in Seq(T)
  OBVIOUS

LEMMA FieldConcat == \A s, t : FieldString(s) /\ FieldString(t) => FieldString(s \o t)
<1> SUFFICES ASSUME NEW s, NEW t, FieldString(s), FieldString(t)
             PROVE  FieldString(s \o t)
  OBVIOUS
<1>1. PICK S : s \in Seq(S) /\ \A x \in S : x.n \in Nat
  BY DEF FieldString
<1>2. PICK T : t \in Seq(T) /\ \A x \in T : x.n \in Nat
  BY DEF FieldString
<1>3. s \in Seq(S \cup T) /\ t \in Seq(S \cup T)
  BY <1>1, <1>2, SeqWider
<1>4. s \o t \in Seq(S \cup T) /\ \A x \in S \cup T : x.n \in Nat
  BY <1>1, <1>2, <1>3, ConcatProperties
<1> QED
  BY <1>4 DEF FieldString

LEMMA FieldEmpty == FieldString(<< >>)
<1>1. PICK S : S = {}
  OBVIOUS
<1>2. << >> \in Seq(S) /\ \A x \in S : x.n \in Nat
  BY <1>1
<1> QED
  BY <1>2 DEF FieldString

LEMMA FieldWhen == \A b, s : FieldString(s) => FieldString(When(b, s))
  BY FieldEmpty DEF When

LEMMA FieldF == \A n, v : n \in Nat => FieldString(F(n, v))
<1> SUFFICES ASSUME NEW n \in Nat, NEW v PROVE FieldString(F(n, v))
  OBVIOUS
<1>1. F(n, v) \in Seq({[n |-> n, v |-> v]})
  BY DEF F
<1>2. \A x \in {[n |-> n, v |-> v]} : x.n \in Nat
  OBVIOUS
<1> QED
  BY <1>1, <1>2 DEF FieldString

LEMMA FieldFlag == \A b : FieldString(Flag(b))
  BY FieldF DEF Flag

Associates(s, t, u) == (s \o t) \o u = s \o (t \o u)

LEMMA FieldAssoc ==
  ASSUME NEW s, NEW t, NEW u, FieldString(s), FieldString(t), FieldString(u)
  PROVE  Associates(s, t, u)
<1>1. PICK S : s \in Seq(S)
  BY DEF FieldString
<1>2. PICK T : t \in Seq(T)
  BY DEF FieldString
<1>3. PICK U : u \in Seq(U)
  BY DEF FieldString
<1> DEFINE V == S \cup T \cup U
<1>4. s \in Seq(V) /\ t \in Seq(V) /\ u \in Seq(V)
  BY <1>1, <1>2, <1>3, SeqWider
<1> HIDE DEF V
<1> QED
  BY <1>4, Widths!Associative DEF Widths!Concatenates, Associates

LEMMA FieldNeutral == \A s : FieldString(s) => s \o << >> = s /\ << >> \o s = s
  BY ConcatEmptySeq DEF FieldString

(* A run of fields of one shape, none when n is not positive. *)
LEMMA FieldRun ==
  ASSUME NEW n \in Int, NEW s, s = [k \in 1..n |-> s[k]], \A k \in 1..n : s[k].n \in Nat
  PROVE  FieldString(s)
<1> DEFINE S == {s[k] : k \in 1..n}
<1>1. s \in Seq(S)
  <2>1. CASE n \in Nat
    BY <2>1
  <2>2. CASE n \notin Nat
    <3>1. 1..n = 1..0
      BY <2>2
    <3> QED
      BY <3>1
  <2> QED
    BY <2>1, <2>2
<1>2. \A x \in S : x.n \in Nat
  OBVIOUS
<1> QED
  BY <1>1, <1>2 DEF FieldString

LEMMA FieldFlatten ==
  ASSUME NEW n \in Int, NEW s, s = [k \in 1..n |-> s[k]], \A k \in 1..n : FieldString(s[k])
  PROVE  FieldString(FlattenSeq(s))
<1> DEFINE Of(k) == CHOOSE S : s[k] \in Seq(S) /\ \A x \in S : x.n \in Nat
           T == UNION {Of(k) : k \in 1..n}
           D == Seq(T)
<1>1. \A k \in 1..n : s[k] \in Seq(Of(k)) /\ \A x \in Of(k) : x.n \in Nat
  BY Zenon DEF FieldString
<1> HIDE DEF Of
<1>2. \A k \in 1..n : s[k] \in D
  <2> TAKE k \in 1..n
  <2>1. Of(k) \subseteq T
    OBVIOUS
  <2> HIDE DEF T
  <2> QED
    BY <1>1, <2>1, SeqWider
<1>3. \A x \in T : x.n \in Nat
  BY <1>1
<1> HIDE DEF T, D
<1>4. s \in Seq(D)
  <2>1. CASE n \in Nat
    BY <1>2, <2>1
  <2>2. CASE n \notin Nat
    <3>1. 1..n = 1..0
      BY <2>2
    <3> QED
      BY <3>1
  <2> QED
    BY <2>1, <2>2
<1>5. FlattenSeq(s) = Widths!FlattenSeq(s)
  BY Zenon DEF FlattenSeq, Widths!FlattenSeq
<1>6. Widths!FlattenSeq(s) \in Seq(T)
  BY <1>4, Widths!FlattenType DEF D
<1> QED
  BY <1>3, <1>5, <1>6 DEF FieldString

-------------------------------------------------------------------------------
(* Every part of a frame header is a bit string.                           *)

LEMMA SequenceWidths ==
  ASSUME NEW h \in SequenceHeader
  PROVE  /\ h.frame_presentation_time_length_minus_1 \in Nat
         /\ h.buffer_removal_time_length_minus_1 \in Nat /\ h.order_hint_bits \in Nat
         /\ h.frame_width_bits_minus_1 \in Nat /\ h.frame_height_bits_minus_1 \in Nat
         /\ h.max_frame_width \in Nat /\ h.max_frame_height \in Nat
         /\ h.operating_points \in Seq(OperatingPoint)
  BY SMT DEF SequenceHeader, PointLists

LEMMA ElementTypes ==
  ASSUME NEW c \in FrameElements
  PROVE  /\ c.frame_type \in 0..3 /\ c.found_ref \in 0..7 /\ c.cdef_bits \in Nat
         /\ c.tile_cols_log2 \in Nat /\ c.tile_rows_log2 \in Nat
         /\ c.tile_width \in Nat \ {0} /\ c.tile_height \in Nat \ {0}
         /\ c.subexp_more \in Nat
  BY SMT DEF FrameElements

LEMMA BeforeRemovalFields ==
  ASSUME NEW h \in SequenceHeader, NEW c PROVE FieldString(BeforeRemoval(h, c))
<1>1. /\ h.frame_presentation_time_length_minus_1 + 1 \in Nat /\ h.order_hint_bits \in Nat
      /\ 2 \in Nat /\ 3 \in Nat
  BY SequenceWidths
<1> DEFINE p == Flag(FALSE) \o F(2, c.frame_type) \o Flag(c.show_frame)
                \o When(c.show_frame /\ NeedsTemporalPoint(h),
                        F(h.frame_presentation_time_length_minus_1 + 1, c.presentation_time))
                \o When(~ c.show_frame, Flag(c.showable_frame))
                \o When(~ Forced(c), Flag(c.error_resilient))
           q == p \o Flag(c.disable_cdf_update)
                \o When(h.seq_force_screen_content_tools = SELECT,
                        Flag(c.allow_screen_content_tools))
                \o When(ScreenContent(h, c) /\ h.seq_force_integer_mv = SELECT,
                        Flag(c.force_integer_mv))
<1>2. FieldString(p)
  BY <1>1, FieldConcat, FieldWhen, FieldF, FieldFlag
<1> HIDE DEF p
<1>3. FieldString(q)
  BY <1>2, FieldConcat, FieldWhen, FieldFlag
<1> HIDE DEF q
<1>4. FieldString(q \o When(c.frame_type # SWITCH_FRAME, Flag(c.frame_size_override_flag))
                    \o F(h.order_hint_bits, Hint(h, c))
                    \o When(~ Intra(c) /\ ~ ErrorResilient(c), F(3, c.primary_ref_frame)))
  BY <1>1, <1>3, FieldConcat, FieldWhen, FieldF, FieldFlag
<1> QED
  BY <1>4, Zenon DEF BeforeRemoval, p, q

LEMMA RemovalFields ==
  ASSUME NEW h \in SequenceHeader, NEW c PROVE FieldString(Removal(h, c))
<1> DEFINE s == [k \in DOMAIN h.operating_points |->
                   When(h.operating_points[k].decoder_model_present,
                        F(h.buffer_removal_time_length_minus_1 + 1, k))]
           n == Len(h.operating_points)
<1>1. n \in Int /\ s = [k \in 1..n |-> s[k]]
  BY SequenceWidths
<1>2. \A k \in 1..n : FieldString(s[k])
  <2> TAKE k \in 1..n
  <2>1. h.buffer_removal_time_length_minus_1 + 1 \in Nat
    BY SequenceWidths
  <2>2. s[k] = When(h.operating_points[k].decoder_model_present,
                    F(h.buffer_removal_time_length_minus_1 + 1, k))
    BY <1>1
  <2> QED
    BY <2>1, <2>2, FieldF, FieldWhen
<1> HIDE DEF n
<1>3. FieldString(FlattenSeq(s))
  <2> HIDE DEF s
  <2> QED
    BY <1>1, <1>2, FieldFlatten
<1> QED
  BY <1>3, FieldConcat, FieldWhen, FieldFlag DEF Removal

LEMMA RefreshFlagsFields == \A c : FieldString(RefreshFlags(c))
<1>1. 8 \in Nat
  OBVIOUS
<1> QED
  BY <1>1, FieldWhen, FieldF DEF RefreshFlags

LEMMA RefOrderHintsFields ==
  ASSUME NEW h \in SequenceHeader, NEW c PROVE FieldString(RefOrderHints(h, c))
<1> DEFINE s == [k \in 1..8 |-> [n |-> h.order_hint_bits, v |-> 0]]
<1>1. FieldString(s)
  <2>1. 8 \in Int /\ s = [k \in 1..8 |-> s[k]] /\ \A k \in 1..8 : s[k].n \in Nat
    BY SequenceWidths
  <2> HIDE DEF s
  <2> QED
    BY <2>1, FieldRun
<1> HIDE DEF s
<1> QED
  BY <1>1, FieldWhen, Zenon DEF RefOrderHints, s

LEMMA SuperresFields == \A h, c : FieldString(SuperresParams(h, c))
<1>1. 3 \in Nat
  OBVIOUS
<1> QED
  BY <1>1, FieldConcat, FieldWhen, FieldF, FieldFlag DEF SuperresParams

LEMMA FrameSizeFields ==
  ASSUME NEW h \in SequenceHeader, NEW c PROVE FieldString(FrameSize(h, c))
<1>1. h.frame_width_bits_minus_1 + 1 \in Nat /\ h.frame_height_bits_minus_1 + 1 \in Nat
  BY SequenceWidths
<1> QED
  BY <1>1, SuperresFields, FieldConcat, FieldWhen, FieldF DEF FrameSize

LEMMA RenderSizeFields == \A c : FieldString(RenderSize(c))
<1>1. 16 \in Nat
  OBVIOUS
<1> QED
  BY <1>1, FieldConcat, FieldWhen, FieldF, FieldFlag DEF RenderSize

LEMMA FrameSizeWithRefsFields ==
  ASSUME NEW h \in SequenceHeader, NEW c \in FrameElements
  PROVE  FieldString(FrameSizeWithRefs(h, c))
<1> DEFINE s == [k \in 1..(c.found_ref + 1) |->
                   [n |-> 1, v |-> IF k > c.found_ref THEN 1 ELSE 0]]
           t == [k \in 1..7 |-> [n |-> 1, v |-> 0]]
<1>1. FieldString(s)
  <2> DEFINE m == c.found_ref + 1
  <2>1. m \in Int /\ s = [k \in 1..m |-> s[k]] /\ \A k \in 1..m : s[k].n \in Nat
    BY ElementTypes
  <2> HIDE DEF s, m
  <2> QED
    BY <2>1, FieldRun
<1>2. FieldString(t)
  <2>1. 7 \in Int /\ t = [k \in 1..7 |-> t[k]] /\ \A k \in 1..7 : t[k].n \in Nat
    OBVIOUS
  <2> HIDE DEF t
  <2> QED
    BY <2>1, FieldRun
<1> HIDE DEF s, t
<1>3. FieldString(s \o SuperresParams(h, c))
  BY <1>1, SuperresFields, FieldConcat
<1>4. FieldString(t \o FrameSize(h, c) \o RenderSize(c))
  BY <1>2, FrameSizeFields, RenderSizeFields, FieldConcat
<1> QED
  BY <1>3, <1>4, Zenon DEF FrameSizeWithRefs, s, t

LEMMA RefFieldsFields == \A h, c : FieldString(RefFields(h, c))
<1> TAKE h, c
<1> DEFINE s == [k \in 1..7 |-> [n |-> 3, v |-> c.ref_frame_idx[k - 1]]]
<1>1. FieldString(s)
  <2>1. 7 \in Int /\ s = [k \in 1..7 |-> s[k]] /\ \A k \in 1..7 : s[k].n \in Nat
    OBVIOUS
  <2> HIDE DEF s
  <2> QED
    BY <2>1, FieldRun
<1> HIDE DEF s
<1>2. FieldString(When(h.enable_order_hint, Flag(c.frame_refs_short_signaling)) \o s)
  BY <1>1, FieldConcat, FieldWhen, FieldFlag
<1> QED
  BY <1>2, Zenon DEF RefFields, s

LEMMA SizeAndRefsFields ==
  ASSUME NEW h \in SequenceHeader, NEW c \in FrameElements, NEW size
  PROVE  FieldString(SizeAndRefs(h, c, size))
<1>1. 2 \in Nat
  OBVIOUS
<1> QED
  BY <1>1, FrameSizeFields, RenderSizeFields, FrameSizeWithRefsFields, RefFieldsFields,
     FieldConcat, FieldWhen, FieldF, FieldFlag DEF SizeAndRefs

LEMMA BeforeTilesFields ==
  ASSUME NEW h \in SequenceHeader, NEW c \in FrameElements, NEW size
  PROVE  FieldString(BeforeTiles(h, c, size))
  BY RemovalFields, RefreshFlagsFields, RefOrderHintsFields, SizeAndRefsFields,
     FieldConcat, FieldWhen, FieldFlag DEF BeforeTiles

-------------------------------------------------------------------------------
(* Tiles: how many fields there are follows from the size of the frame.    *)

LEMMA CountNat == ASSUME NEW m \in Nat, NEW n \in Nat, NEW A \in SUBSET (m..n)
                  PROVE  Cardinality(A) \in Nat
<1>1. IsFiniteSet(m..n)
  BY FS_Interval
<1>2. IsFiniteSet(A)
  BY <1>1, FS_Subset
<1> QED
  BY <1>2, FS_CardinalityType

LEMMA Log2Nat == \A n : Log2(n) \in Nat
<1> TAKE n
<1> DEFINE A == {k \in 1..30 : 2^k <= n}
<1>1. A \in SUBSET (1..30) /\ 1 \in Nat /\ 30 \in Nat
  OBVIOUS
<1> HIDE DEF A
<1>2. Cardinality(A) \in Nat
  BY <1>1, CountNat
<1> QED
  BY <1>2, Zenon DEF Log2, A

LEMMA TileLog2Nat == \A blk, target : TileLog2(blk, target) \in Nat
<1> TAKE blk, target
<1> DEFINE A == {k \in 0..16 : blk * 2^k < target}
<1>1. A \in SUBSET (0..16) /\ 0 \in Nat /\ 16 \in Nat
  OBVIOUS
<1> HIDE DEF A
<1>2. Cardinality(A) \in Nat
  BY <1>1, CountNat
<1> QED
  BY <1>2, Zenon DEF TileLog2, A

LEMMA Pow2Type == Pow2 \in [Nat -> Nat \ {0}]
<1>1. Pow2 = Shifts!Rec
  BY Zenon DEF Pow2, Shifts!Rec, Doubled
<1>2. 1 \in Nat \ {0} /\ \A x \in Nat \ {0}, n \in Nat : Doubled(x, n) \in Nat \ {0}
  BY DEF Doubled
<1>3. Shifts!Rec \in [Nat -> Nat \ {0}]
  BY <1>2, Shifts!RecType
<1> QED
  BY <1>1, <1>3

LEMMA NsFields == \A n, v : FieldString(Ns(n, v)) /\ Ns(n, v)[1].n \in Nat
<1> TAKE n, v
<1>1. Log2(n) \in Nat
  BY Log2Nat
<1> DEFINE w == Log2(n) + 1
<1>2. w \in Nat /\ w - 1 \in Nat
  BY <1>1
<1> HIDE DEF w
<1>3. Ns(n, v) = IF v < 2^w - n THEN F(w - 1, v) ELSE F(w, v + 2^w - n)
  BY Zenon DEF Ns, w
<1>4. \A x : F(w, x)[1].n = w /\ F(w - 1, x)[1].n = w - 1
  BY DEF F
<1> QED
  BY <1>2, <1>3, <1>4, FieldF

Sized(size) == size.frame_width \in Nat \ {0} /\ size.frame_height \in Nat

LEMMA TileLimitsTypes ==
  ASSUME NEW h, NEW size, Sized(size), NEW t, t = TileLimits(h, size)
  PROVE  /\ t.cols \in Nat \ {0} /\ t.rows \in Nat /\ t.width \in Nat \ {0}
         /\ t.minCols \in Nat /\ t.maxCols \in Nat /\ t.maxRows \in Nat /\ t.minTiles \in Nat
<1> DEFINE mi    == IF h.use_128x128_superblock THEN 32 ELSE 16
           sb(px) == (2 * ((px + 7) \div 8) + mi - 1) \div mi
           cols  == sb(size.frame_width)
           rows  == sb(size.frame_height)
           width == 4096 \div (4 * mi)
           minCols == TileLog2(width, cols)
           area == TileLog2((4096 * 2304) \div (4 * mi * 4 * mi), rows * cols)
<1>1. cols \in Nat \ {0} /\ rows \in Nat /\ width \in Nat \ {0}
  <2>1. mi = 32 \/ mi = 16
    OBVIOUS
  <2> HIDE DEF mi
  <2>2. \A px \in Nat : sb(px) \in Nat /\ (px > 0 => sb(px) > 0)
    BY <2>1
  <2>3. width = 32 \/ width = 64
    BY <2>1
  <2> QED
    BY <2>2, <2>3 DEF Sized
<1>2. minCols \in Nat /\ area \in Nat /\ MaxOf(minCols, area) \in Nat
  BY TileLog2Nat DEF MaxOf
<1>3. /\ t.cols = cols /\ t.rows = rows /\ t.width = width /\ t.minCols = minCols
      /\ t.minTiles = MaxOf(minCols, area)
      /\ t.maxCols = TileLog2(1, MinOf(cols, 64)) /\ t.maxRows = TileLog2(1, MinOf(rows, 64))
  BY Zenon DEF TileLimits
<1> HIDE DEF cols, rows, width, minCols, area
<1> QED
  BY <1>1, <1>2, <1>3, TileLog2Nat

LEMMA IncrementsFields ==
  ASSUME NEW from \in Int, NEW to \in Int, NEW limit
  PROVE  FieldString(Increments(from, to, limit))
<1> DEFINE n == to - from
           s == [k \in 1..n |-> [n |-> 1, v |-> 1]]
<1>1. FieldString(s)
  <2>1. n \in Int /\ s = [k \in 1..n |-> s[k]] /\ \A k \in 1..n : s[k].n \in Nat
    OBVIOUS
  <2> HIDE DEF s, n
  <2> QED
    BY <2>1, FieldRun
<1> HIDE DEF s
<1>2. FieldString(s \o When(to < limit, Flag(FALSE)))
  BY <1>1, FieldConcat, FieldWhen, FieldFlag
<1> QED
  BY <1>2, Zenon DEF Increments, s, n

LEMMA TileSizesFields ==
  ASSUME NEW total \in Int, NEW most \in Nat \ {0}, NEW want \in Nat \ {0}
  PROVE  FieldString(TileSizes(total, most, want))
<1> DEFINE step  == MinOf(want, most)
           n     == (total + step - 1) \div step
           s == [k \in 1..n |-> LET left == total - (k - 1) * step
                                IN  Ns(MinOf(left, most), MinOf(left, step) - 1)[1]]
<1>1. step \in Nat \ {0}
  BY DEF MinOf
<1>2. n \in Int
  <2> HIDE DEF step
  <2> QED
    BY <1>1
<1> HIDE DEF step, n
<1>3. s = [k \in 1..n |-> s[k]] /\ \A k \in 1..n : s[k].n \in Nat
  BY NsFields
<1> HIDE DEF s
<1>4. FieldString(s)
  BY <1>2, <1>3, FieldRun
<1> QED
  BY <1>4, Zenon DEF TileSizes, s, n, step

LEMMA TileInfoFields ==
  ASSUME NEW h, NEW c \in FrameElements, NEW size, Sized(size)
  PROVE  FieldString(TileInfo(h, c, size))
<1> DEFINE t       == TileLimits(h, size)
           uniform == UniformLog2(c, t)
           widths  == TileSizes(t.cols, t.width, c.tile_width)
           heights == TileSizes(t.rows, TileHeight(c, t), c.tile_height)
           cols    == IF c.uniform_tiles THEN uniform.cols ELSE TileLog2(1, Len(widths))
           rows    == IF c.uniform_tiles THEN uniform.rows ELSE TileLog2(1, Len(heights))
<1>1. /\ t.cols \in Nat \ {0} /\ t.rows \in Nat /\ t.width \in Nat \ {0}
      /\ t.minCols \in Nat /\ t.maxCols \in Nat /\ t.maxRows \in Nat /\ t.minTiles \in Nat
  <2> HIDE DEF t
  <2>1. t = TileLimits(h, size)
    BY DEF t
  <2> QED
    BY <2>1, TileLimitsTypes
<1>2. /\ c.tile_width \in Nat \ {0} /\ c.tile_height \in Nat \ {0}
      /\ c.tile_cols_log2 \in Nat /\ c.tile_rows_log2 \in Nat
  BY ElementTypes
<1> HIDE DEF t
<1>3. uniform.cols \in Nat /\ uniform.from \in Nat /\ uniform.rows \in Nat
  <2> DEFINE cl == Clamp(c.tile_cols_log2, t.minCols, MaxOf(t.minCols, t.maxCols))
             from == MaxOf(t.minTiles - cl, 0)
             rl == Clamp(c.tile_rows_log2, from, MaxOf(from, t.maxRows))
  <2>1. cl \in Nat
    BY <1>1, <1>2 DEF Clamp, MaxOf, MinOf
  <2>2. from \in Nat
    <3> HIDE DEF cl
    <3> QED
      BY <1>1, <2>1 DEF MaxOf
  <2>3. rl \in Nat
    <3> HIDE DEF from
    <3> QED
      BY <1>1, <1>2, <2>2 DEF Clamp, MaxOf, MinOf
  <2>4. uniform.cols = cl /\ uniform.from = from /\ uniform.rows = rl
    BY Zenon DEF UniformLog2
  <2> QED
    BY <2>1, <2>2, <2>3, <2>4
<1>4. TileHeight(c, t) \in Nat \ {0}
  <2> DEFINE area == IF t.minTiles > 0 THEN (t.rows * t.cols) \div Pow2[t.minTiles + 1]
                     ELSE t.rows * t.cols
             widest == MinOf(MinOf(c.tile_width, t.width), t.cols)
  <2>1. Pow2[t.minTiles + 1] \in Nat \ {0} /\ t.rows * t.cols \in Int
    BY <1>1, Pow2Type
  <2>2. area \in Int
    BY <1>1, <2>1
  <2>3. widest \in Nat \ {0}
    BY <1>1, <1>2 DEF MinOf
  <2> HIDE DEF area, widest
  <2>4. MaxOf(area \div widest, 1) \in Nat \ {0}
    BY <2>2, <2>3 DEF MaxOf
  <2> QED
    BY <2>4, Zenon DEF TileHeight, area, widest
<1> HIDE DEF uniform
<1>5. FieldString(widths) /\ FieldString(heights)
  BY <1>1, <1>2, <1>4, TileSizesFields
<1>6. cols + rows \in Nat
  <2>1. cols \in Nat /\ rows \in Nat
    <3> HIDE DEF widths, heights
    <3> QED
      BY <1>3, TileLog2Nat
  <2> QED
    BY <2>1
<1>7. /\ FieldString(Increments(t.minCols, uniform.cols, t.maxCols))
      /\ FieldString(Increments(uniform.from, uniform.rows, t.maxRows))
  BY <1>1, <1>3, IncrementsFields
<1> HIDE DEF widths, heights, cols, rows
<1> DEFINE sizes == IF c.uniform_tiles
                    THEN Increments(t.minCols, uniform.cols, t.maxCols)
                         \o Increments(uniform.from, uniform.rows, t.maxRows)
                    ELSE widths \o heights
           update == When(cols > 0 \/ rows > 0, F(cols + rows, 0) \o F(2, 0))
<1>8. FieldString(sizes)
  BY <1>5, <1>7, FieldConcat
<1>9. FieldString(update)
  <2>1. 2 \in Nat
    OBVIOUS
  <2> QED
    BY <1>6, <2>1, FieldConcat, FieldF, FieldWhen
<1> HIDE DEF sizes, update
<1>10. FieldString(Flag(c.uniform_tiles) \o sizes \o update)
  BY <1>8, <1>9, FieldConcat, FieldFlag
<1> QED
  BY <1>10, Zenon DEF TileInfo, sizes, update, cols, rows, widths, heights, uniform, t

-------------------------------------------------------------------------------
LEMMA DeltaQFields == \A v : FieldString(DeltaQ(v))
<1>1. 7 \in Nat
  OBVIOUS
<1> QED
  BY <1>1, FieldConcat, FieldWhen, FieldF, FieldFlag DEF DeltaQ, Su

LEMMA QuantizationFields == \A h, c : FieldString(QuantizationParams(h, c))
<1>1. 8 \in Nat /\ 4 \in Nat
  OBVIOUS
<1> QED
  BY <1>1, DeltaQFields, FieldConcat, FieldWhen, FieldF, FieldFlag DEF QuantizationParams

LEMMA SegmentationFields == \A c : FieldString(SegmentationParams(c))
<1> TAKE c
<1> DEFINE At(seg, lvl) == Flag(<<seg, lvl>> \in c.features)
                           \o When(<<seg, lvl>> \in c.features, FeatureField(c, lvl))
           s == [k \in 1..64 |-> LET seg == (k - 1) \div 8
                                     lvl == (k - 1) % 8
                                 IN  Flag(<<seg, lvl>> \in c.features)
                                     \o When(<<seg, lvl>> \in c.features, FeatureField(c, lvl))]
<1>1. \A lvl \in 0..7 : FieldString(FeatureField(c, lvl))
  <2> TAKE lvl \in 0..7
  <2>1. SegFeatureBits[lvl + 1] \in Nat /\ 1 + SegFeatureBits[lvl + 1] \in Nat
    BY DEF SegFeatureBits
  <2> QED
    BY <2>1, FieldF DEF FeatureField, Su
<1>2. \A k \in 1..64 : FieldString(s[k])
  <2> TAKE k \in 1..64
  <2>1. PICK seg, lvl : seg = (k - 1) \div 8 /\ lvl = (k - 1) % 8
    OBVIOUS
  <2>2. lvl \in 0..7
    BY <2>1
  <2>3. FieldString(At(seg, lvl))
    BY <1>1, <2>2, FieldConcat, FieldFlag, FieldWhen
  <2>4. s[k] = At(seg, lvl)
    BY <2>1
  <2> HIDE DEF s, At
  <2> QED
    BY <2>3, <2>4
<1>3. 64 \in Int /\ s = [k \in 1..64 |-> s[k]]
  OBVIOUS
<1> HIDE DEF s
<1>4. FieldString(FlattenSeq(s))
  BY <1>2, <1>3, FieldFlatten
<1> DEFINE updates == When(PrimaryRef(c) # PRIMARY_REF_NONE,
                           Flag(c.segmentation_update_map)
                           \o When(c.segmentation_update_map, Flag(FALSE))
                           \o Flag(c.segmentation_update_data))
<1>5. FieldString(updates)
  BY FieldConcat, FieldWhen, FieldFlag
<1> HIDE DEF updates
<1>6. FieldString(Flag(c.segmentation_enabled)
                  \o When(c.segmentation_enabled,
                          updates \o When(UpdatesSegments(c), FlattenSeq(s))))
  BY <1>4, <1>5, FieldConcat, FieldWhen, FieldFlag
<1> QED
  BY <1>6, Zenon DEF SegmentationParams, updates, s

LEMMA DeltaParamsFields == \A h, c, size : FieldString(DeltaParams(h, c, size))
<1>1. 1 \in Nat /\ 2 \in Nat
  OBVIOUS
<1> QED
  BY <1>1, FieldConcat, FieldWhen, FieldF, FieldFlag DEF DeltaParams

LEMMA LoopFilterFields ==
  \A h, c, size, lossless : FieldString(LoopFilterParams(h, c, size, lossless))
<1> TAKE h, c, size, lossless
<1> DEFINE s == [k \in 1..10 |-> Flag(k \in c.filter_deltas)
                                 \o When(k \in c.filter_deltas, Su(7, 1))]
<1>1. 2 \in Nat /\ 3 \in Nat /\ 6 \in Nat /\ 7 \in Nat
  OBVIOUS
<1>2. FieldString(FlattenSeq(s))
  <2>1. \A k \in 1..10 : FieldString(s[k])
    BY <1>1, FieldConcat, FieldWhen, FieldF, FieldFlag DEF Su
  <2>2. 10 \in Int /\ s = [k \in 1..10 |-> s[k]]
    OBVIOUS
  <2> HIDE DEF s
  <2> QED
    BY <2>1, <2>2, FieldFlatten
<1> HIDE DEF s
<1>3. FieldString(When(~ lossless /\ ~ Intrabc(h, c, size),
        F(6, c.filter_level) \o F(6, c.filter_level)
        \o When(NumPlanes(h) > 1 /\ c.filter_level # 0, F(6, 0) \o F(6, 0))
        \o F(3, 0) \o Flag(c.filter_delta_enabled)
        \o When(c.filter_delta_enabled,
                Flag(c.filter_delta_update) \o When(c.filter_delta_update, FlattenSeq(s)))))
  BY <1>1, <1>2, FieldConcat, FieldWhen, FieldF, FieldFlag
<1> QED
  BY <1>3, Zenon DEF LoopFilterParams, s

LEMMA CdefFields ==
  ASSUME NEW h, NEW c \in FrameElements, NEW size, NEW lossless
  PROVE  FieldString(CdefParams(h, c, size, lossless))
<1> DEFINE n == 2^c.cdef_bits
           s == [k \in 1..n |-> F(4, 0) \o F(2, 0)
                                \o When(NumPlanes(h) > 1, F(4, 0) \o F(2, 0))]
<1>1. 2 \in Nat /\ 4 \in Nat /\ n \in Int
  BY ElementTypes
<1> HIDE DEF n
<1>2. FieldString(FlattenSeq(s))
  <2>1. \A k \in 1..n : FieldString(s[k])
    BY <1>1, FieldConcat, FieldWhen, FieldF
  <2>2. s = [k \in 1..n |-> s[k]]
    OBVIOUS
  <2> HIDE DEF s
  <2> QED
    BY <1>1, <2>1, <2>2, FieldFlatten
<1> HIDE DEF s
<1>3. FieldString(When(~ lossless /\ ~ Intrabc(h, c, size) /\ h.enable_cdef,
                       F(2, 0) \o F(2, c.cdef_bits) \o FlattenSeq(s)))
  BY <1>1, <1>2, FieldConcat, FieldWhen, FieldF
<1> QED
  BY <1>3, Zenon DEF CdefParams, s, n

LEMMA LrFields == \A h, c, size, all : FieldString(LrParams(h, c, size, all))
<1>1. 1 \in Nat /\ 2 \in Nat
  OBVIOUS
<1> QED
  BY <1>1, FieldConcat, FieldWhen, FieldF, FieldFlag DEF LrParams

LEMMA SkipModeFields == \A h, c, dpb : FieldString(SkipModeParams(h, c, dpb))
  BY FieldWhen, FieldFlag DEF SkipModeParams

LEMMA SubexpFields ==
  ASSUME NEW numSyms, NEW more \in Nat PROVE FieldString(DecodeSubexp(numSyms, more))
<1> DEFINE mk(k) == IF k = 0 THEN 0 ELSE 2^(k + 2)
           b2(k) == IF k = 0 THEN 3 ELSE k + 2
           A     == {k \in 0..20 : numSyms > mk(k) + 3 * 2^b2(k)}
           last  == Cardinality(A)
           steps == MinOf(more, last)
           ones  == [k \in 1..steps |-> [n |-> 1, v |-> 1]]
<1>1. last \in Nat
  <2>1. A \in SUBSET (0..20) /\ 0 \in Nat /\ 20 \in Nat
    OBVIOUS
  <2> HIDE DEF A
  <2> QED
    BY <2>1, CountNat
<1> HIDE DEF last
<1>2. steps \in Nat /\ b2(steps) \in Nat
  BY <1>1 DEF MinOf
<1> HIDE DEF steps
<1>3. FieldString(ones)
  <2>1. steps \in Int /\ ones = [k \in 1..steps |-> ones[k]] /\ \A k \in 1..steps : ones[k].n \in Nat
    BY <1>2
  <2> HIDE DEF ones
  <2> QED
    BY <2>1, FieldRun
<1> HIDE DEF ones
<1> DEFINE rest == IF steps = last THEN Ns(MaxOf(numSyms - mk(last), 1), 0)
                   ELSE Flag(FALSE) \o F(b2(steps), 0)
<1>4. FieldString(rest)
  <2>1. FieldString(Ns(MaxOf(numSyms - mk(last), 1), 0))
    BY NsFields
  <2>2. FieldString(Flag(FALSE) \o F(b2(steps), 0))
    BY <1>2, FieldConcat, FieldFlag, FieldF
  <2> HIDE DEF mk, b2
  <2> QED
    BY <2>1, <2>2
<1> HIDE DEF rest
<1>5. FieldString(ones \o rest)
  BY <1>3, <1>4, FieldConcat
<1> QED
  BY <1>5, Zenon DEF DecodeSubexp, rest, ones, steps, last

LEMMA GlobalMotionFields ==
  ASSUME NEW h, NEW c \in FrameElements PROVE FieldString(GlobalMotionParams(h, c))
<1> DEFINE s == [k \in 1..7 |->
                   GlobalMotion(PreciseMv(h, c), c.subexp_more, c.gm_type[k - 1])]
<1>1. c.subexp_more \in Nat
  BY ElementTypes
<1>2. \A precise, type, idx : FieldString(GlobalParam(precise, c.subexp_more, type, idx))
  BY <1>1, SubexpFields DEF GlobalParam
<1>3. \A precise, type : FieldString(GlobalMotion(precise, c.subexp_more, type))
  BY <1>2, FieldConcat, FieldWhen, FieldFlag DEF GlobalMotion
<1>4. 7 \in Int /\ s = [k \in 1..7 |-> s[k]] /\ \A k \in 1..7 : FieldString(s[k])
  BY <1>3
<1> HIDE DEF s
<1>5. FieldString(FlattenSeq(s))
  BY <1>4, FieldFlatten
<1> QED
  BY <1>5, FieldWhen, Zenon DEF GlobalMotionParams, s

LEMMA FromTilesFields ==
  ASSUME NEW h, NEW c \in FrameElements, NEW dpb, NEW size, Sized(size)
  PROVE  FieldString(FromTiles(h, c, dpb, size))
<1> DEFINE lossless    == CodedLossless(h, c)
           allLossless == lossless /\ size.frame_width = size.upscaled_width
           p == TileInfo(h, c, size) \o QuantizationParams(h, c) \o SegmentationParams(c)
                \o DeltaParams(h, c, size)
           q == p \o LoopFilterParams(h, c, size, lossless) \o CdefParams(h, c, size, lossless)
                \o LrParams(h, c, size, allLossless)
<1>1. FieldString(p)
  BY TileInfoFields, QuantizationFields, SegmentationFields, DeltaParamsFields, FieldConcat
<1> HIDE DEF p
<1>2. FieldString(q)
  <2>1. /\ FieldString(LoopFilterParams(h, c, size, lossless))
        /\ FieldString(CdefParams(h, c, size, lossless))
        /\ FieldString(LrParams(h, c, size, allLossless))
    BY LoopFilterFields, CdefFields, LrFields
  <2> HIDE DEF lossless, allLossless
  <2> QED
    BY <1>1, <2>1, FieldConcat
<1> HIDE DEF q
<1>3. FieldString(q \o When(~ lossless, Flag(c.tx_mode_select))
                  \o When(~ Intra(c), Flag(c.reference_select))
                  \o SkipModeParams(h, c, dpb)
                  \o When(~ Intra(c) /\ ~ ErrorResilient(c) /\ h.enable_warped_motion,
                          Flag(c.allow_warped_motion))
                  \o Flag(c.reduced_tx_set) \o GlobalMotionParams(h, c))
  <2> HIDE DEF lossless
  <2> QED
    BY <1>2, SkipModeFields, GlobalMotionFields, FieldConcat, FieldWhen, FieldFlag
<1> QED
  BY <1>3, Zenon DEF FromTiles, q, p

(* The slots a frame that takes its size from one is read against. *)
SlotsSized(dpb) ==
  \A s \in Slots : dpb[s].upscaled_width \in Nat \ {0} /\ dpb[s].frame_height \in Nat

LEMMA DividedPositive ==
  ASSUME NEW up \in Nat \ {0}, NEW d \in 8..16
  PROVE  (up * 8 + d \div 2) \div d \in Nat \ {0}
<1>1. d = 8 \/ d = 9 \/ d = 10 \/ d = 11 \/ d = 12 \/ d = 13 \/ d = 14 \/ d = 15 \/ d = 16
  OBVIOUS
<1> QED
  BY <1>1

LEMMA SizeOfSized ==
  ASSUME NEW h \in SequenceHeader, NEW c \in FrameElements, NEW dpb,
         WithRefs(c) => SlotsSized(dpb)
  PROVE  /\ Sized(SizeOf(h, c, dpb))
         /\ SizeOf(h, c, dpb).upscaled_width \in Nat \ {0}
<1> DEFINE fromRef == WithRefs(c) /\ c.found_ref \in Refs
           slot    == dpb[c.ref_frame_idx[c.found_ref]]
           up      == IF fromRef THEN slot.upscaled_width
                      ELSE IF SizeOverride(c) THEN c.width ELSE h.max_frame_width
           height  == IF fromRef THEN slot.frame_height
                      ELSE IF SizeOverride(c) THEN c.height ELSE h.max_frame_height
<1>1. /\ c.width \in Nat \ {0} /\ c.height \in Nat
      /\ c.ref_frame_idx \in [Refs -> Slots] /\ c.coded_denom \in 0..7
  BY DEF FrameElements
<1>2. h.max_frame_width \in Nat \ {0} /\ h.max_frame_height \in Nat
  BY DEF SequenceHeader
<1>3. fromRef => slot.upscaled_width \in Nat \ {0} /\ slot.frame_height \in Nat
  BY <1>1, Zenon DEF SlotsSized
<1> HIDE DEF fromRef, slot
<1>4. up \in Nat \ {0} /\ height \in Nat
  BY <1>1, <1>2, <1>3
<1> HIDE DEF up, height
<1>5. Denom(h, c) \in 8..16
  BY <1>1 DEF Denom
<1>6. Scaled(h, c, up) \in Nat \ {0}
  BY <1>4, <1>5, DividedPositive, Zenon DEF Scaled
<1>7. /\ SizeOf(h, c, dpb).frame_width = Scaled(h, c, up)
      /\ SizeOf(h, c, dpb).frame_height = height
      /\ SizeOf(h, c, dpb).upscaled_width = up
  BY Zenon DEF SizeOf, up, height, fromRef, slot
<1> QED
  BY <1>4, <1>6, <1>7 DEF Sized

-------------------------------------------------------------------------------
(* The shorter readers stop at a prefix of the full walk.                  *)

LEMMA FieldPrefix == \A s, t : FieldString(s) /\ FieldString(t) => IsPrefix(s, s \o t)
<1> SUFFICES ASSUME NEW s, NEW t, FieldString(s), FieldString(t) PROVE IsPrefix(s, s \o t)
  OBVIOUS
<1>1. PICK S : s \in Seq(S)
  BY DEF FieldString
<1>2. PICK T : t \in Seq(T)
  BY DEF FieldString
<1>3. Len(s) \in Nat /\ Len(t) \in Nat /\ Len(s \o t) = Len(s) + Len(t)
  BY <1>1, <1>2
<1>4. SubSeq(s, 1, Len(s)) = SubSeq(s \o t, 1, Len(s))
  BY <1>1, <1>2
<1> QED
  BY <1>3, <1>4 DEF IsPrefix

LEMMA InfoIs ==
  ASSUME NEW h \in SequenceHeader, NEW c, ~ NeedsTemporalPoint(h)
  PROVE  InfoFields(h, c) = BeforeRemoval(h, c) \o Removal(h, c) \o RefreshFlags(c)
<1> DEFINE p == Flag(FALSE) \o F(2, c.frame_type) \o Flag(c.show_frame)
           w == When(c.show_frame /\ NeedsTemporalPoint(h),
                     F(h.frame_presentation_time_length_minus_1 + 1, c.presentation_time))
<1>1. FieldString(p)
  <2>1. 2 \in Nat
    OBVIOUS
  <2> QED
    BY <2>1, FieldConcat, FieldF, FieldFlag
<1>2. w = << >>
  BY DEF When
<1> HIDE DEF p, w
<1>3. p \o w = p
  BY <1>1, <1>2, FieldNeutral
<1> QED
  BY <1>3, Zenon DEF InfoFields, BeforeRemoval, RefreshFlags, p, w

(* What the full walk reads, split behind the refresh flags. *)
Behind(h, c, dpb) ==
  LET slots == Entering(c, dpb)
      size  == SizeOf(h, c, slots)
  IN  RefOrderHints(h, c)
      \o (SizeAndRefs(h, c, size)
          \o (When(~ c.disable_cdf_update, Flag(c.disable_end_update))
              \o FromTiles(h, c, slots, size)))

Regrouped(a, r, f, o, s, w, x) ==
  (a \o (r \o f \o o \o s \o w)) \o x = (a \o r \o f) \o (o \o (s \o (w \o x)))

LEMMA Regroup ==
  ASSUME NEW a, NEW r, NEW f, NEW o, NEW s, NEW w, NEW x,
         FieldString(a), FieldString(r), FieldString(f), FieldString(o),
         FieldString(s), FieldString(w), FieldString(x)
  PROVE  Regrouped(a, r, f, o, s, w, x)
<1>1. a \o (r \o f \o o \o s \o w) = a \o r \o f \o o \o s \o w
  <2>1. /\ FieldString(r \o f) /\ FieldString(r \o f \o o) /\ FieldString(r \o f \o o \o s)
    BY FieldConcat
  <2>2. Associates(a, r \o f \o o \o s, w) /\ Associates(a, r \o f \o o, s)
    BY <2>1, FieldAssoc, Zenon
  <2>3. Associates(a, r \o f, o) /\ Associates(a, r, f)
    BY <2>1, FieldAssoc, Zenon
  <2> QED
    BY <2>2, <2>3 DEF Associates
<1> DEFINE b == a \o r \o f
<1>2. FieldString(b)
  BY FieldConcat
<1> HIDE DEF b
<1>3. (b \o o \o s \o w) \o x = b \o (o \o (s \o (w \o x)))
  <2>1. FieldString(b \o o) /\ FieldString(b \o o \o s) /\ FieldString(w \o x) /\ FieldString(s \o (w \o x))
    BY <1>2, FieldConcat
  <2>2. Associates(b \o o \o s, w, x) /\ Associates(b \o o, s, w \o x)
    BY <2>1, FieldAssoc, Zenon
  <2>3. Associates(b, o, s \o (w \o x))
    BY <1>2, <2>1, FieldAssoc, Zenon
  <2> QED
    BY <2>2, <2>3 DEF Associates
<1> QED
  BY <1>1, <1>3 DEF b, Regrouped

LEMMA ScanSplit ==
  ASSUME NEW h \in SequenceHeader, NEW c \in FrameElements, NEW dpb,
         WithRefs(c) => SlotsSized(Entering(c, dpb))
  PROVE  /\ ScanFields(h, c, dpb)
              = (BeforeRemoval(h, c) \o Removal(h, c) \o RefreshFlags(c)) \o Behind(h, c, dpb)
         /\ FieldString(Behind(h, c, dpb))
<1> DEFINE slots == Entering(c, dpb)
           size  == SizeOf(h, c, slots)
           a == BeforeRemoval(h, c)
           r == Removal(h, c)
           f == RefreshFlags(c)
           o == RefOrderHints(h, c)
           s == SizeAndRefs(h, c, size)
           w == When(~ c.disable_cdf_update, Flag(c.disable_end_update))
           x == FromTiles(h, c, slots, size)
<1>1. Sized(size)
  BY SizeOfSized
<1>2. /\ FieldString(a) /\ FieldString(r) /\ FieldString(f) /\ FieldString(o)
      /\ FieldString(s) /\ FieldString(w) /\ FieldString(x)
  <2>1. FieldString(x)
    BY <1>1, FromTilesFields
  <2>2. FieldString(w)
    BY FieldWhen, FieldFlag
  <2> QED
    BY <2>1, <2>2, BeforeRemovalFields, RemovalFields, RefreshFlagsFields, RefOrderHintsFields,
       SizeAndRefsFields
<1>3. ScanFields(h, c, dpb) = (a \o (r \o f \o o \o s \o w)) \o x
  BY Zenon DEF ScanFields, BeforeTiles
<1>4. Behind(h, c, dpb) = o \o (s \o (w \o x))
  BY Zenon DEF Behind
<1> HIDE DEF a, r, f, o, s, w, x
<1>5. ScanFields(h, c, dpb) = (a \o r \o f) \o Behind(h, c, dpb)
  <2>1. Regrouped(a, r, f, o, s, w, x)
    BY <1>2, Regroup, Zenon
  <2> QED
    BY <1>3, <1>4, <2>1 DEF Regrouped
<1>6. FieldString(Behind(h, c, dpb))
  BY <1>2, <1>4, FieldConcat
<1> QED
  BY <1>5, <1>6 DEF a, r, f

LEMMA InfoPrefix ==
  ASSUME NEW h \in SequenceHeader, NEW c \in FrameElements, NEW dpb,
         WithRefs(c) => SlotsSized(Entering(c, dpb)), ~ NeedsTemporalPoint(h)
  PROVE  IsPrefix(InfoFields(h, c), ScanFields(h, c, dpb))
<1>1. FieldString(InfoFields(h, c))
  BY InfoIs, BeforeRemovalFields, RemovalFields, RefreshFlagsFields, FieldConcat
<1>2. ScanFields(h, c, dpb) = InfoFields(h, c) \o Behind(h, c, dpb)
  BY InfoIs, ScanSplit
<1>3. FieldString(Behind(h, c, dpb))
  BY ScanSplit
<1> QED
  BY <1>1, <1>2, <1>3, FieldPrefix

LEMMA RefSlotIs ==
  ASSUME NEW h, NEW c, c.frame_type \in 0..3, ~ Intra(c)
  PROVE  RefSlotFields(h, c)
           = BeforeRemoval(h, c) \o Removal(h, c) \o RefreshFlags(c) \o RefOrderHints(h, c)
             \o RefFields(h, c)
<1> DEFINE switch    == c.frame_type = SWITCH_FRAME
           resilient == switch \/ c.error_resilient
           hints     == [k \in 1..8 |-> [n |-> h.order_hint_bits, v |-> 0]]
<1>1. Forced(c) <=> switch
  BY DEF Forced, ResetsDecoder, Intra, KEY_FRAME
<1>2. ErrorResilient(c) <=> resilient
  BY <1>1 DEF ErrorResilient
<1>3. /\ When(~ Forced(c), Flag(c.error_resilient)) = When(~ switch, Flag(c.error_resilient))
      /\ When(c.frame_type # SWITCH_FRAME, Flag(c.frame_size_override_flag))
           = When(~ switch, Flag(c.frame_size_override_flag))
      /\ When(~ Intra(c) /\ ~ ErrorResilient(c), F(3, c.primary_ref_frame))
           = When(~ resilient, F(3, c.primary_ref_frame))
      /\ RefreshFlags(c) = When(~ switch, F(8, FlagsValue(c.refresh_frame_flags)))
  BY <1>1, <1>2 DEF When, RefreshFlags
<1>4. RefOrderHints(h, c) = When(resilient /\ h.enable_order_hint, hints)
  <2>1. RefOrderHints(h, c) = When(/\ ~ Intra(c) \/ Refresh(c) # Slots
                                   /\ ErrorResilient(c) /\ h.enable_order_hint, hints)
    BY Zenon DEF RefOrderHints
  <2> HIDE DEF hints
  <2> QED
    BY <1>2, <2>1 DEF When
<1>5. RefSlotFields(h, c)
        = Flag(FALSE) \o F(2, c.frame_type) \o Flag(c.show_frame)
          \o When(c.show_frame /\ NeedsTemporalPoint(h),
                  F(h.frame_presentation_time_length_minus_1 + 1, c.presentation_time))
          \o When(~ c.show_frame, Flag(c.showable_frame))
          \o When(~ switch, Flag(c.error_resilient))
          \o Flag(c.disable_cdf_update)
          \o When(h.seq_force_screen_content_tools = SELECT, Flag(c.allow_screen_content_tools))
          \o When(ScreenContent(h, c) /\ h.seq_force_integer_mv = SELECT,
                  Flag(c.force_integer_mv))
          \o When(~ switch, Flag(c.frame_size_override_flag))
          \o F(h.order_hint_bits, Hint(h, c))
          \o When(~ resilient, F(3, c.primary_ref_frame))
          \o Removal(h, c)
          \o When(~ switch, F(8, FlagsValue(c.refresh_frame_flags)))
          \o When(resilient /\ h.enable_order_hint, hints)
          \o RefFields(h, c)
  BY Zenon DEF RefSlotFields
<1> HIDE DEF switch, resilient, hints
<1> QED
  BY <1>3, <1>4, <1>5, Zenon DEF BeforeRemoval

Begins(p, s) == \E u : FieldString(u) /\ s = p \o u

LEMMA BeginsAlone == \A p : FieldString(p) => Begins(p, p)
<1> SUFFICES ASSUME NEW p, FieldString(p) PROVE Begins(p, p)
  OBVIOUS
<1>1. FieldString(<< >>) /\ p = p \o << >>
  BY FieldEmpty, FieldNeutral
<1> QED
  BY <1>1 DEF Begins

LEMMA BeginsLonger ==
  \A p, s, t : FieldString(p) /\ Begins(p, s) /\ FieldString(t) => Begins(p, s \o t)
<1> SUFFICES ASSUME NEW p, NEW s, NEW t, FieldString(p), Begins(p, s), FieldString(t)
             PROVE  Begins(p, s \o t)
  OBVIOUS
<1>1. PICK u : FieldString(u) /\ s = p \o u
  BY DEF Begins
<1>2. Associates(p, u, t) /\ FieldString(u \o t)
  BY <1>1, FieldAssoc, FieldConcat, Zenon
<1>3. s \o t = p \o (u \o t)
  BY <1>1, <1>2 DEF Associates
<1> QED
  BY <1>2, <1>3, Zenon DEF Begins

LEMMA BeginsBehind ==
  ASSUME NEW a, NEW p, NEW s, FieldString(a), FieldString(p), Begins(p, s)
  PROVE  Begins(a \o p, a \o s)
<1>1. PICK u : FieldString(u) /\ s = p \o u
  BY DEF Begins
<1>2. Associates(a, p, u)
  BY <1>1, FieldAssoc, Zenon
<1>3. a \o s = (a \o p) \o u
  BY <1>1, <1>2 DEF Associates
<1> QED
  BY <1>1, <1>3, Zenon DEF Begins

LEMMA BeginsPrefix == ASSUME NEW p, NEW s, FieldString(p), Begins(p, s) PROVE IsPrefix(p, s)
<1>1. PICK u : FieldString(u) /\ s = p \o u
  BY DEF Begins
<1> QED
  BY <1>1, FieldPrefix

LEMMA RefSlotPrefix ==
  ASSUME NEW h \in SequenceHeader, NEW c \in FrameElements, NEW dpb,
         WithRefs(c) => SlotsSized(Entering(c, dpb)), ~ Intra(c)
  PROVE  IsPrefix(RefSlotFields(h, c), ScanFields(h, c, dpb))
<1> DEFINE slots == Entering(c, dpb)
           size  == SizeOf(h, c, slots)
           a == BeforeRemoval(h, c) \o Removal(h, c) \o RefreshFlags(c)
           o == RefOrderHints(h, c)
           p == RefFields(h, c)
           s == SizeAndRefs(h, c, size)
           y == When(~ c.disable_cdf_update, Flag(c.disable_end_update))
                \o FromTiles(h, c, slots, size)
<1>1. FieldString(a) /\ FieldString(o) /\ FieldString(p) /\ FieldString(y)
  <2>1. FieldString(FromTiles(h, c, slots, size))
    BY SizeOfSized, FromTilesFields
  <2>2. FieldString(y)
    <3> HIDE DEF slots, size
    <3> QED
      BY <2>1, FieldConcat, FieldWhen, FieldFlag
  <2> QED
    BY <2>2, BeforeRemovalFields, RemovalFields, RefreshFlagsFields, RefOrderHintsFields,
       RefFieldsFields, FieldConcat
<1>2. Begins(p, s)
  <2> DEFINE m == IF WithRefs(c) THEN FrameSizeWithRefs(h, c)
                  ELSE FrameSize(h, c) \o RenderSize(c)
  <2>1. FieldString(m)
    BY FrameSizeWithRefsFields, FrameSizeFields, RenderSizeFields, FieldConcat
  <2>2. s = p \o m \o When(~ ForceIntegerMv(h, c), Flag(c.allow_high_precision_mv))
            \o Flag(c.is_filter_switchable) \o When(~ c.is_filter_switchable, F(2, 0))
            \o Flag(c.is_motion_mode_switchable)
            \o When(~ ErrorResilient(c) /\ h.enable_ref_frame_mvs, Flag(c.use_ref_frame_mvs))
    BY Zenon DEF SizeAndRefs
  <2> HIDE DEF m, p, s
  <2>3. Begins(p, p \o m) /\ 2 \in Nat
    BY <1>1, <2>1, Zenon DEF Begins
  <2> QED
    BY <1>1, <2>2, <2>3, BeginsLonger, FieldWhen, FieldFlag, FieldF
<1>3. ScanFields(h, c, dpb) = a \o (o \o (s \o y))
  <2>1. ScanFields(h, c, dpb) = a \o Behind(h, c, dpb)
    BY ScanSplit
  <2>2. Behind(h, c, dpb) = o \o (s \o y)
    BY Zenon DEF Behind
  <2> HIDE DEF a, o, s, y
  <2> QED
    BY <2>1, <2>2
<1>4. RefSlotFields(h, c) = a \o o \o p
  BY RefSlotIs, ElementTypes
<1> HIDE DEF a, o, p, s, y
<1>5. Begins(p, s \o y)
  BY <1>1, <1>2, BeginsLonger
<1>6. FieldString(o \o p) /\ FieldString(a \o (o \o p))
  BY <1>1, FieldConcat
<1>7. Begins(o \o p, o \o (s \o y))
  BY <1>1, <1>5, BeginsBehind, Zenon
<1>8. Begins(a \o (o \o p), a \o (o \o (s \o y)))
  BY <1>1, <1>6, <1>7, BeginsBehind, Zenon
<1>9. Associates(a, o, p)
  BY <1>1, FieldAssoc, Zenon
<1>10. RefSlotFields(h, c) = a \o (o \o p)
  BY <1>4, <1>9 DEF Associates
<1>11. IsPrefix(a \o (o \o p), a \o (o \o (s \o y)))
  BY <1>6, <1>8, BeginsPrefix, Zenon
<1> QED
  BY <1>3, <1>10, <1>11

-------------------------------------------------------------------------------
(* The sequence header that is stored.                                     *)

(* The elements in the groups that one part of the parser reads, and those *)
(* it takes as they come.                                                  *)

SameBase(g, h) ==
  /\ g.seq_profile = h.seq_profile
  /\ g.still_picture = h.still_picture
  /\ g.reduced_still_picture_header = h.reduced_still_picture_header
  /\ g.frame_width_bits_minus_1 = h.frame_width_bits_minus_1
  /\ g.frame_height_bits_minus_1 = h.frame_height_bits_minus_1
  /\ g.max_frame_width = h.max_frame_width
  /\ g.max_frame_height = h.max_frame_height
  /\ g.use_128x128_superblock = h.use_128x128_superblock
  /\ g.enable_filter_intra = h.enable_filter_intra
  /\ g.enable_intra_edge_filter = h.enable_intra_edge_filter
  /\ g.enable_superres = h.enable_superres
  /\ g.enable_cdef = h.enable_cdef
  /\ g.enable_restoration = h.enable_restoration
  /\ g.high_bitdepth = h.high_bitdepth
  /\ g.color_description_present = h.color_description_present
  /\ g.separate_uv_delta_q = h.separate_uv_delta_q
  /\ g.film_grain_params_present = h.film_grain_params_present

SameTiming(g, h) ==
  /\ g.timing_info_present = h.timing_info_present
  /\ g.equal_picture_interval = h.equal_picture_interval
  /\ g.num_units_in_display_tick = h.num_units_in_display_tick
  /\ g.time_scale = h.time_scale
  /\ g.num_ticks_per_picture_minus_1 = h.num_ticks_per_picture_minus_1
  /\ g.decoder_model_info_present = h.decoder_model_info_present
  /\ g.buffer_delay_length_minus_1 = h.buffer_delay_length_minus_1
  /\ g.num_units_in_decoding_tick = h.num_units_in_decoding_tick
  /\ g.buffer_removal_time_length_minus_1 = h.buffer_removal_time_length_minus_1
  /\ g.frame_presentation_time_length_minus_1 = h.frame_presentation_time_length_minus_1
  /\ g.initial_display_delay_present = h.initial_display_delay_present
  /\ g.operating_points = h.operating_points
  /\ g.seq_level_idx = h.seq_level_idx

SameTools(g, h) ==
  /\ g.frame_id_numbers_present = h.frame_id_numbers_present
  /\ g.delta_frame_id_length_minus_2 = h.delta_frame_id_length_minus_2
  /\ g.additional_frame_id_length_minus_1 = h.additional_frame_id_length_minus_1
  /\ g.enable_interintra_compound = h.enable_interintra_compound
  /\ g.enable_masked_compound = h.enable_masked_compound
  /\ g.enable_warped_motion = h.enable_warped_motion
  /\ g.enable_dual_filter = h.enable_dual_filter
  /\ g.enable_order_hint = h.enable_order_hint
  /\ g.order_hint_bits = h.order_hint_bits
  /\ g.enable_jnt_comp = h.enable_jnt_comp
  /\ g.enable_ref_frame_mvs = h.enable_ref_frame_mvs
  /\ g.seq_choose_screen_content_tools = h.seq_choose_screen_content_tools
  /\ g.seq_force_screen_content_tools = h.seq_force_screen_content_tools
  /\ g.seq_choose_integer_mv = h.seq_choose_integer_mv
  /\ g.seq_force_integer_mv = h.seq_force_integer_mv

SameColor(g, h) ==
  /\ g.twelve_bit = h.twelve_bit
  /\ g.bit_depth = h.bit_depth
  /\ g.mono_chrome = h.mono_chrome
  /\ g.color_primaries = h.color_primaries
  /\ g.transfer_characteristics = h.transfer_characteristics
  /\ g.matrix_coefficients = h.matrix_coefficients
  /\ g.color_range = h.color_range
  /\ g.subsample_x = h.subsample_x
  /\ g.subsample_y = h.subsample_y
  /\ g.chroma_sample_position = h.chroma_sample_position

LEMMA SameAll ==
  ASSUME NEW g \in SequenceHeader, NEW h \in SequenceHeader,
         SameBase(g, h), SameTiming(g, h), SameTools(g, h), SameColor(g, h)
  PROVE  g = h
  BY SMT DEF SequenceHeader, SameBase, SameTiming, SameTools, SameColor

LEMMA PutTiming ==
  ASSUME NEW h \in SequenceHeader
  PROVE  /\ \A v \in BOOLEAN : [h EXCEPT !.timing_info_present = v] \in SequenceHeader
         /\ \A v \in BOOLEAN : [h EXCEPT !.equal_picture_interval = v] \in SequenceHeader
         /\ \A v \in Nat : [h EXCEPT !.num_units_in_display_tick = v] \in SequenceHeader
         /\ \A v \in Nat : [h EXCEPT !.time_scale = v] \in SequenceHeader
         /\ \A v \in Nat : [h EXCEPT !.num_ticks_per_picture_minus_1 = v] \in SequenceHeader
         /\ \A v \in BOOLEAN : [h EXCEPT !.decoder_model_info_present = v] \in SequenceHeader
         /\ \A v \in Nat : [h EXCEPT !.buffer_delay_length_minus_1 = v] \in SequenceHeader
         /\ \A v \in Nat : [h EXCEPT !.num_units_in_decoding_tick = v] \in SequenceHeader
         /\ \A v \in Nat : [h EXCEPT !.buffer_removal_time_length_minus_1 = v] \in SequenceHeader
         /\ \A v \in Nat : [h EXCEPT !.frame_presentation_time_length_minus_1 = v] \in SequenceHeader
         /\ \A v \in BOOLEAN : [h EXCEPT !.initial_display_delay_present = v] \in SequenceHeader
         /\ \A v \in PointLists : [h EXCEPT !.operating_points = v] \in SequenceHeader
         /\ \A v \in Nat : [h EXCEPT !.seq_level_idx = v] \in SequenceHeader
<1>1. /\ \A v \in BOOLEAN : [h EXCEPT !.timing_info_present = v] \in SequenceHeader
      /\ \A v \in BOOLEAN : [h EXCEPT !.equal_picture_interval = v] \in SequenceHeader
      /\ \A v \in Nat : [h EXCEPT !.num_units_in_display_tick = v] \in SequenceHeader
      /\ \A v \in Nat : [h EXCEPT !.time_scale = v] \in SequenceHeader
      /\ \A v \in Nat : [h EXCEPT !.num_ticks_per_picture_minus_1 = v] \in SequenceHeader
  BY SMT DEF SequenceHeader
<1>2. /\ \A v \in BOOLEAN : [h EXCEPT !.decoder_model_info_present = v] \in SequenceHeader
      /\ \A v \in Nat : [h EXCEPT !.buffer_delay_length_minus_1 = v] \in SequenceHeader
      /\ \A v \in Nat : [h EXCEPT !.num_units_in_decoding_tick = v] \in SequenceHeader
      /\ \A v \in Nat : [h EXCEPT !.buffer_removal_time_length_minus_1 = v] \in SequenceHeader
      /\ \A v \in Nat : [h EXCEPT !.frame_presentation_time_length_minus_1 = v] \in SequenceHeader
  BY SMT DEF SequenceHeader
<1>3. /\ \A v \in BOOLEAN : [h EXCEPT !.initial_display_delay_present = v] \in SequenceHeader
      /\ \A v \in PointLists : [h EXCEPT !.operating_points = v] \in SequenceHeader
      /\ \A v \in Nat : [h EXCEPT !.seq_level_idx = v] \in SequenceHeader
  BY SMT DEF SequenceHeader
<1> QED
  BY <1>1, <1>2, <1>3, Zenon

LEMMA PutTools ==
  ASSUME NEW h \in SequenceHeader
  PROVE  /\ \A v \in BOOLEAN : [h EXCEPT !.frame_id_numbers_present = v] \in SequenceHeader
         /\ \A v \in Nat : [h EXCEPT !.delta_frame_id_length_minus_2 = v] \in SequenceHeader
         /\ \A v \in Nat : [h EXCEPT !.additional_frame_id_length_minus_1 = v] \in SequenceHeader
         /\ \A v \in BOOLEAN : [h EXCEPT !.enable_interintra_compound = v] \in SequenceHeader
         /\ \A v \in BOOLEAN : [h EXCEPT !.enable_masked_compound = v] \in SequenceHeader
         /\ \A v \in BOOLEAN : [h EXCEPT !.enable_warped_motion = v] \in SequenceHeader
         /\ \A v \in BOOLEAN : [h EXCEPT !.enable_dual_filter = v] \in SequenceHeader
         /\ \A v \in BOOLEAN : [h EXCEPT !.enable_order_hint = v] \in SequenceHeader
         /\ \A v \in Nat : [h EXCEPT !.order_hint_bits = v] \in SequenceHeader
         /\ \A v \in BOOLEAN : [h EXCEPT !.enable_jnt_comp = v] \in SequenceHeader
         /\ \A v \in BOOLEAN : [h EXCEPT !.enable_ref_frame_mvs = v] \in SequenceHeader
         /\ \A v \in BOOLEAN : [h EXCEPT !.seq_choose_screen_content_tools = v] \in SequenceHeader
         /\ \A v \in 0..SELECT : [h EXCEPT !.seq_force_screen_content_tools = v] \in SequenceHeader
         /\ \A v \in BOOLEAN : [h EXCEPT !.seq_choose_integer_mv = v] \in SequenceHeader
         /\ \A v \in 0..SELECT : [h EXCEPT !.seq_force_integer_mv = v] \in SequenceHeader
<1>1. /\ \A v \in BOOLEAN : [h EXCEPT !.frame_id_numbers_present = v] \in SequenceHeader
      /\ \A v \in Nat : [h EXCEPT !.delta_frame_id_length_minus_2 = v] \in SequenceHeader
      /\ \A v \in Nat : [h EXCEPT !.additional_frame_id_length_minus_1 = v] \in SequenceHeader
      /\ \A v \in BOOLEAN : [h EXCEPT !.enable_interintra_compound = v] \in SequenceHeader
      /\ \A v \in BOOLEAN : [h EXCEPT !.enable_masked_compound = v] \in SequenceHeader
  BY SMT DEF SequenceHeader
<1>2. /\ \A v \in BOOLEAN : [h EXCEPT !.enable_warped_motion = v] \in SequenceHeader
      /\ \A v \in BOOLEAN : [h EXCEPT !.enable_dual_filter = v] \in SequenceHeader
      /\ \A v \in BOOLEAN : [h EXCEPT !.enable_order_hint = v] \in SequenceHeader
      /\ \A v \in Nat : [h EXCEPT !.order_hint_bits = v] \in SequenceHeader
      /\ \A v \in BOOLEAN : [h EXCEPT !.enable_jnt_comp = v] \in SequenceHeader
  BY SMT DEF SequenceHeader
<1>3. /\ \A v \in BOOLEAN : [h EXCEPT !.enable_ref_frame_mvs = v] \in SequenceHeader
      /\ \A v \in BOOLEAN : [h EXCEPT !.seq_choose_screen_content_tools = v] \in SequenceHeader
      /\ \A v \in 0..SELECT : [h EXCEPT !.seq_force_screen_content_tools = v] \in SequenceHeader
      /\ \A v \in BOOLEAN : [h EXCEPT !.seq_choose_integer_mv = v] \in SequenceHeader
      /\ \A v \in 0..SELECT : [h EXCEPT !.seq_force_integer_mv = v] \in SequenceHeader
  BY SMT DEF SequenceHeader
<1> QED
  BY <1>1, <1>2, <1>3, Zenon

LEMMA PutColor ==
  ASSUME NEW h \in SequenceHeader
  PROVE  /\ \A v \in BOOLEAN : [h EXCEPT !.twelve_bit = v] \in SequenceHeader
         /\ \A v \in Nat : [h EXCEPT !.bit_depth = v] \in SequenceHeader
         /\ \A v \in BOOLEAN : [h EXCEPT !.mono_chrome = v] \in SequenceHeader
         /\ \A v \in Nat : [h EXCEPT !.color_primaries = v] \in SequenceHeader
         /\ \A v \in Nat : [h EXCEPT !.transfer_characteristics = v] \in SequenceHeader
         /\ \A v \in Nat : [h EXCEPT !.matrix_coefficients = v] \in SequenceHeader
         /\ \A v \in BOOLEAN : [h EXCEPT !.color_range = v] \in SequenceHeader
         /\ \A v \in BOOLEAN : [h EXCEPT !.subsample_x = v] \in SequenceHeader
         /\ \A v \in BOOLEAN : [h EXCEPT !.subsample_y = v] \in SequenceHeader
         /\ \A v \in Nat : [h EXCEPT !.chroma_sample_position = v] \in SequenceHeader
<1>1. /\ \A v \in BOOLEAN : [h EXCEPT !.twelve_bit = v] \in SequenceHeader
      /\ \A v \in Nat : [h EXCEPT !.bit_depth = v] \in SequenceHeader
      /\ \A v \in BOOLEAN : [h EXCEPT !.mono_chrome = v] \in SequenceHeader
      /\ \A v \in Nat : [h EXCEPT !.color_primaries = v] \in SequenceHeader
      /\ \A v \in Nat : [h EXCEPT !.transfer_characteristics = v] \in SequenceHeader
  BY SMT DEF SequenceHeader
<1>2. /\ \A v \in Nat : [h EXCEPT !.matrix_coefficients = v] \in SequenceHeader
      /\ \A v \in BOOLEAN : [h EXCEPT !.color_range = v] \in SequenceHeader
      /\ \A v \in BOOLEAN : [h EXCEPT !.subsample_x = v] \in SequenceHeader
      /\ \A v \in BOOLEAN : [h EXCEPT !.subsample_y = v] \in SequenceHeader
      /\ \A v \in Nat : [h EXCEPT !.chroma_sample_position = v] \in SequenceHeader
  BY SMT DEF SequenceHeader
<1> QED
  BY <1>1, <1>2, Zenon

LEMMA StoredOpTypes ==
  ASSUME NEW e \in SequenceHeader, NEW op \in OperatingPoint
  PROVE  StoredOp(e, op) \in OperatingPoint
  BY DEF StoredOp, OperatingPoint

TimingValues(e, t, ops) ==
  /\ t.timing_info_present = e.timing_info_present
  /\ t.equal_picture_interval = (e.timing_info_present /\ e.equal_picture_interval)
  /\ t.num_units_in_display_tick = (IF e.timing_info_present THEN e.num_units_in_display_tick ELSE 0)
  /\ t.time_scale = (IF e.timing_info_present THEN e.time_scale ELSE 0)
  /\ t.num_ticks_per_picture_minus_1
       = (IF e.timing_info_present /\ e.equal_picture_interval
          THEN e.num_ticks_per_picture_minus_1 ELSE 0)
  /\ t.decoder_model_info_present = HasModel(e)
  /\ t.buffer_delay_length_minus_1 = (IF HasModel(e) THEN e.buffer_delay_length_minus_1 ELSE 0)
  /\ t.num_units_in_decoding_tick = (IF HasModel(e) THEN e.num_units_in_decoding_tick ELSE 0)
  /\ t.buffer_removal_time_length_minus_1
       = (IF HasModel(e) THEN e.buffer_removal_time_length_minus_1 ELSE 0)
  /\ t.frame_presentation_time_length_minus_1
       = (IF HasModel(e) THEN e.frame_presentation_time_length_minus_1 ELSE 0)
  /\ t.initial_display_delay_present = e.initial_display_delay_present
  /\ t.operating_points = ops
  /\ t.seq_level_idx = e.operating_points[1].seq_level_idx

StoredOps(e) == [k \in DOMAIN e.operating_points |-> StoredOp(e, e.operating_points[k])]

LEMMA StoredOpsTypes ==
  ASSUME NEW e \in SequenceHeader
  PROVE  /\ StoredOps(e) \in PointLists /\ DOMAIN StoredOps(e) = DOMAIN e.operating_points
         /\ Len(StoredOps(e)) = Len(e.operating_points)
         /\ 1 \in DOMAIN e.operating_points
         /\ \A k \in DOMAIN e.operating_points : e.operating_points[k] \in OperatingPoint
<1>1. e.operating_points \in Seq(OperatingPoint) \ {<< >>}
  BY DEF SequenceHeader, PointLists
<1>2. \A k \in DOMAIN e.operating_points :
        /\ e.operating_points[k] \in OperatingPoint
        /\ StoredOp(e, e.operating_points[k]) \in OperatingPoint
  BY <1>1, StoredOpTypes
<1> QED
  BY <1>1, <1>2 DEF PointLists, StoredOps

LEMMA StoredTimingIs ==
  ASSUME NEW e \in SequenceHeader, NEW t, t = StoredTiming(e)
  PROVE  /\ t \in SequenceHeader /\ SameBase(t, e) /\ SameTools(t, e) /\ SameColor(t, e)
         /\ ~ e.reduced_still_picture_header => TimingValues(e, t, StoredOps(e))
<1> DEFINE full   == ~ e.reduced_still_picture_header
           timing == full /\ e.timing_info_present
           equal  == timing /\ e.equal_picture_interval
           model  == full /\ HasModel(e)
           v1 == IF timing THEN e.num_units_in_display_tick ELSE 0
           v2 == IF timing THEN e.time_scale ELSE 0
           v3 == IF equal THEN e.num_ticks_per_picture_minus_1 ELSE 0
           v4 == IF model THEN e.buffer_delay_length_minus_1 ELSE 0
           v5 == IF model THEN e.num_units_in_decoding_tick ELSE 0
           v6 == IF model THEN e.buffer_removal_time_length_minus_1 ELSE 0
           v7 == IF model THEN e.frame_presentation_time_length_minus_1 ELSE 0
           v8 == full /\ e.initial_display_delay_present
           v9 == IF full THEN StoredOps(e)
                 ELSE <<[DefaultOp EXCEPT !.seq_level_idx = e.seq_level_idx]>>
           v10 == IF full THEN e.operating_points[1].seq_level_idx ELSE e.seq_level_idx
<1>1. t = [e EXCEPT
        !.timing_info_present = timing, !.equal_picture_interval = equal,
        !.num_units_in_display_tick = v1, !.time_scale = v2,
        !.num_ticks_per_picture_minus_1 = v3, !.decoder_model_info_present = model,
        !.buffer_delay_length_minus_1 = v4, !.num_units_in_decoding_tick = v5,
        !.buffer_removal_time_length_minus_1 = v6,
        !.frame_presentation_time_length_minus_1 = v7,
        !.initial_display_delay_present = v8, !.operating_points = v9,
        !.seq_level_idx = v10]
  BY Zenon DEF StoredTiming, StoredOps
<1>2. /\ timing \in BOOLEAN /\ equal \in BOOLEAN /\ model \in BOOLEAN /\ v8 \in BOOLEAN
      /\ v1 \in Nat /\ v2 \in Nat /\ v3 \in Nat /\ v4 \in Nat /\ v5 \in Nat /\ v6 \in Nat /\ v7 \in Nat
      /\ v9 \in PointLists /\ v10 \in Nat
  <2>1. StoredOps(e) \in PointLists /\ e.operating_points[1].seq_level_idx \in Nat
    BY StoredOpsTypes DEF OperatingPoint
  <2>2. <<[DefaultOp EXCEPT !.seq_level_idx = e.seq_level_idx]>> \in PointLists
    <3>1. [DefaultOp EXCEPT !.seq_level_idx = e.seq_level_idx] \in OperatingPoint
      BY DEF DefaultOp, OperatingPoint, SequenceHeader
    <3> QED
      BY <3>1 DEF PointLists
  <2>3. /\ timing \in BOOLEAN /\ equal \in BOOLEAN /\ model \in BOOLEAN /\ v8 \in BOOLEAN
        /\ v1 \in Nat /\ v2 \in Nat /\ v3 \in Nat /\ v4 \in Nat /\ v5 \in Nat /\ v6 \in Nat
        /\ v7 \in Nat /\ v10 \in Nat
    BY <2>1 DEF SequenceHeader
  <2> QED
    BY <2>1, <2>2, <2>3
<1>3. ASSUME ~ e.reduced_still_picture_header
      PROVE  /\ timing = e.timing_info_present /\ equal = (e.timing_info_present /\ e.equal_picture_interval)
       /\ model = HasModel(e) /\ v8 = e.initial_display_delay_present
       /\ v9 = StoredOps(e) /\ v10 = e.operating_points[1].seq_level_idx
       /\ v1 = (IF e.timing_info_present THEN e.num_units_in_display_tick ELSE 0)
       /\ v2 = (IF e.timing_info_present THEN e.time_scale ELSE 0)
       /\ v3 = (IF e.timing_info_present /\ e.equal_picture_interval
                THEN e.num_ticks_per_picture_minus_1 ELSE 0)
       /\ v4 = (IF HasModel(e) THEN e.buffer_delay_length_minus_1 ELSE 0)
       /\ v5 = (IF HasModel(e) THEN e.num_units_in_decoding_tick ELSE 0)
       /\ v6 = (IF HasModel(e) THEN e.buffer_removal_time_length_minus_1 ELSE 0)
       /\ v7 = (IF HasModel(e) THEN e.frame_presentation_time_length_minus_1 ELSE 0)
  BY <1>3 DEF SequenceHeader, HasModel
<1> HIDE DEF timing, equal, model, v1, v2, v3, v4, v5, v6, v7, v8, v9, v10
<1> DEFINE t1 == [e EXCEPT !.timing_info_present = timing, !.equal_picture_interval = equal,
                           !.num_units_in_display_tick = v1, !.time_scale = v2]
           t2 == [t1 EXCEPT !.num_ticks_per_picture_minus_1 = v3,
                            !.decoder_model_info_present = model,
                            !.buffer_delay_length_minus_1 = v4, !.num_units_in_decoding_tick = v5]
           t3 == [t2 EXCEPT !.buffer_removal_time_length_minus_1 = v6,
                            !.frame_presentation_time_length_minus_1 = v7,
                            !.initial_display_delay_present = v8]
<1>4. t \in SequenceHeader
  <2>1. t = [t3 EXCEPT !.operating_points = v9, !.seq_level_idx = v10]
    BY <1>1, Zenon
  <2>2. t1 \in SequenceHeader
    BY <1>2, PutTiming, Zenon
  <2> HIDE DEF t1
  <2>3. t2 \in SequenceHeader
    BY <2>2, <1>2, PutTiming, Zenon
  <2> HIDE DEF t2
  <2>4. t3 \in SequenceHeader
    BY <2>3, <1>2, PutTiming, Zenon
  <2> HIDE DEF t3
  <2>5. [t3 EXCEPT !.operating_points = v9, !.seq_level_idx = v10] \in SequenceHeader
    BY <2>4, <1>2, PutTiming, Zenon
  <2> QED
    BY <2>1, <2>5, Zenon
<1>5. SameBase(t, e)
  BY <1>1 DEF SequenceHeader, SameBase
<1>6. SameTools(t, e)
  BY <1>1 DEF SequenceHeader, SameTools
<1>7. SameColor(t, e)
  BY <1>1 DEF SequenceHeader, SameColor
<1>8. /\ t.timing_info_present = timing /\ t.equal_picture_interval = equal
      /\ t.num_units_in_display_tick = v1 /\ t.time_scale = v2
      /\ t.num_ticks_per_picture_minus_1 = v3 /\ t.decoder_model_info_present = model
  BY <1>1 DEF SequenceHeader
<1>9. /\ t.buffer_delay_length_minus_1 = v4 /\ t.num_units_in_decoding_tick = v5
      /\ t.buffer_removal_time_length_minus_1 = v6
      /\ t.frame_presentation_time_length_minus_1 = v7
      /\ t.initial_display_delay_present = v8 /\ t.operating_points = v9 /\ t.seq_level_idx = v10
  BY <1>1 DEF SequenceHeader
<1>10. ~ e.reduced_still_picture_header => TimingValues(e, t, StoredOps(e))
  BY <1>3, <1>8, <1>9, Zenon DEF TimingValues
<1> QED
  BY <1>4, <1>5, <1>6, <1>7, <1>10

ToolsValues(e, t) ==
  /\ t.frame_id_numbers_present = e.frame_id_numbers_present
  /\ t.delta_frame_id_length_minus_2 = (IF e.frame_id_numbers_present THEN e.delta_frame_id_length_minus_2 ELSE 0)
  /\ t.additional_frame_id_length_minus_1 = (IF e.frame_id_numbers_present THEN e.additional_frame_id_length_minus_1 ELSE 0)
  /\ t.enable_interintra_compound = e.enable_interintra_compound
  /\ t.enable_masked_compound = e.enable_masked_compound
  /\ t.enable_warped_motion = e.enable_warped_motion
  /\ t.enable_dual_filter = e.enable_dual_filter
  /\ t.enable_order_hint = e.enable_order_hint
  /\ t.order_hint_bits = (IF e.enable_order_hint THEN e.order_hint_bits ELSE 0)
  /\ t.enable_jnt_comp = (e.enable_order_hint /\ e.enable_jnt_comp)
  /\ t.enable_ref_frame_mvs = (e.enable_order_hint /\ e.enable_ref_frame_mvs)
  /\ t.seq_choose_screen_content_tools = e.seq_choose_screen_content_tools
  /\ t.seq_force_screen_content_tools = ForceScreenContent(e)
  /\ t.seq_choose_integer_mv = (ForceScreenContent(e) > 0 /\ e.seq_choose_integer_mv)
  /\ t.seq_force_integer_mv = (IF ForceScreenContent(e) > 0 /\ ~ e.seq_choose_integer_mv THEN e.seq_force_integer_mv ELSE SELECT)

LEMMA StoredToolsIs ==
  ASSUME NEW e \in SequenceHeader, NEW t, t = StoredTools(e)
  PROVE  /\ t \in SequenceHeader /\ SameBase(t, e) /\ SameTiming(t, e) /\ SameColor(t, e)
         /\ ~ e.reduced_still_picture_header => ToolsValues(e, t)
<1> DEFINE full  == ~ e.reduced_still_picture_header
           ids   == full /\ e.frame_id_numbers_present
           hints == full /\ e.enable_order_hint
           mvs   == full /\ ForceScreenContent(e) > 0
           v1  == IF ids THEN e.delta_frame_id_length_minus_2 ELSE 0
           v2  == IF ids THEN e.additional_frame_id_length_minus_1 ELSE 0
           v3  == full /\ e.enable_interintra_compound
           v4  == full /\ e.enable_masked_compound
           v5  == full /\ e.enable_warped_motion
           v6  == full /\ e.enable_dual_filter
           v7  == IF hints THEN e.order_hint_bits ELSE 0
           v8  == hints /\ e.enable_jnt_comp
           v9  == hints /\ e.enable_ref_frame_mvs
           v10 == full /\ e.seq_choose_screen_content_tools
           v11 == IF full THEN ForceScreenContent(e) ELSE SELECT
           v12 == mvs /\ e.seq_choose_integer_mv
           v13 == IF mvs /\ ~ e.seq_choose_integer_mv THEN e.seq_force_integer_mv ELSE SELECT
<1>1. t = [e EXCEPT
        !.frame_id_numbers_present = ids,
        !.delta_frame_id_length_minus_2 = v1,
        !.additional_frame_id_length_minus_1 = v2,
        !.enable_interintra_compound = v3,
        !.enable_masked_compound = v4,
        !.enable_warped_motion = v5,
        !.enable_dual_filter = v6,
        !.enable_order_hint = hints,
        !.order_hint_bits = v7,
        !.enable_jnt_comp = v8,
        !.enable_ref_frame_mvs = v9,
        !.seq_choose_screen_content_tools = v10,
        !.seq_force_screen_content_tools = v11,
        !.seq_choose_integer_mv = v12,
        !.seq_force_integer_mv = v13]
  BY Zenon DEF StoredTools
<1>2. /\ ids \in BOOLEAN
      /\ v1 \in Nat
      /\ v2 \in Nat
      /\ v3 \in BOOLEAN
      /\ v4 \in BOOLEAN
      /\ v5 \in BOOLEAN
      /\ v6 \in BOOLEAN
      /\ hints \in BOOLEAN
      /\ v7 \in Nat
      /\ v8 \in BOOLEAN
      /\ v9 \in BOOLEAN
      /\ v10 \in BOOLEAN
      /\ v11 \in 0..SELECT
      /\ v12 \in BOOLEAN
      /\ v13 \in 0..SELECT
  BY DEF SequenceHeader, ForceScreenContent, SELECT
<1>3. ASSUME ~ e.reduced_still_picture_header
      PROVE  /\ ids = e.frame_id_numbers_present
       /\ v1 = (IF e.frame_id_numbers_present THEN e.delta_frame_id_length_minus_2 ELSE 0)
       /\ v2 = (IF e.frame_id_numbers_present THEN e.additional_frame_id_length_minus_1 ELSE 0)
       /\ v3 = e.enable_interintra_compound
       /\ v4 = e.enable_masked_compound
       /\ v5 = e.enable_warped_motion
       /\ v6 = e.enable_dual_filter
       /\ hints = e.enable_order_hint
       /\ v7 = (IF e.enable_order_hint THEN e.order_hint_bits ELSE 0)
       /\ v8 = (e.enable_order_hint /\ e.enable_jnt_comp)
       /\ v9 = (e.enable_order_hint /\ e.enable_ref_frame_mvs)
       /\ v10 = e.seq_choose_screen_content_tools
       /\ v11 = ForceScreenContent(e)
       /\ v12 = (ForceScreenContent(e) > 0 /\ e.seq_choose_integer_mv)
       /\ v13 = (IF ForceScreenContent(e) > 0 /\ ~ e.seq_choose_integer_mv THEN e.seq_force_integer_mv ELSE SELECT)
  BY <1>3 DEF SequenceHeader, ForceScreenContent, SELECT
<1> HIDE DEF ids, v1, v2, v3, v4, v5, v6, hints, v7, v8, v9, v10, v11, v12, v13
<1> DEFINE t1 == [e EXCEPT !.frame_id_numbers_present = ids, !.delta_frame_id_length_minus_2 = v1, !.additional_frame_id_length_minus_1 = v2, !.enable_interintra_compound = v3]
           t2 == [t1 EXCEPT !.enable_masked_compound = v4, !.enable_warped_motion = v5, !.enable_dual_filter = v6, !.enable_order_hint = hints]
           t3 == [t2 EXCEPT !.order_hint_bits = v7, !.enable_jnt_comp = v8, !.enable_ref_frame_mvs = v9, !.seq_choose_screen_content_tools = v10]
<1>4. t \in SequenceHeader
  <2>1. t = [t3 EXCEPT !.seq_force_screen_content_tools = v11, !.seq_choose_integer_mv = v12, !.seq_force_integer_mv = v13]
    BY <1>1, Zenon
  <2>2. t1 \in SequenceHeader
    BY <1>2, PutTools, Zenon
  <2> HIDE DEF t1
  <2>3. t2 \in SequenceHeader
    BY <2>2, <1>2, PutTools, Zenon
  <2> HIDE DEF t2
  <2>4. t3 \in SequenceHeader
    BY <2>3, <1>2, PutTools, Zenon
  <2> HIDE DEF t3
  <2>5. [t3 EXCEPT !.seq_force_screen_content_tools = v11, !.seq_choose_integer_mv = v12, !.seq_force_integer_mv = v13] \in SequenceHeader
    BY <2>4, <1>2, PutTools, Zenon
  <2> QED
    BY <2>1, <2>5, Zenon
<1>5. SameBase(t, e)
  BY <1>1 DEF SequenceHeader, SameBase
<1>6. SameTiming(t, e)
  BY <1>1 DEF SequenceHeader, SameTiming
<1>7. SameColor(t, e)
  BY <1>1 DEF SequenceHeader, SameColor
<1>8. /\ t.frame_id_numbers_present = ids
      /\ t.delta_frame_id_length_minus_2 = v1
      /\ t.additional_frame_id_length_minus_1 = v2
      /\ t.enable_interintra_compound = v3
      /\ t.enable_masked_compound = v4
      /\ t.enable_warped_motion = v5
      /\ t.enable_dual_filter = v6
      /\ t.enable_order_hint = hints
  BY <1>1 DEF SequenceHeader
<1>9. /\ t.order_hint_bits = v7
      /\ t.enable_jnt_comp = v8
      /\ t.enable_ref_frame_mvs = v9
      /\ t.seq_choose_screen_content_tools = v10
      /\ t.seq_force_screen_content_tools = v11
      /\ t.seq_choose_integer_mv = v12
      /\ t.seq_force_integer_mv = v13
  BY <1>1 DEF SequenceHeader
<1>10. ~ e.reduced_still_picture_header => ToolsValues(e, t)
  BY <1>3, <1>8, <1>9, Zenon DEF ToolsValues
<1> QED
  BY <1>4, <1>5, <1>6, <1>7, <1>10, Zenon

ColorValues(e, t) ==
  /\ t.twelve_bit = (e.seq_profile = 2 /\ e.high_bitdepth /\ e.twelve_bit)
  /\ t.bit_depth = BitDepth(e)
  /\ t.mono_chrome = Mono(e)
  /\ t.color_primaries = (IF e.color_description_present THEN e.color_primaries ELSE UNSPECIFIED)
  /\ t.transfer_characteristics = (IF e.color_description_present THEN e.transfer_characteristics ELSE UNSPECIFIED)
  /\ t.matrix_coefficients = (IF e.color_description_present THEN e.matrix_coefficients ELSE UNSPECIFIED)
  /\ t.color_range = ((Mono(e) \/ (~ Mono(e) /\ ~ ImpliedRgb(e))) /\ e.color_range)
  /\ t.subsample_x = ((~ Mono(e) /\ ~ ImpliedRgb(e)) /\ SubX(e))
  /\ t.subsample_y = ((~ Mono(e) /\ ~ ImpliedRgb(e)) /\ SubY(e))
  /\ t.chroma_sample_position = (IF (~ Mono(e) /\ ~ ImpliedRgb(e)) /\ SubX(e) /\ SubY(e) THEN e.chroma_sample_position ELSE 0)

LEMMA StoredColorIs ==
  ASSUME NEW e \in SequenceHeader, NEW t, t = StoredColor(e)
  PROVE  /\ t \in SequenceHeader /\ SameBase(t, e) /\ SameTiming(t, e) /\ SameTools(t, e)
         /\ ~ e.reduced_still_picture_header => ColorValues(e, t)
<1> DEFINE coded == ~ Mono(e) /\ ~ ImpliedRgb(e)
           desc == e.color_description_present
           v1 == e.seq_profile = 2 /\ e.high_bitdepth /\ e.twelve_bit
           v2 == IF desc THEN e.color_primaries ELSE UNSPECIFIED
           v3 == IF desc THEN e.transfer_characteristics ELSE UNSPECIFIED
           v4 == IF desc THEN e.matrix_coefficients ELSE UNSPECIFIED
           v5 == (Mono(e) \/ coded) /\ e.color_range
           v6 == coded /\ SubX(e)
           v7 == coded /\ SubY(e)
           v8 == IF coded /\ SubX(e) /\ SubY(e) THEN e.chroma_sample_position ELSE 0
<1>1. t = [e EXCEPT
        !.twelve_bit = v1,
        !.bit_depth = BitDepth(e),
        !.mono_chrome = Mono(e),
        !.color_primaries = v2,
        !.transfer_characteristics = v3,
        !.matrix_coefficients = v4,
        !.color_range = v5,
        !.subsample_x = v6,
        !.subsample_y = v7,
        !.chroma_sample_position = v8]
  BY Zenon DEF StoredColor
<1>2. /\ v1 \in BOOLEAN
      /\ BitDepth(e) \in Nat
      /\ Mono(e) \in BOOLEAN
      /\ v2 \in Nat
      /\ v3 \in Nat
      /\ v4 \in Nat
      /\ v5 \in BOOLEAN
      /\ v6 \in BOOLEAN
      /\ v7 \in BOOLEAN
      /\ v8 \in Nat
  BY DEF SequenceHeader, BitDepth, Mono, ImpliedRgb, SubX, SubY, CodesSubsampling, UNSPECIFIED
<1>3. ASSUME ~ e.reduced_still_picture_header
      PROVE  /\ v1 = (e.seq_profile = 2 /\ e.high_bitdepth /\ e.twelve_bit)
       /\ v2 = (IF e.color_description_present THEN e.color_primaries ELSE UNSPECIFIED)
       /\ v3 = (IF e.color_description_present THEN e.transfer_characteristics ELSE UNSPECIFIED)
       /\ v4 = (IF e.color_description_present THEN e.matrix_coefficients ELSE UNSPECIFIED)
       /\ v5 = ((Mono(e) \/ (~ Mono(e) /\ ~ ImpliedRgb(e))) /\ e.color_range)
       /\ v6 = ((~ Mono(e) /\ ~ ImpliedRgb(e)) /\ SubX(e))
       /\ v7 = ((~ Mono(e) /\ ~ ImpliedRgb(e)) /\ SubY(e))
       /\ v8 = (IF (~ Mono(e) /\ ~ ImpliedRgb(e)) /\ SubX(e) /\ SubY(e) THEN e.chroma_sample_position ELSE 0)
  BY <1>3 DEF SequenceHeader
<1> HIDE DEF v1, v2, v3, v4, v5, v6, v7, v8
<1> DEFINE t1 == [e EXCEPT !.twelve_bit = v1, !.bit_depth = BitDepth(e), !.mono_chrome = Mono(e), !.color_primaries = v2]
           t2 == [t1 EXCEPT !.transfer_characteristics = v3, !.matrix_coefficients = v4, !.color_range = v5, !.subsample_x = v6]
<1>4. t \in SequenceHeader
  <2>1. t = [t2 EXCEPT !.subsample_y = v7, !.chroma_sample_position = v8]
    BY <1>1, Zenon
  <2>2. t1 \in SequenceHeader
    BY <1>2, PutColor, Zenon
  <2> HIDE DEF t1
  <2>3. t2 \in SequenceHeader
    BY <2>2, <1>2, PutColor, Zenon
  <2> HIDE DEF t2
  <2>4. [t2 EXCEPT !.subsample_y = v7, !.chroma_sample_position = v8] \in SequenceHeader
    BY <2>3, <1>2, PutColor, Zenon
  <2> QED
    BY <2>1, <2>4, Zenon
<1>5. SameBase(t, e)
  BY <1>1 DEF SequenceHeader, SameBase
<1>6. SameTiming(t, e)
  BY <1>1 DEF SequenceHeader, SameTiming
<1>7. SameTools(t, e)
  BY <1>1 DEF SequenceHeader, SameTools
<1>8. /\ t.twelve_bit = v1
      /\ t.bit_depth = BitDepth(e)
      /\ t.mono_chrome = Mono(e)
      /\ t.color_primaries = v2
      /\ t.transfer_characteristics = v3
      /\ t.matrix_coefficients = v4
      /\ t.color_range = v5
      /\ t.subsample_x = v6
  BY <1>1 DEF SequenceHeader
<1>9. /\ t.subsample_y = v7
      /\ t.chroma_sample_position = v8
  BY <1>1 DEF SequenceHeader
<1>10. ~ e.reduced_still_picture_header => ColorValues(e, t)
  BY <1>3, <1>8, <1>9, Zenon DEF ColorValues
<1> QED
  BY <1>4, <1>5, <1>6, <1>7, <1>10, Zenon

(* What the parser stores of a header that is not reduced, and the headers *)
(* that are stored as they are.                                            *)
Stores(e, h) == /\ SameBase(h, e) /\ TimingValues(e, h, StoredOps(e))
                /\ ToolsValues(e, h) /\ ColorValues(e, h)

Canonical(h) == /\ h \in SequenceHeader /\ ~ h.reduced_still_picture_header
                /\ TimingValues(h, h, StoredOps(h)) /\ ToolsValues(h, h) /\ ColorValues(h, h)

LEMMA ParsedIs ==
  ASSUME NEW e \in SequenceHeader, ~ e.reduced_still_picture_header,
         NEW h, h = ParseSequenceHeader(e)
  PROVE  h \in SequenceHeader /\ Stores(e, h)
<1> DEFINE t == StoredTiming(e)
           u == StoredTools(t)
<1>1. /\ t \in SequenceHeader /\ TimingValues(e, t, StoredOps(e))
      /\ SameBase(t, e) /\ SameTools(t, e) /\ SameColor(t, e)
  BY StoredTimingIs, Zenon
<1>2. ~ t.reduced_still_picture_header
  BY <1>1, Zenon DEF SameBase
<1>3. h = StoredColor(u)
  BY Zenon DEF ParseSequenceHeader
<1> HIDE DEF t
<1>4. /\ u \in SequenceHeader /\ ToolsValues(t, u)
      /\ SameBase(u, t) /\ SameTiming(u, t) /\ SameColor(u, t)
  BY <1>1, <1>2, StoredToolsIs, Zenon
<1>5. ~ u.reduced_still_picture_header
  BY <1>2, <1>4, Zenon DEF SameBase
<1> HIDE DEF u
<1>6. /\ h \in SequenceHeader /\ ColorValues(u, h)
      /\ SameBase(h, u) /\ SameTiming(h, u) /\ SameTools(h, u)
  BY <1>3, <1>4, <1>5, StoredColorIs, Zenon
<1>7. SameBase(h, e)
  BY <1>1, <1>4, <1>6, SMT DEF SameBase
<1>8. TimingValues(e, h, StoredOps(e))
  BY <1>1, <1>4, <1>6, SMT DEF SameTiming, TimingValues
<1>9. ToolsValues(e, h)
  BY <1>1, <1>4, <1>6, SMT DEF SameTools, ToolsValues, ForceScreenContent
<1>10. ColorValues(e, h)
  <2>1. SameColor(u, e) /\ SameBase(u, e)
    BY <1>1, <1>4, SMT DEF SameColor, SameBase
  <2>2. /\ Mono(u) = Mono(e) /\ ImpliedRgb(u) = ImpliedRgb(e) /\ BitDepth(u) = BitDepth(e)
        /\ SubX(u) = SubX(e) /\ SubY(u) = SubY(e)
    BY <2>1, SMT
       DEF SameColor, SameBase, Mono, ImpliedRgb, BitDepth, SubX, SubY, CodesSubsampling
  <2> QED
    BY <1>6, <2>1, <2>2, SMT DEF ColorValues, SameColor, SameBase
<1> QED
  BY <1>6, <1>7, <1>8, <1>9, <1>10, Zenon DEF Stores

LEMMA CanonicalKept ==
  ASSUME NEW h, Canonical(h)
  PROVE  ParseSequenceHeader(h) = h
<1> DEFINE g == ParseSequenceHeader(h)
<1>1. g \in SequenceHeader /\ Stores(h, g)
  BY ParsedIs, Zenon DEF Canonical
<1> HIDE DEF g
<1>2. SameTiming(g, h) /\ SameTools(g, h) /\ SameColor(g, h)
  BY <1>1, SMT
     DEF Canonical, Stores, SameTiming, SameTools, SameColor, TimingValues, ToolsValues, ColorValues
<1>3. g = h
  BY <1>1, <1>2, SameAll, Zenon DEF Canonical, Stores
<1> QED
  BY <1>3 DEF g

LEMMA SubsamplingTypes ==
  ASSUME NEW e \in SequenceHeader
  PROVE  SubX(e) \in BOOLEAN /\ SubY(e) \in BOOLEAN
  BY DEF SubX, SubY, CodesSubsampling, SequenceHeader

(* Reading what has been stored stores the same: the operating points.     *)
LEMMA StoredOpsAgain ==
  ASSUME NEW e \in SequenceHeader, NEW h \in SequenceHeader,
         TimingValues(e, h, StoredOps(e))
  PROVE  StoredOps(h) = StoredOps(e)
<1>1. HasModel(h) = HasModel(e) /\ h.initial_display_delay_present = e.initial_display_delay_present
  BY DEF TimingValues, HasModel
<1>2. h.operating_points = StoredOps(e)
  BY DEF TimingValues
<1>3. ASSUME NEW op \in OperatingPoint
      PROVE  StoredOp(h, StoredOp(e, op)) = StoredOp(e, op)
  BY <1>1, SMT DEF StoredOp, OperatingPoint
<1>4. /\ DOMAIN StoredOps(e) = DOMAIN e.operating_points
      /\ \A k \in DOMAIN e.operating_points : e.operating_points[k] \in OperatingPoint
  BY StoredOpsTypes, Zenon
<1>5. \A k \in DOMAIN e.operating_points :
        StoredOp(h, StoredOps(e)[k]) = StoredOp(e, e.operating_points[k])
  BY <1>3, <1>4, Zenon DEF StoredOps
<1> QED
  BY <1>2, <1>4, <1>5, Zenon DEF StoredOps

LEMMA StoredCanonical ==
  ASSUME NEW e \in SequenceHeader, ~ e.reduced_still_picture_header,
         NEW h \in SequenceHeader, Stores(e, h)
  PROVE  Canonical(h)
<1>1. StoredOps(h) = StoredOps(e)
  BY StoredOpsAgain, Zenon DEF Stores
<1>2. ~ h.reduced_still_picture_header
  BY Zenon DEF Stores, SameBase
<1>3. h.operating_points[1].seq_level_idx = e.operating_points[1].seq_level_idx
  <2>1. h.operating_points[1] = StoredOp(e, e.operating_points[1])
    BY StoredOpsTypes, Zenon DEF Stores, TimingValues, StoredOps
  <2> QED
    BY <2>1 DEF StoredOp
<1>4. TimingValues(h, h, StoredOps(e))
  <2>1. /\ e.timing_info_present \in BOOLEAN /\ e.equal_picture_interval \in BOOLEAN
        /\ e.decoder_model_info_present \in BOOLEAN
    BY DEF SequenceHeader
  <2> QED
    BY <1>3, <2>1, SMT DEF Stores, TimingValues, HasModel
<1>5. ToolsValues(h, h)
  BY SMT DEF Stores, ToolsValues, ForceScreenContent, SELECT, SequenceHeader
<1>6. ColorValues(h, h)
  <2>1. SameBase(h, e) /\ ColorValues(e, h)
    BY DEF Stores
  <2> DEFINE Booleans(x) == /\ x.high_bitdepth \in BOOLEAN /\ x.twelve_bit \in BOOLEAN
                            /\ x.mono_chrome \in BOOLEAN /\ x.color_range \in BOOLEAN
                            /\ x.subsample_x \in BOOLEAN /\ x.subsample_y \in BOOLEAN
                            /\ x.color_description_present \in BOOLEAN
                            /\ x.seq_profile \in Nat
  <2>t. Booleans(e) /\ Booleans(h)
    BY DEF SequenceHeader
  <2>2. Mono(h) = Mono(e) /\ ImpliedRgb(h) = ImpliedRgb(e) /\ BitDepth(h) = BitDepth(e)
    BY <2>1, <2>t, SMT DEF ColorValues, SameBase, Mono, ImpliedRgb, BitDepth, UNSPECIFIED
  <2>3. ASSUME ~ Mono(e), ~ ImpliedRgb(e) PROVE SubX(h) = SubX(e) /\ SubY(h) = SubY(e)
    <3>1. h.seq_profile = e.seq_profile /\ h.subsample_x = SubX(e) /\ h.subsample_y = SubY(e)
      BY <2>1, <2>3, <2>t, SubsamplingTypes, SMT DEF ColorValues, SameBase
    <3>2. CodesSubsampling(h) = CodesSubsampling(e)
      BY <2>2, <3>1, SMT DEF CodesSubsampling
    <3>3. CASE e.seq_profile = 0
      BY <3>1, <3>3, SMT DEF SubX, SubY
    <3>4. CASE e.seq_profile = 1
      BY <3>1, <3>4, SMT DEF SubX, SubY
    <3>5. CASE e.seq_profile # 0 /\ e.seq_profile # 1
      <4>1. /\ SubX(e) = (CodesSubsampling(e) => e.subsample_x)
            /\ SubX(h) = (CodesSubsampling(h) => h.subsample_x)
        BY <3>1, <3>5, Zenon DEF SubX
      <4>2. /\ SubY(e) = (CodesSubsampling(e) /\ e.subsample_x /\ e.subsample_y)
            /\ SubY(h) = (CodesSubsampling(h) /\ h.subsample_x /\ h.subsample_y)
        BY <3>1, <3>5, Zenon DEF SubY
      <4>3. CodesSubsampling(e) \in BOOLEAN
        BY DEF CodesSubsampling
      <4> QED
        BY <3>1, <3>2, <4>1, <4>2, <4>3, <2>t, SMT
    <3> QED
      BY <3>3, <3>4, <3>5, Zenon
  <2> QED
    BY <2>1, <2>2, <2>3, <2>t, SMT DEF ColorValues, SameBase, Mono
<1> QED
  BY <1>1, <1>2, <1>4, <1>5, <1>6, Zenon DEF Canonical

(* The rewrites change the timing only.                                    *)
LEMMA ToolsColorKept ==
  ASSUME NEW h, Canonical(h), NEW g \in SequenceHeader,
         SameBase(g, h), SameTools(g, h), SameColor(g, h)
  PROVE  ~ g.reduced_still_picture_header /\ ToolsValues(g, g) /\ ColorValues(g, g)
<1>1. ~ g.reduced_still_picture_header
  BY Zenon DEF Canonical, SameBase
<1>2. ToolsValues(g, g)
  BY SMT DEF Canonical, SameTools, ToolsValues, ForceScreenContent
<1>3. ColorValues(g, g)
  <2>1. /\ Mono(g) = Mono(h) /\ ImpliedRgb(g) = ImpliedRgb(h) /\ BitDepth(g) = BitDepth(h)
        /\ CodesSubsampling(g) = CodesSubsampling(h)
    BY SMT DEF SameColor, SameBase, Mono, ImpliedRgb, BitDepth, CodesSubsampling
  <2>2. SubX(g) = SubX(h) /\ SubY(g) = SubY(h)
    BY <2>1, Zenon DEF SubX, SubY, SameBase, SameColor
  <2> QED
    BY <2>1, <2>2, SMT DEF Canonical, ColorValues, SameColor, SameBase
<1> QED
  BY <1>1, <1>2, <1>3

(* What a rewrite leaves alone. *)
Retimed(g, h) == SameBase(g, h) /\ SameTools(g, h) /\ SameColor(g, h)

LEMMA TimedCanonical ==
  ASSUME NEW h, Canonical(h), ~ h.timing_info_present, NEW num \in Nat, NEW den \in Nat,
         NEW g, g = WithTimingInfoRate(h, num, den)
  PROVE  /\ Canonical(g) /\ Retimed(g, h)
         /\ g.timing_info_present /\ g.equal_picture_interval /\ ~ g.decoder_model_info_present
<1> DEFINE n == AtLeast1(num)
           d == AtLeast1(den)
<1>1. h \in SequenceHeader
  BY DEF Canonical
<1>2. n \in Nat /\ d \in Nat
  BY DEF AtLeast1
<1>3. g = [h EXCEPT !.timing_info_present = TRUE, !.equal_picture_interval = TRUE,
                    !.num_units_in_display_tick = d, !.time_scale = n,
                    !.num_ticks_per_picture_minus_1 = 0]
  BY DEF WithTimingInfoRate
<1> HIDE DEF n, d
<1>4. g \in SequenceHeader
  <2> DEFINE g1 == [h EXCEPT !.timing_info_present = TRUE, !.equal_picture_interval = TRUE,
                             !.num_units_in_display_tick = d]
  <2>1. g = [g1 EXCEPT !.time_scale = n, !.num_ticks_per_picture_minus_1 = 0]
    BY <1>3, Zenon
  <2>2. TRUE \in BOOLEAN /\ 0 \in Nat
    OBVIOUS
  <2>3. g1 \in SequenceHeader
    BY <1>1, <1>2, <2>2, PutTiming, Zenon
  <2> HIDE DEF g1
  <2>4. [g1 EXCEPT !.time_scale = n, !.num_ticks_per_picture_minus_1 = 0] \in SequenceHeader
    BY <1>2, <2>2, <2>3, PutTiming, Zenon
  <2> QED
    BY <2>1, <2>4, Zenon
<1>5. SameBase(g, h)
  BY <1>1, <1>3 DEF SequenceHeader, SameBase
<1>6. SameTools(g, h)
  BY <1>1, <1>3 DEF SequenceHeader, SameTools
<1>7. SameColor(g, h)
  BY <1>1, <1>3 DEF SequenceHeader, SameColor
<1>8. /\ g.timing_info_present = TRUE /\ g.equal_picture_interval = TRUE
      /\ g.num_units_in_display_tick = d /\ g.time_scale = n
      /\ g.num_ticks_per_picture_minus_1 = 0
      /\ g.decoder_model_info_present = h.decoder_model_info_present
      /\ g.buffer_delay_length_minus_1 = h.buffer_delay_length_minus_1
  BY <1>1, <1>3 DEF SequenceHeader
<1>9. /\ g.num_units_in_decoding_tick = h.num_units_in_decoding_tick
      /\ g.buffer_removal_time_length_minus_1 = h.buffer_removal_time_length_minus_1
      /\ g.frame_presentation_time_length_minus_1 = h.frame_presentation_time_length_minus_1
      /\ g.initial_display_delay_present = h.initial_display_delay_present
      /\ g.operating_points = h.operating_points /\ g.seq_level_idx = h.seq_level_idx
  BY <1>1, <1>3 DEF SequenceHeader
<1>10. TimingValues(h, h, StoredOps(h))
  BY DEF Canonical
<1>11. HasModel(h) = FALSE /\ HasModel(g) = FALSE /\ h.decoder_model_info_present = FALSE
  BY <1>8, <1>10 DEF TimingValues, HasModel
<1>12. StoredOps(g) = StoredOps(h)
  <2>1. \A op : StoredOp(g, op) = StoredOp(h, op)
    BY <1>9, <1>11, Zenon DEF StoredOp
  <2> QED
    BY <1>9, <2>1, Zenon DEF StoredOps
<1>13. TimingValues(g, g, StoredOps(h))
  <2>1. /\ TimingValues(h, h, StoredOps(h)) <=>
             /\ h.buffer_delay_length_minus_1 = 0 /\ h.num_units_in_decoding_tick = 0
             /\ h.buffer_removal_time_length_minus_1 = 0
             /\ h.frame_presentation_time_length_minus_1 = 0
             /\ h.equal_picture_interval = FALSE /\ h.num_units_in_display_tick = 0
             /\ h.time_scale = 0 /\ h.num_ticks_per_picture_minus_1 = 0
             /\ h.operating_points = StoredOps(h)
             /\ h.seq_level_idx = h.operating_points[1].seq_level_idx
    BY <1>10, <1>11 DEF TimingValues
  <2> QED
    BY <1>8, <1>9, <1>10, <1>11, <2>1 DEF TimingValues
<1>14. ~ g.reduced_still_picture_header /\ ToolsValues(g, g) /\ ColorValues(g, g)
  BY <1>4, <1>5, <1>6, <1>7, ToolsColorKept, Zenon
<1>15. Canonical(g)
  BY <1>4, <1>12, <1>13, <1>14, Zenon DEF Canonical
<1> QED
  BY <1>5, <1>6, <1>7, <1>8, <1>11, <1>15, Zenon DEF Retimed

(* An operating point under the model that the rewrite declares. *)
OpModelled(op, delay) == [op EXCEPT !.decoder_model_present = TRUE, !.decoder_buffer_delay = delay,
                             !.encoder_buffer_delay = delay, !.low_delay_mode = FALSE]

OpsModelled(ops, delay) == [k \in DOMAIN ops |-> OpModelled(ops[k], delay)]

LEMMA PutModel ==
  ASSUME NEW op \in OperatingPoint
  PROVE  /\ \A v \in BOOLEAN : [op EXCEPT !.decoder_model_present = v] \in OperatingPoint
         /\ \A v \in Nat : [op EXCEPT !.decoder_buffer_delay = v] \in OperatingPoint
         /\ \A v \in Nat : [op EXCEPT !.encoder_buffer_delay = v] \in OperatingPoint
         /\ \A v \in BOOLEAN : [op EXCEPT !.low_delay_mode = v] \in OperatingPoint
  BY SMT DEF OperatingPoint

KeptBut(op, m) ==
  /\ m \in OperatingPoint /\ m.idc = op.idc /\ m.seq_level_idx = op.seq_level_idx
  /\ m.seq_tier = op.seq_tier /\ m.decoder_model_present = TRUE
  /\ m.low_delay_mode = FALSE
  /\ m.initial_display_delay_present = op.initial_display_delay_present
  /\ m.initial_display_delay_minus_1 = op.initial_display_delay_minus_1

LEMMA OpModelledIs ==
  ASSUME NEW op \in OperatingPoint, NEW delay \in Nat
  PROVE  KeptBut(op, OpModelled(op, delay))
<1> DEFINE m == OpModelled(op, delay)
<1>3. m = OpModelled(op, delay)
  OBVIOUS
<1> HIDE DEF m
<1>1. m \in OperatingPoint
  <2>2. TRUE \in BOOLEAN /\ FALSE \in BOOLEAN
    OBVIOUS
  <2> DEFINE q == [op EXCEPT !.decoder_model_present = TRUE, !.decoder_buffer_delay = delay]
  <2>3. q \in OperatingPoint
    BY <2>2, PutModel, Zenon
  <2>4. m = [q EXCEPT !.encoder_buffer_delay = delay, !.low_delay_mode = FALSE]
    BY <1>3, Zenon DEF OpModelled
  <2> HIDE DEF q
  <2>5. [q EXCEPT !.encoder_buffer_delay = delay, !.low_delay_mode = FALSE] \in OperatingPoint
    BY <2>2, <2>3, PutModel, Zenon
  <2> QED
    BY <2>4, <2>5, Zenon
<1>2. /\ m.idc = op.idc /\ m.seq_level_idx = op.seq_level_idx
      /\ m.seq_tier = op.seq_tier /\ m.decoder_model_present = TRUE
      /\ m.low_delay_mode = FALSE
      /\ m.initial_display_delay_present = op.initial_display_delay_present
      /\ m.initial_display_delay_minus_1 = op.initial_display_delay_minus_1
  BY <1>3 DEF OpModelled, OperatingPoint
<1> QED
  BY <1>1, <1>2, Zenon DEF KeptBut, m

AllModelled(pts, ops, delay) ==
  /\ ops \in PointLists /\ DOMAIN ops = DOMAIN pts /\ 1 \in DOMAIN pts
  /\ \A k \in DOMAIN pts : /\ pts[k] \in OperatingPoint /\ ops[k] = OpModelled(pts[k], delay)
                          /\ KeptBut(pts[k], ops[k])

LEMMA OpsModelledTypes ==
  ASSUME NEW pts \in PointLists, NEW delay \in Nat
  PROVE  AllModelled(pts, OpsModelled(pts, delay), delay)
<1> DEFINE ops == OpsModelled(pts, delay)
<1>1. /\ pts \in Seq(OperatingPoint) /\ pts # << >>
      /\ DOMAIN pts = 1..Len(pts) /\ Len(pts) \in Nat
  BY DEF PointLists
<1>2. \A k \in DOMAIN pts : pts[k] \in OperatingPoint /\ OpModelled(pts[k], delay) \in OperatingPoint
  <2>1. \A k \in DOMAIN pts : pts[k] \in OperatingPoint
    BY <1>1
  <2> QED
    BY <2>1, OpModelledIs, Zenon DEF KeptBut
<1>3. DOMAIN ops = DOMAIN pts /\ \A k \in DOMAIN pts : ops[k] = OpModelled(pts[k], delay)
  BY Zenon DEF OpsModelled
<1>4. 1 \in DOMAIN pts
  BY <1>1
<1>5. ops \in Seq(OperatingPoint)
  BY <1>1, <1>2, SMT DEF OpsModelled
<1>6. ops # << >>
  BY <1>3, <1>4
<1> QED
  BY <1>2, <1>3, <1>4, <1>5, <1>6, OpModelledIs, Zenon DEF PointLists, AllModelled

ModelledWith(h, num, ops) ==
  [h EXCEPT !.decoder_model_info_present = TRUE,
            !.buffer_delay_length_minus_1 = 31, !.num_units_in_decoding_tick = num,
            !.buffer_removal_time_length_minus_1 = 15,
            !.frame_presentation_time_length_minus_1 = 23, !.operating_points = ops]

Declares(g, h) ==
  /\ Canonical(g) /\ Retimed(g, h)
  /\ g.decoder_model_info_present /\ g.equal_picture_interval = h.equal_picture_interval

LEMMA ModelledAs ==
  ASSUME NEW h, Canonical(h), h.timing_info_present, NEW num \in Nat, NEW delay \in Nat
  PROVE  Declares(ModelledWith(h, num, OpsModelled(h.operating_points, delay)), h)
<1> DEFINE ops == OpsModelled(h.operating_points, delay)
           g   == ModelledWith(h, num, ops)
<1>2. g = [h EXCEPT !.decoder_model_info_present = TRUE,
            !.buffer_delay_length_minus_1 = 31, !.num_units_in_decoding_tick = num,
            !.buffer_removal_time_length_minus_1 = 15,
            !.frame_presentation_time_length_minus_1 = 23, !.operating_points = ops]
  BY Zenon DEF ModelledWith
<1> HIDE DEF ops, g
<1>1. h \in SequenceHeader /\ TimingValues(h, h, StoredOps(h))
  BY DEF Canonical
<1>3. h.operating_points \in PointLists
  BY <1>1, <1>2 DEF SequenceHeader
<1>4. /\ ops \in PointLists /\ DOMAIN ops = DOMAIN h.operating_points
      /\ 1 \in DOMAIN h.operating_points
      /\ \A k \in DOMAIN h.operating_points :
           /\ h.operating_points[k] \in OperatingPoint
           /\ ops[k] = OpModelled(h.operating_points[k], delay)
           /\ KeptBut(h.operating_points[k], ops[k])
  BY <1>3, OpsModelledTypes, Zenon DEF AllModelled, ops
<1>16. ops[1].seq_level_idx = h.operating_points[1].seq_level_idx
  BY <1>4, Zenon DEF KeptBut
<1>5. g \in SequenceHeader
  <2> DEFINE g1 == [h EXCEPT !.decoder_model_info_present = TRUE,
                             !.buffer_delay_length_minus_1 = 31,
                             !.num_units_in_decoding_tick = num]
  <2>1. g = [g1 EXCEPT !.buffer_removal_time_length_minus_1 = 15,
                       !.frame_presentation_time_length_minus_1 = 23, !.operating_points = ops]
    BY <1>2, Zenon
  <2>2. TRUE \in BOOLEAN /\ 31 \in Nat /\ 15 \in Nat /\ 23 \in Nat
    OBVIOUS
  <2>3. g1 \in SequenceHeader
    BY <1>1, <2>2, PutTiming, Zenon
  <2> HIDE DEF g1
  <2>4. [g1 EXCEPT !.buffer_removal_time_length_minus_1 = 15,
                   !.frame_presentation_time_length_minus_1 = 23,
                   !.operating_points = ops] \in SequenceHeader
    BY <1>4, <2>2, <2>3, PutTiming, Zenon
  <2> QED
    BY <2>1, <2>4, Zenon
<1>6. SameBase(g, h)
  BY <1>1, <1>2 DEF SequenceHeader, SameBase
<1>7. SameTools(g, h)
  BY <1>1, <1>2 DEF SequenceHeader, SameTools
<1>8. SameColor(g, h)
  BY <1>1, <1>2 DEF SequenceHeader, SameColor
<1>9. /\ g.timing_info_present = h.timing_info_present
      /\ g.equal_picture_interval = h.equal_picture_interval
      /\ g.num_units_in_display_tick = h.num_units_in_display_tick
  BY <1>1, <1>2 DEF SequenceHeader
<1>17. /\ g.time_scale = h.time_scale
       /\ g.num_ticks_per_picture_minus_1 = h.num_ticks_per_picture_minus_1
       /\ g.decoder_model_info_present = TRUE
  BY <1>1, <1>2 DEF SequenceHeader
<1>10. /\ g.initial_display_delay_present = h.initial_display_delay_present
       /\ g.operating_points = ops /\ g.seq_level_idx = h.seq_level_idx
  BY <1>1, <1>2 DEF SequenceHeader
<1>11. HasModel(g)
  BY <1>9, <1>17 DEF HasModel
<1>12. StoredOps(g) = ops
  <2>1. ASSUME NEW k \in DOMAIN h.operating_points
        PROVE  StoredOp(g, ops[k]) = ops[k]
    <3> DEFINE op == h.operating_points[k]
               m  == ops[k]
    <3>1. op = StoredOp(h, op)
      BY <1>1, Zenon DEF TimingValues, StoredOps
    <3>2. op \in OperatingPoint /\ m = OpModelled(op, delay)
      BY <1>4
    <3> HIDE DEF op, m
    <3>3. /\ m \in OperatingPoint /\ m.idc = op.idc /\ m.seq_level_idx = op.seq_level_idx
          /\ m.seq_tier = op.seq_tier /\ m.decoder_model_present = TRUE
          /\ m.low_delay_mode = FALSE
          /\ m.initial_display_delay_present = op.initial_display_delay_present
          /\ m.initial_display_delay_minus_1 = op.initial_display_delay_minus_1
      BY <1>4, Zenon DEF KeptBut, op, m
    <3>4. /\ op.seq_tier = (op.seq_level_idx > 7 /\ op.seq_tier)
          /\ op.initial_display_delay_present
               = (h.initial_display_delay_present /\ op.initial_display_delay_present)
          /\ op.initial_display_delay_minus_1
               = (IF h.initial_display_delay_present /\ op.initial_display_delay_present
                  THEN op.initial_display_delay_minus_1 ELSE 0)
      <4> DEFINE st == StoredOp(h, op)
      <4>1. /\ st.seq_tier = (op.seq_level_idx > 7 /\ op.seq_tier)
            /\ st.initial_display_delay_present
                 = (h.initial_display_delay_present /\ op.initial_display_delay_present)
            /\ st.initial_display_delay_minus_1
                 = (IF h.initial_display_delay_present /\ op.initial_display_delay_present
                    THEN op.initial_display_delay_minus_1 ELSE 0)
        BY SMT DEF StoredOp
      <4> HIDE DEF st
      <4>2. op = st
        BY <3>1 DEF st
      <4> QED
        BY <4>1, <4>2, Zenon
    <3>5. StoredOp(g, m) = m
      BY <3>3, <3>4, <1>10, <1>11, SMT DEF StoredOp, OperatingPoint
    <3> QED
      BY <3>5 DEF m
  <2>2. StoredOps(g) = [k \in DOMAIN h.operating_points |-> ops[k]]
    BY <1>4, <1>10, <2>1, Zenon DEF StoredOps
  <2>3. ops = [k \in DOMAIN ops |-> ops[k]]
    BY <1>4 DEF PointLists
  <2> QED
    BY <2>2, <2>3, <1>4, Zenon
<1>13. TimingValues(g, g, ops)
  <2>1. /\ h.equal_picture_interval = (h.timing_info_present /\ h.equal_picture_interval)
        /\ h.num_ticks_per_picture_minus_1
             = (IF h.timing_info_present /\ h.equal_picture_interval
                THEN h.num_ticks_per_picture_minus_1 ELSE 0)
        /\ h.seq_level_idx = h.operating_points[1].seq_level_idx
    BY <1>1, Zenon DEF TimingValues
  <2>2. h.timing_info_present \in BOOLEAN /\ h.equal_picture_interval \in BOOLEAN
    BY <1>1, <1>2 DEF SequenceHeader
  <2>3. /\ g.timing_info_present = g.timing_info_present
        /\ g.equal_picture_interval = (g.timing_info_present /\ g.equal_picture_interval)
        /\ g.num_units_in_display_tick
             = (IF g.timing_info_present THEN g.num_units_in_display_tick ELSE 0)
        /\ g.time_scale = (IF g.timing_info_present THEN g.time_scale ELSE 0)
        /\ g.num_ticks_per_picture_minus_1
             = (IF g.timing_info_present /\ g.equal_picture_interval
                THEN g.num_ticks_per_picture_minus_1 ELSE 0)
    BY <2>1, <2>2, <1>9, <1>17, SMT
  <2>4. g.decoder_model_info_present = HasModel(g) /\ g.seq_level_idx = ops[1].seq_level_idx
    <3>1. g.seq_level_idx = ops[1].seq_level_idx
      BY <2>1, <1>16, <1>10, Zenon
    <3>2. g.timing_info_present = TRUE
      BY <2>2, <1>9, SMT
    <3>3. HasModel(g) = TRUE
      BY <3>2, <1>17, SMT DEF HasModel
    <3> QED
      BY <3>1, <3>3, <1>17, Zenon
  <2> QED
    BY <2>3, <2>4, <1>16, <1>10, <1>11, <1>17, Zenon DEF TimingValues
<1>14. ~ g.reduced_still_picture_header /\ ToolsValues(g, g) /\ ColorValues(g, g)
  BY <1>5, <1>6, <1>7, <1>8, ToolsColorKept, Zenon
<1>15. Canonical(g)
  BY <1>5, <1>12, <1>13, <1>14, Zenon DEF Canonical
<1> QED
  BY <1>6, <1>7, <1>8, <1>9, <1>17, <1>15, Zenon DEF Retimed, Declares, g, ops

LEMMA ModelledCanonical ==
  ASSUME NEW h, Canonical(h), h.timing_info_present, NEW num \in Nat
  PROVE  Declares(Modelled(h, num), h)
<1> DEFINE delay == 90000
<1>1. delay \in Nat
  OBVIOUS
<1>2. Modelled(h, num) = ModelledWith(h, num, OpsModelled(h.operating_points, delay))
  BY SMT DEF Modelled, ModelledWith, OpsModelled, OpModelled
<1> HIDE DEF delay
<1> QED
  BY <1>1, <1>2, ModelledAs, Zenon

-------------------------------------------------------------------------------
(* What has been stored is emitted as it was coded, group by group: the    *)
(* shapes agree, and where a condition is read differently the elements    *)
(* behind it are not coded.                                                *)

LEMMA WhenSame ==
  ASSUME NEW b, NEW d, NEW s, NEW t, b <=> d, b => s = t
  PROVE  When(b, s) = When(d, t)
  BY Zenon DEF When

LEMMA EmitsOp ==
  ASSUME NEW e \in SequenceHeader, NEW h \in SequenceHeader, Stores(e, h),
         NEW op \in OperatingPoint
  PROVE  EmitOp(h, StoredOp(e, op)) = OperatingPointFields(e, op)
<1> DEFINE o == StoredOp(e, op)
           model == HasModel(e)
           delay == e.initial_display_delay_present
<1>1. /\ h.decoder_model_info_present = model /\ h.initial_display_delay_present = delay
      /\ model => h.buffer_delay_length_minus_1 = e.buffer_delay_length_minus_1
  BY DEF Stores, TimingValues
<1>2. /\ o.idc = op.idc /\ o.seq_level_idx = op.seq_level_idx
      /\ o.seq_tier = (op.seq_level_idx > 7 /\ op.seq_tier)
      /\ o.decoder_model_present = (model /\ op.decoder_model_present)
      /\ o.initial_display_delay_present = (delay /\ op.initial_display_delay_present)
      /\ delay /\ op.initial_display_delay_present =>
           o.initial_display_delay_minus_1 = op.initial_display_delay_minus_1
      /\ model /\ op.decoder_model_present =>
           /\ o.decoder_buffer_delay = op.decoder_buffer_delay
           /\ o.encoder_buffer_delay = op.encoder_buffer_delay
           /\ o.low_delay_mode = op.low_delay_mode
  BY DEF StoredOp, OperatingPoint
<1>3. /\ op.seq_tier \in BOOLEAN /\ op.decoder_model_present \in BOOLEAN
      /\ op.initial_display_delay_present \in BOOLEAN
      /\ model \in BOOLEAN /\ delay \in BOOLEAN
  BY DEF OperatingPoint, SequenceHeader, HasModel
<1> HIDE DEF o, model, delay
<1>4. When(o.seq_level_idx > 7, Flag(o.seq_tier)) = When(op.seq_level_idx > 7, Flag(op.seq_tier))
  <2>1. op.seq_level_idx > 7 => o.seq_tier = op.seq_tier
    BY <1>2, <1>3
  <2> QED
    BY <1>2, <2>1, Zenon DEF When
<1>5. When(h.decoder_model_info_present,
           Flag(o.decoder_model_present)
           \o When(o.decoder_model_present,
                   F(h.buffer_delay_length_minus_1 + 1, o.decoder_buffer_delay)
                   \o F(h.buffer_delay_length_minus_1 + 1, o.encoder_buffer_delay)
                   \o Flag(o.low_delay_mode)))
      = When(model, Flag(op.decoder_model_present)
                    \o When(op.decoder_model_present, OperatingParametersInfo(e, op)))
  <2>1. model => o.decoder_model_present = op.decoder_model_present
    BY <1>2, <1>3
  <2>2. CASE ~ model
    BY <1>1, <2>2, Zenon DEF When
  <2>3. CASE model /\ ~ op.decoder_model_present
    BY <1>1, <2>1, <2>3, Zenon DEF When
  <2>4. CASE model /\ op.decoder_model_present
    BY <1>1, <1>2, <2>1, <2>4, Zenon DEF When, OperatingParametersInfo
  <2> QED
    BY <2>2, <2>3, <2>4, Zenon
<1>6. When(h.initial_display_delay_present,
           Flag(o.initial_display_delay_present)
           \o When(o.initial_display_delay_present, F(4, o.initial_display_delay_minus_1)))
      = When(delay, Flag(op.initial_display_delay_present)
                    \o When(op.initial_display_delay_present, F(4, op.initial_display_delay_minus_1)))
  <2>1. delay => o.initial_display_delay_present = op.initial_display_delay_present
    BY <1>2, <1>3
  <2>2. CASE ~ delay
    BY <1>1, <2>2, Zenon DEF When
  <2>3. CASE delay /\ ~ op.initial_display_delay_present
    BY <1>1, <2>1, <2>3, Zenon DEF When
  <2>4. CASE delay /\ op.initial_display_delay_present
    BY <1>1, <1>2, <2>1, <2>4, Zenon DEF When
  <2> QED
    BY <2>2, <2>3, <2>4, Zenon
<1>7. EmitOp(h, o) = OperatingPointFields(e, op)
  BY <1>2, <1>4, <1>5, <1>6, Zenon DEF EmitOp, OperatingPointFields, model, delay
<1> QED
  BY <1>7 DEF o

LEMMA EmitsTiming ==
  ASSUME NEW e \in SequenceHeader, NEW h \in SequenceHeader, Stores(e, h)
  PROVE  EmitTiming(h) = OperatingPoints(e)
<1> DEFINE timing == e.timing_info_present
           equal  == e.equal_picture_interval
           model  == e.decoder_model_info_present
<1>1. timing \in BOOLEAN /\ equal \in BOOLEAN /\ model \in BOOLEAN
  BY DEF SequenceHeader
<1>2. /\ h.timing_info_present = timing /\ h.equal_picture_interval = (timing /\ equal)
      /\ h.decoder_model_info_present = (timing /\ model)
      /\ h.initial_display_delay_present = e.initial_display_delay_present
      /\ h.operating_points = StoredOps(e)
  BY Zenon DEF Stores, TimingValues, HasModel
<1>3. /\ timing => /\ h.num_units_in_display_tick = e.num_units_in_display_tick
                   /\ h.time_scale = e.time_scale
      /\ timing /\ equal =>
           h.num_ticks_per_picture_minus_1 = e.num_ticks_per_picture_minus_1
      /\ timing /\ model =>
           /\ h.buffer_delay_length_minus_1 = e.buffer_delay_length_minus_1
           /\ h.num_units_in_decoding_tick = e.num_units_in_decoding_tick
           /\ h.buffer_removal_time_length_minus_1 = e.buffer_removal_time_length_minus_1
           /\ h.frame_presentation_time_length_minus_1 = e.frame_presentation_time_length_minus_1
  BY DEF Stores, TimingValues, HasModel
<1> HIDE DEF timing, equal, model
<1>4. When(h.timing_info_present,
           F(32, h.num_units_in_display_tick) \o F(32, h.time_scale)
           \o Flag(h.equal_picture_interval)
           \o When(h.equal_picture_interval, Uvlc(h.num_ticks_per_picture_minus_1))
           \o Flag(h.decoder_model_info_present)
           \o When(h.decoder_model_info_present,
                   F(5, h.buffer_delay_length_minus_1) \o F(32, h.num_units_in_decoding_tick)
                   \o F(5, h.buffer_removal_time_length_minus_1)
                   \o F(5, h.frame_presentation_time_length_minus_1)))
      = When(timing, TimingInfo(e) \o Flag(model) \o When(model, DecoderModelInfo(e)))
  <2>1. CASE ~ timing
    BY <1>2, <2>1, Zenon DEF When
  <2>2. CASE timing
    <3>1. h.equal_picture_interval = equal /\ h.decoder_model_info_present = model
      BY <1>1, <1>2, <2>2
    <3>2. /\ When(h.equal_picture_interval, Uvlc(h.num_ticks_per_picture_minus_1))
               = When(equal, Uvlc(e.num_ticks_per_picture_minus_1))
          /\ When(h.decoder_model_info_present,
                  F(5, h.buffer_delay_length_minus_1) \o F(32, h.num_units_in_decoding_tick)
                  \o F(5, h.buffer_removal_time_length_minus_1)
                  \o F(5, h.frame_presentation_time_length_minus_1))
               = When(model, DecoderModelInfo(e))
      BY <1>3, <2>2, <3>1, Zenon DEF When, DecoderModelInfo
    <3> QED
      BY <1>2, <1>3, <2>2, <3>1, <3>2, Zenon DEF When, TimingInfo, equal
  <2> QED
    BY <2>1, <2>2, Zenon
<1>5. /\ DOMAIN StoredOps(e) = DOMAIN e.operating_points
      /\ Len(StoredOps(e)) = Len(e.operating_points)
      /\ \A k \in DOMAIN e.operating_points : e.operating_points[k] \in OperatingPoint
  BY StoredOpsTypes, Zenon
<1>6. [k \in DOMAIN h.operating_points |-> EmitOp(h, h.operating_points[k])]
        = [k \in DOMAIN e.operating_points |-> OperatingPointFields(e, e.operating_points[k])]
  <2>1. \A k \in DOMAIN e.operating_points :
          EmitOp(h, StoredOps(e)[k]) = OperatingPointFields(e, e.operating_points[k])
    BY <1>5, EmitsOp, Zenon DEF StoredOps
  <2> QED
    BY <1>2, <1>5, <2>1, Zenon
<1> QED
  BY <1>2, <1>4, <1>5, <1>6, Zenon DEF EmitTiming, OperatingPoints, timing, model

LEMMA EmitsSize ==
  ASSUME NEW e \in SequenceHeader, NEW h \in SequenceHeader, Stores(e, h)
  PROVE  EmitSize(h) = SizeFields(e)
<1>1. /\ h.frame_width_bits_minus_1 = e.frame_width_bits_minus_1
      /\ h.frame_height_bits_minus_1 = e.frame_height_bits_minus_1
      /\ h.max_frame_width = e.max_frame_width /\ h.max_frame_height = e.max_frame_height
      /\ h.reduced_still_picture_header = e.reduced_still_picture_header
      /\ h.frame_id_numbers_present = e.frame_id_numbers_present
      /\ e.frame_id_numbers_present =>
           /\ h.delta_frame_id_length_minus_2 = e.delta_frame_id_length_minus_2
           /\ h.additional_frame_id_length_minus_1 = e.additional_frame_id_length_minus_1
  BY DEF Stores, SameBase, ToolsValues
<1>2. When(h.frame_id_numbers_present,
           F(4, h.delta_frame_id_length_minus_2) \o F(3, h.additional_frame_id_length_minus_1))
      = When(e.frame_id_numbers_present,
             F(4, e.delta_frame_id_length_minus_2) \o F(3, e.additional_frame_id_length_minus_1))
  BY <1>1, Zenon DEF When
<1> QED
  BY <1>1, <1>2, Zenon DEF EmitSize, SizeFields

LEMMA EmitsTools ==
  ASSUME NEW e \in SequenceHeader, NEW h \in SequenceHeader, Stores(e, h)
  PROVE  EmitTools(h) = InterTools(e)
<1> DEFINE hints == e.enable_order_hint
           force == ForceScreenContent(e)
           left  == e.seq_choose_screen_content_tools
           mv    == e.seq_choose_integer_mv
<1>1. /\ hints \in BOOLEAN /\ left \in BOOLEAN /\ mv \in BOOLEAN
      /\ e.enable_jnt_comp \in BOOLEAN /\ e.enable_ref_frame_mvs \in BOOLEAN
  BY DEF SequenceHeader
<1>2. /\ h.enable_interintra_compound = e.enable_interintra_compound
      /\ h.enable_masked_compound = e.enable_masked_compound
      /\ h.enable_warped_motion = e.enable_warped_motion
      /\ h.enable_dual_filter = e.enable_dual_filter /\ h.enable_order_hint = hints
      /\ h.seq_choose_screen_content_tools = left
      /\ h.seq_force_screen_content_tools = force
      /\ h.seq_choose_integer_mv = (force > 0 /\ mv)
      /\ hints => h.order_hint_bits = e.order_hint_bits
      /\ force > 0 /\ ~ mv => h.seq_force_integer_mv = e.seq_force_integer_mv
      /\ ~ left => force = e.seq_force_screen_content_tools
  BY DEF Stores, ToolsValues, ForceScreenContent
<1>3. hints => /\ h.enable_jnt_comp = e.enable_jnt_comp
               /\ h.enable_ref_frame_mvs = e.enable_ref_frame_mvs
  BY <1>1 DEF Stores, ToolsValues
<1> HIDE DEF hints, force, left, mv
<1>4. When(h.enable_order_hint, Flag(h.enable_jnt_comp) \o Flag(h.enable_ref_frame_mvs))
      = When(hints, Flag(e.enable_jnt_comp) \o Flag(e.enable_ref_frame_mvs))
  BY <1>2, <1>3, Zenon DEF When
<1>5. When(~ h.seq_choose_screen_content_tools, F(1, h.seq_force_screen_content_tools))
      = When(~ left, F(1, e.seq_force_screen_content_tools))
  BY <1>2, Zenon DEF When
<1>6. When(h.seq_force_screen_content_tools > 0,
           Flag(h.seq_choose_integer_mv)
           \o When(~ h.seq_choose_integer_mv, F(1, h.seq_force_integer_mv)))
      = When(force > 0, Flag(mv) \o When(~ mv, F(1, e.seq_force_integer_mv)))
  <2>1. CASE ~ (force > 0)
    BY <1>2, <2>1, Zenon DEF When
  <2>2. CASE force > 0
    <3>1. h.seq_choose_integer_mv = mv
      BY <1>1, <1>2, <2>2
    <3> QED
      BY <1>2, <2>2, <3>1, Zenon DEF When
  <2> QED
    BY <2>1, <2>2, Zenon
<1>7. When(h.enable_order_hint, F(3, h.order_hint_bits - 1)) = When(hints, F(3, e.order_hint_bits - 1))
  BY <1>2, Zenon DEF When
<1> QED
  BY <1>2, <1>4, <1>5, <1>6, <1>7, Zenon DEF EmitTools, InterTools, hints, force, left, mv

LEMMA EmitsColor ==
  ASSUME NEW e \in SequenceHeader, NEW h \in SequenceHeader, Stores(e, h)
  PROVE  EmitColor(h) = ColorConfig(e)
<1> DEFINE implied == /\ h.color_primaries = 1 /\ h.transfer_characteristics = 13
                      /\ h.matrix_coefficients = 0
           desc    == e.color_description_present
           mono    == Mono(e)
           rgb     == ImpliedRgb(e)
           codes   == CodesSubsampling(e)
<1>1. /\ desc \in BOOLEAN /\ e.high_bitdepth \in BOOLEAN /\ e.twelve_bit \in BOOLEAN
      /\ e.mono_chrome \in BOOLEAN /\ e.color_range \in BOOLEAN
      /\ e.subsample_x \in BOOLEAN /\ e.subsample_y \in BOOLEAN
      /\ mono \in BOOLEAN /\ rgb \in BOOLEAN /\ codes \in BOOLEAN
      /\ SubX(e) \in BOOLEAN /\ SubY(e) \in BOOLEAN
  BY SubsamplingTypes DEF SequenceHeader, Mono, ImpliedRgb, CodesSubsampling
<1>2. /\ h.seq_profile = e.seq_profile /\ h.high_bitdepth = e.high_bitdepth
      /\ h.color_description_present = desc
      /\ h.separate_uv_delta_q = e.separate_uv_delta_q
  BY DEF Stores, SameBase
<1>3. /\ h.twelve_bit = (e.seq_profile = 2 /\ e.high_bitdepth /\ e.twelve_bit)
      /\ h.bit_depth = BitDepth(e) /\ h.mono_chrome = mono
      /\ desc => /\ h.color_primaries = e.color_primaries
                 /\ h.transfer_characteristics = e.transfer_characteristics
                 /\ h.matrix_coefficients = e.matrix_coefficients
      /\ ~ desc => h.color_primaries = UNSPECIFIED
      /\ h.color_range = ((mono \/ (~ mono /\ ~ rgb)) /\ e.color_range)
      /\ h.subsample_x = ((~ mono /\ ~ rgb) /\ SubX(e))
      /\ h.subsample_y = ((~ mono /\ ~ rgb) /\ SubY(e))
      /\ (~ mono /\ ~ rgb) /\ SubX(e) /\ SubY(e) =>
           h.chroma_sample_position = e.chroma_sample_position
  BY DEF Stores, ColorValues
<1>4. implied <=> rgb
  BY <1>3, SMT DEF ImpliedRgb, UNSPECIFIED
<1>5. (h.seq_profile = 2 /\ h.bit_depth = 12) <=> codes
  BY <1>2, <1>3, Zenon DEF CodesSubsampling
<1>6. codes => SubX(e) = e.subsample_x /\ SubY(e) = (e.subsample_x /\ e.subsample_y)
  <2>1. ASSUME codes PROVE e.seq_profile # 0 /\ e.seq_profile # 1
    BY <2>1, SMT DEF CodesSubsampling
  <2>2. ASSUME codes
        PROVE  /\ SubX(e) = (CodesSubsampling(e) => e.subsample_x)
               /\ SubY(e) = (CodesSubsampling(e) /\ e.subsample_x /\ e.subsample_y)
    BY <2>1, <2>2, Zenon DEF SubX, SubY
  <2> QED
    BY <2>2, <1>1
<1>7. When(h.seq_profile = 2 /\ h.high_bitdepth, Flag(h.twelve_bit))
      = When(e.seq_profile = 2 /\ e.high_bitdepth, Flag(e.twelve_bit))
  <2>1. e.seq_profile = 2 /\ e.high_bitdepth => h.twelve_bit = e.twelve_bit
    BY <1>1, <1>3
  <2> QED
    BY <1>2, <2>1, Zenon DEF When
<1>8. When(h.seq_profile # 1, Flag(h.mono_chrome)) = When(e.seq_profile # 1, Flag(e.mono_chrome))
  <2>1. e.seq_profile # 1 => h.mono_chrome = e.mono_chrome
    BY <1>1, <1>3 DEF Mono
  <2> QED
    BY <1>2, <2>1, Zenon DEF When
<1>9. When(h.color_description_present,
           F(8, h.color_primaries) \o F(8, h.transfer_characteristics) \o F(8, h.matrix_coefficients))
      = When(desc, F(8, e.color_primaries) \o F(8, e.transfer_characteristics)
                   \o F(8, e.matrix_coefficients))
  BY <1>2, <1>3, Zenon DEF When
<1> DEFINE sampling  == When(codes, Flag(e.subsample_x) \o When(e.subsample_x, Flag(e.subsample_y)))
                        \o When(SubX(e) /\ SubY(e), F(2, e.chroma_sample_position))
           hSampling == When(h.seq_profile = 2 /\ h.bit_depth = 12,
                             Flag(h.subsample_x) \o When(h.subsample_x, Flag(h.subsample_y)))
                        \o When(h.subsample_x /\ h.subsample_y, F(2, h.chroma_sample_position))
<1>10. When(~ h.mono_chrome /\ ~ implied, hSampling) = When(~ mono /\ ~ rgb, sampling)
  <2>1. CASE ~ (~ mono /\ ~ rgb)
    BY <1>3, <1>4, <2>1, Zenon DEF When
  <2>2. CASE ~ mono /\ ~ rgb
    <3>1. h.subsample_x = SubX(e) /\ h.subsample_y = SubY(e)
      BY <1>1, <1>3, <2>2
    <3>2. When(h.subsample_x /\ h.subsample_y, F(2, h.chroma_sample_position))
            = When(SubX(e) /\ SubY(e), F(2, e.chroma_sample_position))
      BY <1>3, <2>2, <3>1, Zenon DEF When
    <3>3. When(h.seq_profile = 2 /\ h.bit_depth = 12,
               Flag(h.subsample_x) \o When(h.subsample_x, Flag(h.subsample_y)))
            = When(codes, Flag(e.subsample_x) \o When(e.subsample_x, Flag(e.subsample_y)))
      <4>1. CASE ~ codes
        BY <1>5, <4>1, Zenon DEF When
      <4>2. CASE codes
        <5>1. h.subsample_x = e.subsample_x
          BY <1>6, <3>1, <4>2
        <5>2. e.subsample_x => h.subsample_y = e.subsample_y
          BY <1>1, <1>6, <3>1, <4>2
        <5> QED
          BY <1>5, <4>2, <5>1, <5>2, Zenon DEF When
      <4> QED
        BY <4>1, <4>2, Zenon
    <3> QED
      BY <1>3, <1>4, <2>2, <3>2, <3>3, Zenon DEF When
  <2> QED
    BY <2>1, <2>2, Zenon
<1>11. When(h.mono_chrome \/ ~ implied, Flag(h.color_range))
       = When(mono \/ ~ rgb, Flag(e.color_range))
  <2>1. mono \/ ~ rgb => h.color_range = e.color_range
    BY <1>1, <1>3
  <2> QED
    BY <1>3, <1>4, <2>1, Zenon DEF When
<1> QED
  BY <1>2, <1>7, <1>8, <1>9, <1>10, <1>11, Zenon DEF EmitColor, ColorConfig

LEMMA ReEmits ==
  ASSUME NEW e \in SequenceHeader, ~ e.reduced_still_picture_header, NEW h \in SequenceHeader, Stores(e, h)
  PROVE  EmitSequenceHeader(h) = ParseFields(e)
<1>1. /\ h.seq_profile = e.seq_profile /\ h.still_picture = e.still_picture
      /\ h.reduced_still_picture_header = e.reduced_still_picture_header
      /\ h.use_128x128_superblock = e.use_128x128_superblock
      /\ h.enable_filter_intra = e.enable_filter_intra
      /\ h.enable_intra_edge_filter = e.enable_intra_edge_filter
      /\ h.enable_superres = e.enable_superres /\ h.enable_cdef = e.enable_cdef
      /\ h.enable_restoration = e.enable_restoration
      /\ h.film_grain_params_present = e.film_grain_params_present
  BY DEF Stores, SameBase
<1> QED
  BY <1>1, EmitsTiming, EmitsSize, EmitsTools, EmitsColor, Zenon
     DEF EmitSequenceHeader, ParseFields

LEMMA ReducedKept ==
  ASSUME NEW e \in SequenceHeader
  PROVE  ParseSequenceHeader(e).reduced_still_picture_header = e.reduced_still_picture_header
<1> DEFINE t == StoredTiming(e)
           u == StoredTools(t)
<1>1. t \in SequenceHeader /\ SameBase(t, e)
  BY StoredTimingIs, Zenon
<1> HIDE DEF t
<1>2. u \in SequenceHeader /\ SameBase(u, t)
  BY <1>1, StoredToolsIs, Zenon
<1> HIDE DEF u
<1>3. SameBase(StoredColor(u), u)
  BY <1>2, StoredColorIs, Zenon
<1>4. StoredColor(u).reduced_still_picture_header = e.reduced_still_picture_header
  BY <1>1, <1>2, <1>3, SMT DEF SameBase
<1> QED
  BY <1>4, Zenon DEF ParseSequenceHeader, t, u

-------------------------------------------------------------------------------
(* The header that is written.                                             *)

LEMMA AtLeast1Nat == \A x \in Nat : AtLeast1(x) \in Nat
  BY DEF AtLeast1

LEMMA NeedsNone ==
  ASSUME NEW h, Canonical(h), ~ h.timing_info_present
  PROVE  ~ h.decoder_model_info_present
  BY Zenon DEF Canonical, TimingValues, HasModel

LEMMA RetimedTwice ==
  ASSUME NEW f, NEW g, NEW h, Retimed(f, g), Retimed(g, h)
  PROVE  Retimed(f, h)
<1>1. SameBase(f, h)
  BY DEF Retimed, SameBase
<1>2. SameTools(f, h)
  BY DEF Retimed, SameTools
<1>3. SameColor(f, h)
  BY DEF Retimed, SameColor
<1> QED
  BY <1>1, <1>2, <1>3 DEF Retimed

LEMMA RetimedSelf == \A h : Retimed(h, h)
  BY DEF Retimed, SameBase, SameTools, SameColor

(* What assemble_multi knows of the header it writes. *)
Settles(h, g, model) ==
  /\ Canonical(g) /\ Retimed(g, h)
  /\ IF model /\ ~ h.decoder_model_info_present
     THEN g.decoder_model_info_present /\ g.equal_picture_interval
     ELSE \/ g = h
          \/ ~ h.decoder_model_info_present /\ ~ g.decoder_model_info_present

LEMMA ModelWritten ==
  ASSUME NEW h, Canonical(h), NEW num \in Nat, NEW den \in Nat, ~ VariableInterval(h)
  PROVE  Settles(h, WithDecoderModelRate(h, num, den), TRUE)
<1>1. CASE h.decoder_model_info_present
  <2>1. WithDecoderModelRate(h, num, den) = h
    BY <1>1, Zenon DEF WithDecoderModelRate
  <2> QED
    BY <1>1, <2>1, RetimedSelf, Zenon DEF Settles
<1>2. CASE ~ h.decoder_model_info_present /\ h.timing_info_present
  <2>1. WithDecoderModelRate(h, num, den) = Modelled(h, num)
    BY <1>2, Zenon DEF WithDecoderModelRate
  <2>2. Declares(Modelled(h, num), h)
    BY <1>2, ModelledCanonical, Zenon
  <2>3. h.equal_picture_interval
    BY <1>2, Zenon DEF VariableInterval
  <2> QED
    BY <1>2, <2>1, <2>2, <2>3, Zenon DEF Settles, Declares
<1>3. CASE ~ h.decoder_model_info_present /\ ~ h.timing_info_present
  <2> DEFINE g == WithTimingInfoRate(h, num, den)
  <2>1. WithDecoderModelRate(h, num, den) = Modelled(g, num)
    BY <1>3, Zenon DEF WithDecoderModelRate
  <2>2. Canonical(g) /\ Retimed(g, h) /\ g.timing_info_present /\ g.equal_picture_interval
    BY <1>3, TimedCanonical, Zenon
  <2> HIDE DEF g
  <2>3. Declares(Modelled(g, num), g)
    BY <2>2, ModelledCanonical, Zenon
  <2>4. Retimed(Modelled(g, num), h)
    BY <2>2, <2>3, RetimedTwice, Zenon DEF Declares
  <2> QED
    BY <1>3, <2>1, <2>2, <2>3, <2>4, Zenon DEF Settles, Declares
<1> QED
  BY <1>1, <1>2, <1>3, Zenon

LEMMA RewriteWritten ==
  ASSUME NEW h, Canonical(h), decoderModel \in BOOLEAN,
         ~ (decoderModel /\ VariableInterval(h))
  PROVE  Settles(h, Rewritten(h), decoderModel)
<1> DEFINE num == AtLeast1(RateNum)
           den == AtLeast1(RateDen)
<1>1. num \in Nat /\ den \in Nat
  BY AtLeast1Nat, HeadersAssumption, Zenon
<1> HIDE DEF num, den
<1>2. CASE decoderModel
  <2>1. Rewritten(h) = WithDecoderModelRate(h, num, den)
    BY <1>2, Zenon DEF Rewritten, num, den
  <2>2. Settles(h, WithDecoderModelRate(h, num, den), TRUE)
    BY <1>1, <1>2, ModelWritten, Zenon
  <2>3. decoderModel = TRUE
    BY <1>2
  <2> QED
    BY <2>1, <2>2, <2>3, Zenon
<1>3. CASE ~ decoderModel /\ ~ h.timing_info_present
  <2>1. Rewritten(h) = WithTimingInfoRate(h, num, den)
    BY <1>3, Zenon DEF Rewritten, num, den
  <2>2. /\ Canonical(WithTimingInfoRate(h, num, den)) /\ Retimed(WithTimingInfoRate(h, num, den), h)
        /\ ~ WithTimingInfoRate(h, num, den).decoder_model_info_present
    BY <1>1, <1>3, TimedCanonical, Zenon
  <2>3. ~ h.decoder_model_info_present
    BY <1>3, NeedsNone, Zenon
  <2> QED
    BY <1>3, <2>1, <2>2, <2>3, Zenon DEF Settles
<1>4. CASE ~ decoderModel /\ h.timing_info_present
  <2>1. Rewritten(h) = h
    BY <1>4, Zenon DEF Rewritten
  <2> QED
    BY <1>4, <2>1, RetimedSelf, Zenon DEF Settles
<1> QED
  BY <1>2, <1>3, <1>4, Zenon

-------------------------------------------------------------------------------
(* How long a bit string is. *)

Sums(u, fs) == u = [k \in Nat |-> IF k = 0 THEN 0 ELSE u[k-1] + fs[k].n]

LEMMA SumsExists == ASSUME NEW fs PROVE \E u : Sums(u, fs)
<1> DEFINE S    == {fs[i] : i \in Nat}
           p(k) == [i \in 1..k |-> fs[i]]
           u    == [k \in Nat |-> Widths!FoldLeft(Wider, 0, p(k))]
<1>1. u[0] = 0
  <2>1. p(0) = << >>
    OBVIOUS
  <2> QED
    BY <2>1, Widths!FoldEmpty
<1>2. ASSUME NEW k \in Nat, k # 0
      PROVE  u[k] = u[k-1] + fs[k].n
  <2>1. k - 1 \in Nat /\ fs[k] \in S
    BY <1>2
  <2>2. p(k - 1) \in Seq(S)
    BY <2>1
  <2>3. p(k) = Append(p(k - 1), fs[k])
    BY <1>2, <2>1
  <2> HIDE DEF p, S
  <2>4. Widths!FoldLeft(Wider, 0, Append(p(k - 1), fs[k]))
          = Wider(Widths!FoldLeft(Wider, 0, p(k - 1)), fs[k])
    BY <2>1, <2>2, Widths!FoldAppend
  <2> QED
    BY <2>1, <2>3, <2>4 DEF Wider
<1> HIDE DEF u
<1>3. u = [k \in Nat |-> u[k]]
  BY DEF u
<1>4. u = [k \in Nat |-> IF k = 0 THEN 0 ELSE u[k-1] + fs[k].n]
  BY <1>1, <1>2, <1>3
<1> QED
  BY <1>4 DEF Sums

LEMMA BitsIs == ASSUME NEW fs PROVE \E u : Sums(u, fs) /\ Bits(fs) = u[Len(fs)]
<1> DEFINE upto == CHOOSE u : u = [k \in Nat |-> IF k = 0 THEN 0 ELSE u[k-1] + fs[k].n]
<1>1. Bits(fs) = upto[Len(fs)]
  BY Zenon DEF Bits
<1>2. upto = [k \in Nat |-> IF k = 0 THEN 0 ELSE upto[k-1] + fs[k].n]
  BY SumsExists, Zenon DEF Sums
<1> HIDE DEF upto
<1> QED
  BY <1>1, <1>2, Zenon DEF Sums

LEMMA SumsAt ==
  ASSUME NEW fs, NEW u, Sums(u, fs)
  PROVE  u[0] = 0 /\ \A k \in Nat : u[k + 1] = u[k] + fs[k + 1].n
<1>1. \A k \in Nat : u[k] = IF k = 0 THEN 0 ELSE u[k-1] + fs[k].n
  BY DEF Sums
<1> HIDE DEF Sums
<1>2. ASSUME NEW k \in Nat PROVE u[k + 1] = u[k] + fs[k + 1].n
  <2>1. k + 1 \in Nat /\ k + 1 # 0 /\ (k + 1) - 1 = k
    OBVIOUS
  <2>2. u[k + 1] = u[(k + 1) - 1] + fs[k + 1].n
    BY <1>1, <2>1
  <2> QED
    BY <2>1, <2>2
<1> QED
  BY <1>1, <1>2

LEMMA SumsNat ==
  ASSUME NEW fs, FieldString(fs), NEW u, Sums(u, fs)
  PROVE  \A k \in Nat : k <= Len(fs) => u[k] \in Nat
<1> DEFINE P == {k \in Nat : k <= Len(fs) => u[k] \in Nat}
<1>1. 0 \in P
  BY SumsAt
<1>2. ASSUME NEW k \in P PROVE k + 1 \in P
  <2>1. k \in Nat /\ u[k + 1] = u[k] + fs[k + 1].n
    BY SumsAt
  <2>2. k + 1 <= Len(fs) => fs[k + 1].n \in Nat /\ u[k] \in Nat
    BY <2>1 DEF FieldString
  <2> QED
    BY <2>1, <2>2
<1>3. P = Nat
  <2>1. P \in SUBSET Nat
    OBVIOUS
  <2> HIDE DEF P
  <2> QED
    BY <1>1, <1>2, <2>1, Widths!NatSetInduction
<1> QED
  BY <1>3

Chained(s, a, b) ==
  /\ Len(s) = Len(a) + Len(b)
  /\ \A i \in 1 .. Len(a) + Len(b) : s[i] = IF i <= Len(a) THEN a[i] ELSE b[i - Len(a)]

LEMMA ConcatChained ==
  ASSUME NEW S, NEW a \in Seq(S), NEW b \in Seq(S) PROVE a \o b \in Seq(S) /\ Chained(a \o b, a, b)
  BY ConcatProperties, Zenon DEF Chained

Around(s, t, a, x, b) ==
  /\ Len(s) = Len(a) + Len(b)
  /\ Len(t) = Len(a) + 1 + Len(b)
  /\ \A k \in 1..Len(a) : t[k] = s[k]
  /\ t[Len(a) + 1] = x[1]
  /\ \A k \in Len(a)+1..Len(a)+Len(b) : t[k + 1] = s[k]

LEMMA PlacesAround ==
  ASSUME NEW S, NEW a \in Seq(S), NEW b \in Seq(S), NEW x \in Seq(S), Len(x) = 1
  PROVE  Around(a \o b, (a \o x) \o b, a, x, b)
<1> DEFINE y == a \o x
           s == a \o b
           t == y \o b
<1>1. y \in Seq(S) /\ Chained(y, a, x) /\ Chained(s, a, b)
  BY ConcatChained, Zenon
<1> HIDE DEF y, s
<1>2. Chained(t, y, b)
  BY <1>1, ConcatChained, Zenon
<1> HIDE DEF t
<1>3. /\ Len(y) = Len(a) + 1
      /\ \A i \in 1..Len(a) + 1 : y[i] = IF i <= Len(a) THEN a[i] ELSE x[i - Len(a)]
      /\ Len(s) = Len(a) + Len(b)
      /\ \A i \in 1..Len(a) + Len(b) : s[i] = IF i <= Len(a) THEN a[i] ELSE b[i - Len(a)]
      /\ Len(t) = Len(y) + Len(b)
      /\ \A i \in 1..Len(y) + Len(b) : t[i] = IF i <= Len(y) THEN y[i] ELSE b[i - Len(y)]
  BY <1>1, <1>2 DEF Chained
<1>4. Len(a) \in Nat /\ Len(b) \in Nat
  OBVIOUS
<1>5. \A k \in 1..Len(a) : t[k] = s[k]
  BY <1>3, <1>4
<1>6. t[Len(a) + 1] = x[1]
  BY <1>3, <1>4
<1>7. ASSUME NEW k \in Len(a)+1..Len(a)+Len(b) PROVE t[k + 1] = s[k]
  <2>1. s[k] = b[k - Len(a)]
    BY <1>3, <1>4
  <2>2. t[k + 1] = b[(k + 1) - Len(y)]
    BY <1>3, <1>4
  <2>3. (k + 1) - Len(y) = k - Len(a)
    BY <1>3, <1>4
  <2> QED
    BY <2>1, <2>2, <2>3
<1>8. Around(s, t, a, x, b)
  BY <1>3, <1>4, <1>5, <1>6, <1>7 DEF Around
<1> QED
  BY <1>8, Zenon DEF s, t, y

(* A flag between two parts makes the string one bit longer. *)
LEMMA BitsInserted ==
  ASSUME NEW a, FieldString(a), NEW b, FieldString(b)
  PROVE  /\ Bits(a \o b) \in Nat
         /\ Bits((a \o Flag(FALSE)) \o b) = Bits(a \o b) + 1
<1> DEFINE s == a \o b
           t == (a \o Flag(FALSE)) \o b
           n == Len(a)
           m == Len(b)
<1>1. n \in Nat /\ m \in Nat
  BY DEF FieldString
<1>2. /\ Len(s) = n + m /\ Len(t) = n + 1 + m
      /\ \A k \in 1..n : t[k] = s[k]
      /\ t[n + 1].n = 1
      /\ \A k \in n+1..n+m : t[k + 1] = s[k]
  <2>1. PICK A : a \in Seq(A)
    BY DEF FieldString
  <2>2. PICK B : b \in Seq(B)
    BY DEF FieldString
  <2> DEFINE x == Flag(FALSE)
             S == A \cup B \cup {[n |-> 1, v |-> 0]}
  <2>3. x \in Seq({[n |-> 1, v |-> 0]}) /\ Len(x) = 1 /\ x[1].n = 1
    BY DEF Flag, F
  <2>4. a \in Seq(S) /\ b \in Seq(S) /\ x \in Seq(S)
    BY <2>1, <2>2, <2>3, SeqWider
  <2> HIDE DEF x, S
  <2>5. Around(s, t, a, x, b)
    BY <2>3, <2>4, PlacesAround, Zenon DEF x
  <2> HIDE DEF s, t
  <2> QED
    BY <1>1, <2>3, <2>5 DEF Around
<1>3. FieldString(s)
  BY FieldConcat
<1>4. PICK u : Sums(u, s) /\ Bits(s) = u[Len(s)]
  BY BitsIs, Zenon
<1>5. PICK w : Sums(w, t) /\ Bits(t) = w[Len(t)]
  BY BitsIs, Zenon
<1> HIDE DEF s, t, n, m
<1>6. /\ u[0] = 0 /\ \A k \in Nat : u[k + 1] = u[k] + s[k + 1].n
      /\ w[0] = 0 /\ \A k \in Nat : w[k + 1] = w[k] + t[k + 1].n
  BY <1>4, <1>5, SumsAt, Zenon
<1>7. \A k \in Nat : k <= Len(s) => u[k] \in Nat
  BY <1>3, <1>4, SumsNat
<1> DEFINE P == {k \in Nat : /\ k <= n => w[k] = u[k]
                             /\ k >= n /\ k <= n + m => w[k + 1] = u[k] + 1}
<1>8. 0 \in P
  <2>1. 0 \in Nat /\ w[0] = 0 /\ w[0 + 1] = w[0] + t[0 + 1].n
    BY <1>6
  <2>2. n = 0 => w[0 + 1] = 1
    BY <1>2, <2>1
  <2> QED
    BY <1>1, <1>6, <2>2
<1>9. ASSUME NEW k \in P PROVE k + 1 \in P
  <2>1. k \in Nat /\ u[k + 1] = u[k] + s[k + 1].n /\ w[k + 1] = w[k] + t[k + 1].n
        /\ w[k + 1 + 1] = w[k + 1] + t[k + 1 + 1].n
    BY <1>6
  <2>2. k + 1 <= n => w[k + 1] = u[k + 1]
    BY <1>1, <1>2, <2>1
  <2>3. ASSUME k + 1 >= n, k + 1 <= n + m PROVE w[k + 1 + 1] = u[k + 1] + 1
    <3>1. CASE k + 1 = n
      BY <1>2, <2>1, <2>2, <3>1
    <3>2. CASE k >= n
      <4>1. k + 1 \in n+1..n+m
        BY <1>1, <2>1, <2>3, <3>2
      <4>2. t[k + 1 + 1] = s[k + 1]
        BY <1>2, <4>1
      <4>3. w[k + 1] = u[k] + 1
        BY <1>1, <2>1, <2>3, <3>2
      <4>4. u[k] \in Nat /\ u[k + 1] \in Nat
        BY <1>1, <1>2, <1>7, <2>1, <2>3
      <4>5. s[k + 1].n \in Nat
        BY <1>2, <1>3, <2>1, <4>1, <1>1 DEF FieldString
      <4> QED
        BY <2>1, <4>2, <4>3, <4>4, <4>5
    <3> QED
      BY <1>1, <2>1, <2>3, <3>1, <3>2
  <2> QED
    BY <2>1, <2>2, <2>3
<1>10. P = Nat
  <2>1. P \in SUBSET Nat
    OBVIOUS
  <2> HIDE DEF P
  <2> QED
    BY <1>8, <1>9, <2>1, Widths!NatSetInduction
<1>11. n + m \in P
  BY <1>1, <1>10
<1>12. w[n + 1 + m] = u[n + m] + 1
  BY <1>1, <1>11
<1>13. Bits(s) \in Nat /\ Bits(t) = Bits(s) + 1
  BY <1>1, <1>2, <1>4, <1>5, <1>7, <1>12
<1> QED
  BY <1>13 DEF s, t

-------------------------------------------------------------------------------
(* A rewrite touches no element that a frame header is read under but      *)
(* those of the timing and the model.                                      *)

SameUses(g, h) ==
  /\ g.seq_force_screen_content_tools = h.seq_force_screen_content_tools
  /\ g.seq_force_integer_mv = h.seq_force_integer_mv
  /\ g.enable_order_hint = h.enable_order_hint
  /\ g.order_hint_bits = h.order_hint_bits
  /\ g.enable_superres = h.enable_superres
  /\ g.frame_width_bits_minus_1 = h.frame_width_bits_minus_1
  /\ g.frame_height_bits_minus_1 = h.frame_height_bits_minus_1
  /\ g.max_frame_width = h.max_frame_width
  /\ g.max_frame_height = h.max_frame_height
  /\ g.enable_ref_frame_mvs = h.enable_ref_frame_mvs
  /\ g.enable_warped_motion = h.enable_warped_motion
  /\ g.use_128x128_superblock = h.use_128x128_superblock
  /\ g.separate_uv_delta_q = h.separate_uv_delta_q
  /\ g.mono_chrome = h.mono_chrome
  /\ g.enable_cdef = h.enable_cdef
  /\ g.enable_restoration = h.enable_restoration
  /\ g.subsample_x = h.subsample_x
  /\ g.subsample_y = h.subsample_y

LEMMA RetimedUses == ASSUME NEW g, NEW h, Retimed(g, h) PROVE SameUses(g, h)
  BY SMT DEF Retimed, SameBase, SameTools, SameColor, SameUses

LEMMA UsedWords ==
  ASSUME NEW g, NEW h, SameUses(g, h), NEW c
  PROVE  /\ ScreenContent(g, c) <=> ScreenContent(h, c)
         /\ ForceIntegerMv(g, c) <=> ForceIntegerMv(h, c)
         /\ Hint(g, c) = Hint(h, c)
         /\ NumPlanes(g) = NumPlanes(h)
         /\ SeparateUv(g, c) <=> SeparateUv(h, c)
         /\ PreciseMv(g, c) <=> PreciseMv(h, c)
         /\ Denom(g, c) = Denom(h, c)
<1>1. ScreenContent(g, c) <=> ScreenContent(h, c)
  BY Zenon DEF SameUses, ScreenContent
<1>2. ForceIntegerMv(g, c) <=> ForceIntegerMv(h, c)
  BY <1>1, Zenon DEF SameUses, ForceIntegerMv
<1>3. Hint(g, c) = Hint(h, c)
  BY Zenon DEF SameUses, Hint
<1>4. NumPlanes(g) = NumPlanes(h)
  BY Zenon DEF SameUses, NumPlanes
<1>5. SeparateUv(g, c) <=> SeparateUv(h, c)
  BY Zenon DEF SameUses, SeparateUv
<1>6. PreciseMv(g, c) <=> PreciseMv(h, c)
  BY <1>2, Zenon DEF PreciseMv
<1>7. Denom(g, c) = Denom(h, c)
  BY SMT DEF SameUses, Denom
<1> QED
  BY <1>1, <1>2, <1>3, <1>4, <1>5, <1>6, <1>7, Zenon

LEMMA SameBeforeRemoval ==
  ASSUME NEW g, NEW h, SameUses(g, h), ~ NeedsTemporalPoint(g), ~ NeedsTemporalPoint(h), NEW c
  PROVE  BeforeRemoval(g, c) = BeforeRemoval(h, c)
<1> DEFINE p(e) == When(c.show_frame /\ NeedsTemporalPoint(e),
                        F(e.frame_presentation_time_length_minus_1 + 1, c.presentation_time))
           q(e) == When(e.seq_force_screen_content_tools = SELECT, Flag(c.allow_screen_content_tools))
           r(e) == When(ScreenContent(e, c) /\ e.seq_force_integer_mv = SELECT, Flag(c.force_integer_mv))
           s(e) == F(e.order_hint_bits, Hint(e, c))
<1>1. p(g) = p(h)
  BY Zenon DEF When
<1>2. q(g) = q(h)
  BY Zenon DEF SameUses
<1>3. r(g) = r(h)
  <2>1. (ScreenContent(g, c) /\ g.seq_force_integer_mv = SELECT)
          <=> (ScreenContent(h, c) /\ h.seq_force_integer_mv = SELECT)
    BY UsedWords, Zenon DEF SameUses
  <2> QED
    BY <2>1, WhenSame, Zenon
<1>4. s(g) = s(h)
  BY UsedWords, Zenon DEF SameUses
<1> DEFINE whole(P, Q, R, S) ==
             Flag(FALSE) \o F(2, c.frame_type) \o Flag(c.show_frame) \o P
             \o When(~ c.show_frame, Flag(c.showable_frame))
             \o When(~ Forced(c), Flag(c.error_resilient))
             \o Flag(c.disable_cdf_update) \o Q \o R
             \o When(c.frame_type # SWITCH_FRAME, Flag(c.frame_size_override_flag))
             \o S \o When(~ Intra(c) /\ ~ ErrorResilient(c), F(3, c.primary_ref_frame))
<1>5. \A e : BeforeRemoval(e, c) = whole(p(e), q(e), r(e), s(e))
  BY Zenon DEF BeforeRemoval
<1> HIDE DEF p, q, r, s, whole
<1> QED
  BY <1>1, <1>2, <1>3, <1>4, <1>5, Zenon

LEMMA SameRefOrderHints ==
  ASSUME NEW g, NEW h, SameUses(g, h), NEW c
  PROVE  RefOrderHints(g, c) = RefOrderHints(h, c)
<1> DEFINE run(n) == [k \in 1..8 |-> [n |-> n, v |-> 0]]
<1>1. \A e : RefOrderHints(e, c) =
        When(/\ ~ Intra(c) \/ Refresh(c) # Slots
             /\ ErrorResilient(c) /\ e.enable_order_hint, run(e.order_hint_bits))
  BY Zenon DEF RefOrderHints
<1> HIDE DEF run
<1> QED
  BY <1>1, Zenon DEF SameUses

LEMMA SameSizeOf ==
  ASSUME NEW g, NEW h, SameUses(g, h), NEW c, NEW dpb
  PROVE  SizeOf(g, c, dpb) = SizeOf(h, c, dpb)
<1>1. \A x : Scaled(g, c, x) = Scaled(h, c, x)
  BY UsedWords, Zenon DEF Scaled
<1>2. g.max_frame_width = h.max_frame_width /\ g.max_frame_height = h.max_frame_height
  BY DEF SameUses
<1> DEFINE fromRef == WithRefs(c) /\ c.found_ref \in Refs
           slot      == dpb[c.ref_frame_idx[c.found_ref]]
           up(e)     == IF fromRef THEN slot.upscaled_width
                        ELSE IF SizeOverride(c) THEN c.width ELSE e.max_frame_width
           height(e) == IF fromRef THEN slot.frame_height
                        ELSE IF SizeOverride(c) THEN c.height ELSE e.max_frame_height
           whole(u, w, y) ==
             [upscaled_width |-> u, frame_width |-> w, frame_height |-> y,
              render_width  |-> IF fromRef THEN slot.render_width
                                ELSE IF c.render_differs THEN c.render_width ELSE u,
              render_height |-> IF fromRef THEN slot.render_height
                                ELSE IF c.render_differs THEN c.render_height ELSE y]
<1>3. up(g) = up(h) /\ height(g) = height(h)
  BY <1>2, Zenon
<1>4. \A e : SizeOf(e, c, dpb) = whole(up(e), Scaled(e, c, up(e)), height(e))
  BY Zenon DEF SizeOf
<1> HIDE DEF up, height, whole
<1> QED
  BY <1>1, <1>3, <1>4, Zenon

LEMMA SameSizeAndRefs ==
  ASSUME NEW g, NEW h, SameUses(g, h), NEW c, NEW size
  PROVE  SizeAndRefs(g, c, size) = SizeAndRefs(h, c, size)
<1>1. SuperresParams(g, c) = SuperresParams(h, c)
  BY Zenon DEF SuperresParams, SameUses
<1>2. FrameSize(g, c) = FrameSize(h, c)
  BY <1>1, Zenon DEF FrameSize, SameUses
<1>3. FrameSizeWithRefs(g, c) = FrameSizeWithRefs(h, c)
  BY <1>1, <1>2, Zenon DEF FrameSizeWithRefs
<1>4. CodesIntrabc(g, c, size) <=> CodesIntrabc(h, c, size)
  BY UsedWords, Zenon DEF CodesIntrabc
<1>5. RefFields(g, c) = RefFields(h, c)
  BY Zenon DEF RefFields, SameUses
<1>6. When(CodesIntrabc(g, c, size), Flag(c.allow_intrabc))
        = When(CodesIntrabc(h, c, size), Flag(c.allow_intrabc))
  BY <1>4, Zenon DEF When
<1>7. When(~ ForceIntegerMv(g, c), Flag(c.allow_high_precision_mv))
        = When(~ ForceIntegerMv(h, c), Flag(c.allow_high_precision_mv))
  BY UsedWords, Zenon DEF When
<1>8. When(~ ErrorResilient(c) /\ g.enable_ref_frame_mvs, Flag(c.use_ref_frame_mvs))
        = When(~ ErrorResilient(c) /\ h.enable_ref_frame_mvs, Flag(c.use_ref_frame_mvs))
  BY Zenon DEF SameUses
<1> QED
  BY <1>2, <1>3, <1>5, <1>6, <1>7, <1>8, Zenon DEF SizeAndRefs

LEMMA SameTileInfo ==
  ASSUME NEW g, NEW h, SameUses(g, h), NEW c, NEW size
  PROVE  TileInfo(g, c, size) = TileInfo(h, c, size)
<1>1. TileLimits(g, size) = TileLimits(h, size)
  <2> DEFINE mi(e) == IF e.use_128x128_superblock THEN 32 ELSE 16
             limits(m) ==
               LET sb(px) == (2 * ((px + 7) \div 8) + m - 1) \div m
                   cols  == sb(size.frame_width)
                   rows  == sb(size.frame_height)
                   width == 4096 \div (4 * m)
                   minCols == TileLog2(width, cols)
               IN  [cols |-> cols, rows |-> rows, width |-> width, minCols |-> minCols,
                    maxCols  |-> TileLog2(1, MinOf(cols, 64)),
                    maxRows  |-> TileLog2(1, MinOf(rows, 64)),
                    minTiles |-> MaxOf(minCols,
                                       TileLog2((4096 * 2304) \div (4 * m * 4 * m), rows * cols))]
  <2>1. mi(g) = mi(h)
    BY Zenon DEF SameUses
  <2>2. TileLimits(g, size) = limits(mi(g)) /\ TileLimits(h, size) = limits(mi(h))
    BY SMT DEF TileLimits
  <2> HIDE DEF mi, limits
  <2> QED
    BY <2>1, <2>2
<1> QED
  BY <1>1, Zenon DEF TileInfo

LEMMA SameQuantization ==
  ASSUME NEW g, NEW h, SameUses(g, h), NEW c
  PROVE  QuantizationParams(g, c) = QuantizationParams(h, c)
<1> DEFINE v(e) == When(SeparateUv(e, c), DeltaQ(c.delta_q_v_dc) \o DeltaQ(c.delta_q_v_ac))
<1>1. v(g) = v(h)
  BY UsedWords, Zenon DEF When
<1> HIDE DEF v
<1>2. \A e : QuantizationParams(e, c) =
        F(8, c.base_q_idx) \o DeltaQ(c.delta_q_y_dc)
        \o When(NumPlanes(e) > 1,
                When(e.separate_uv_delta_q, Flag(c.diff_uv_delta))
                \o DeltaQ(c.delta_q_u_dc) \o DeltaQ(c.delta_q_u_ac) \o v(e))
        \o Flag(c.using_qmatrix)
        \o When(c.using_qmatrix, F(4, 0) \o F(4, 0) \o When(e.separate_uv_delta_q, F(4, 0)))
  BY Zenon DEF QuantizationParams, v
<1> QED
  BY <1>1, <1>2, UsedWords, Zenon DEF SameUses

LEMMA SameLossless ==
  ASSUME NEW g, NEW h, SameUses(g, h), NEW c
  PROVE  CodedLossless(g, c) <=> CodedLossless(h, c)
<1>1. NoDeltas(g, c) <=> NoDeltas(h, c)
  BY UsedWords, Zenon DEF NoDeltas
<1> QED
  BY <1>1, Zenon DEF CodedLossless

LEMMA SameIntrabc ==
  ASSUME NEW g, NEW h, SameUses(g, h), NEW c, NEW size
  PROVE  Intrabc(g, c, size) <=> Intrabc(h, c, size)
  BY UsedWords, Zenon DEF Intrabc, CodesIntrabc

LEMMA SameDeltas ==
  ASSUME NEW g, NEW h, SameUses(g, h), NEW c, NEW size
  PROVE  DeltaParams(g, c, size) = DeltaParams(h, c, size)
<1> DEFINE v(b) == When(c.base_q_idx > 0 /\ c.delta_q_present /\ ~ b,
                        Flag(c.delta_lf_present) \o When(c.delta_lf_present, F(2, 0) \o F(1, 0)))
<1>1. v(Intrabc(g, c, size)) = v(Intrabc(h, c, size))
  BY SameIntrabc, Zenon DEF When
<1> QED
  BY <1>1, Zenon DEF DeltaParams

LEMMA SameLoopFilter ==
  ASSUME NEW g, NEW h, SameUses(g, h), NEW c, NEW size, NEW b, NEW d, b <=> d
  PROVE  LoopFilterParams(g, c, size, b) = LoopFilterParams(h, c, size, d)
<1> DEFINE v(n) ==
       F(6, c.filter_level) \o F(6, c.filter_level)
       \o When(n > 1 /\ c.filter_level # 0, F(6, 0) \o F(6, 0))
       \o F(3, 0) \o Flag(c.filter_delta_enabled)
       \o When(c.filter_delta_enabled,
               Flag(c.filter_delta_update)
               \o When(c.filter_delta_update,
                       FlattenSeq([k \in 1..10 |-> Flag(k \in c.filter_deltas)
                                                   \o When(k \in c.filter_deltas, Su(7, 1))])))
<1>1. /\ LoopFilterParams(g, c, size, b)
           = When(~ b /\ ~ Intrabc(g, c, size), v(NumPlanes(g)))
      /\ LoopFilterParams(h, c, size, d)
           = When(~ d /\ ~ Intrabc(h, c, size), v(NumPlanes(h)))
  BY Zenon DEF LoopFilterParams
<1> HIDE DEF v
<1>2. NumPlanes(g) = NumPlanes(h) /\ (Intrabc(g, c, size) <=> Intrabc(h, c, size))
  BY UsedWords, SameIntrabc, Zenon
<1>3. When(~ b /\ ~ Intrabc(g, c, size), v(NumPlanes(g)))
        = When(~ d /\ ~ Intrabc(h, c, size), v(NumPlanes(h)))
  BY <1>2, Zenon DEF When
<1> QED
  BY <1>1, <1>3, Zenon

LEMMA SameCdef ==
  ASSUME NEW g, NEW h, SameUses(g, h), NEW c, NEW size, NEW b, NEW d, b <=> d
  PROVE  CdefParams(g, c, size, b) = CdefParams(h, c, size, d)
<1> DEFINE v(n) ==
       F(2, 0) \o F(2, c.cdef_bits)
       \o FlattenSeq([k \in 1..2^c.cdef_bits |->
                        F(4, 0) \o F(2, 0) \o When(n > 1, F(4, 0) \o F(2, 0))])
<1>1. /\ CdefParams(g, c, size, b)
           = When(~ b /\ ~ Intrabc(g, c, size) /\ g.enable_cdef, v(NumPlanes(g)))
      /\ CdefParams(h, c, size, d)
           = When(~ d /\ ~ Intrabc(h, c, size) /\ h.enable_cdef, v(NumPlanes(h)))
  BY Zenon DEF CdefParams
<1> HIDE DEF v
<1>2. /\ NumPlanes(g) = NumPlanes(h) /\ (Intrabc(g, c, size) <=> Intrabc(h, c, size))
      /\ g.enable_cdef = h.enable_cdef
  BY UsedWords, SameIntrabc, Zenon DEF SameUses
<1>3. When(~ b /\ ~ Intrabc(g, c, size) /\ g.enable_cdef, v(NumPlanes(g)))
        = When(~ d /\ ~ Intrabc(h, c, size) /\ h.enable_cdef, v(NumPlanes(h)))
  BY <1>2, Zenon DEF When
<1> QED
  BY <1>1, <1>3, Zenon

LEMMA SameLr ==
  ASSUME NEW g, NEW h, SameUses(g, h), NEW c, NEW size, NEW b, NEW d, b <=> d
  PROVE  LrParams(g, c, size, b) = LrParams(h, c, size, d)
<1> DEFINE v(n, wide, x, y) ==
      LET usesLr     == c.lr_luma # 0 \/ (n > 1 /\ c.lr_chroma # 0)
          usesChroma == n > 1 /\ c.lr_chroma # 0
      IN   F(2, c.lr_luma) \o When(n > 1, F(2, c.lr_chroma) \o F(2, 0))
           \o When(usesLr,
                   Flag(c.lr_unit_shift)
                   \o When(~ wide /\ c.lr_unit_shift, F(1, 0))
                   \o When(x /\ y /\ usesChroma, F(1, 0)))
<1>1. /\ LrParams(g, c, size, b)
           = When(~ b /\ ~ Intrabc(g, c, size) /\ g.enable_restoration,
                       v(NumPlanes(g), g.use_128x128_superblock, g.subsample_x, g.subsample_y))
      /\ LrParams(h, c, size, d)
           = When(~ d /\ ~ Intrabc(h, c, size) /\ h.enable_restoration,
                       v(NumPlanes(h), h.use_128x128_superblock, h.subsample_x, h.subsample_y))
  BY Zenon DEF LrParams
<1> HIDE DEF v
<1>2. /\ NumPlanes(g) = NumPlanes(h) /\ (Intrabc(g, c, size) <=> Intrabc(h, c, size))
      /\ g.enable_restoration = h.enable_restoration
      /\ g.use_128x128_superblock = h.use_128x128_superblock
      /\ g.subsample_x = h.subsample_x /\ g.subsample_y = h.subsample_y
  BY UsedWords, SameIntrabc, Zenon DEF SameUses
<1> DEFINE w(e) == v(NumPlanes(e), e.use_128x128_superblock, e.subsample_x, e.subsample_y)
<1>3. w(g) = w(h)
  BY <1>2, Zenon
<1> HIDE DEF w
<1>4. When(~ b /\ ~ Intrabc(g, c, size) /\ g.enable_restoration, w(g))
        = When(~ d /\ ~ Intrabc(h, c, size) /\ h.enable_restoration, w(h))
  BY <1>2, <1>3, Zenon DEF When
<1> QED
  BY <1>1, <1>4, Zenon DEF w

LEMMA SameSkipMode ==
  ASSUME NEW g, NEW h, SameUses(g, h), NEW c, NEW dpb
  PROVE  SkipModeParams(g, c, dpb) = SkipModeParams(h, c, dpb)
<1>1. Hint(g, c) = Hint(h, c)
  BY UsedWords, Zenon
<1>2. SidesAllow(g.order_hint_bits, Hint(g, c), RefHints(c, dpb))
        = SidesAllow(h.order_hint_bits, Hint(h, c), RefHints(c, dpb))
  BY <1>1, Zenon DEF SameUses
<1> QED
  BY <1>2, Zenon DEF SkipModeParams, SameUses

LEMMA SameGlobalMotion ==
  ASSUME NEW g, NEW h, SameUses(g, h), NEW c
  PROVE  GlobalMotionParams(g, c) = GlobalMotionParams(h, c)
<1> DEFINE v(b) == FlattenSeq([k \in 1..7 |-> GlobalMotion(b, c.subexp_more, c.gm_type[k - 1])])
<1>1. \A e : GlobalMotionParams(e, c) = When(~ Intra(c), v(PreciseMv(e, c)))
  BY Zenon DEF GlobalMotionParams
<1>2. PreciseMv(g, c) = PreciseMv(h, c)
  <2>1. \A e : PreciseMv(e, c) \in BOOLEAN
    BY Zenon DEF PreciseMv
  <2> QED
    BY <2>1, UsedWords
<1> HIDE DEF v
<1> QED
  BY <1>1, <1>2, Zenon

LEMMA SameFromTiles ==
  ASSUME NEW g, NEW h, SameUses(g, h), NEW c, NEW dpb, NEW size
  PROVE  FromTiles(g, c, dpb, size) = FromTiles(h, c, dpb, size)
<1> DEFINE narrow == size.frame_width = size.upscaled_width
           t(e) == TileInfo(e, c, size)
           q(e) == QuantizationParams(e, c)
           d(e) == DeltaParams(e, c, size)
           l(e) == LoopFilterParams(e, c, size, CodedLossless(e, c))
           f(e) == CdefParams(e, c, size, CodedLossless(e, c))
           r(e) == LrParams(e, c, size, CodedLossless(e, c) /\ narrow)
           x(e) == When(~ CodedLossless(e, c), Flag(c.tx_mode_select))
           k(e) == SkipModeParams(e, c, dpb)
           w(e) == When(~ Intra(c) /\ ~ ErrorResilient(c) /\ e.enable_warped_motion,
                        Flag(c.allow_warped_motion))
           m(e) == GlobalMotionParams(e, c)
           whole(T, Q, D, L, C, R, X, K, W, M) ==
             T \o Q \o SegmentationParams(c) \o D \o L \o C \o R \o X
             \o When(~ Intra(c), Flag(c.reference_select)) \o K \o W
             \o Flag(c.reduced_tx_set) \o M
<1>1. t(g) = t(h) /\ q(g) = q(h) /\ d(g) = d(h) /\ k(g) = k(h) /\ m(g) = m(h)
  BY SameTileInfo, SameQuantization, SameDeltas, SameSkipMode, SameGlobalMotion
<1>2. CodedLossless(g, c) <=> CodedLossless(h, c)
  BY SameLossless, Zenon
<1>3. (CodedLossless(g, c) /\ narrow) <=> (CodedLossless(h, c) /\ narrow)
  BY <1>2, Zenon
<1>4. l(g) = l(h) /\ f(g) = f(h) /\ r(g) = r(h)
  BY <1>2, <1>3, SameLoopFilter, SameCdef, SameLr
<1>5. x(g) = x(h)
  BY <1>2, Zenon DEF When
<1>6. w(g) = w(h)
  BY Zenon DEF SameUses
<1>7. /\ FromTiles(g, c, dpb, size) = whole(t(g), q(g), d(g), l(g), f(g), r(g), x(g), k(g), w(g), m(g))
      /\ FromTiles(h, c, dpb, size) = whole(t(h), q(h), d(h), l(h), f(h), r(h), x(h), k(h), w(h), m(h))
  BY Zenon DEF FromTiles
<1> HIDE DEF t, q, d, l, f, r, x, k, w, m, whole
<1> QED
  BY <1>1, <1>4, <1>5, <1>6, <1>7, Zenon

LEMMA SameBehind ==
  ASSUME NEW g, NEW h, SameUses(g, h), NEW c, NEW dpb
  PROVE  Behind(g, c, dpb) = Behind(h, c, dpb) /\ AfterFrame(g, c, dpb) = AfterFrame(h, c, dpb)
<1> DEFINE slots   == Entering(c, dpb)
           size(e) == SizeOf(e, c, slots)
           update  == When(~ c.disable_cdf_update, Flag(c.disable_end_update))
<1>1. size(g) = size(h)
  BY SameSizeOf
<1>2. /\ Behind(g, c, dpb) = RefOrderHints(g, c)
            \o (SizeAndRefs(g, c, size(g)) \o (update \o FromTiles(g, c, slots, size(g))))
      /\ Behind(h, c, dpb) = RefOrderHints(h, c)
            \o (SizeAndRefs(h, c, size(h)) \o (update \o FromTiles(h, c, slots, size(h))))
  BY Zenon DEF Behind
<1>3. Hint(g, c) = Hint(h, c)
  BY UsedWords, Zenon
<1> DEFINE next(z, n) ==
             [order_hint |-> n, upscaled_width |-> z.upscaled_width,
              frame_width |-> z.frame_width, frame_height |-> z.frame_height,
              render_width |-> z.render_width, render_height |-> z.render_height,
              is_key_frame |-> c.frame_type = KEY_FRAME]
           after(z) == [s \in Slots |-> IF s \in Refresh(c) THEN z ELSE slots[s]]
<1>4. /\ AfterFrame(g, c, dpb) = after(next(size(g), Hint(g, c)))
      /\ AfterFrame(h, c, dpb) = after(next(size(h), Hint(h, c)))
  BY Zenon DEF AfterFrame
<1> HIDE DEF slots, size, update, next, after
<1>5. Behind(g, c, dpb) = Behind(h, c, dpb)
  <2>1. RefOrderHints(g, c) = RefOrderHints(h, c)
    BY SameRefOrderHints, Zenon
  <2>2. SizeAndRefs(g, c, size(g)) = SizeAndRefs(h, c, size(g))
    BY SameSizeAndRefs
  <2>3. FromTiles(g, c, slots, size(g)) = FromTiles(h, c, slots, size(g))
    BY SameFromTiles
  <2> QED
    BY <1>1, <1>2, <2>1, <2>2, <2>3, Zenon
<1> QED
  BY <1>1, <1>3, <1>4, <1>5, Zenon

-------------------------------------------------------------------------------
(* The walk over the output.                                               *)

LEMMA RemovalAbsent ==
  ASSUME NEW h, NEW c
  PROVE  /\ ~ h.decoder_model_info_present => Removal(h, c) = << >>
         /\ h.decoder_model_info_present /\ ~ c.removal_time_present
              => Removal(h, c) = Flag(FALSE)
<1>1. ~ h.decoder_model_info_present => Removal(h, c) = << >>
  BY Zenon DEF Removal, When
<1>2. ASSUME h.decoder_model_info_present, ~ c.removal_time_present
      PROVE  Removal(h, c) = Flag(FALSE)
  <2> DEFINE times == FlattenSeq([k \in DOMAIN h.operating_points |->
                        When(h.operating_points[k].decoder_model_present,
                             F(h.buffer_removal_time_length_minus_1 + 1, k))])
  <2>1. Removal(h, c) = Flag(c.removal_time_present) \o When(c.removal_time_present, times)
    BY <1>2, Zenon DEF Removal, When
  <2>2. When(c.removal_time_present, times) = << >>
    BY <1>2, Zenon DEF When
  <2> HIDE DEF times
  <2>3. Flag(c.removal_time_present) = Flag(FALSE)
    BY <1>2, Zenon DEF Flag
  <2>4. Flag(FALSE) \o << >> = Flag(FALSE)
    BY FieldFlag, FieldNeutral
  <2> QED
    BY <2>1, <2>2, <2>3, <2>4
<1> QED
  BY <1>1, <1>2

Parted(s, a, y) == /\ SubSeq(s, 1, Len(a)) = a
                   /\ SubSeq(s, Len(a) + 1, Len(s)) = y

LEMMA SeqParted ==
  ASSUME NEW S, NEW a \in Seq(S), NEW y \in Seq(S) PROVE Parted(a \o y, a, y)
<1> DEFINE s == a \o y
<1>1. s \in Seq(S) /\ Chained(s, a, y)
  BY ConcatChained, Zenon
<1> HIDE DEF s
<1>2. /\ Len(a) \in Nat /\ Len(y) \in Nat /\ Len(s) = Len(a) + Len(y)
      /\ \A i \in 1 .. Len(a) + Len(y) : s[i] = IF i <= Len(a) THEN a[i] ELSE y[i - Len(a)]
  BY <1>1 DEF Chained
<1>3. SubSeq(s, 1, Len(a)) = a
  BY <1>1, <1>2
<1>4. SubSeq(s, Len(a) + 1, Len(s)) = y
  BY <1>1, <1>2
<1> QED
  BY <1>3, <1>4 DEF Parted, s

LEMMA FieldParted ==
  ASSUME NEW a, FieldString(a), NEW y, FieldString(y) PROVE Parted(a \o y, a, y)
<1>1. PICK A : a \in Seq(A)
  BY DEF FieldString
<1>2. PICK B : y \in Seq(B)
  BY DEF FieldString
<1> DEFINE S == A \cup B
<1>3. a \in Seq(S) /\ y \in Seq(S)
  BY <1>1, <1>2, SeqWider
<1> HIDE DEF S
<1> QED
  BY <1>3, SeqParted, Zenon

(* A header that is spliced, and one that is left as it is, read under the *)
(* header that is written.                                                 *)
Same(h, g, model, c, dpb) ==
  /\ IF model /\ ~ h.decoder_model_info_present
     THEN /\ Spliced(h, c, dpb) = ScanFields(g, c, dpb)
          /\ Bits(ScanFields(h, c, dpb)) \in Nat
          /\ Bits(Spliced(h, c, dpb)) = Bits(ScanFields(h, c, dpb)) + 1
     ELSE ScanFields(h, c, dpb) = ScanFields(g, c, dpb)
  /\ AfterFrame(h, c, dpb) = AfterFrame(g, c, dpb)

LEMMA ReadBack ==
  ASSUME NEW h, Canonical(h), ~ NeedsTemporalPoint(h), NEW model, NEW g, Settles(h, g, model),
         NEW c \in FrameElements, c.removal_time_present => h.decoder_model_info_present,
         NEW dpb, WithRefs(c) => SlotsSized(Entering(c, dpb))
  PROVE  Same(h, g, model, c, dpb)
<1> DEFINE splices == model /\ ~ h.decoder_model_info_present
           a == BeforeRemoval(h, c)
           f == RefreshFlags(c)
           b == Behind(h, c, dpb)
           r == ScanFields(h, c, dpb)
<1>1. /\ h \in SequenceHeader /\ g \in SequenceHeader /\ Retimed(g, h)
      /\ splices => g.decoder_model_info_present /\ g.equal_picture_interval
      /\ ~ splices => \/ g = h
                      \/ ~ h.decoder_model_info_present /\ ~ g.decoder_model_info_present
  BY Zenon DEF Settles, Canonical
<1>2. SameUses(g, h)
  BY <1>1, RetimedUses, Zenon
<1>3. ~ NeedsTemporalPoint(g)
  BY <1>1, Zenon DEF NeedsTemporalPoint
<1>4. BeforeRemoval(g, c) = a
  BY <1>2, <1>3, SameBeforeRemoval
<1>5. Behind(g, c, dpb) = b /\ AfterFrame(h, c, dpb) = AfterFrame(g, c, dpb)
  BY <1>2, SameBehind
<1>6. /\ r = (a \o Removal(h, c) \o f) \o b
      /\ ScanFields(g, c, dpb) = (a \o Removal(g, c) \o f) \o b
      /\ FieldString(b)
  BY <1>1, <1>4, <1>5, ScanSplit
<1>7. FieldString(a) /\ FieldString(f)
  BY <1>1, BeforeRemovalFields, RefreshFlagsFields
<1>8. Spliced(h, c, dpb) = SubSeq(r, 1, Len(a)) \o Flag(FALSE) \o SubSeq(r, Len(a) + 1, Len(r))
  BY Zenon DEF Spliced
<1>9. /\ ~ h.decoder_model_info_present => Removal(h, c) = << >>
      /\ ~ g.decoder_model_info_present => Removal(g, c) = << >>
      /\ g.decoder_model_info_present /\ ~ c.removal_time_present => Removal(g, c) = Flag(FALSE)
  BY RemovalAbsent, Zenon
<1> HIDE DEF a, f, b, r
<1>10. CASE splices
  <2>1. Removal(h, c) = << >> /\ Removal(g, c) = Flag(FALSE)
    BY <1>1, <1>9, <1>10
  <2>2. a \o << >> = a
    BY <1>7, FieldNeutral
  <2>3. Associates(a, f, b) /\ FieldString(f \o b)
    BY <1>6, <1>7, FieldAssoc, FieldConcat, Zenon
  <2>4. r = a \o (f \o b)
    BY <1>6, <2>1, <2>2, <2>3 DEF Associates
  <2>5. Parted(a \o (f \o b), a, f \o b)
    BY <1>7, <2>3, FieldParted, Zenon
  <2>6. SubSeq(r, 1, Len(a)) = a /\ SubSeq(r, Len(a) + 1, Len(r)) = f \o b
    BY <2>4, <2>5 DEF Parted
  <2>7. Spliced(h, c, dpb) = (a \o Flag(FALSE)) \o (f \o b)
    BY <1>8, <2>6
  <2>8. FieldString(a \o Flag(FALSE))
    BY <1>7, FieldFlag, FieldConcat
  <2>9. Associates(a \o Flag(FALSE), f, b)
    BY <1>6, <1>7, <2>8, FieldAssoc, Zenon
  <2>10. Spliced(h, c, dpb) = ScanFields(g, c, dpb)
    BY <1>6, <2>1, <2>7, <2>9 DEF Associates
  <2>11. /\ Bits(a \o (f \o b)) \in Nat
         /\ Bits((a \o Flag(FALSE)) \o (f \o b)) = Bits(a \o (f \o b)) + 1
    BY <1>7, <2>3, BitsInserted, Zenon
  <2>12. Bits(r) \in Nat /\ Bits(Spliced(h, c, dpb)) = Bits(r) + 1
    BY <2>4, <2>7, <2>11, Zenon
  <2> QED
    BY <1>5, <1>10, <2>10, <2>12, Zenon DEF Same, r
<1>11. CASE ~ splices
  <2>1. CASE g = h
    BY <1>11, <2>1, Zenon DEF Same
  <2>2. CASE ~ h.decoder_model_info_present /\ ~ g.decoder_model_info_present
    <3>1. Removal(h, c) = Removal(g, c)
      BY <1>9, <2>2, Zenon
    <3> QED
      BY <1>5, <1>6, <1>11, <3>1, Zenon DEF Same, r
  <2> QED
    BY <1>1, <1>11, <2>1, <2>2, Zenon
<1> QED
  BY <1>10, <1>11, Zenon

LEMMA ResetSized ==
  ASSUME NEW h \in SequenceHeader, NEW c \in FrameElements, ResetsDecoder(c), NEW dpb
  PROVE  SlotsSized(AfterFrame(h, c, dpb))
<1> DEFINE slots == Entering(c, dpb)
           size  == SizeOf(h, c, slots)
           slot  == [order_hint |-> Hint(h, c), upscaled_width |-> size.upscaled_width,
                     frame_width |-> size.frame_width, frame_height |-> size.frame_height,
                     render_width |-> size.render_width, render_height |-> size.render_height,
                     is_key_frame |-> c.frame_type = KEY_FRAME]
<1>1. ~ WithRefs(c) /\ Refresh(c) = Slots
  BY Zenon DEF WithRefs, ErrorResilient, Forced, Refresh
<1>2. size.upscaled_width \in Nat \ {0} /\ size.frame_height \in Nat
  BY <1>1, SizeOfSized DEF Sized
<1>3. AfterFrame(h, c, dpb) = [s \in Slots |-> IF s \in Refresh(c) THEN slot ELSE slots[s]]
  BY Zenon DEF AfterFrame
<1> HIDE DEF size
<1>4. slot.upscaled_width = size.upscaled_width /\ slot.frame_height = size.frame_height
  OBVIOUS
<1> HIDE DEF slot
<1>5. \A s \in Slots : AfterFrame(h, c, dpb)[s] = slot
  BY <1>1, <1>3
<1> QED
  BY <1>2, <1>4, <1>5 DEF SlotsSized

-------------------------------------------------------------------------------
(* What holds in every state: the header is what the parser makes of the   *)
(* coded one, what is written settles it, and both readers hold the same   *)
(* slots, which have a size once a key TU has been walked.                 *)

InputInv == raw \in HeaderInputs /\ decoderModel \in BOOLEAN

ParsedInv == phase \notin {"parse", "error"} =>
               sh = ParseSequenceHeader(raw) /\ Supported(sh)

SettledInv == phase \in {"key", "golden", "done"} => Settles(sh, emitted, decoderModel)

SlotsInv == inDpb = outDpb /\ (phase = "golden" => SlotsSized(inDpb))

WalkInv == /\ phase \in {"parse", "settle", "key"} => walk = NoWalk
           /\ ParsersAgree /\ FramesReadBack

HInv == InputInv /\ ParsedInv /\ SettledInv /\ SlotsInv /\ WalkInv

LEMMA ParsedKnown ==
  ASSUME InputInv, sh = ParseSequenceHeader(raw), Supported(sh)
  PROVE  /\ raw \in SequenceHeader /\ ~ raw.reduced_still_picture_header
         /\ sh \in SequenceHeader /\ Stores(raw, sh) /\ Canonical(sh)
         /\ ~ NeedsTemporalPoint(sh)
<1>1. raw \in SequenceHeader
  BY HeadersAssumption, Zenon DEF InputInv
<1>2. ~ raw.reduced_still_picture_header
  BY <1>1, ReducedKept, Zenon DEF Supported
<1>3. sh \in SequenceHeader /\ Stores(raw, sh)
  BY <1>1, <1>2, ParsedIs, Zenon
<1> QED
  BY <1>1, <1>2, <1>3, StoredCanonical, Zenon DEF Supported

LEMMA HInit == Init => HInv
<1> SUFFICES ASSUME Init PROVE HInv
  OBVIOUS
<1>1. phase = "parse" /\ InputInv /\ inDpb = outDpb /\ walk = NoWalk
  BY DEF Init, InputInv
<1>2. walk.kind # "frame"
  BY <1>1 DEF NoWalk
<1> QED
  BY <1>1, <1>2
     DEF HInv, ParsedInv, SettledInv, SlotsInv, WalkInv, ParsersAgree, FramesReadBack

(* One step over a frame keeps the slots equal and reads back what has     *)
(* been written.                                                           *)
LEMMA WalkReads ==
  ASSUME HInv, phase \in {"key", "golden"},
         NEW c \in KeyInputs(raw) \cup GoldenInputs(raw),
         WithRefs(c) => SlotsSized(Entering(c, inDpb)), Walk(c)
  PROVE  ParsersAgree' /\ FramesReadBack' /\ inDpb' = outDpb'
<1>1. /\ InputInv /\ sh = ParseSequenceHeader(raw) /\ Supported(sh)
      /\ Settles(sh, emitted, decoderModel) /\ inDpb = outDpb
  BY DEF HInv, ParsedInv, SettledInv, SlotsInv
<1>2. /\ raw \in SequenceHeader /\ sh \in SequenceHeader /\ Stores(raw, sh) /\ Canonical(sh)
      /\ ~ NeedsTemporalPoint(sh)
  BY <1>1, ParsedKnown
<1>3. c \in FrameElements /\ (c.removal_time_present => HasModel(raw))
  BY <1>1, HeadersAssumption, Zenon DEF InputInv
<1>4. c.removal_time_present => sh.decoder_model_info_present
  BY <1>2, <1>3, Zenon DEF Stores, TimingValues
<1>5. Same(sh, emitted, decoderModel, c, inDpb)
  BY <1>1, <1>2, <1>3, <1>4, ReadBack, Zenon
<1>6. /\ IsPrefix(InfoFields(sh, c), ScanFields(sh, c, inDpb))
      /\ ~ Intra(c) => IsPrefix(RefSlotFields(sh, c), ScanFields(sh, c, inDpb))
  BY <1>2, <1>3, InfoPrefix, RefSlotPrefix, Zenon
<1>7. /\ walk'.kind = "frame" /\ walk'.c = c
      /\ walk'.coded = ScanFields(sh, c, inDpb) /\ walk'.written = Written(c)
      /\ walk'.reread = ScanFields(emitted, c, inDpb)
      /\ inDpb' = AfterFrame(sh, c, inDpb) /\ outDpb' = AfterFrame(emitted, c, inDpb)
      /\ sh' = sh /\ emitted' = emitted /\ decoderModel' = decoderModel
  BY <1>1 DEF Walk
<1>8. ParsersAgree'
  BY <1>6, <1>7, Zenon DEF ParsersAgree
<1>9. inDpb' = outDpb'
  BY <1>5, <1>7, Zenon DEF Same
<1>10. Written(c) = ScanFields(emitted, c, inDpb)
  BY <1>5, Zenon DEF Same, Written, Splices
<1>11. ASSUME Splices', NEW tiles \in 0..2
       PROVE  SplicedBytes(Bits(walk'.coded), ByteAligned(Bits(walk'.coded)) + tiles)
                = ByteAligned(Bits(walk'.written)) + tiles
  <2>1. decoderModel /\ ~ sh.decoder_model_info_present
    BY <1>7, <1>11, Zenon DEF Splices
  <2>2. Written(c) = Spliced(sh, c, inDpb)
    BY <2>1, Zenon DEF Written, Splices
  <2>3. Bits(walk'.coded) \in Nat /\ Bits(walk'.written) = Bits(walk'.coded) + 1
    BY <1>5, <1>7, <2>1, <2>2, Zenon DEF Same
  <2> QED
    BY <2>3 DEF SplicedBytes, ByteAligned
<1>12. FramesReadBack'
  <2>1. Splices' => \A tiles \in 0..2 :
          SplicedBytes(Bits(walk'.coded), ByteAligned(Bits(walk'.coded)) + tiles)
            = ByteAligned(Bits(walk'.written)) + tiles
    BY <1>11, Zenon
  <2> QED
    BY <1>7, <1>9, <1>10, <2>1, Zenon DEF FramesReadBack
<1> QED
  BY <1>8, <1>9, <1>12, Zenon

LEMMA HNext == HInv /\ [Next]_vars => HInv'
<1> SUFFICES ASSUME HInv, [Next]_vars PROVE HInv'
  OBVIOUS
<1>1. CASE ParseHeader
  <2>1. /\ phase = "parse" /\ InputInv /\ walk = NoWalk /\ inDpb = outDpb
        /\ phase' \in {"settle", "error"}
        /\ phase' = "settle" => sh' = ParseSequenceHeader(raw) /\ Supported(sh')
        /\ raw' = raw /\ decoderModel' = decoderModel /\ walk' = walk
        /\ inDpb' = inDpb /\ outDpb' = outDpb
    BY <1>1, Zenon DEF ParseHeader, HInv, SlotsInv, WalkInv
  <2>2. walk'.kind # "frame"
    BY <2>1 DEF NoWalk
  <2>3. InputInv' /\ ParsedInv' /\ SettledInv' /\ SlotsInv'
    BY <2>1 DEF InputInv, ParsedInv, SettledInv, SlotsInv
  <2> QED
    BY <2>1, <2>2, <2>3 DEF HInv, WalkInv, ParsersAgree, FramesReadBack
<1>2. CASE SettleHeader
  <2>1. /\ phase = "settle" /\ InputInv /\ walk = NoWalk /\ inDpb = outDpb
        /\ sh = ParseSequenceHeader(raw) /\ Supported(sh)
        /\ raw' = raw /\ decoderModel' = decoderModel /\ walk' = walk /\ sh' = sh
        /\ inDpb' = inDpb /\ outDpb' = outDpb
        /\ \/ phase' = "error"
           \/ /\ phase' = "key" /\ emitted' = Rewritten(sh)
              /\ ~ (decoderModel /\ VariableInterval(sh))
    BY <1>2 DEF SettleHeader, HInv, ParsedInv, SlotsInv, WalkInv
  <2>2. walk'.kind # "frame"
    BY <2>1 DEF NoWalk
  <2>3. Canonical(sh)
    BY <2>1, ParsedKnown
  <2>4. phase' = "key" => Settles(sh, Rewritten(sh), decoderModel)
    BY <2>1, <2>3, RewriteWritten DEF InputInv
  <2>5. InputInv' /\ ParsedInv' /\ SlotsInv'
    BY <2>1 DEF InputInv, ParsedInv, SlotsInv
  <2>6. SettledInv'
    BY <2>1, <2>4 DEF SettledInv
  <2> QED
    BY <2>1, <2>2, <2>5, <2>6 DEF HInv, WalkInv, ParsersAgree, FramesReadBack
<1>3. CASE WalkKey
  <2>1. PICK c \in KeyInputs(raw) : ResetsDecoder(c) /\ phase' = "golden" /\ Walk(c)
    BY <1>3, Zenon DEF WalkKey
  <2>2. phase = "key"
    BY <1>3, Zenon DEF WalkKey
  <2>3. ~ WithRefs(c)
    BY <2>1, Zenon DEF WithRefs, ErrorResilient, Forced
  <2>4. ParsersAgree' /\ FramesReadBack' /\ inDpb' = outDpb'
    BY <2>1, <2>2, <2>3, WalkReads
  <2>5. c \in FrameElements
    BY HeadersAssumption, Zenon DEF HInv, InputInv
  <2>6. sh \in SequenceHeader
    BY <2>2, ParsedKnown DEF HInv, ParsedInv
  <2>7. SlotsSized(AfterFrame(sh, c, inDpb))
    BY <2>1, <2>5, <2>6, ResetSized, Zenon
  <2>8. /\ raw' = raw /\ sh' = sh /\ emitted' = emitted /\ decoderModel' = decoderModel
        /\ inDpb' = AfterFrame(sh, c, inDpb)
    BY <2>1 DEF Walk
  <2>9. InputInv' /\ ParsedInv' /\ SettledInv'
    BY <2>1, <2>2, <2>8 DEF HInv, InputInv, ParsedInv, SettledInv
  <2>10. SlotsInv'
    BY <2>4, <2>7, <2>8, Zenon DEF SlotsInv
  <2>11. WalkInv'
    BY <2>1, <2>4 DEF WalkInv
  <2> QED
    BY <2>9, <2>10, <2>11, Zenon DEF HInv
<1>4. CASE WalkGolden
  <2>1. PICK c \in GoldenInputs(raw) :
             c.frame_type # KEY_FRAME /\ phase' = "done" /\ Walk(c)
    BY <1>4, Zenon DEF WalkGolden
  <2>2. phase = "golden"
    BY <1>4, Zenon DEF WalkGolden
  <2>3. SlotsSized(Entering(c, inDpb))
    BY <2>1, <2>2, Zenon DEF HInv, SlotsInv, Entering, ResetsDecoder
  <2>4. ParsersAgree' /\ FramesReadBack' /\ inDpb' = outDpb'
    BY <2>1, <2>2, <2>3, WalkReads
  <2>5. raw' = raw /\ sh' = sh /\ emitted' = emitted /\ decoderModel' = decoderModel
    BY <2>1 DEF Walk
  <2>6. InputInv' /\ ParsedInv' /\ SettledInv'
    BY <2>1, <2>2, <2>5 DEF HInv, InputInv, ParsedInv, SettledInv
  <2> QED
    BY <2>1, <2>4, <2>6 DEF HInv, SlotsInv, WalkInv
<1>5. CASE UNCHANGED vars
  BY <1>5 DEF vars, HInv, InputInv, ParsedInv, SettledInv, SlotsInv, WalkInv, ParsersAgree,
              FramesReadBack, Splices
<1> QED
  BY <1>1, <1>2, <1>3, <1>4, <1>5 DEF Next

(* Every reachable state is as above.  The parser, the rewrites and the    *)
(* walk of assemble_multi, for any syntax elements of the types of the     *)
(* code and any rate.                                                      *)
THEOREM HeaderStates == Spec => []HInv
<1> QED
  BY HInit, HNext, PTL DEF Spec

(* A header that the parser has stored is emitted as it was coded,         *)
(* whatever its elements: emit_sequence_header inverts                     *)
(* parse_sequence_header.                                                  *)
THEOREM EmitsAsCoded == Spec => []HeaderReEmitted
<1>1. HInv => HeaderReEmitted
  <2> SUFFICES ASSUME HInv, phase \notin {"parse", "error"}
               PROVE  EmitSequenceHeader(sh) = ParseFields(raw)
    BY DEF HeaderReEmitted
  <2>1. /\ raw \in SequenceHeader /\ ~ raw.reduced_still_picture_header
        /\ sh \in SequenceHeader /\ Stores(raw, sh)
    BY ParsedKnown DEF HInv, ParsedInv
  <2> QED
    BY <2>1, ReEmits
<1> QED
  BY HeaderStates, <1>1, PTL

(* The header that with_timing_info_rate or with_decoder_model_rate leaves *)
(* is parsed as what it declares, whatever it was made from.               *)
THEOREM RewritesReadBack == Spec => []RewriteReadsBack
<1>1. HInv => RewriteReadsBack
  <2> SUFFICES ASSUME HInv, phase \in {"key", "golden", "done"}
               PROVE  /\ ParseFields(emitted) = EmitSequenceHeader(emitted)
                      /\ ParseSequenceHeader(emitted) = emitted
    BY DEF RewriteReadsBack
  <2>1. Canonical(emitted)
    BY DEF HInv, SettledInv, Settles
  <2>2. /\ emitted \in SequenceHeader /\ ~ emitted.reduced_still_picture_header
        /\ Stores(emitted, emitted)
    BY <2>1, RetimedSelf, Zenon DEF Canonical, Stores, Retimed
  <2>3. ParseFields(emitted) = EmitSequenceHeader(emitted)
    BY <2>2, ReEmits
  <2> QED
    BY <2>1, <2>3, CanonicalKept
<1> QED
  BY HeaderStates, <1>1, PTL

(* parse_frame_header_info and inter_ref_slots read a prefix of what       *)
(* scan_uncompressed_header walks, in every frame header of the output.    *)
THEOREM ReadersAgree == Spec => []ParsersAgree
<1>1. HInv => ParsersAgree
  BY DEF HInv, WalkInv
<1> QED
  BY HeaderStates, <1>1, PTL

(* What tu_insert_removal_flag makes of a frame header is what a reader of *)
(* the output's sequence header expects, field by field, and the slots of  *)
(* the two stay the same.                                                  *)
THEOREM OutputReadsBack == Spec => []FramesReadBack
<1>1. HInv => FramesReadBack
  BY DEF HInv, WalkInv
<1> QED
  BY HeaderStates, <1>1, PTL

===============================================================================
