------------------------------- MODULE Lengths -------------------------------
(***************************************************************************)
(* The lengths and the gop of an output, from the arguments to the file:   *)
(* segment_frames, which turns a playlist's durations into frame counts,   *)
(* the checks of build_output and the assembler, the search of expand for  *)
(* a gop that meets --max-size, and the projections of plan.               *)
(*                                                                         *)
(* Seconds are counted in milliseconds and rounded to frames exactly: the  *)
(* f64 of the code is exact enough for any count the assembler accepts.    *)
(* Frame counts are words up to MaxWord, for u64, and sums of the code     *)
(* wrap where it does not saturate.                                        *)
(***************************************************************************)
EXTENDS Integers, Sequences, SequencesExt

CONSTANTS
    MaxWord,     \* u64::MAX
    MaxTotal,    \* assemble.rs MAX_TOTAL_FRAMES
    Playlists,   \* sequences of entries' durations
    FrameArgs,   \* --frames, or Unset
    Totals,      \* --duration, or a probed audio's, in milliseconds, or Unset
    Rates,       \* output rates, [num, den]
    GopArgs,     \* --gop
    SeekArgs,    \* --target-seek in milliseconds, or Unset
    Budgets,     \* --max-size, or Unset
    KeyRead, GoldenRead,            \* bytes of the input's units, which plan measures
    KeySize, GoldenSize, ShowSize,  \* bytes of the units that are emitted: a rewritten
                                    \* header makes the first two others than the input's
    PlanGops,    \* the gops plan lists besides the total
    Unset

Frames(n) == [kind |-> "frames", n |-> n]
Secs(ms) == [kind |-> "secs", n |-> ms]
Open == [kind |-> "open", n |-> 0]
Durations == [kind : {"frames", "secs"}, n : Nat] \cup {Open}

ASSUME LengthsAssumption ==
    /\ MaxWord \in Nat /\ MaxTotal \in 2..(MaxWord - 1)
    /\ \A n \in {KeyRead, GoldenRead, KeySize, GoldenSize, ShowSize} : n \in Nat \ {0}
    \* A re-show is a frame header of a few bits.
    /\ \A n \in {KeyRead, GoldenRead, KeySize, GoldenSize} : ShowSize <= n
    /\ Playlists \subseteq Seq(Durations) /\ << >> \notin Playlists
    /\ Rates \subseteq [num : Nat \ {0}, den : Nat \ {0}]
    /\ GopArgs \subseteq Nat /\ PlanGops \subseteq Nat
    /\ \A n \in (FrameArgs \cup Totals \cup SeekArgs \cup Budgets) \ {Unset} : n \in Nat

VARIABLES
    args,    \* the command and its arguments
    phase,   \* settle, build, written, refused; table, projected, panicked
    segs,    \* frames of every segment
    gop,     \* the gop of the current build
    fits     \* whether the last build met the budget

vars == <<args, phase, segs, gop, fits>>

CeilDiv(a, b) == (a + b - 1) \div b
AtLeast(a, b) == IF a < b THEN b ELSE a
AtMost(a, b) == IF b < a THEN b ELSE a

\* (s * fps).round() as u64, which saturates.
RoundFrames(ms, rate) ==
    AtMost((2 * ms * rate.num + 1000 * rate.den) \div (2000 * rate.den), MaxWord)

\* The frames of an entry that has a duration.
Own(d, rate) == AtLeast(IF d.kind = "secs" THEN RoundFrames(d.n, rate) ELSE d.n, 1)

\* Sums as mathematics has them, and as words that wrap.
TrueSum(ns) == FoldLeft(LAMBDA t, n : t + n, 0, ns)
WordSum(ns) == FoldLeft(LAMBDA t, n : (t + n) % (MaxWord + 1), 0, ns)

\* used += n, over the entries before the k-th.
Used(es, k, rate) == WordSum([j \in 1..(k - 1) |-> Own(es[j], rate)])

\* --frames N goes through N / fps seconds and back.
TotalFrames(a) == IF a.frames # Unset THEN a.frames
                  ELSE IF a.total # Unset THEN RoundFrames(a.total, a.rate) ELSE Unset

SegmentsRefused(a) ==
    LET n == Len(a.entries)
        total == TotalFrames(a)
    IN \/ \E k \in 1..(n - 1) : a.entries[k] = Open
       \/ /\ a.entries[n] = Open
          /\ \/ total = Unset
             \/ total <= Used(a.entries, n, a.rate)

segment_frames(a) ==
    [k \in DOMAIN a.entries |->
        IF a.entries[k] = Open THEN TotalFrames(a) - Used(a.entries, k, a.rate)
        ELSE Own(a.entries[k], a.rate)]

resolve_gop(a) == IF a.seek = Unset THEN a.gop ELSE AtLeast(RoundFrames(a.seek, a.rate), 2)

\* The gop of the first build; the search starts from one the assembler takes.
FirstGop(a) == IF a.budget = Unset THEN resolve_gop(a) ELSE AtLeast(resolve_gop(a), 2)

\* Slip: the sum of the segments wraps.
Slip_SumWraps(ss) == WordSum(ss)

\* The sum of the segments, which saturates.
TotalOf(ss) == FoldLeft(LAMBDA t, f : AtMost(t + f, MaxWord), 0, ss)

\* What build_output and assemble_multi refuse for the lengths alone.
BuildRefused(ss, g) ==
    \/ TotalOf(ss) < 2 \/ TotalOf(ss) > MaxTotal
    \/ g < 2
    \/ \E k \in DOMAIN ss : ss[k] < 1

(***************************************************************************)
(* What the assembler emits for one segment of f frames: every full chunk  *)
(* and a rest of two and more is opened by key and golden, a rest of one   *)
(* re-shows the golden where there is one.                                 *)
(***************************************************************************)
KeysOf(f, g) == IF f > g /\ f % g = 1 THEN f \div g ELSE CeilDiv(f, g)
GoldensOf(f, g) == IF f % g = 1 THEN f \div g ELSE CeilDiv(f, g)

SegmentSize(f, g) ==
    KeysOf(f, g) * KeySize + GoldensOf(f, g) * GoldenSize
        + (f - KeysOf(f, g) - GoldensOf(f, g)) * ShowSize
SizeAt(ss, g) == TrueSum([k \in DOMAIN ss |-> SegmentSize(ss[k], g)])

(***************************************************************************)
(* The commands.                                                           *)
(***************************************************************************)
\* One input is an entry of the length given on the command line, which
\* --frames leaves open.
Entries(playlist, frames, total) ==
    IF playlist # Unset THEN playlist
    ELSE <<IF frames # Unset \/ total = Unset THEN Open ELSE Secs(total)>>

Init ==
    /\ \E r \in Rates, f \in FrameArgs, t \in Totals :
         \/ /\ f = Unset \/ t = Unset
            /\ \E pl \in Playlists \cup {Unset}, g \in GopArgs, s \in SeekArgs, b \in Budgets :
                 args = [cmd |-> "expand", entries |-> Entries(pl, f, t), frames |-> f,
                         total |-> t, rate |-> r, gop |-> g, seek |-> s, budget |-> b]
            /\ phase = "settle"
         \/ /\ f = Unset /\ t # Unset
            /\ args = [cmd |-> "plan", total |-> t, rate |-> r]
            /\ phase = "table"
    /\ segs = << >> /\ gop = 0 /\ fits = FALSE

\* Lengths are settled before anything is built.
Settle ==
    /\ phase = "settle"
    /\ IF SegmentsRefused(args)
       THEN phase' = "refused" /\ UNCHANGED <<segs, gop>>
       ELSE /\ phase' = "build"
            /\ segs' = segment_frames(args)
            /\ gop' = FirstGop(args)
    /\ UNCHANGED <<args, fits>>

\* Slip: the search stops one short of the total.
Slip_GrownShort(g, total) == AtMost(AtMost(2 * g, MaxWord), total - 1)

\* g.saturating_mul(2).min(total)
Grown(g, total) == AtMost(AtMost(2 * g, MaxWord), total)

\* Slip: half-way to the total counts as there.
Slip_Exhausted(g, total) == 2 * g >= total

\* No larger gop changes the output.
Exhausted(g, total) == g >= total

BuildRefuses ==
    /\ phase = "build" /\ BuildRefused(segs, gop)
    /\ phase' = "refused"
    /\ UNCHANGED <<args, segs, gop, fits>>

\* A build is in memory: it is written when there is no budget, when it fits
\* or when nothing is left to raise; else the gop grows.
Build ==
    /\ phase = "build" /\ ~BuildRefused(segs, gop)
    /\ fits' = (args.budget = Unset \/ SizeAt(segs, gop) <= args.budget)
    /\ IF fits' \/ Exhausted(gop, TotalOf(segs))
       THEN phase' = "written" /\ UNCHANGED gop
       ELSE gop' = Grown(gop, TotalOf(segs)) /\ UNCHANGED phase
    /\ UNCHANGED <<args, segs>>

(***************************************************************************)
(* plan: a row for every gop listed, clamped between 2 and the total.      *)
(***************************************************************************)
PlanTotal == RoundFrames(args.total, args.rate)
Rows == {AtMost(AtLeast(g, 2), PlanTotal) : g \in PlanGops \cup {PlanTotal}}

\* Slip: a segment's rest is not counted as a gop.
Slip_Projected(g, total) ==
    (total \div g) * (KeyRead + GoldenRead)
        + (total - 2 * (total \div g)) * ShowSize

\* The bytes plan says a gop of g costs, from the units as they are read.
Projected(g, total) ==
    LET n == CeilDiv(total, g)
    IN n * (KeyRead + GoldenRead) + (IF total > 2 * n THEN total - 2 * n ELSE 0) * ShowSize

\* clamp panics when the total is below its lower bound.
Plan ==
    /\ phase = "table"
    /\ phase' = IF PlanTotal < 2 THEN "panicked" ELSE "projected"
    /\ UNCHANGED <<args, segs, gop, fits>>

Next == Settle \/ BuildRefuses \/ Build \/ Plan

\* A command runs to its end.
Spec == Init /\ [][Next]_vars /\ WF_vars(Next)

-----------------------------------------------------------------------------

Written == phase = "written"

(***************************************************************************)
(* A file that is written has the lengths that were asked for: every entry *)
(* its own, and one that is left open exactly what is missing to the       *)
(* total, although the code's sum of the earlier ones can wrap (main.rs    *)
(* 384: what wraps is too long for the assembler's limit, whatever the     *)
(* remainder looks like).                                                  *)
(***************************************************************************)
LengthsAreAsked ==
    Written =>
        /\ TrueSum(segs) \in 2..MaxTotal
        /\ \A k \in DOMAIN segs :
             args.entries[k] # Open => segs[k] = Own(args.entries[k], args.rate)
        /\ Last(args.entries) = Open => TrueSum(segs) = TotalFrames(args)

(***************************************************************************)
(* A gop that was raised for a budget is less than twice what would do:    *)
(* every gop from the asked one on that fits is larger than half of the    *)
(* one taken; and "could not fit" is said only when no gop at all would    *)
(* fit (main.rs 789-824; 110 "Raises gop until it fits", 1075 "smallest    *)
(* is").                                                                   *)
(***************************************************************************)
GopMeetsBudget ==
    Written =>
        /\ fits /\ gop # FirstGop(args) =>
             \A g \in FirstGop(args)..gop : SizeAt(segs, g) <= args.budget => gop < 2 * g
        /\ ~fits => \A g \in 2..MaxTotal : SizeAt(segs, g) > args.budget

\* What rewriting the headers adds to an output, or takes from it.
Growth(f, g) == KeysOf(f, g) * (KeySize - KeyRead) + GoldensOf(f, g) * (GoldenSize - GoldenRead)

(***************************************************************************)
(* What plan projects for one image is what the assembler emits at that    *)
(* gop, but for what the rewritten headers of every gop add to the units   *)
(* it measured, and for at most one key and golden more, where the last    *)
(* single frame re-shows the golden (main.rs 1156-1197; assemble.rs        *)
(* 247-291).                                                               *)
(***************************************************************************)
ProjectionUpToGrowth ==
    phase = "projected" => \A g \in Rows :
        LET kept == SegmentSize(PlanTotal, g) - Growth(PlanTotal, g)
        IN Projected(g, PlanTotal) \in kept..(kept + KeyRead + GoldenRead)

(***************************************************************************)
(* The search ends, and so does every command (main.rs 806-823).           *)
(***************************************************************************)
Ends == <>(phase \in {"written", "refused", "projected", "panicked"})

=============================================================================
