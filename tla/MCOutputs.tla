------------------------------ MODULE MCOutputs ------------------------------
(***************************************************************************)
(* Tracks of up to three units against a u32 that ends at 2600: files below *)
(* and above it, durations of 32 bits and wider.                           *)
(***************************************************************************)
EXTENDS Outputs

MCSizes == {6, 800}
MCVideos ==
    {[samples |-> ss, sync |-> <<1>>, av1c |-> 14, den |-> r[1], num |-> r[2], fps |-> f] :
        ss \in UNION {[1..n -> MCSizes] : n \in 1..3},
        r \in {<<30000, 1001>>, <<2, 2>>, <<0, 1>>}, f \in {0, 25}}

Header(at, coded) == [at |-> at, coded |-> coded, crc |-> FALSE,
                      profile |-> 1, channels |-> 2, rate |-> 48000]
Frame(len, headers) == [len |-> len, headers |-> headers]
\* Frames as they should be, the longer with audio that looks like a header; one
\* that says it is longer, or shorter with and without such audio where it ends;
\* another stream's; and ones that are not supported.
MCFrames == {Frame(7, {Header(0, 7)}), Frame(300, {Header(0, 300), Header(13, 7)}),
             Frame(20, {Header(0, 27)}), Frame(20, {Header(0, 13)}),
             Frame(20, {Header(0, 13), Header(13, 14)}),
             Frame(9, {[Header(0, 9) EXCEPT !.rate = 8000]}),
             Frame(9, {[Header(0, 9) EXCEPT !.profile = 0]}),
             Frame(9, {[Header(0, 9) EXCEPT !.channels = 0]}),
             Frame(9, {[Header(0, 9) EXCEPT !.crc = TRUE]})}
MCAdtsFiles == {NoAudio} \cup UNION {[1..n -> MCFrames] : n \in 0..3}

MCMetas == {<< >>, <<5, 200>>}
MCHeaderLens == {16, 32, 40}
MCCuts == {0, 3, 13, 18}
=============================================================================
