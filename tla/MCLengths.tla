------------------------------ MODULE MCLengths ------------------------------
(***************************************************************************)
(* Words of five bits and a limit of twelve frames: a playlist can stay    *)
(* below the limit, pass it, pass the word and come back under it.         *)
(***************************************************************************)
EXTENDS Lengths

MCDurs == {Frames(1), Frames(3), Frames(16), Frames(31), Secs(100), Secs(400),
           Secs(2000), Open}
MCPlaylists == UNION {[1..n -> MCDurs] : n \in 1..3}
MCRates == {[num |-> 10, den |-> 1], [num |-> 30000, den |-> 1001]}
MCFrameArgs == {Unset, 1, 8, 12, 13}
MCTotals == {Unset, 50, 200, 400}
MCGopArgs == {0, 3, 20}
MCSeekArgs == {Unset, 400}
\* From what no gop meets to what every one does.
MCBudgets == {Unset, 20, 40, 100}
MCPlanGops == {2, 5, 10}
=============================================================================
