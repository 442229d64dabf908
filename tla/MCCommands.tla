----------------------------- MODULE MCCommands -----------------------------
(***************************************************************************)
(* Two processes, which may be two makes, two infos or one of each, at the *)
(* same time under different pids or one behind the other under the same.  *)
(***************************************************************************)
EXTENDS Commands

MCPids == {"41", "42"}

MCImages == {"a", "b"}

\* A ladder of two rungs (56, 63) with a budget that size 1 keeps and size 2
\* does not, to mp4; two images to ivf without a budget; and --keep-work.
MCMakeJobs == {
    [images |-> <<"a">>, crf |-> 56, budget |-> 1, mp4 |-> TRUE, kept |-> FALSE],
    [images |-> <<"b", "a">>, crf |-> 30, budget |-> NoBudget, mp4 |-> FALSE, kept |-> FALSE],
    [images |-> <<"b">>, crf |-> 63, budget |-> 1, mp4 |-> TRUE, kept |-> TRUE] }

MCInfoInputs == {[name |-> "x", stdin |-> TRUE], [name |-> "y", stdin |-> FALSE]}

MCSizes == {1, 2}
=============================================================================
