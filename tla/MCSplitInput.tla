----------------------------- MODULE MCSplitInput -----------------------------
(* Instances of SplitInput: two headers, two slots, and an alphabet of     *)
(* temporal units with one or two members of every kind the scan tells     *)
(* apart.                                                                  *)
EXTENDS SplitInput

CONSTANTS h1, h2, s1, s2

Base == [kind |-> "coded", hdrs |-> <<>>, lead |-> 0, badHdr |-> FALSE,
         readable |-> TRUE, ft |-> "INTER", shown |-> TRUE, showable |-> FALSE,
         refresh |-> {}, hint |-> 0, slot |-> s1, extras |-> 0, more |-> {}]

Key(hs)       == [Base EXCEPT !.ft = "KEY", !.hdrs = hs, !.lead = Len(hs)]
Inter(R, oh)  == [Base EXCEPT !.refresh = R, !.hint = oh]
Frameless(hs) == [Base EXCEPT !.kind = "frameless", !.hdrs = hs, !.lead = Len(hs)]
Show(s)       == [Base EXCEPT !.kind = "show", !.slot = s]
Hidden(tu)    == [tu EXCEPT !.shown = FALSE]
Layered(tu)   == [tu EXCEPT !.extras = 1, !.more = {s2}]
IntraOnly(R, oh) == [Inter(R, oh) EXCEPT !.ft = "INTRA_ONLY"]
Under(hs, n, tu) == [tu EXCEPT !.hdrs = hs, !.lead = n]
Switch(oh)       == [Base EXCEPT !.ft = "SWITCH", !.hint = oh]

(* Units a conformant encoder sends one shown frame at a time. *)
Plain == {Key(<<h1>>), Key(<<h2>>), Key(<<>>), Inter({s1}, 1), Inter({s1}, 2),
          Inter({}, 1), Hidden(Inter({s2}, 1)), IntraOnly({s1}, 1),
          Switch(1), Show(s1), Frameless(<<>>)}

(* Units that carry headers where no anchor is or behind their frame,      *)
(* layers, or damage.                                                      *)
Odd == {Layered(Key(<<h1>>)), Layered(Key(<<>>)), Layered(Show(s1)),
        Hidden([Key(<<>>) EXCEPT !.refresh = {s1}]),
        Layered(Inter({s1}, 1)), Under(<<h2>>, 1, Inter({s1}, 1)),
        Under(<<h2, h1>>, 1, Inter({s1}, 1)), Under(<<h1>>, 0, Inter({s1}, 1)),
        Under(<<h1, h2>>, 1, Key(<<>>)), Under(<<h1>>, 0, Key(<<>>)),
        Frameless(<<h1>>), Frameless(<<h2, h1>>), Key(<<h2, h1>>),
        Under(<<h2>>, 1, [Base EXCEPT !.kind = "malformed", !.refresh = {s1, s2}]),
        [Frameless(<<h2>>) EXCEPT !.badHdr = TRUE],
        [Inter({s2}, 1) EXCEPT !.readable = FALSE]}

AllTUs == Plain \cup Odd

WithHints == [h \in {h1, h2} |-> 2]
(* One header declares order hints, the other none. *)
MixedHints == [h \in {h1, h2} |-> IF h = h1 THEN 2 ELSE 0]
===============================================================================
