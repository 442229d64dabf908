------------------------------- MODULE MCInspect -------------------------------
(* Instances of Inspect: two headers, two slots, one unit of every kind.   *)
EXTENDS Inspect

CONSTANTS h1, h2, s1, s2

Base == [kind |-> "coded", ok |-> TRUE, hdr |-> h1, slot |-> s1, ft |-> "INTER",
         shown |-> TRUE, showable |-> FALSE, refresh |-> {}]

SH(h)      == [Base EXCEPT !.kind = "header", !.hdr = h]
Key        == [Base EXCEPT !.ft = "KEY"]
Inter(R)   == [Base EXCEPT !.refresh = R]
Show(s)    == [Base EXCEPT !.kind = "show", !.slot = s]
Hidden(o, showable) == [o EXCEPT !.shown = FALSE, !.showable = showable]
HiddenKey  == [Hidden(Key, TRUE) EXCEPT !.refresh = {s2}]

Single == {<<SH(h1), Key>>, <<SH(h2), Key>>, <<Key>>, <<Inter({s1})>>, <<Inter({s2})>>,
           <<Inter({})>>, <<Show(s1)>>, <<Show(s2)>>, <<HiddenKey>>,
           <<Hidden(Inter({s1}), TRUE)>>, <<Hidden(Inter({s2}), FALSE)>>,
           <<[Inter({s1}) EXCEPT !.ft = "INTRA_ONLY"]>>,
           <<[Base EXCEPT !.ft = "SWITCH"]>>, <<SH(h1)>>, <<[Key EXCEPT !.ok = FALSE]>>}

Several == {<<Show(s1), Inter({s1})>>, <<Hidden(Inter({s2}), TRUE), Show(s2)>>,
            <<SH(h1), Key, Inter({s1})>>}

AllUnits == Single \cup Several
===============================================================================
