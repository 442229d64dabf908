------------------------------ MODULE MCPlayback ------------------------------
(* Instances of InspectedPlayback: up to three images, one to eight frames *)
(* each, goldens that refresh different slots.                             *)
EXTENDS InspectedPlayback

CONSTANTS hPlain, hTimed, hModel, hVariable

Coded(ft, shown, showable, R) ==
  [kind |-> "coded", ft |-> ft, shown |-> shown, showable |-> showable, refresh |-> R]

KeyFrame  == Coded("KEY", TRUE, FALSE, {})
Golden(R) == Coded("INTER", TRUE, FALSE, R)

BadGoldens == {Golden({}), Coded("INTER", FALSE, TRUE, {1}), KeyFrame,
               [KeyFrame EXCEPT !.kind = "show"]}

(* Headers in front of the key frame, none in the golden TU. *)
Seg(hs, k, g, n) == [hdrs |-> hs, lead |-> Len(hs), key |-> k, goldenHdrs |-> <<>>,
                     goldenLead |-> 0, golden |-> g, frames |-> n]

Good(h, R, n) == Seg(<<h>>, KeyFrame, Golden(R), n)

(* One or two images of one to six frames under any header. *)
Pairs == {<<Good(h, {1}, m), Good(h, {0, 2}, n)>> :
            h \in {hPlain, hTimed, hModel, hVariable}, m \in 1..6, n \in 1..3}

Singles == {<<Good(h, {1, 2}, n)>> : h \in {hPlain, hModel}, n \in 0..8}

Triples == {<<Good(hTimed, {2}, 3), Good(hTimed, {1}, m), Good(hTimed, {0, 1}, n)>> :
              m \in 1..4, n \in 1..2}

(* Requests the checks must refuse. *)
Refused == {<<>>, <<Seg(<<>>, KeyFrame, Golden({1}), 4)>>,
            <<Good(hTimed, {1}, 3), Good(hPlain, {1}, 3)>>,
            <<Good(hTimed, {1}, 3), Seg(<<>>, KeyFrame, Golden({1}), 3)>>,
            <<Good(hPlain, {1}, 9)>>, <<Good(hPlain, {1}, 15), Good(hPlain, {1}, 3)>>,
            <<Good(hTimed, {1}, 3), Good(hTimed, {1}, 0)>>,
            <<Seg(<<hTimed>>, Golden({1}), Golden({1}), 4)>>}
           \cup {<<Good(hTimed, {1}, 3), Seg(<<hTimed>>, KeyFrame, g, 4)>> : g \in BadGoldens}

(* A SWITCH_FRAME refreshes every slot. *)
Switched == {<<Seg(<<hTimed>>, KeyFrame, Coded("SWITCH", TRUE, FALSE, {}), n)>> : n \in 2..4}

(* A golden coded intra-only, which split_input hands over from streams    *)
(* without order hints.                                                    *)
IntraGolden == {<<Seg(<<hPlain>>, KeyFrame, Coded("INTRA_ONLY", TRUE, FALSE, {1}), n)>> :
                  n \in 2..5}

(* Key TUs that carry more than one sequence header, the same or not, in   *)
(* front of the key frame or behind it.                                    *)
Headed(hs, m, R, n) == [Seg(hs, KeyFrame, Golden(R), n) EXCEPT !.lead = m]

TwoHeaders ==
  {<<Good(hTimed, {1}, 3), Headed(<<h, hTimed>>, m, {2}, 2)>> :
     h \in {hPlain, hTimed, hModel}, m \in 1..2}
  \cup {<<Headed(<<h, hTimed>>, m, {1}, 3)>> : h \in {hPlain, hTimed, hModel}, m \in 1..2}
  \cup {<<Headed(<<hTimed, hPlain, hTimed>>, m, {1}, 3)>> : m \in {1, 3}}

(* Goldens whose TU repeats the header, in front of the frame or behind.   *)
Repeated(sg, m) == [sg EXCEPT !.goldenHdrs = <<sg.hdrs[Len(sg.hdrs)]>>, !.goldenLead = m]

GoldenHeaders ==
  {<<Repeated(Good(h, {1}, 4), m), Repeated(Good(h, {2}, 3), 1)>> :
     h \in {hPlain, hTimed, hModel}, m \in 0..1}
  \cup {<<Repeated(Headed(<<h, hPlain>>, 2, {1}, 4), 1)>> : h \in {hPlain, hModel}}

AllPlaylists == Pairs \cup Singles \cup Triples \cup Switched \cup IntraGolden
                \cup TwoHeaders \cup GoldenHeaders \cup Refused

Attributes ==
  [h \in {hPlain, hTimed, hModel, hVariable} |->
     [timing |-> h # hPlain, equal |-> h \in {hTimed, hModel},
      model |-> h = hModel, ok |-> TRUE]]
===============================================================================
