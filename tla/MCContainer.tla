------------------------------ MODULE MCContainer ------------------------------
(* Instances of Container: two headers, packets with and without a         *)
(* delimiter, a header, a frame, and odd ones.                             *)
EXTENDS Container

CONSTANTS h1, h2

Obu(kind, h) == [kind |-> kind, hdr |-> h, ok |-> TRUE, coded |-> FALSE, intra |-> FALSE]

TD    == Obu("delimiter", h1)
SH(h) == Obu("header", h)
Meta  == Obu("other", h1)
Key   == [Obu("frame", h1) EXCEPT !.coded = TRUE, !.intra = TRUE]
Inter == [Obu("frame", h1) EXCEPT !.coded = TRUE]
Show  == Obu("frame", h1)

Packet(obus) == [obus |-> obus, framed |-> TRUE]

Heads == {<<TD>>, <<TD, SH(h1)>>, <<TD, SH(h2)>>, <<TD, Meta>>}

(* What encoders write, and merges of it. *)
Usual == {Packet(o) : o \in Heads \cup
            {<<TD, SH(h1), Key>>, <<TD, SH(h2), Key>>, <<TD, Inter>>, <<TD, Show>>, <<TD, Key, SH(h2)>>}}

Bare == {Packet(o) : o \in {<<SH(h1)>>, <<Meta>>, <<Key>>, <<Inter>>, <<SH(h2), Key>>}}

Odd == {Packet(<<TD, Inter, TD, Inter>>), Packet(<<TD, Key, Inter>>), Packet(<<TD, Inter, SH(h2)>>),
        Packet(<<SH(h1), TD, Key>>),
        Packet(<<TD, [SH(h2) EXCEPT !.ok = FALSE], Inter>>),
        Packet(<<TD, [Key EXCEPT !.ok = FALSE]>>),
        [obus |-> <<Meta>>, framed |-> FALSE]}

AllPackets == Usual \cup Bare \cup Odd
===============================================================================
