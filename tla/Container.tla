------------------------------- MODULE Container -------------------------------
(***************************************************************************)
(* container::read (container.rs): the three serializations an encoder may *)
(* hand over, brought into one shape, a list of temporal units.  The input *)
(* is modelled after byte framing: what a muxer wrote, packet by packet.   *)
(* An IVF file holds the packets, an Annex-B file holds them as temporal   *)
(* units, and a section-5 stream is their OBUs without any boundary but    *)
(* the delimiters among them.                                              *)
(***************************************************************************)
EXTENDS Integers, SequencesExt

CONSTANTS
  Headers,   \* sequence headers, told apart by their bytes
  Packets,   \* packets a muxer may write
  MaxPackets \* bound on the packets of one input

(* hdr matters in a sequence header; in a frame, `ok` says that its header *)
(* parses and scans, `coded` that it is no re-show, `intra` that it        *)
(* carries its own size.                                                   *)
ObuType == [kind : {"delimiter", "header", "frame", "other"}, hdr : Headers,
            ok : BOOLEAN, coded : BOOLEAN, intra : BOOLEAN]

(* A packet is framed when parse_obus takes it. *)
PacketType == [obus : Seq(ObuType), framed : BOOLEAN]

ASSUME ContainerAssumption == Packets \subseteq PacketType /\ MaxPackets \in Nat

VARIABLE packets    \* the input

Is(kind, o) == o.kind = kind

Undelimited(kept, o) == IF Is("delimiter", o) THEN kept ELSE Append(kept, o)

NoDelimiter(obus) == FoldLeft(Undelimited, <<>>, obus)

HasFrame(obus) == \E k \in DOMAIN obus : Is("frame", obus[k])

-------------------------------------------------------------------------------
(* canonicalize_tu, and finish's rewriting: only a leading delimiter stays. *)
Canonical(obus) ==
  IF obus = <<>> THEN <<>> ELSE <<Head(obus)>> \o NoDelimiter(Tail(obus))

Slip_AllDelimiters(front, back) == front \o back

(* concat_tu: the leading delimiter of front, else that of back, leads. *)
Concat(front, back) ==
  LET both  == front \o back
      leads == {k \in {1, Len(front) + 1} \cap DOMAIN both : Is("delimiter", both[k])}
  IN  (IF leads = {} THEN <<>> ELSE <<both[CHOOSE k \in leads : \A m \in leads : k <= m]>>)
      \o NoDelimiter(both)

-------------------------------------------------------------------------------
(* merge_frameless_packets.  An item of the output has its input's place   *)
(* as its timestamp.                                                       *)

Item(ts, obus, framed) == [ts |-> ts, obus |-> obus, framed |-> framed]

Slip_EarlierStamp(acc, p) ==
  IF HasFrame(p.obus)
  THEN [acc EXCEPT !.out = Append(@, Item(IF acc.pending = <<>> THEN p.ts ELSE acc.ts,
                                          Concat(acc.pending, p.obus), TRUE)),
                   !.pending = <<>>]
  ELSE [acc EXCEPT !.pending = @ \o p.obus,
                   !.ts = IF acc.pending = <<>> THEN p.ts ELSE @]

MergeFramed(acc, p) ==
  IF HasFrame(p.obus)
  THEN [acc EXCEPT !.out = Append(@, Item(p.ts, Concat(acc.pending, p.obus), TRUE)),
                   !.pending = <<>>]
  ELSE [acc EXCEPT !.pending = @ \o p.obus,
                   !.ts = IF acc.pending = <<>> THEN p.ts ELSE @]

(* A packet that is no OBU sequence passes through behind what was held.   *)
MergePacket(acc, p) ==
  IF p.framed THEN MergeFramed(acc, p)
  ELSE [acc EXCEPT !.out = Append(@, Item(p.ts, acc.pending \o p.obus, FALSE)),
                   !.pending = <<>>]

Slip_TailDropped(acc) == acc.out

(* What is held at the end joins the last packet, or stands alone. *)
FlushPending(acc) ==
  LET n == Len(acc.out)
      last == acc.out[n]
  IN  CASE acc.pending = <<>> -> acc.out
        [] acc.pending # <<>> /\ n = 0 -> <<Item(acc.ts, acc.pending, TRUE)>>
        [] OTHER -> [acc.out EXCEPT ![n].obus = IF last.framed
                        THEN Concat(@, acc.pending) ELSE @ \o acc.pending]

MergeFrameless(ps) ==
  FlushPending(FoldLeft(MergePacket, [out |-> <<>>, pending |-> <<>>, ts |-> 0], ps))

IvfItems(ps) ==
  [k \in DOMAIN ps |->
     Item(k, IF ps[k].framed THEN Canonical(ps[k].obus) ELSE ps[k].obus, ps[k].framed)]

ReadIvf(ps) == MergeFrameless(IvfItems(ps))

-------------------------------------------------------------------------------
(* split_obu_stream: a delimiter starts a unit, and so does a frame behind *)
(* another frame; then frameless groups join the group behind them, the    *)
(* last one the group before it.                                           *)

Cut(acc) == IF acc.cur = <<>> THEN acc.groups ELSE Append(acc.groups, acc.cur)

Slip_FramesOnly(acc, o) ==
  IF Is("frame", o) /\ acc.hasFrame
  THEN [groups |-> Cut(acc), cur |-> <<o>>, hasFrame |-> TRUE]
  ELSE [acc EXCEPT !.cur = Append(@, o), !.hasFrame = @ \/ Is("frame", o)]

SplitObu(acc, o) ==
  IF Is("delimiter", o) \/ (Is("frame", o) /\ acc.hasFrame)
  THEN [groups |-> Cut(acc), cur |-> <<o>>, hasFrame |-> Is("frame", o)]
  ELSE [acc EXCEPT !.cur = Append(@, o), !.hasFrame = @ \/ Is("frame", o)]

SplitStream(obus) ==
  LET g == Cut(FoldLeft(SplitObu, [groups |-> <<>>, cur |-> <<>>, hasFrame |-> FALSE], obus))
  IN  MergeFrameless([k \in DOMAIN g |-> Item(k, g[k], TRUE)])

Stream(ps) == FlattenSeq([k \in DOMAIN ps |-> ps[k].obus])

-------------------------------------------------------------------------------
(* finish: the picture size comes from the first frame that carries its    *)
(* own size, else from the first that could be scanned; of every unit only *)
(* the first frame is looked at, under the last header before it.          *)

ParsedHeader(kept, o) == IF Is("header", o) /\ o.ok THEN Append(kept, o) ELSE kept

HeadersOf(obus) == FoldLeft(ParsedHeader, <<>>, obus)

FirstFrame(obus) == CHOOSE k \in DOMAIN obus :
                      Is("frame", obus[k]) /\ \A m \in 1..k-1 : ~ Is("frame", obus[m])

Slip_HeadersAnywhere(obus, k) == HeadersOf(obus)

HeadersBefore(obus, k) == HeadersOf(SubSeq(obus, 1, k))

GeometryFrom(acc, obus) ==
  IF acc.done THEN acc
  ELSE LET k  == IF HasFrame(obus) THEN FirstFrame(obus) ELSE Len(obus)
           hs == HeadersBefore(obus, k)
           sh == IF hs = <<>> THEN acc.sh ELSE <<hs[Len(hs)].hdr>>
           f  == obus[k]
           use == /\ HasFrame(obus) /\ sh # <<>> /\ f.ok /\ f.coded
                  /\ f.intra \/ acc.size = <<>>
       IN  [sh   |-> sh, unit |-> acc.unit + 1,
            size |-> IF use THEN <<[unit |-> acc.unit + 1, hdr |-> sh[1]]>> ELSE acc.size,
            done |-> use /\ f.intra]

GeometryOf(tus) ==
  FoldLeft(GeometryFrom, [sh |-> <<>>, unit |-> 0, size |-> <<>>, done |-> FALSE], tus).size

Refused == [ok |-> FALSE, tus |-> <<>>, size |-> <<>>]

Finish(groups) ==
  LET tus  == [k \in DOMAIN groups |-> Canonical(groups[k])]
      all  == FlattenSeq(tus)
      size == GeometryOf(tus)
  IN  IF /\ Len(tus) >= 2 /\ size # <<>>
         /\ \E k \in DOMAIN all : /\ Is("header", all[k]) /\ all[k].ok
                                  /\ \A m \in 1..k-1 : ~ Is("header", all[m])
      THEN [ok |-> TRUE, tus |-> tus, size |-> size]
      ELSE Refused

ObusOf(items) == [k \in DOMAIN items |-> items[k].obus]

AllFramed(ps) == \A k \in DOMAIN ps : ps[k].framed

ReadObu(ps) == IF AllFramed(ps) THEN Finish(ObusOf(SplitStream(Stream(ps)))) ELSE Refused

(* split_annexb keeps the file's units as they are. *)
ReadAnnexB(ps) == IF AllFramed(ps) THEN Finish(ObusOf(ps)) ELSE Refused

-------------------------------------------------------------------------------
ReadInit == packets = <<>>

Write == /\ Len(packets) < MaxPackets
         /\ \E p \in Packets : packets' = Append(packets, p)

ReadNext == Write

ReadSpec == ReadInit /\ [][ReadNext]_packets

-------------------------------------------------------------------------------
Outputs == {ObusOf(ReadIvf(packets)), ReadObu(packets).tus, ReadAnnexB(packets).tus}

(* "Canonical TUs carry ... at most one leading TD"                        *)
(* (docs/transport-io.md:77-78): in every unit that carries a frame, from  *)
(* any serialization and through any merging, a delimiter comes first or   *)
(* not at all.                                                             *)
OneDelimiter ==
  AllFramed(packets) =>
    \A tus \in Outputs : \A k \in DOMAIN tus : HasFrame(tus[k]) =>
      \A m \in 2..Len(tus[k]) : ~ Is("delimiter", tus[k][m])

(* Normalizing loses, adds and reorders nothing but delimiters, so every   *)
(* header keeps preceding the frames it governs, in either path that       *)
(* merges packets.                                                         *)
ObusKept ==
  AllFramed(packets) =>
    \A tus \in {ObusOf(ReadIvf(packets)), ObusOf(SplitStream(Stream(packets)))} :
      NoDelimiter(FlattenSeq(tus)) = NoDelimiter(Stream(packets))

(* "A merged packet keeps the coded packet's timestamp"                    *)
(* (container.rs:322-323): the timestamps that come out are those of the   *)
(* packets with a frame, in order, however frameless packets, damaged ones *)
(* or a frameless tail surround them.                                      *)
CodedStamp(stamps, p) == IF ~ p.framed \/ HasFrame(p.obus) THEN Append(stamps, p.ts) ELSE stamps

CodedStampsKept ==
  LET stamps == FoldLeft(CodedStamp, <<>>, [k \in DOMAIN packets |->
                  Item(k, packets[k].obus, packets[k].framed)])
      out    == ReadIvf(packets)
  IN  stamps # <<>> => [k \in DOMAIN out |-> out[k].ts] = stamps

Leads(p) == /\ p.framed /\ p.obus # <<>> /\ Is("delimiter", p.obus[1])
            /\ \A k \in 2..Len(p.obus) : ~ Is("delimiter", p.obus[k])

Delimited == \A k \in DOMAIN packets : Leads(packets[k])

Single(p) == \A j, k \in DOMAIN p.obus :
               Is("frame", p.obus[j]) /\ Is("frame", p.obus[k]) => j = k

(* "A muxer that puts a leading [TD, seq header] group in its own packet   *)
(* normalizes identically in either container" (container.rs:318-320):     *)
(* packets that begin with a delimiter and hold at most one frame come out *)
(* of an IVF file and of a section-5 stream as the same units.             *)
IvfMatchesObu ==
  (Delimited /\ \A k \in DOMAIN packets : Single(packets[k])) =>
    ObusOf(ReadIvf(packets)) = ObusOf(SplitStream(Stream(packets)))

(* The loop leaves a unit at its first frame, so a header behind that      *)
(* frame is never seen.                                                    *)
HeaderFirst(obus) ==
  HasFrame(obus) => \A k \in DOMAIN obus : k > FirstFrame(obus) =>
                      ~ (Is("header", obus[k]) /\ obus[k].ok)

(* The size is read under the header that governs the frame it is taken    *)
(* from, the last well-formed one before it in the whole stream, also when *)
(* a header closes the stream or the unit of that frame.  A unit before it *)
(* that ends in a header is excepted: that header is lost.                 *)
SizeUnderItsHeader ==
  LET r == ReadObu(packets)
      u == r.size[1].unit
      before == FlattenSeq(SubSeq(r.tus, 1, u - 1)) \o SubSeq(r.tus[u], 1, FirstFrame(r.tus[u]))
      hs == HeadersOf(before)
  IN  (r.ok /\ \A v \in 1..u-1 : HeaderFirst(r.tus[v])) =>
        hs # <<>> /\ r.size[1].hdr = hs[Len(hs)].hdr

===============================================================================
