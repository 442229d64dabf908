-------------------------------- MODULE Inspect --------------------------------
(***************************************************************************)
(* stillcast info --check (inspect.rs): analyze walks a stream unit by     *)
(* unit and keeps what each one showed or coded, checks turns the report   *)
(* into verdicts.  One action is one iteration of analyze's loop; the      *)
(* stream is the environment's.  `dec` and `illegal` are history: an AV1   *)
(* decoder of the same stream, and the units in which it met a re-show     *)
(* that is not allowed.                                                    *)
(***************************************************************************)
EXTENDS Integers, SequencesExt

CONSTANTS
  Headers,   \* sequence headers, told apart by their bytes
  NoHeader,  \* "no sequence header yet"
  Slots,     \* reference slots
  Units,     \* temporal units a stream may hold
  MaxUnits   \* bound on the length of a stream

FrameTypes == {"KEY", "INTER", "INTRA_ONLY", "SWITCH"}

(* An OBU analyze looks at: a sequence header, a re-show of a slot or a    *)
(* coded frame.  `ok` says that it parses, the whole uncompressed header   *)
(* of a coded frame included.                                              *)
ObuType == [kind : {"header", "show", "coded"}, ok : BOOLEAN, hdr : Headers,
            slot : Slots, ft : FrameTypes, shown : BOOLEAN,
            showable : BOOLEAN, refresh : SUBSET Slots]

ASSUME InspectAssumption == /\ NoHeader \notin Headers
                            /\ Units \subseteq Seq(ObuType)
                            /\ MaxUnits \in Nat

VARIABLES
  units,    \* the stream so far
  rep,      \* analyze's locals: sh, dpb, have_dpb, the report so far, bail
  dec,      \* history: what a decoder's slots hold
  illegal   \* history: units whose re-show a decoder must refuse

vars == <<units, rep, dec, illegal>>

Showable(o) == IF o.shown THEN o.ft # "KEY" ELSE o.showable

Refresh(o) == IF o.ft = "SWITCH" \/ (o.ft = "KEY" /\ o.shown) THEN Slots ELSE o.refresh

-------------------------------------------------------------------------------
(* analyze.  isKey is the one field of RefSlot the report is made from.    *)

Blank == [sh |-> NoHeader, isKey |-> [s \in Slots |-> FALSE], haveDpb |-> FALSE,
          kinds |-> <<>>, keyTus |-> {}, goldenTus |-> {}, failed |-> FALSE]

(* The kind of a unit is that of its last frame; 0 frames, no kind. *)
NoKind == [is |-> "none"]

ShowKind(r, o)  == [is |-> "show", wasKey |-> r.isKey[o.slot]]
CodedKind(o)    == [is |-> "coded", ft |-> o.ft, shown |-> o.shown, showable |-> Showable(o)]

Fail(r) == [r EXCEPT !.failed = TRUE]

Slip_NoReset(r, o) ==
  [s \in Slots |-> IF s \in o.refresh THEN o.ft = "KEY" ELSE r.isKey[s]]

(* scan_uncompressed_header: a shown KEY_FRAME resets the slots, then the  *)
(* frame takes those it refreshes.                                         *)
Tracked(r, o) ==
  LET before == IF o.ft = "KEY" /\ o.shown THEN [s \in Slots |-> FALSE] ELSE r.isKey
  IN  [s \in Slots |-> IF s \in Refresh(o) THEN o.ft = "KEY" ELSE before[s]]

(* One OBU of unit n; r.kinds[n] is the unit's kind so far. *)
WalkObu(r, o) ==
  LET n == Len(r.kinds)
  IN  IF r.failed THEN r
      ELSE CASE ~ o.ok -> Fail(r)
             [] o.ok /\ o.kind = "header" ->
                  IF r.sh \in {NoHeader, o.hdr} THEN [r EXCEPT !.sh = o.hdr] ELSE Fail(r)
             [] o.ok /\ o.kind = "show" ->
                  IF r.sh = NoHeader \/ ~ r.haveDpb THEN Fail(r)
                  ELSE [r EXCEPT !.kinds[n] = ShowKind(r, o)]
             [] OTHER ->
                  IF r.sh = NoHeader THEN Fail(r)
                  ELSE [r EXCEPT !.haveDpb = TRUE, !.isKey = Tracked(r, o),
                          !.kinds[n] = CodedKind(o),
                          !.keyTus = IF o.ft = "KEY" /\ o.shown THEN @ \cup {n} ELSE @,
                          !.goldenTus = IF o.ft # "KEY" /\ Showable(o)
                                        THEN @ \cup {n} ELSE @]

AnalyzeUnit(r, unit) ==
  IF r.failed THEN r
  ELSE LET w == FoldLeft(WalkObu, [r EXCEPT !.kinds = Append(@, NoKind)], unit)
       IN  IF w.kinds[Len(w.kinds)] = NoKind THEN Fail(w) ELSE w

Analyze(stream) == FoldLeft(AnalyzeUnit, Blank, stream)

(* analyze's result is an error when the loop bailed or no header came. *)
Analyzed(r) == ~ r.failed /\ r.sh # NoHeader

-------------------------------------------------------------------------------
(* checks *)

FirstIsKey(r) == LET k == r.kinds[1]
                 IN  r.kinds # <<>> /\ k.is = "coded" /\ k.ft = "KEY" /\ k.shown

Slip_AnyShow(r) == TRUE

NoKeyReshown(r) ==
  \A n \in DOMAIN r.kinds : r.kinds[n].is = "show" => ~ r.kinds[n].wasKey

EveryUnitShows(r) ==
  \A n \in DOMAIN r.kinds : r.kinds[n].is = "coded" => r.kinds[n].shown

GoldensInter(r) == \A n \in r.goldenTus :
  LET k == r.kinds[n]
  IN  k.is = "coded" /\ k.ft \in {"INTER", "SWITCH"} /\ k.showable

Passes(r) == /\ Analyzed(r) /\ FirstIsKey(r) /\ NoKeyReshown(r)
             /\ EveryUnitShows(r) /\ GoldensInter(r) /\ r.keyTus # {}

-------------------------------------------------------------------------------
(* The AV1 decoder, external.  Re-showing a hidden KEY_FRAME is legal and  *)
(* refreshes every slot with it; re-showing a frame that is not showable   *)
(* is not, and an empty slot has nothing to show.                          *)

Vacant == [ft |-> "none", showable |-> FALSE]

DecodeObu(d, o) ==
  CASE o.kind = "coded" -> [s \in Slots |-> IF s \in Refresh(o)
                              THEN [ft |-> o.ft, showable |-> Showable(o)] ELSE d[s]]
    [] o.kind = "show" /\ d[o.slot].ft = "KEY" -> [s \in Slots |-> d[o.slot]]
    [] OTHER -> d

Refused(d, o) == o.kind = "show" /\ ~ d[o.slot].showable

(* The decoder's slots in front of the k-th OBU of the unit. *)
Before(unit, k) == FoldLeft(DecodeObu, dec, SubSeq(unit, 1, k - 1))

Init == /\ units = <<>> /\ rep = Blank
        /\ dec = [s \in Slots |-> Vacant] /\ illegal = {}

Walk(unit) ==
  /\ ~ rep.failed /\ Len(units) < MaxUnits
  /\ units' = Append(units, unit)
  /\ rep' = AnalyzeUnit(rep, unit)
  /\ dec' = FoldLeft(DecodeObu, dec, unit)
  /\ illegal' = IF \E k \in DOMAIN unit : Refused(Before(unit, k), unit[k])
                THEN illegal \cup {Len(units) + 1} ELSE illegal

Next == \E unit \in Units : Walk(unit)

Spec == Init /\ [][Next]_vars

-------------------------------------------------------------------------------
(* Streams whose units hold one frame, as the program writes them. *)
Frames(unit) == {k \in DOMAIN unit : unit[k].kind # "header"}

OneFrameEach == \A n \in DOMAIN units : \A j, k \in Frames(units[n]) : j = k

(* A one-frame-per-unit stream that passes every check plays: a decoder    *)
(* refuses none of its re-shows.  The check looks at the type the scanner  *)
(* tracked per slot, the decoder at what the slot really holds.            *)
PassedStreamsPlay == (OneFrameEach /\ Passes(rep)) => illegal = {}

(* The scanner's slots are the decoder's through hidden frames, partial    *)
(* refreshes and keyframes, as long as no keyframe was re-shown: the one   *)
(* event whose refresh the inspector does not follow.                      *)
TrackingTrue ==
  (Analyzed(rep) /\ OneFrameEach /\ NoKeyReshown(rep)) =>
    \A s \in Slots : rep.isKey[s] = (dec[s].ft = "KEY")

===============================================================================
