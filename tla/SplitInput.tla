------------------------------ MODULE SplitInput ------------------------------
(***************************************************************************)
(* split_input (assemble.rs): the scan over the leading temporal units of  *)
(* a short real encode for the pair the whole program lives on, the anchor *)
(* (sequence header + shown KEY_FRAME) and the golden (a re-showable frame *)
(* coded directly after it).  One action per kind of temporal unit is one  *)
(* iteration of the scan loop.  The stream is the environment's: the next  *)
(* temporal unit is any member of TUs.                                     *)
(*                                                                         *)
(* `dec` is a history variable, the reference slots of a decoder that is   *)
(* fed the whole input stream.  The scan never sees it: it is what the     *)
(* scan's bookkeeping (pred, dirty) is supposed to stand for.              *)
(***************************************************************************)
EXTENDS Integers, Sequences, FiniteSets

CONSTANTS
  Headers,    \* sequence headers that parse, told apart by their bytes
  HintBits,   \* order_hint_bits that each header declares
  NoHeader,   \* "no sequence header seen yet"
  Slots,      \* reference slots of the decoder (eight in AV1)
  TUs,        \* temporal units the encoder may produce
  ScanLimit   \* INPUT_SCAN_LIMIT

FrameTypes == {"KEY", "INTER", "INTRA_ONLY", "SWITCH"}

(***************************************************************************)
(* What a temporal unit is to the scan.  `hdrs` are its well-formed        *)
(* sequence headers in OBU order, the first `lead` of them in front of its *)
(* first frame; `badHdr` says that one that does not parse follows them.   *)
(* ft..hint are the raw fields of the first frame                          *)
(* header, `extras` counts the further frame OBUs, `more` is what those    *)
(* refresh.  In a unit the parsers refuse, refresh is what a decoder makes *)
(* of it.                                                                  *)
(***************************************************************************)
TUType == [kind     : {"malformed", "frameless", "show", "coded"},
           hdrs     : Seq(Headers), lead : Nat, badHdr : BOOLEAN,
           readable : BOOLEAN, ft : FrameTypes, shown : BOOLEAN,
           showable : BOOLEAN, refresh : SUBSET Slots, hint : Nat,
           slot     : Slots, extras : Nat, more : SUBSET Slots]

ASSUME SplitAssumption ==
  /\ HintBits \in [Headers -> Nat]
  /\ NoHeader \notin Headers
  /\ TUs \subseteq TUType
  /\ \A tu \in TUs : /\ tu.kind = "frameless" => tu.extras = 0
                     /\ tu.lead <= Len(tu.hdrs)
  /\ ScanLimit \in Nat

VARIABLES
  tus,         \* temporal units scanned so far
  sh,          \* governing sequence header (sh / sh_raw)
  anchor,      \* anchor TU: index (0 = none), order hint, hint bits
  pred,        \* predecessor a golden's order hint is measured against
  dirty,       \* first TU that makes later candidates unverifiable (0 = none)
  golden,      \* index of the accepted golden (0 = none)
  afterAnchor, \* readable coded frames since the anchor
  nAnchors,    \* anchors met
  keyOnly,     \* every readable coded frame so far is a KEY_FRAME
  result,      \* "scanning", "pair" or "none"
  dec          \* history: reference slots of a decoder of the whole stream

vars == <<tus, sh, anchor, pred, dirty, golden, afterAnchor, nAnchors,
          keyOnly, result, dec>>

NoAnchor == [at |-> 0, hint |-> 0, bits |-> 0]
NoPred   == [at |-> 0, hint |-> 0]
Empty    == [at |-> 0, nth |-> 1, key |-> FALSE]

(* Pow2[n] is 1u64 << n. *)
Pow2[n \in Nat] == IF n = 0 THEN 1 ELSE 2 * Pow2[n - 1]

Now == Len(tus) + 1

-------------------------------------------------------------------------------
(* parse_frame_header_info: the fields it derives instead of reading. *)

Showable(tu) == IF tu.shown THEN tu.ft # "KEY" ELSE tu.showable

Refresh(tu) == IF tu.ft = "SWITCH" \/ (tu.ft = "KEY" /\ tu.shown)
               THEN Slots ELSE tu.refresh

Hint(tu, h) == tu.hint % Pow2[HintBits[h]]

-------------------------------------------------------------------------------
(* classify_tu.  Framing errors come first: no OBU of the unit is looked   *)
(* at.  A header that does not parse ends the unit after the good ones     *)
(* took effect.  The frame is parsed last, under whatever header the unit  *)
(* left governing, wherever in the unit it stands.                         *)

SeenHeaders(tu) == IF tu.kind = "malformed" THEN <<>> ELSE tu.hdrs

Governing(tu) == LET hs == SeenHeaders(tu)
                 IN  IF hs = <<>> THEN sh ELSE hs[Len(hs)]

SeqChanged(tu) == LET hs == SeenHeaders(tu)
                  IN  \E k \in DOMAIN hs : hs[k] # (IF k = 1 THEN sh ELSE hs[k-1])

Malformed(tu) == tu.kind = "malformed" \/ tu.badHdr

Parses(tu) == tu.readable /\ Governing(tu) # NoHeader

Skippable(tu) == /\ ~ Malformed(tu)
                 /\ tu.kind = "frameless" \/ (tu.kind = "show" /\ Parses(tu))

CodedFrame(tu) == ~ Malformed(tu) /\ tu.kind = "coded" /\ Parses(tu)

Unreadable(tu) == ~ Malformed(tu) /\ tu.kind \in {"coded", "show"} /\ ~ Parses(tu)

AnchorShape(tu) == /\ CodedFrame(tu)
                   /\ SeenHeaders(tu) # <<>> /\ tu.ft = "KEY" /\ tu.shown

Reanchors(tu) == AnchorShape(tu) /\ tu.extras = 0

-------------------------------------------------------------------------------
(* A changed header orphans the anchor before the unit itself is judged. *)

Slip_NeverOrphaned(tu) == FALSE

Orphaned(tu) == SeqChanged(tu) /\ ~ Reanchors(tu) /\ anchor # NoAnchor

LiveAnchor(tu) == IF Orphaned(tu) THEN NoAnchor ELSE anchor
LivePred(tu)   == IF Orphaned(tu) THEN NoPred ELSE pred
LiveDirty(tu)  == IF Orphaned(tu) THEN 0 ELSE dirty

Rebases(tu) == /\ CodedFrame(tu) /\ ~ AnchorShape(tu)
               /\ LiveAnchor(tu) # NoAnchor /\ tu.ft # "INTER"

Slip_DirtiesShownOnly(tu) == Malformed(tu) \/ Unreadable(tu) \/
  (CodedFrame(tu) /\ (tu.extras > 0 \/ (tu.ft = "INTER" /\ tu.shown /\ Refresh(tu) # {})))

Slip_DirtiesReadableOnly(tu) == Malformed(tu) \/
  (CodedFrame(tu) /\ (tu.extras > 0 \/ (tu.ft = "INTER" /\ Refresh(tu) # {})))

Dirties(tu) == \/ Malformed(tu) \/ Unreadable(tu)
               \/ /\ CodedFrame(tu)
                  /\ tu.extras > 0 \/ (tu.ft = "INTER" /\ Refresh(tu) # {})

Slip_MarkNext(tu, d) ==
  IF LiveAnchor(tu) # NoAnchor /\ Dirties(tu) /\ d = 0 THEN Now + 1 ELSE d

Slip_MarkLast(tu, d) ==
  IF LiveAnchor(tu) # NoAnchor /\ Dirties(tu) THEN Now ELSE d

MarkDirty(tu, d) == IF LiveAnchor(tu) # NoAnchor /\ Dirties(tu) /\ d = 0
                    THEN Now ELSE d

(* The contract a candidate is held to, against predecessor p and mark d. *)
Qualifies(tu, p, d) ==
  /\ LiveAnchor(tu) # NoAnchor
  /\ tu.extras = 0 /\ tu.ft # "KEY"
  /\ d = 0
  /\ tu.shown /\ Showable(tu) /\ Refresh(tu) # {}
  /\ LET bits == LiveAnchor(tu).bits
     IN  \/ bits = 0
         \/ Hint(tu, Governing(tu)) = (p.hint + 1) % Pow2[bits]

-------------------------------------------------------------------------------
(* The AV1 decoder, external.  A shown KEY_FRAME, and a hidden one once it *)
(* is re-shown, refreshes every slot.                                      *)

Picture(i, n, k) == [at |-> i, nth |-> n, key |-> k]

Store(d, R, pic) == [s \in Slots |-> IF s \in R THEN pic ELSE d[s]]

FirstDecoded(tu) ==
  CASE tu.kind = "frameless" -> dec
    [] tu.kind = "show"      -> IF dec[tu.slot].key
                                THEN Store(dec, Slots, dec[tu.slot]) ELSE dec
    [] OTHER                 -> Store(dec, Refresh(tu),
                                      Picture(Now, 1, tu.ft = "KEY"))

Decoded(tu) == IF tu.extras = 0 THEN FirstDecoded(tu)
               ELSE Store(FirstDecoded(tu), tu.more, Picture(Now, 2, FALSE))

-------------------------------------------------------------------------------
Init ==
  /\ tus = <<>> /\ sh = NoHeader
  /\ anchor = NoAnchor /\ pred = NoPred /\ dirty = 0 /\ golden = 0
  /\ afterAnchor = 0 /\ nAnchors = 0 /\ keyOnly = TRUE
  /\ result = "scanning"
  /\ dec = [s \in Slots |-> Empty]

(* What every iteration does, whatever the unit is. *)
Read(tu) ==
  /\ result = "scanning" /\ Len(tus) < ScanLimit
  /\ tus' = Append(tus, tu)
  /\ sh'  = Governing(tu)
  /\ dec' = Decoded(tu)

CountCoded(tu) ==
  /\ keyOnly' = (keyOnly /\ tu.ft = "KEY")
  /\ afterAnchor' = IF LiveAnchor(tu) # NoAnchor /\ ~ AnchorShape(tu)
                    THEN afterAnchor + 1 ELSE afterAnchor

KeepCounts == UNCHANGED <<afterAnchor, nAnchors, keyOnly>>

(* TD / header / metadata only, or a re-show: nothing new is decoded. *)
ScanSkippable(tu) ==
  /\ Read(tu) /\ Skippable(tu)
  /\ anchor' = LiveAnchor(tu) /\ pred' = LivePred(tu) /\ dirty' = LiveDirty(tu)
  /\ KeepCounts /\ UNCHANGED <<golden, result>>

(* Framing, sequence header or frame header does not parse. *)
ScanOpaque(tu) ==
  /\ Read(tu) /\ (Malformed(tu) \/ Unreadable(tu))
  /\ anchor' = LiveAnchor(tu) /\ pred' = LivePred(tu)
  /\ dirty' = MarkDirty(tu, LiveDirty(tu))
  /\ KeepCounts /\ UNCHANGED <<golden, result>>

(* Sequence header + shown KEY_FRAME, alone in its unit. *)
ScanAnchor(tu) ==
  /\ Read(tu) /\ Reanchors(tu)
  /\ LET g == Governing(tu)
     IN  /\ anchor' = [at |-> Now, hint |-> Hint(tu, g), bits |-> HintBits[g]]
         /\ pred'   = [at |-> Now, hint |-> Hint(tu, g)]
  /\ dirty' = 0 /\ afterAnchor' = 0 /\ nAnchors' = nAnchors + 1
  /\ UNCHANGED <<golden, keyOnly, result>>

(* An intra-family frame after the anchor: the new predecessor, and, when  *)
(* it is not a KEY_FRAME, itself a candidate measured against itself.      *)
ScanRebase(tu) ==
  /\ Read(tu) /\ Rebases(tu)
  /\ anchor' = LiveAnchor(tu)
  /\ pred'   = [at |-> Now, hint |-> Hint(tu, Governing(tu))]
  /\ dirty'  = MarkDirty(tu, 0)
  /\ CountCoded(tu) /\ UNCHANGED nAnchors
  /\ golden' = IF Qualifies(tu, pred', 0) THEN Now ELSE golden
  /\ result' = IF golden' # 0 THEN "pair" ELSE result

(* Any other coded frame: before an anchor, INTER after one, or an anchor  *)
(* whose unit holds more frames.                                           *)
ScanOther(tu) ==
  /\ Read(tu) /\ CodedFrame(tu) /\ ~ Reanchors(tu) /\ ~ Rebases(tu)
  /\ anchor' = LiveAnchor(tu) /\ pred' = LivePred(tu)
  /\ dirty'  = MarkDirty(tu, LiveDirty(tu))
  /\ CountCoded(tu) /\ UNCHANGED nAnchors
  /\ golden' = IF Qualifies(tu, LivePred(tu), LiveDirty(tu)) THEN Now ELSE golden
  /\ result' = IF golden' # 0 THEN "pair" ELSE result

(* The input is over, or the scan limit is reached, without a pair. *)
GiveUp ==
  /\ result = "scanning" /\ result' = "none"
  /\ UNCHANGED <<tus, sh, anchor, pred, dirty, golden, afterAnchor, nAnchors,
                 keyOnly, dec>>

(* The call has returned. *)
Returned == result # "scanning" /\ UNCHANGED vars

Scan(tu) == \/ ScanSkippable(tu) \/ ScanOpaque(tu) \/ ScanAnchor(tu)
            \/ ScanRebase(tu) \/ ScanOther(tu)

Next == (\E tu \in TUs : Scan(tu)) \/ GiveUp \/ Returned

Spec == Init /\ [][Next]_vars

-------------------------------------------------------------------------------
(* The contract of docs/input-contract.md:17-35, said of the whole history *)
(* at once: the answers about the units up to i never look behind it.      *)

HdrAt(i) ==
  LET J == {j \in 1..i : SeenHeaders(tus[j]) # <<>>}
      j == CHOOSE j \in J : \A k \in J : k <= j
  IN  IF J = {} THEN NoHeader ELSE tus[j].hdrs[Len(tus[j].hdrs)]

ChangesAt(i) ==
  \E k \in DOMAIN SeenHeaders(tus[i]) :
     tus[i].hdrs[k] # (IF k = 1 THEN HdrAt(i-1) ELSE tus[i].hdrs[k-1])

FrameAt(i) == /\ tus[i].kind = "coded" /\ ~ tus[i].badHdr
              /\ tus[i].readable /\ HdrAt(i) # NoHeader

KeyWithHeaderAt(i) == /\ FrameAt(i) /\ tus[i].ft = "KEY" /\ tus[i].shown
                      /\ tus[i].hdrs # <<>>

ClashAt(i) ==
  \/ tus[i].kind = "malformed" \/ tus[i].badHdr
  \/ tus[i].kind \in {"coded", "show"} /\ (~ tus[i].readable \/ HdrAt(i) = NoHeader)
  \/ FrameAt(i) /\ (tus[i].extras > 0 \/ (tus[i].ft = "INTER" /\ tus[i].refresh # {}))

Greatest(S) == IF S = {} THEN 0 ELSE CHOOSE m \in S : \A k \in S : k <= m
Least(S)    == IF S = {} THEN 0 ELSE CHOOSE m \in S : \A k \in S : m <= k

AnchorOf(n) == Greatest({a \in 1..n : /\ KeyWithHeaderAt(a) /\ tus[a].extras = 0
                                      /\ \A j \in a+1..n : ~ ChangesAt(j)})

BaseOf(n) == Greatest({AnchorOf(n)} \cup
  {j \in AnchorOf(n)+1..n : FrameAt(j) /\ tus[j].ft # "INTER" /\ ~ KeyWithHeaderAt(j)})

ClashOf(n) == Least({j \in BaseOf(n)..n : ClashAt(j)})

(* Unit n is the golden of the units before it.  It is judged against the  *)
(* predecessor that stands in front of it, whatever kind of frame it is    *)
(* itself: a shown INTRA_ONLY frame right behind the anchor is one         *)
(* (docs/input-contract.md:136-138).  The intra family is exempt from      *)
(* adjacency, for it decodes without references (28-30).                   *)
GoldenAt(n) ==
  /\ AnchorOf(n) \in 1..n-1
  /\ FrameAt(n) /\ tus[n].extras = 0 /\ tus[n].ft # "KEY" /\ tus[n].shown
  /\ Refresh(tus[n]) # {}
  /\ tus[n].ft = "INTER" => ClashOf(n - 1) = 0
  /\ LET h == HdrAt(n)
     IN  HintBits[h] # 0 =>
           Hint(tus[n], h) = (Hint(tus[BaseOf(n - 1)], h) + 1) % Pow2[HintBits[h]]

(* The goldens the scan walks past: pred is set to the candidate itself    *)
(* before the candidate is judged (assemble.rs:611-620, 688-689), and no   *)
(* order hint follows itself.                                              *)
SelfMeasured(n) == tus[n].ft # "INTER" /\ HintBits[HdrAt(n)] # 0

(* The header a decoder that reads the OBUs in order has met last when the *)
(* frame of unit i comes.  The scan parses that frame under HdrAt(i).      *)
CodedUnder(i) == IF tus[i].lead = 0 THEN HdrAt(i - 1) ELSE tus[i].hdrs[tus[i].lead]

HeaderBehindFrame(tu) == tu.lead < Len(tu.hdrs)

-------------------------------------------------------------------------------
TypeOK ==
  /\ tus \in Seq(TUs) /\ Len(tus) <= ScanLimit
  /\ sh \in Headers \cup {NoHeader}
  /\ anchor \in [at : 0..Len(tus), hint : Nat, bits : Nat]
  /\ pred \in [at : 0..Len(tus), hint : Nat]
  /\ dirty \in 0..Len(tus) /\ golden \in 0..Len(tus)
  /\ afterAnchor \in 0..Len(tus) /\ nAnchors \in 0..Len(tus)
  /\ keyOnly \in BOOLEAN
  /\ result \in {"scanning", "pair", "none"}
  /\ dec \in [Slots -> [at : 0..Len(tus), nth : {1, 2}, key : BOOLEAN]]

(* One left-to-right pass with three registers answers a question about    *)
(* the whole history: the registers name the last anchor no header change  *)
(* orphaned, the last frame that re-based the slots and the first unit     *)
(* since then that may have disturbed them.  What the scan returns is a    *)
(* golden by the documented contract, and the first one but for those it   *)
(* measures against themselves: INTRA_ONLY and SWITCH goldens of a stream  *)
(* with order hints, every one of which it walks past.                     *)
ScanFollowsContract ==
  LET n == Len(tus)
  IN  /\ anchor.at = AnchorOf(n)
      /\ anchor.at # 0 => pred.at = BaseOf(n) /\ dirty = ClashOf(n)
      /\ golden = (IF n > 0 /\ GoldenAt(n) /\ ~ SelfMeasured(n) THEN n ELSE 0)
      /\ \A m \in 1..n-1 : GoldenAt(m) => SelfMeasured(m)
      /\ (result = "pair") = (golden # 0)

(* The key unit and the golden parse under one header                      *)
(* (docs/input-contract.md:39-41): behind the anchor's unit and up to the  *)
(* golden no unit brought another one, not even to take it back in the     *)
(* same unit; the golden is coded under that header, and so is the anchor  *)
(* unless a header stands behind its key frame: that one the scan takes    *)
(* for the frame's own.                                                    *)
OneHeader ==
  result = "pair" =>
    /\ anchor.at \in 1..golden-1
    /\ \A j \in anchor.at+1..golden : \A k \in DOMAIN SeenHeaders(tus[j]) :
          tus[j].hdrs[k] = HdrAt(golden)
    /\ CodedUnder(golden) = HdrAt(golden) /\ HdrAt(anchor.at) = HdrAt(golden)
    /\ HeaderBehindFrame(tus[anchor.at]) \/ CodedUnder(anchor.at) = HdrAt(golden)

FullRefresh(tu) == Refresh(tu) = Slots

(* No unit since the predecessor that the scan skips as a re-show holds    *)
(* more frames behind it: those, unlike any other, go unnoticed.           *)
LoneShows(p) == \A j \in p.at..Len(tus) : tus[j].kind = "show" => tus[j].extras = 0

(* While no mark is set and the predecessor refreshed every slot, a        *)
(* decoder of the whole stream holds the predecessor's first picture in    *)
(* every slot: `pred` and `dirty` do stand for the decoder's state, through *)
(* re-shows, refresh-less frames, orphaned anchors and layered units.      *)
CleanSlots ==
  (anchor # NoAnchor /\ dirty = 0 /\ FullRefresh(tus[pred.at]) /\ LoneShows(pred)) =>
    \A s \in Slots : dec[s].at = pred.at /\ dec[s].nth = 1

(* A golden accepted straight after its anchor was coded against slots     *)
(* that all held the anchor's picture, so decoding it right behind the     *)
(* anchor, everything between dropped, gives the same picture.             *)
SpliceSafe ==
  [][(golden' # golden /\ pred'.at = anchor'.at /\ LoneShows(pred')) =>
        \A s \in Slots : dec[s].at = anchor'.at /\ dec[s].nth = 1]_vars

-------------------------------------------------------------------------------
(* What the documentation promises and the scan does not keep.             *)

(* "Together they guarantee the golden was coded against only the          *)
(* keyframe's decoder state, so splicing it after the anchor cannot change *)
(* its decode" (docs/input-contract.md:112-115): the slots the golden left *)
(* alone must still hold the anchor's picture.                             *)
GoldenCodedAgainstAnchor ==
  (result = "pair" /\ tus[golden].ft # "INTRA_ONLY") =>
    \A s \in Slots \ Refresh(tus[golden]) : dec[s].at = anchor.at

===============================================================================
