--------------------------- MODULE InspectedPlayback ---------------------------
(***************************************************************************)
(* assemble_multi and `info --check` put together: the finished stream is  *)
(* written out (the payloads the assembler prepared, TU by TU) and         *)
(* inspect's analyze and checks are run on it.                             *)
(***************************************************************************)
EXTENDS Playback

(* The OBUs of a TU of the output. *)
CodedObu(f) == [kind |-> "coded", ok |-> TRUE, hdr |-> sh, slot |-> 0, ft |-> f.ft,
                shown |-> f.shown, showable |-> f.showable, refresh |-> f.refresh]

HeaderObu(h) == [CodedObu(segs[1].key) EXCEPT !.kind = "header", !.hdr = h]

ShowObu(s) == [CodedObu(segs[1].key) EXCEPT !.kind = "show", !.slot = s]

(* A TU with headers hs, the first m of them in front of its frame f. *)
Unit(hs, m, f) == [k \in 1..m |-> HeaderObu(hs[k])] \o <<CodedObu(f)>>
                  \o [k \in 1..Len(hs)-m |-> HeaderObu(hs[m + k])]

Obus(tu) ==
  LET g == prepped[tu.seg]
      s == segs[tu.seg]
  IN  CASE tu.kind = "key"    -> Unit(g.hdrs, s.lead, s.key)
        [] tu.kind = "golden" -> Unit(g.goldenHdrs, s.goldenLead, s.golden)
        [] OTHER              -> <<ShowObu(g.slot)>>

Written == [p \in DOMAIN tus |-> Obus(tus[p])]

(* Only inspect's operators are used: its own variables do not run here. *)
Inspector == INSTANCE Inspect WITH
  Headers <- HeaderType \ {NoHeader}, NoHeader <- NoHeader, Units <- {}, MaxUnits <- 0,
  units <- Written, rep <- 0, dec <- dpb, illegal <- {}

Report == Inspector!Analyze(Written)

Pairable(f) == f.kind = "coded" /\ f.ft # "INTRA_ONLY"

(* All frames were coded under the canonical header, and a key TU's other  *)
(* headers are rewritten to it or are the same.                            *)
OneHeader ==
  /\ \A n \in DOMAIN segs : /\ KeyUnder(segs[n]) = segs[1].hdrs[1]
                            /\ GoldenUnder(segs[n]) = segs[1].hdrs[1]
  /\ \/ Rewrites(segs[1].hdrs[1])
     \/ \A n \in DOMAIN segs : \A k \in DOMAIN segs[n].hdrs :
          segs[n].hdrs[k] = segs[1].hdrs[1]

(* "The invariant checks `stillcast` streams must satisfy"                 *)
(* (inspect.rs:240-242): what the assembler writes passes all of inspect's *)
(* checks, and inspect finds exactly the keyframes the assembler listed    *)
(* and exactly the goldens it emitted: for goldens coded as inter frames,  *)
(* with sequence headers of their own or not, any slots, and every way the *)
(* last chunks fall.  No header of a key or golden TU, in front of its     *)
(* frame or behind, is one the inspector has not seen before.              *)
InspectorAgrees ==
  (phase = "done" /\ OneHeader /\ \A n \in DOMAIN segs : Pairable(segs[n].golden)) =>
    /\ Inspector!Passes(Report)
    /\ Report.keyTus = KeyPositions
    /\ Report.goldenTus = {p \in DOMAIN tus : tus[p].kind = "golden"}

===============================================================================
