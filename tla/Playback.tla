------------------------------- MODULE Playback -------------------------------
(***************************************************************************)
(* The assembled stream in a player.  The player is external (libdav1d, a  *)
(* browser): it decodes the TUs in order or, after a seek, from the sync   *)
(* sample at or before the frame asked for (the key_samples, which the     *)
(* container writes as stss) with a decoder that knows nothing yet.        *)
(***************************************************************************)
EXTENDS Assemble

VARIABLES
  pos,      \* TU on the screen, 0 before the first
  dpb,      \* the player's reference slots
  display   \* the picture on the screen

player == <<pos, dpb, display>>
all    == <<segs, gop, decoderModel, phase, i, sh, scanDpb, prepped, left,
            goldenEmitted, tus, keySamples, pos, dpb, display>>

Cold == [s \in Slots |-> Empty]

Garbage == [kind |-> "garbage", seg |-> 0]

(* A golden decodes to its picture only behind its own keyframe, and only  *)
(* if its header was measured against the slots it now meets.              *)
GoldenPicture(n, d) ==
  LET g == prepped[n]
  IN  IF (\A s \in Slots : d[s] = KeyPic(n)) /\ (g.spliced => g.context = d)
      THEN GoldenPic(n) ELSE Garbage

Decode(tu, d) ==
  CASE tu.kind = "key"    -> [s \in Slots |-> KeyPic(tu.seg)]
    [] tu.kind = "golden" -> Store(d, prepped[tu.seg].refresh, GoldenPicture(tu.seg, d))
    [] OTHER              -> d

Shown(tu, d) ==
  CASE tu.kind = "key"    -> KeyPic(tu.seg)
    [] tu.kind = "golden" -> GoldenPicture(tu.seg, d)
    [] OTHER              -> d[prepped[tu.seg].slot]

(* show_existing of a KEY_FRAME is not allowed: it is not showable. *)
Legal(tu, d) == tu.kind = "show" => d[prepped[tu.seg].slot].kind # "key"

KeyPositions == {keySamples[n] : n \in DOMAIN keySamples}

(* The sync sample a player starts from to reach TU w. *)
Land(w) == CHOOSE k \in KeyPositions :
             k <= w /\ \A m \in KeyPositions : m <= w => m <= k

Play(w, d) ==
  /\ phase = "done"
  /\ pos' = w /\ dpb' = Decode(tus[w], d)
  /\ display' = IF Legal(tus[w], d) THEN Shown(tus[w], d) ELSE Garbage
  /\ UNCHANGED vars

PlayNext == pos < Len(tus) /\ Play(pos + 1, dpb)

SeekTo(w) == Play(Land(w), Cold)

PInit == Init /\ pos = 0 /\ dpb = Cold /\ display = Empty

Assembling == Step /\ UNCHANGED player

PNext == Assembling \/ PlayNext \/ \E w \in 1..Len(tus) : SeekTo(w)

PSpec == PInit /\ [][PNext]_all

(* assemble_multi runs to its return once it is called: a thread that      *)
(* waits for nothing.  The player owes nothing.                            *)
PFairSpec == PSpec /\ WF_all(Assembling)

-------------------------------------------------------------------------------
Picture == [kind : {"empty", "key", "golden", "garbage"}, seg : Nat]

TuType == [kind : {"key", "golden", "show"}, seg : Nat \ {0}]

HeaderType == [id : Headers \cup {"none"}, timing : BOOLEAN, model : BOOLEAN]

PreparedType ==
  [hdrs : Seq(HeaderType), goldenHdrs : Seq(HeaderType),
   keyFlags : 0..2, goldenFlags : 0..2, spliced : BOOLEAN,
   context : [Slots -> Picture], refresh : SUBSET Slots, slot : Slots, frames : Nat]

TypeOK ==
  /\ segs \in Playlists /\ gop \in Gops /\ decoderModel \in BOOLEAN
  /\ phase \in {"params", "headers", "prepare", "emit", "done", "error"}
  /\ i \in Nat \ {0} /\ left \in Nat /\ goldenEmitted \in BOOLEAN
  /\ sh \in HeaderType
  /\ prepped \in Seq(PreparedType)
  /\ tus \in Seq(TuType)
  /\ keySamples \in Seq(Nat \ {0})
  /\ pos \in 0..Len(tus)
  /\ scanDpb \in [Slots -> Picture] /\ dpb \in [Slots -> Picture]
  /\ display \in Picture

(* Whatever mix of playing and seeking got there, the screen shows a       *)
(* picture of the image the TU belongs to: the key or the golden, never a  *)
(* leftover of another segment, an empty slot or a mis-decoded golden      *)
(* (spec-notes: "re-emitting the same golden TU after each keyframe        *)
(* decodes identically every GOP").                                        *)
RightPicture ==
  pos > 0 => /\ display.seg = tus[pos].seg
             /\ display.kind = (IF tus[pos].kind = "key" THEN "key" ELSE "golden")

(* key_samples lists exactly the TUs that carry a keyframe, in order: the  *)
(* container's sync samples are all the points a decoder may start from    *)
(* and no others.                                                          *)
KeySamplesExact ==
  /\ KeyPositions = {p \in DOMAIN tus : tus[p].kind = "key"}
  /\ \A m, n \in DOMAIN keySamples : m < n => keySamples[m] < keySamples[n]

(* A finished stream has one TU per requested frame, within the cap, and   *)
(* opens with a keyframe: saturation, early break and the partial chunk    *)
(* never lose or add a frame.                                              *)
OneTuPerFrame ==
  phase = "done" => /\ Len(tus) = Total /\ Len(tus) <= MaxTotal
                    /\ tus[1].kind = "key"

(* From any frame the sync sample to start at is at most gop TUs back. *)
SeekErrorWithinGop ==
  \A w \in DOMAIN tus : \E k \in KeyPositions : k <= w /\ w - k <= gop

(* What coded TU p of the output carries: its sequence headers, how many   *)
(* of them in front of its frame, the flags in the frame's header, and the *)
(* header the encoder coded the frame under.                               *)
Carried(p) == IF tus[p].kind = "key" THEN prepped[tus[p].seg].hdrs
              ELSE IF tus[p].kind = "golden" THEN prepped[tus[p].seg].goldenHdrs ELSE <<>>

LeadOf(p)  == IF tus[p].kind = "key" THEN segs[tus[p].seg].lead
              ELSE segs[tus[p].seg].goldenLead

FlagsOf(p) == IF tus[p].kind = "key" THEN prepped[tus[p].seg].keyFlags
              ELSE prepped[tus[p].seg].goldenFlags

UnderOf(p) == IF tus[p].kind = "key" THEN KeyUnder(segs[tus[p].seg])
              ELSE GoldenUnder(segs[tus[p].seg])

(* The nearest TU in front of p that carries a header. *)
HeaderBefore(p) == CHOOSE q \in 1..p-1 :
  Carried(q) # <<>> /\ \A r \in q+1..p-1 : Carried(r) = <<>>

(* The header in force where a player of the output meets the frame of p.  *)
InForce(p) ==
  IF LeadOf(p) > 0 THEN Carried(p)[LeadOf(p)]
  ELSE Carried(HeaderBefore(p))[Len(Carried(HeaderBefore(p)))]

(* A frame of the output codes the removal flag once where the header in   *)
(* force for it declares the decoder model and not at all where it does    *)
(* not: never missing, never spliced twice (assemble.rs:291-296), over     *)
(* headers in key and golden TUs, in front of the frames and behind.  The  *)
(* assembler measures by one header: the exact exception is a frame whose  *)
(* own header says otherwise about the model than the canonical one it is  *)
(* rewritten to.                                                           *)
FlagMatchesHeader ==
  \A p \in DOMAIN tus : tus[p].kind # "show" =>
    (FlagsOf(p) = (IF InForce(p).model THEN 1 ELSE 0)) =
    (Rewrites(sh.id) => Attr[UnderOf(p)].model = Attr[sh.id].model)

(* The player showing the assembled stream is a slide show of the request: *)
(* frame w is the image of the segment that w falls in by the segments'    *)
(* own lengths, from the start and after any seek, and a seek lands at     *)
(* most gop frames early.                                                  *)
Slideshow == INSTANCE StillVideo WITH at <- pos, image <- display.seg
ShowsPlaylist == Slideshow!Spec

(* Every call returns, a stream or an error: whatever the lengths and the  *)
(* gop, the emission loop comes down to zero frames left and never steps   *)
(* over it.                                                                *)
CallReturns == <>(phase \in {"done", "error"})

(* "seek error < gop frames" (docs/design.md:63): a seek for any frame     *)
(* starts decoding fewer than gop frames before it.                        *)
SeekErrorBelowGop ==
  \A w \in DOMAIN tus : \E k \in KeyPositions : k <= w /\ w - k < gop
===============================================================================
