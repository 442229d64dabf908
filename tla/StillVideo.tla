------------------------------ MODULE StillVideo ------------------------------
(***************************************************************************)
(* What an expanded stream promises a viewer: it is a slide show.  Frame w *)
(* is a picture of the image whose segment frame w falls in, whether the   *)
(* player got there frame by frame or by seeking; and a seek lands on a    *)
(* frame from which at most Reach frames remain to the one asked for.      *)
(***************************************************************************)
EXTENDS Integers, Sequences

CONSTANT Playlists    \* the segment lists: each segment has its frames

VARIABLES
  segs,    \* what is played
  gop,     \* seek granularity asked for
  at,      \* frame on the screen, 0 before the first
  image    \* the image it is a picture of, 0 for none

vars == <<segs, gop, at, image>>

(* EndOf[n] is the last frame of segment n. *)
EndOf[n \in Nat] == IF n = 0 THEN 0 ELSE EndOf[n - 1] + segs[n].frames

ImageAt(w) == CHOOSE n \in DOMAIN segs : EndOf[n - 1] < w /\ w <= EndOf[n]

Length == EndOf[Len(segs)]

Init == segs \in Playlists /\ gop \in Nat /\ at = 0 /\ image = 0

Display(w) == at' = w /\ image' = ImageAt(w) /\ UNCHANGED <<segs, gop>>

Advance == at < Length /\ Display(at + 1)

(* A segment's last frame may ride on the chunk before it, so a seek may   *)
(* be gop frames off, one more than the gop itself would give.             *)
Seek == \E want \in 1..Length : \E w \in 1..want : want - w <= gop /\ Display(w)

Next == Advance \/ Seek

Spec == Init /\ [][Next]_vars
===============================================================================
