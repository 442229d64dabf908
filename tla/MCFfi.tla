-------------------------------- MODULE MCFfi --------------------------------
(***************************************************************************)
(* Two threads; as many addresses as they can need at once, so that freed  *)
(* ones are soon handed out again.                                         *)
(***************************************************************************)
EXTENDS Ffi

MCLens == {1, 2}
=============================================================================
