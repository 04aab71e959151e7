----------------------------- MODULE MCRelease -----------------------------
(***************************************************************************)
(* Release in a small world.                                               *)
(***************************************************************************)
EXTENDS Release
=============================================================================
