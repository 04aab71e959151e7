---------------------------- MODULE MCJevClient ----------------------------
(***************************************************************************)
(* JevClient in small worlds.                                              *)
(***************************************************************************)
EXTENDS JevClient
=============================================================================
