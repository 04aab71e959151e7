---------------------------- MODULE MCServeHTTP ----------------------------
(***************************************************************************)
(* ServeHTTP with two clients.                                             *)
(***************************************************************************)
EXTENDS ServeHTTP
=============================================================================
