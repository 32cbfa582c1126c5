---------------------------- MODULE MCWebSession ----------------------------
(* A small instance of WebSession. *)
EXTENDS WebSession
=============================================================================
