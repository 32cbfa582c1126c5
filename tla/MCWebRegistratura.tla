-------------------------- MODULE MCWebRegistratura --------------------------
(* A small instance of WebRegistratura. *)
EXTENDS WebRegistratura
=============================================================================
