----------------------------- MODULE MCWebEducation -----------------------------
(* A small instance of WebEducation. *)
EXTENDS WebEducation
=============================================================================
