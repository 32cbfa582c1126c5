------------------------- MODULE MCRegistraturaFlow -------------------------
(* Small instances of RegistraturaFlow. *)
EXTENDS RegistraturaFlow

CONSTANTS d1, u1, u2, dep

AllMembers == [x \in {dep} |-> {u1, u2}]
=============================================================================
