-------------------------- MODULE MCArchivePipeline --------------------------
(* A small instance of ArchivePipeline. *)
EXTENDS ArchivePipeline

CONSTANTS d1, u1, u2, dep

OneMember == [x \in {dep} |-> {u1}]
=============================================================================
