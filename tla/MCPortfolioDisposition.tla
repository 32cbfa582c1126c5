----------------------- MODULE MCPortfolioDisposition -----------------------
(* Instances of PortfolioDisposition for TLC. *)
EXTENDS PortfolioDisposition, TLC
CONSTANTS p1, p2, v1, d1, d2, w1

OneShared == [v \in {v1} |-> {p1}]
Symmetry  == Permutations(DWorkers)
=============================================================================
