------------------------ MODULE MCPortfolioLifecycle ------------------------
(* Instances of PortfolioLifecycle for TLC. *)
EXTENDS PortfolioLifecycle, TLC
CONSTANTS p1, p2, v1, v2, w1, w2

OneShared   == [v \in {v1} |-> {p1}]
TwoVersions == [v \in {v1, v2} |-> IF v = v1 THEN {p1, p2} ELSE {}]
Symmetry    == Permutations(LWorkers)
=============================================================================
