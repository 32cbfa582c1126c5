------------------------- MODULE MCRegistryNumbering -------------------------
(* Small instances of RegistryNumbering. *)
EXTENDS RegistryNumbering, TLC

CONSTANTS r1, r2, r3

\* A registry with its prefix for itself beside two that share theirs.
AloneAndShared == r1 :> "A" @@ r2 :> "REG" @@ r3 :> "REG"
FromTwo        == r1 :> 2 @@ r2 :> 1 @@ r3 :> 1

TwoPrefixes == r1 :> "A" @@ r2 :> "B"
OnePrefix   == r1 :> "REG" @@ r2 :> "REG"
FromOne     == r1 :> 1 @@ r2 :> 1

\* An edit supplies a number for any year, or one that can never be read.
AnyYearOrNone == {[year |-> 0, n |-> 3], [year |-> MaxYear + 1, n |-> 1]}
Nothing == {}
=============================================================================
