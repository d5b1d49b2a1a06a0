------------------------------ MODULE MCClient ------------------------------
(* Client with small sets for TLC. *)
EXTENDS ClientProps, TLC

CONSTANTS a1, a2

OneApp == {a1}
TwoApps == {a1, a2}

Symmetry == Permutations(Apps)
=============================================================================
