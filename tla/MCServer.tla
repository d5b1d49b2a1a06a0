------------------------------ MODULE MCServer ------------------------------
(* Server with small sets for TLC. *)
EXTENDS ServerProps, TLC

CONSTANTS c1, c2, a1, a2

OneConn == {c1}
TwoConns == {c1, c2}
NoApps == {}
OneApp == {a1}
TwoApps == {a1, a2}

Symmetry == Permutations(Apps) \cup Permutations(Conns)
=============================================================================
