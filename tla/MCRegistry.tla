----------------------------- MODULE MCRegistry -----------------------------
(* Registry with small sets for TLC. *)
EXTENDS Registry, TLC

CONSTANTS n1, n2, n3, o1, o2, o3

TwoNames == {n1, n2}
ThreeNames == {n1, n2, n3}
TwoObjs == {o1, o2}
ThreeObjs == {o1, o2, o3}

Symmetry == Permutations(Names) \cup Permutations(Objs)
=============================================================================
