-------------------------- MODULE MCSessionProjection --------------------------
(* Small instances of SessionProjection for TLC.                         *)
EXTENDS SessionProjection, TLC

CONSTANTS p1, k1, k2, q1, q2

OneText == {p1}
OneCall == {k1}
TwoAsks == {q1, q2}

Symmetry == Permutations(TwoAsks)
================================================================================
