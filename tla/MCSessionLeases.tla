---------------------------- MODULE MCSessionLeases ----------------------------
(* Small instances of SessionLeases for TLC.                             *)
EXTENDS SessionLeases, TLC

CONSTANTS s1, c1, t1, t2

OneSession == {s1}
OneClient == {c1}
TwoOperations == {t1, t2}

Symmetry == Permutations(TwoOperations)
================================================================================
