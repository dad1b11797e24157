-------------------------- MODULE MCSessionDeletion --------------------------
(* Small instances of SessionDeletion for TLC. *)
EXTENDS SessionDeletion, TLC

CONSTANTS s1, t1, t2, a1, a2

\* Operations do not differ but by their names.
MCSymmetry == Permutations(Threads)
=============================================================================
