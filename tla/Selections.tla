------------------------------ MODULE Selections ------------------------------
(* What a loop keeps that goes over a list and copies the elements it wants to *)
(* a new one, in their order.  As a recursive function, which theorems can be  *)
(* proved about; nothing is known of SelectSeq where they are checked.         *)
EXTENDS Integers, Sequences

\* The elements of s that are in S.
Only(s, S) ==
    LET chosen[n \in 0..Len(s)] ==
            IF n = 0 THEN << >>
            ELSE IF s[n] \in S THEN Append(chosen[n - 1], s[n]) ELSE chosen[n - 1]
    IN chosen[Len(s)]

\* What is in a sequence, and whether it is there once.
Members(s) == {s[i] : i \in DOMAIN s}
Distinct(s) == \A i, j \in DOMAIN s : s[i] = s[j] => i = j
===============================================================================
