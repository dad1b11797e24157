--------------------------- MODULE MCFollowUpQueue ---------------------------
(* Small instances of FollowUpQueue for TLC. *)
EXTENDS FollowUpQueue

CONSTANTS a, b, x, y, z

\* Two messages with texts of their own.
MCTextOf == [i \in Items |-> IF i = a THEN x ELSE y]

\* Two messages that say the same.
MCSameText == [i \in Items |-> x]
=============================================================================
