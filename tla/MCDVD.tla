------------------------------- MODULE MCDVD -------------------------------
(* A small instance of the DVD driver for TLC. *)
EXTENDS DVD

CONSTANTS b1, b2, i1, game, other

\* b1 is read in one transfer; a read of b2 is empty or takes two.
MCLengths == [b \in Block |-> IF b = b2 THEN {0, 2} ELSE {1}]
=============================================================================
