--------------------------- MODULE MCObjectState ---------------------------
(* TLC instances of ObjectState. *)
EXTENDS ObjectState, TLC

(* Byte values are interchangeable, 0 apart.                               *)
Symmetry == Permutations(Values \ {Zero})
=============================================================================
