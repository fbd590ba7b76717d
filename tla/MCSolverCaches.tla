--------------------------- MODULE MCSolverCaches ---------------------------
(* TLC instances of SolverCaches. *)
EXTENDS SolverCaches

(* Two conditions, one stronger than the other, and their negations; the   *)
(* order of expressions puts one negation first.                           *)
AnAssignment == CHOOSE a \in Assignments : TRUE
Another == CHOOSE a \in Assignments : a # AnAssignment
Stronger == {AnAssignment}
Weaker == {AnAssignment, Another}
MCExprs == {Stronger, Weaker, Neg(Stronger), Neg(Weaker)}
MCCanonical == {Stronger, Neg(Weaker)}
=============================================================================
