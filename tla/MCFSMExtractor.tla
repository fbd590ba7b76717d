--------------------------- MODULE MCFSMExtractor ---------------------------
(* TLC instances of FSMExtractor. *)
EXTENDS FSMExtractor

CONSTANTS header0, body1, body2, exit

(* The function enters the loop at header0 and returns at exit; the loop   *)
(* has up to three blocks with any branches between them.  The post-       *)
(* dominator tree has every block, so each reaches the exit.               *)
Inner == {header0, body1, body2}
Targets == Inner \cup {exit}
Terminators == {<<b>> : b \in Targets}
               \cup {t \in Targets \X Targets : t[1] # t[2]}

MCGraphs ==
  LET whole(f) == [b \in Blocks |-> IF b \in Inner THEN f[b]
                                    ELSE IF b = exit THEN <<>> ELSE <<header0>>]
  IN  {g \in {whole(f) : f \in [Inner -> Terminators]} :
         \A b \in Blocks : /\ exit \in From({b}, Successors(g))
                           /\ b \in From({Entry}, Successors(g))}
=============================================================================
