--------------------------- MODULE InputPartition ---------------------------
(***************************************************************************)
(* What path exploration promises: the inputs of the program are divided   *)
(* into paths, a path is only ever divided further, and every input is     *)
(* reported by exactly one path unless it was given up.                    *)
(***************************************************************************)
CONSTANT Inputs

VARIABLES
  paths,      \* the live paths, each the set of inputs that follow it
  explored,   \* inputs whose path was reported
  dropped     \* inputs given up

vars == <<paths, explored, dropped>>

Init == paths = {Inputs} /\ explored = {} /\ dropped = {}

(* A path p becomes the paths Q, and what is left of it is given up.       *)
Divide(p, Q) ==
  /\ p \in paths
  /\ UNION Q \subseteq p /\ {} \notin Q
  /\ \A q, r \in Q : q = r \/ q \cap r = {}
  /\ paths' = (paths \ {p}) \cup Q
  /\ dropped' = dropped \cup (p \ UNION Q)
  /\ UNCHANGED explored

(* Paths end and are reported. *)
Report(P) ==
  /\ P \subseteq paths
  /\ paths' = paths \ P
  /\ explored' = explored \cup UNION P
  /\ UNCHANGED dropped

Next ==
  \/ \E p \in paths : \E Q \in SUBSET SUBSET p : Divide(p, Q)
  \/ \E P \in SUBSET paths : Report(P)

Spec == Init /\ [][Next]_vars
=============================================================================
