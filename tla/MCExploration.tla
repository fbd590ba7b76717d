--------------------------- MODULE MCExploration ---------------------------
(* TLC instances of Exploration. *)
EXTENDS Exploration, TLC

(* No limit but the time an instruction may take. *)
Unlimited ==
  [maxForks |-> NoLimit, maxDepth |-> 0, onlySeed |-> FALSE,
   onlyReplaySeeds |-> FALSE, seedTime |-> FALSE, maxMemory |-> FALSE,
   maxMemoryInhibit |-> TRUE, maxInstructionTime |-> TRUE,
   usesSetForking |-> TRUE, callsPointers |-> FALSE, dumpStatesOnHalt |-> TRUE]

(* Only what the seeds lead to is executed. *)
ReplayOnly == [Unlimited EXCEPT !.onlySeed = TRUE, !.onlyReplaySeeds = TRUE]

(* Every limit at once. *)
Limited ==
  [Unlimited EXCEPT !.maxForks = 2, !.maxDepth = 2, !.seedTime = TRUE,
                    !.maxMemory = TRUE, !.dumpStatesOnHalt = FALSE]

(* The handlers go on with what they have ended. *)
Pointers == [Unlimited EXCEPT !.callsPointers = TRUE, !.maxInstructionTime = FALSE]

UnlimitedOnly == {Unlimited}
SeedModes == {ReplayOnly, Limited, Pointers}

(* Addresses and inputs are interchangeable; seeds too.                    *)
Symmetry == Permutations(StateIds) \cup Permutations(Inputs) \cup Permutations(Seeds)
============================================================================
