-------------------------- MODULE MCAddressSpaces --------------------------
(* TLC instances of AddressSpaces. *)
EXTENDS AddressSpaces, TLC

(* Addresses are interchangeable, contents too.                            *)
Symmetry == Permutations(Spaces) \cup Permutations(MemoryObjects)
            \cup Permutations(ObjectStates) \cup Permutations(Values)
=============================================================================
