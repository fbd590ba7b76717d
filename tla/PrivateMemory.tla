--------------------------- MODULE PrivateMemory ---------------------------
(***************************************************************************)
(* What address spaces promise: every execution state has a memory of its  *)
(* own.  It starts as a copy of another one's, and a step changes one      *)
(* object of one state.                                                    *)
(***************************************************************************)
CONSTANTS Spaces, MemoryObjects, Values, Unbound

VARIABLES live, memory

NoMemory == [m \in MemoryObjects |-> Unbound]

Init ==
  /\ \E s \in Spaces : live = {s}
  /\ memory = [s \in Spaces |-> NoMemory]

Fork(s, n) ==
  /\ s \in live /\ n \notin live
  /\ live' = live \cup {n}
  /\ memory' = [memory EXCEPT ![n] = memory[s]]

(* An object is bound, unbound or written. *)
Change(s, m, v) ==
  /\ s \in live
  /\ memory' = [memory EXCEPT ![s] = [@ EXCEPT ![m] = v]]
  /\ UNCHANGED live

(* realloc(): one object takes over from another. *)
Move(s, m, to, v) ==
  /\ s \in live
  /\ memory' = [memory EXCEPT ![s] = [@ EXCEPT ![to] = v, ![m] = Unbound]]
  /\ UNCHANGED live

(* A function returns and takes its local objects with it. *)
Unbind(s, L) ==
  /\ s \in live
  /\ memory' = [memory EXCEPT ![s] = [m \in MemoryObjects |->
                                        IF m \in L THEN Unbound ELSE @[m]]]
  /\ UNCHANGED live

Delete(s) ==
  /\ s \in live
  /\ live' = live \ {s}
  /\ memory' = [memory EXCEPT ![s] = NoMemory]

Next ==
  \E s \in Spaces :
    \/ \E n \in Spaces : Fork(s, n)
    \/ \E m \in MemoryObjects, v \in Values \cup {Unbound} : Change(s, m, v)
    \/ \E m, to \in MemoryObjects, v \in Values : Move(s, m, to, v)
    \/ \E L \in SUBSET MemoryObjects : Unbind(s, L)
    \/ Delete(s)

Spec == Init /\ [][Next]_<<live, memory>>
=============================================================================
