------------------------- MODULE ControlDependence -------------------------
(***************************************************************************)
(* Control dependence of basic blocks (lib/CFG/CFG.cpp), and what it takes *)
(* from LLVM: post-dominators, dominators and loops.  A control flow graph *)
(* gives the successors of each block, in the order of its terminator.     *)
(***************************************************************************)
EXTENDS Integers, Sequences

CONSTANTS
  Blocks, \* the basic blocks of a function
  Root    \* the graph's root node, which has no block; no dominator at all

ASSUME RootAssumption == Root \notin Blocks

Succ(g, b) == {g[b][i] : i \in DOMAIN g[b]}
Successors(g) == [b \in Blocks |-> Succ(g, b)]

(* The least set that holds S and, with a node, what next gives for it.    *)
Closed(T, next) == \A b \in T : next[b] \subseteq T
From(S, next) ==
  {b \in DOMAIN next : \A T \in SUBSET DOMAIN next : S \subseteq T /\ Closed(T, next) => b \in T}

-----------------------------------------------------------------------------
(* LLVM's analyses. *)

Without(g, b) == [a \in Blocks |-> Succ(g, a) \ {b}]
Exits(g) == {b \in Blocks : g[b] = <<>>}

(* b is on every way from a to an exit: the reflexive post-dominators of a.*)
PostDominators(g, a) ==
  {b \in Blocks : a = b \/ From({a}, Without(g, b)) \cap Exits(g) = {}}

(* The reachable blocks that every way from the entry to b has a on.       *)
DominatedBy(g, entry, a) ==
  LET around == IF a = entry THEN {} ELSE From({entry}, Without(g, a))
  IN  From({entry}, Successors(g)) \ around

(* The blocks of the loop with header h, {} if h is no header.             *)
NaturalLoop(g, entry, h) ==
  LET dominated == DominatedBy(g, entry, h)
      latches == {b \in dominated : h \in Succ(g, b)}
  IN  {b \in dominated : /\ latches # {}
                         /\ b = h \/ From({b}, Without(g, h)) \cap latches # {}}

(* LoopInfo iterates over the loops that are in no other one.              *)
TopLevelHeader(g, entry, h) ==
  /\ NaturalLoop(g, entry, h) # {}
  /\ \A k \in Blocks \ {h} : h \notin NaturalLoop(g, entry, k)

-----------------------------------------------------------------------------
(* computeDependencies(). *)

(* findNearestCommonDominator(): the common post-dominator that all others *)
(* post-dominate, Root if there is none.                                   *)
NearestCommonDominator(pd, a, b) ==
  LET common == pd[a] \cap pd[b]
  IN  IF common = {} THEN Root ELSE CHOOSE c \in common : common \subseteq pd[c]

(* The blocks on the way up the tree from a block.                         *)
WayUp(pd, b) == IF b = Root THEN {} ELSE pd[b]

(* Mutant: a block that decides about itself is not noted. *)
DependsOnEdgeNoLoops(pd, a, b) ==
  LET l == NearestCommonDominator(pd, a, b)
  IN  IF a = b \/ b \notin pd[a] THEN pd[b] \ WayUp(pd, l) ELSE {}

(* The blocks that the edge from a to b makes dependent on a.              *)
DependsOnEdge(pd, a, b) ==
  LET l == NearestCommonDominator(pd, a, b)
  IN  IF a = b \/ b \notin pd[a]
      THEN (IF l = a THEN {a} ELSE {}) \cup (pd[b] \ WayUp(pd, l))
      ELSE {}

(* The parents of every node: the blocks it depends on, and the root for   *)
(* the post-dominators of the entry.                                       *)
ParentsIn(g, entry, pd) ==
  [n \in Blocks \cup {Root} |->
     IF n = Root THEN {}
     ELSE {a \in Blocks : \E b \in Succ(g, a) : n \in DependsOnEdge(pd, a, b)}
          \cup (IF n \in pd[entry] THEN {Root} ELSE {})]

(* Control dependence as it is commonly defined: one way out of a leads to *)
(* n for certain, another may avoid it.                                    *)
ControlDependent(g, pd, n, a) ==
  /\ \E b \in Succ(g, a) : n \in pd[b]
  /\ n = a \/ n \notin pd[a]
=============================================================================
