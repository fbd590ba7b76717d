---------------------------- MODULE FSMExtractor ----------------------------
(***************************************************************************)
(* The pass that extracts a state machine from a loop                      *)
(* (lib/FSMExtractor/FSMExtractor.cpp).  collectStoreAndStore() pairs each *)
(* store to a struct field with the loads of the field that decide, in the *)
(* same iteration, whether it is executed, and then asks for each pair     *)
(* which side of the load's branch leads to the store.                     *)
(*                                                                         *)
(* influences() (lib/CFG/CFG.cpp) and findAPath() search with a worklist;  *)
(* their order is that of addresses, so any node may be next.  Terminators *)
(* are branches or returns, and each load is compared once.                *)
(***************************************************************************)
EXTENDS ControlDependence, FiniteSets

CONSTANTS
  Entry,      \* the function's entry block
  Graphs,     \* the control flow graphs looked at
  Loads,      \* load instructions of struct fields in the loop
  Stores,     \* store instructions of struct fields in the loop
  Fields,     \* fields: a struct type and an offset
  StateFields \* those of an integer type of at most 32 bits

ASSUME ProgramAssumption ==
  /\ IsFiniteSet(Blocks) /\ Entry \in Blocks
  /\ Graphs \subseteq [Blocks -> Seq(Blocks)]
  /\ StateFields \subseteq Fields
  /\ Loads \cap Stores = {}

(* A block ends in a return or a branch.  The post-dominator tree has every*)
(* block: none is in a loop that has no end.                               *)
ASSUME GraphsAssumption ==
  \A g \in Graphs : \A b \in Blocks :
    Len(g[b]) <= 2 /\ From({b}, Successors(g)) \cap Exits(g) # {}

VARIABLES
  graph, header, loop, \* the function and the loop
  block, field,        \* where the loads and stores are, and what they access
  pdt,                 \* the post-dominator tree: each block's post-dominators
  parents,             \* the control dependence graph
  pc,
  todo,                \* pairs not looked at yet
  pair,                \* the pair that is looked at
  from,                \* findAPath(): where the search started
  work,                \* the worklist of influences() or findAPath()
  seen,                \* its setProcessed or visitedBB
  loadStorePairMap,    \* the pairs found
  direction            \* of each pair found: Yes, Not, or still empty

program == <<graph, header, loop, block, field, pdt>>
search == <<from, work, seen>>
vars == <<program, parents, pc, todo, pair, search, loadStorePairMap, direction>>

Pairs == Loads \X Stores
LoadBB(p) == block[p[1]]
StoreBB(p) == block[p[2]]

Init ==
  /\ graph \in Graphs
  /\ pdt = [b \in Blocks |-> PostDominators(graph, b)]
  /\ header \in {h \in Blocks : TopLevelHeader(graph, Entry, h)}
  /\ loop = NaturalLoop(graph, Entry, header)
  /\ block \in [Loads \cup Stores -> loop]
  /\ field \in [Loads \cup Stores -> Fields]
  /\ parents = [n \in Blocks \cup {Root} |-> {}]
  /\ pc = "dependences" /\ todo = Pairs /\ pair = <<>>
  /\ from = header /\ work = {} /\ seen = {}
  /\ loadStorePairMap = {} /\ direction = [p \in Pairs |-> ""]

ComputeDependencies ==
  /\ pc = "dependences" /\ pc' = "pairs"
  /\ parents' = ParentsIn(graph, Entry, pdt)
  /\ UNCHANGED <<program, todo, pair, search, loadStorePairMap, direction>>

(* The next pair that accesses one field; influences() starts from the     *)
(* parents of the store's node.                                            *)
TakePair ==
  /\ pc = "pairs"
  /\ \E p \in todo :
       /\ pair' = p /\ todo' = todo \ {p}
       /\ IF field[p[1]] = field[p[2]]
          THEN /\ pc' = "influences"
               /\ work' = parents[StoreBB(p)] /\ seen' = parents[StoreBB(p)]
          ELSE UNCHANGED <<pc, work, seen>>
  /\ UNCHANGED <<program, parents, from, loadStorePairMap, direction>>

(* Mutant: the parents that were seen before are queued again. *)
NewParentsAll(n) == parents[n]

(* Mutant: parents of parents are not looked at. *)
NewParentsNone(n) == {}

NewParents(n) == parents[n] \ seen

(* influences(): one round of its loop. *)
Influences ==
  /\ pc = "influences"
  /\ \E n \in work :
       /\ n # LoadBB(pair)
       /\ work' = (work \ {n}) \cup NewParents(n) /\ seen' = seen \cup parents[n]
  /\ UNCHANGED <<program, parents, pc, todo, pair, from, loadStorePairMap, direction>>

(* What findAPath() goes on to: the loop's blocks but the header.          *)
InIteration == [b \in Blocks |-> Succ(graph, b) \cap (loop \ {header})]

(* findAPath() starts at a: the block itself is not looked at.             *)
StartPath(a) == from' = a /\ work' = InIteration[a] /\ seen' = InIteration[a]

(* The pair is dropped, or findAPath() is called.                          *)
NotInfluenced ==
  /\ pc = "influences" /\ work = {} /\ pc' = "pairs"
  /\ UNCHANGED <<program, parents, todo, pair, search, loadStorePairMap, direction>>

Influenced ==
  /\ pc = "influences" /\ LoadBB(pair) \in work
  /\ IF field[pair[1]] \in StateFields
     THEN pc' = "path" /\ StartPath(LoadBB(pair))
     ELSE pc' = "pairs" /\ UNCHANGED search
  /\ UNCHANGED <<program, parents, todo, pair, loadStorePairMap, direction>>

(* The three calls of findAPath(): for the pair, and from the targets of   *)
(* the load's branch.                                                      *)
Calls == {"path", "true", "false"}
TrueBB == graph[LoadBB(pair)][1]

(* Mutant: the true target twice. *)
FalseBBFirst == graph[LoadBB(pair)][1]

FalseBB == graph[LoadBB(pair)][2]

(* One round of findAPath(); it has found nothing among those it has seen. *)
FindAPath ==
  /\ pc \in Calls /\ StoreBB(pair) \notin seen
  /\ \E b \in work : /\ work' = (work \ {b}) \cup (InIteration[b] \ seen)
                     /\ seen' = seen \cup InIteration[b]
  /\ UNCHANGED <<program, parents, pc, todo, pair, from, loadStorePairMap, direction>>

PathFound ==
  /\ pc \in Calls /\ StoreBB(pair) \in seen
  /\ CASE pc = "path"  -> /\ loadStorePairMap' = loadStorePairMap \cup {pair}
                          /\ pc' = "pairs" /\ UNCHANGED direction
       [] pc = "true"  -> /\ direction' = [direction EXCEPT ![pair] = "Yes"]
                          /\ pc' = "conditions" /\ UNCHANGED loadStorePairMap
       [] pc = "false" -> /\ direction' = [direction EXCEPT ![pair] = "Not"]
                          /\ pc' = "conditions" /\ UNCHANGED loadStorePairMap
  /\ UNCHANGED <<program, parents, todo, pair, search>>

NoPath ==
  /\ pc \in Calls /\ StoreBB(pair) \notin seen /\ work = {}
  /\ CASE pc = "path"  -> pc' = "pairs" /\ UNCHANGED search
       [] pc = "true"  -> pc' = "false" /\ StartPath(FalseBB)
       [] pc = "false" -> pc' = "conditions" /\ UNCHANGED search
  /\ UNCHANGED <<program, parents, todo, pair, loadStorePairMap, direction>>

(* All pairs are found; their conditions follow.                           *)
AllPaired ==
  /\ pc = "pairs" /\ todo = {} /\ pc' = "conditions"
  /\ todo' = loadStorePairMap
  /\ UNCHANGED <<program, parents, pair, search, loadStorePairMap, direction>>

TakeCondition ==
  /\ pc = "conditions"
  /\ \E p \in todo :
       /\ pair' = p /\ todo' = todo \ {p}
       /\ pc' = "true" /\ StartPath(graph[LoadBB(p)][1])
  /\ UNCHANGED <<program, parents, loadStorePairMap, direction>>

Printed ==
  /\ pc = "conditions" /\ todo = {} /\ pc' = "done"
  /\ UNCHANGED <<program, parents, todo, pair, search, loadStorePairMap, direction>>

Done == pc = "done" /\ UNCHANGED vars

Step ==
  \/ ComputeDependencies
  \/ TakePair \/ Influences \/ NotInfluenced \/ Influenced
  \/ FindAPath \/ PathFound \/ NoPath
  \/ AllPaired \/ TakeCondition \/ Printed

Next == Step \/ Done

Spec == Init /\ [][Next]_vars

(* The pass is one thread that runs to its end. *)
FairSpec == Spec /\ WF_vars(Step)

-----------------------------------------------------------------------------
(* Properties *)

(* Where the pairs are being found, and where their conditions are.        *)
Pairing == {"pairs", "influences", "path"}
Printing == {"conditions", "true", "false", "done"}

Types ==
  /\ graph \in [Blocks -> Seq(Blocks)] /\ header \in Blocks /\ loop \subseteq Blocks
  /\ block \in [Loads \cup Stores -> Blocks]
  /\ field \in [Loads \cup Stores -> Fields]
  /\ pdt \in [Blocks -> SUBSET Blocks]
  /\ parents \in [Blocks \cup {Root} -> SUBSET (Blocks \cup {Root})]
  /\ pc \in {"dependences"} \cup Pairing \cup Printing
  /\ todo \subseteq Pairs /\ pair \in Pairs \cup {<<>>}
  /\ from \in Blocks
  /\ work \subseteq Blocks \cup {Root} /\ seen \subseteq Blocks \cup {Root}
  /\ loadStorePairMap \subseteq Pairs
  /\ direction \in [Pairs -> {"Yes", "Not", ""}]

(* Every variable has its type; findAPath() visits the blocks of one       *)
(* iteration: it never leaves the loop nor comes back to its header.       *)
TypeOK == Types /\ (pc \in Calls => seen \subseteq loop \ {header})

(* computeDependencies() walks the post-dominator tree from the two ends of*)
(* an edge and finds exactly the control dependences, those of a block on  *)
(* itself in a loop included.                                              *)
DependencesRight ==
  pc = "pairs" /\ todo = Pairs =>
    \A n, a \in Blocks : a \in parents[n] <=> ControlDependent(graph, pdt, n, a)

(* The load's block decides, directly or through other blocks, whether the *)
(* store's is reached; and the store follows in the same iteration.        *)
Decides(p) == LoadBB(p) \in From(parents[StoreBB(p)], parents)
Follows(b, p) == StoreBB(p) \in From(InIteration[b], InIteration)

Expected ==
  {p \in Pairs : /\ field[p[1]] = field[p[2]] /\ field[p[1]] \in StateFields
                 /\ Decides(p) /\ Follows(LoadBB(p), p)}

(* Whatever the order of the worklists, the pairs found are those of a load*)
(* and a later store of the same state field that the load's block decides *)
(* about: influences() and findAPath() neither miss one nor make one up.   *)
PairsFound == pc \in Printing => loadStorePairMap = Expected

(* The load's block ends in a branch with two targets: getSuccessor(1) is  *)
(* never asked of one that has a single target.                            *)
BranchHasTwoTargets == pc \in {"true", "false"} => Len(graph[LoadBB(pair)]) = 2

(* The store is executed in an iteration that goes on at b: in b itself or *)
(* in a block that follows.  At the header the next iteration begins.      *)
LeadsTo(b, p) == b # header /\ StoreBB(p) \in From({b}, InIteration)

(* The side printed with a condition leads to the store, and it is the     *)
(* true one if that does.  Two cases are not found by findAPath(), which   *)
(* looks at the successors only: a store in the branch's target itself is  *)
(* found on the other side, or on none; and a branch back to the header is *)
(* followed into the next iteration.                                       *)
DirectionsLead ==
  pc = "done" => \A p \in loadStorePairMap :
    LET yes == graph[LoadBB(p)][1]
        no  == graph[LoadBB(p)][2]
    IN  /\ direction[p] = "Yes" => LeadsTo(yes, p) \/ yes = header
        /\ direction[p] = "Not" => /\ LeadsTo(no, p) \/ no = header
                                   /\ LeadsTo(yes, p) => StoreBB(p) = yes
        /\ direction[p] = "" => StoreBB(p) \in {yes, no}

(* Cycles of dependences and of the loop keep no search from ending.       *)
Ends == <>(pc = "done")
=============================================================================
