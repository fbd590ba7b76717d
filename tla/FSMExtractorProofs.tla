------------------------- MODULE FSMExtractorProofs -------------------------
(***************************************************************************)
(* Proofs about FSMExtractor, for any function, loop, loads and stores.    *)
(* Both worklists compute the least set that holds their start and is      *)
(* closed under their successor relation (From); the inductive invariant   *)
(* says how far a search has come.                                         *)
(***************************************************************************)
EXTENDS FSMExtractor, FiniteSetTheorems, TLAPS

-----------------------------------------------------------------------------
(* From. *)

LEMMA FromHolds ==
  ASSUME NEW N, NEW next \in [N -> SUBSET N], NEW S \in SUBSET N
  PROVE  S \subseteq From(S, next) /\ From(S, next) \subseteq N
BY DEF From

LEMMA FromClosed ==
  ASSUME NEW N, NEW next \in [N -> SUBSET N], NEW S \in SUBSET N,
         NEW b \in From(S, next)
  PROVE  next[b] \subseteq From(S, next)
BY DEF From, Closed

LEMMA FromLeast ==
  ASSUME NEW N, NEW next \in [N -> SUBSET N], NEW S \in SUBSET N,
         NEW T \in SUBSET N, S \subseteq T, \A b \in T : next[b] \subseteq T
  PROVE  From(S, next) \subseteq T
BY DEF From, Closed

(* How far a search from S has come. *)
Searched(S, next) ==
  /\ S \subseteq seen /\ work \subseteq seen /\ seen \subseteq From(S, next)
  /\ \A n \in seen \ work : next[n] \subseteq seen

(* A search that has nothing left to do has seen all there is.             *)
LEMMA SearchEnds ==
  ASSUME NEW N, NEW next \in [N -> SUBSET N], NEW S \in SUBSET N,
         Searched(S, next), work = {}
  PROVE  seen = From(S, next)
<1>1. seen \in SUBSET N
  BY FromHolds DEF Searched
<1>2. From(S, next) \subseteq seen
  BY <1>1, FromLeast DEF Searched
<1> QED
  BY <1>2 DEF Searched

LEMMA SearchStarts ==
  ASSUME NEW N, NEW next \in [N -> SUBSET N], NEW S \in SUBSET N,
         work' = S, seen' = S
  PROVE  /\ S \subseteq seen' /\ work' \subseteq seen' /\ seen' \subseteq From(S, next)
         /\ \A n \in seen' \ work' : next[n] \subseteq seen'
BY FromHolds

LEMMA SearchGoesOn ==
  ASSUME NEW N, NEW next \in [N -> SUBSET N], NEW S \in SUBSET N,
         Searched(S, next), NEW n \in work,
         work' = (work \ {n}) \cup (next[n] \ seen), seen' = seen \cup next[n]
  PROVE  /\ S \subseteq seen' /\ work' \subseteq seen' /\ seen' \subseteq From(S, next)
         /\ \A m \in seen' \ work' : next[m] \subseteq seen'
<1>1. n \in From(S, next)
  BY DEF Searched
<1>2. next[n] \subseteq From(S, next)
  BY <1>1, FromClosed
<1> QED
  BY <1>2 DEF Searched

-----------------------------------------------------------------------------
(* A block that others depend on has two targets.                          *)

LEMMA SingleElement ==
  ASSUME NEW X, NEW s \in Seq(X), Len(s) = 1
  PROVE  DOMAIN s = {1} /\ s[1] \in X /\ s # <<>>
OBVIOUS

LEMMA TwoElements ==
  ASSUME NEW X, NEW s \in Seq(X), Len(s) # 0, Len(s) # 1, Len(s) <= 2
  PROVE  Len(s) = 2 /\ s[1] \in X /\ s[2] \in X
<1>1. Len(s) \in Nat
  OBVIOUS
<1>2. Len(s) = 2
  <2>1. \A n \in Nat : n # 0 /\ n # 1 /\ n <= 2 => n = 2
    OBVIOUS
  <2> QED
    BY <1>1, <2>1, Zenon
<1> QED
  BY <1>2

LEMMA OneTargetDecidesNothing ==
  ASSUME NEW g \in Graphs, NEW a \in Blocks, NEW b \in Succ(g, a), Len(g[a]) = 1,
         NEW pd, pd = [c \in Blocks |-> PostDominators(g, c)]
  PROVE  a # b /\ b \in pd[a]
<1>1. g \in [Blocks -> Seq(Blocks)] /\ g[a] \in Seq(Blocks)
  BY ProgramAssumption
<1>2. Succ(g, a) = {b} /\ b \in Blocks /\ g[a] # <<>>
  <2>1. DOMAIN g[a] = {1} /\ g[a][1] \in Blocks /\ g[a] # <<>>
    BY <1>1, SingleElement
  <2> QED
    BY <2>1 DEF Succ
<1>3. a \notin Exits(g)
  BY <1>2 DEF Exits
<1>4. a # b
  <2>1. SUFFICES ASSUME a = b PROVE FALSE
    OBVIOUS
  <2>2. Successors(g) \in [Blocks -> SUBSET Blocks]
    BY <1>1 DEF Successors, Succ
  <2>3. From({a}, Successors(g)) \subseteq {a}
    <3>1. \A c \in {a} : Successors(g)[c] \subseteq {a}
      BY <1>2, <2>1 DEF Successors
    <3> QED
      BY <2>2, <3>1, FromLeast
  <2> QED
    BY <1>3, <2>3, GraphsAssumption
<1>5. b \in PostDominators(g, a)
  <2>1. Without(g, b) \in [Blocks -> SUBSET Blocks]
    BY <1>1 DEF Without, Succ
  <2>2. \A c \in {a} : Without(g, b)[c] \subseteq {a}
    BY <1>2 DEF Without
  <2>3. From({a}, Without(g, b)) \subseteq {a}
    BY <2>1, <2>2, FromLeast
  <2> QED
    BY <1>2, <1>3, <2>3 DEF PostDominators
<1> QED
  BY <1>4, <1>5

LEMMA DecidersBranch ==
  ASSUME NEW g \in Graphs, NEW a \in Blocks, NEW n \in Blocks \cup {Root},
         NEW pd, pd = [c \in Blocks |-> PostDominators(g, c)],
         a \in ParentsIn(g, Entry, pd)[n]
  PROVE  Len(g[a]) = 2 /\ g[a][1] \in Blocks /\ g[a][2] \in Blocks
<1>1. g[a] \in Seq(Blocks)
  BY ProgramAssumption
<1>2. n # Root /\ a # Root
  BY RootAssumption DEF ParentsIn
<1>3. PICK b \in Succ(g, a) : n \in DependsOnEdge(pd, a, b)
  BY <1>2 DEF ParentsIn
<1>4. a = b \/ b \notin pd[a]
  BY <1>3 DEF DependsOnEdge
<1>5. Len(g[a]) # 1
  BY <1>3, <1>4, OneTargetDecidesNothing
<1>6. Len(g[a]) # 0
  BY <1>1, <1>3 DEF Succ
<1>7. Len(g[a]) <= 2
  BY GraphsAssumption
<1> QED
  BY <1>1, <1>5, <1>6, <1>7, TwoElements

-----------------------------------------------------------------------------
(* Post-dominance is a linear order on what post-dominates a block.        *)

LEMMA WithoutTyped ==
  ASSUME NEW g \in Graphs, NEW c \in Blocks
  PROVE  /\ Without(g, c) \in [Blocks -> SUBSET Blocks]
         /\ \A b \in Blocks : Without(g, c)[b] = Succ(g, b) \ {c}
<1>1. g \in [Blocks -> Seq(Blocks)]
  BY ProgramAssumption
<1>2. \A b \in Blocks : Succ(g, b) \subseteq Blocks
  BY <1>1 DEF Succ
<1> QED
  BY <1>2 DEF Without

(* No set of blocks without an exit is closed under the branches.          *)
LEMMA NoEscape ==
  ASSUME NEW g \in Graphs, NEW T \in SUBSET Blocks, NEW b \in T,
         \A c \in T : Succ(g, c) \subseteq T
  PROVE  T \cap Exits(g) # {}
<1>1. g \in [Blocks -> Seq(Blocks)]
  BY ProgramAssumption
<1>2. Successors(g) \in [Blocks -> SUBSET Blocks]
  BY <1>1 DEF Successors, Succ
<1>3. \A c \in T : Successors(g)[c] \subseteq T
  BY DEF Successors
<1>4. From({b}, Successors(g)) \subseteq T
  BY <1>2, <1>3, FromLeast
<1> QED
  BY <1>4, GraphsAssumption

(* What is reached from b around c, where c post-dominates b.              *)
Around(g, b, c) == From({b}, Without(g, c))

LEMMA AroundIsTrapped ==
  ASSUME NEW g \in Graphs, NEW b \in Blocks, NEW c \in PostDominators(g, b), b # c
  PROVE  /\ b \in Around(g, b, c) /\ Around(g, b, c) \subseteq Blocks
         /\ Around(g, b, c) \cap Exits(g) = {}
         /\ \A x \in Around(g, b, c) : Succ(g, x) \ {c} \subseteq Around(g, b, c)
<1>1. c \in Blocks /\ Around(g, b, c) \cap Exits(g) = {}
  BY DEF PostDominators, Around
<1>2. /\ Without(g, c) \in [Blocks -> SUBSET Blocks]
      /\ \A x \in Blocks : Without(g, c)[x] = Succ(g, x) \ {c}
  BY <1>1, WithoutTyped
<1>3. {b} \subseteq Around(g, b, c) /\ Around(g, b, c) \subseteq Blocks
  BY <1>2, FromHolds DEF Around
<1>4. \A x \in Around(g, b, c) : Without(g, c)[x] \subseteq Around(g, b, c)
  BY <1>2, FromClosed DEF Around
<1> QED
  BY <1>1, <1>2, <1>3, <1>4

(* A set of blocks without exits that holds b and is left through c only.  *)
LEMMA TrapsPostDominate ==
  ASSUME NEW g \in Graphs, NEW c \in Blocks, NEW T \in SUBSET Blocks, NEW b \in T,
         T \cap Exits(g) = {}, \A x \in T : Succ(g, x) \ {c} \subseteq T
  PROVE  c \in PostDominators(g, b)
<1>1. /\ Without(g, c) \in [Blocks -> SUBSET Blocks]
      /\ \A x \in Blocks : Without(g, c)[x] = Succ(g, x) \ {c}
  BY WithoutTyped
<1>2. \A x \in T : Without(g, c)[x] \subseteq T
  BY <1>1
<1>3. From({b}, Without(g, c)) \subseteq T
  BY <1>1, <1>2, FromLeast
<1> QED
  BY <1>3 DEF PostDominators

LEMMA PostDominatorsTyped ==
  ASSUME NEW g, NEW b \in Blocks
  PROVE  b \in PostDominators(g, b) /\ PostDominators(g, b) \subseteq Blocks
BY DEF PostDominators

LEMMA PostDominatesBack ==
  ASSUME NEW g \in Graphs, NEW c \in Blocks, NEW d \in Blocks,
         c \in PostDominators(g, d), d \in PostDominators(g, c)
  PROVE  c = d
<1>1. SUFFICES ASSUME c # d PROVE FALSE
  OBVIOUS
<1> DEFINE T == Around(g, c, d) \cup Around(g, d, c)
<1>2. c \in T /\ d \in T /\ T \subseteq Blocks /\ T \cap Exits(g) = {}
  BY <1>1, AroundIsTrapped
<1>3. \A x \in T : Succ(g, x) \subseteq T
  BY <1>1, AroundIsTrapped
<1> QED
  BY <1>2, <1>3, NoEscape

LEMMA PostDominatesOn ==
  ASSUME NEW g \in Graphs, NEW b \in Blocks, NEW c \in PostDominators(g, b)
  PROVE  PostDominators(g, c) \subseteq PostDominators(g, b)
<1>1. SUFFICES ASSUME NEW d \in PostDominators(g, c), b # c, c # d
               PROVE  d \in PostDominators(g, b)
  OBVIOUS
<1>2. c \in Blocks /\ d \in Blocks
  BY PostDominatorsTyped, <1>1 DEF PostDominators
<1> DEFINE T == Around(g, b, c) \cup Around(g, c, d)
<1>3. b \in T /\ T \subseteq Blocks /\ T \cap Exits(g) = {} /\ c \in Around(g, c, d)
  BY <1>1, <1>2, AroundIsTrapped
<1>4. \A x \in T : Succ(g, x) \ {d} \subseteq T
  BY <1>1, <1>2, <1>3, AroundIsTrapped
<1> QED
  BY <1>2, <1>3, <1>4, TrapsPostDominate

LEMMA PostDominatorsInLine ==
  ASSUME NEW g \in Graphs, NEW b \in Blocks,
         NEW c \in PostDominators(g, b), NEW d \in PostDominators(g, b)
  PROVE  c \in PostDominators(g, d) \/ d \in PostDominators(g, c)
<1>1. SUFFICES ASSUME c \notin PostDominators(g, d), d \notin PostDominators(g, c)
               PROVE  FALSE
  OBVIOUS
<1>2. c \in Blocks /\ d \in Blocks
  BY DEF PostDominators
<1>3. b # c /\ b # d /\ c # d
  BY <1>1, <1>2, PostDominatorsTyped
<1>4. PICK A \in SUBSET Blocks :
        b \in A /\ A \cap Exits(g) = {} /\ \A x \in A : Succ(g, x) \ {c} \subseteq A
  BY <1>3, AroundIsTrapped
<1>5. PICK B \in SUBSET Blocks :
        b \in B /\ B \cap Exits(g) = {} /\ \A x \in B : Succ(g, x) \ {d} \subseteq B
  BY <1>3, AroundIsTrapped
<1>6. d \notin A
  BY <1>1, <1>2, <1>4, TrapsPostDominate
<1>7. c \notin B
  BY <1>1, <1>2, <1>5, TrapsPostDominate
<1> DEFINE T == A \cap B
<1>8. \A x \in T : Succ(g, x) \subseteq T
  BY <1>3, <1>4, <1>5, <1>6, <1>7
<1>9. T \in SUBSET Blocks /\ b \in T /\ T \cap Exits(g) = {}
  BY <1>4, <1>5
<1> HIDE DEF T
<1> QED
  BY <1>8, <1>9, NoEscape

(* The post-dominator tree.                                                *)
Tree(g) == [c \in Blocks |-> PostDominators(g, c)]

(* Of the common post-dominators of two blocks one is post-dominated by    *)
(* all: take one that the fewest do not post-dominate.                     *)
LEMMA NearestIsCommon ==
  ASSUME NEW g \in Graphs, NEW a \in Blocks, NEW b \in Blocks,
         NEW pd, pd = Tree(g),
         NEW common, common = pd[a] \cap pd[b], common # {}
  PROVE  /\ NearestCommonDominator(pd, a, b) \in common
         /\ pd[NearestCommonDominator(pd, a, b)] = common
<1> USE DEF Tree
<1>1. common \subseteq Blocks /\ IsFiniteSet(common)
  <2>1. common \subseteq Blocks
    BY PostDominatorsTyped
  <2> QED
    BY <2>1, ProgramAssumption, FS_Subset
<1> DEFINE Left(c) == common \ pd[c]
           T == {Left(c) : c \in common}
<1>2. T \subseteq FiniteSubsetsOf(common) /\ T # {}
  <2>1. \A c \in common : Left(c) \in FiniteSubsetsOf(common)
    BY <1>1, FS_Subset DEF FiniteSubsetsOf
  <2>2. PICK c \in common : TRUE
    OBVIOUS
  <2>3. Left(c) \in T
    OBVIOUS
  <2> HIDE DEF Left
  <2> QED
    BY <2>1, <2>3
<1>3. PICK m \in T : \A y \in T : <<y, m>> \notin StrictSubsetOrdering(common)
  <2>1. IsWellFoundedOn(StrictSubsetOrdering(common), FiniteSubsetsOf(common))
    BY FS_StrictSubsetOrderingWellFounded
  <2> HIDE DEF T
  <2> QED
    BY <1>2, <2>1, WFMin
<1>4. PICK c \in common : m = Left(c)
  OBVIOUS
<1>5. common \subseteq pd[c]
  <2>1. SUFFICES ASSUME NEW x \in common, x \notin pd[c] PROVE FALSE
    OBVIOUS
  <2>2. c \in pd[x] /\ pd[c] \subseteq pd[x] /\ x \in pd[x]
    BY <1>1, <2>1, PostDominatorsInLine, PostDominatesOn, PostDominatorsTyped
  <2>3. Left(x) \subseteq Left(c) /\ Left(x) # Left(c)
    BY <2>1, <2>2
  <2>4. Left(x) \in T /\ Left(x) \in SUBSET common /\ Left(c) \in SUBSET common
    OBVIOUS
  <2>5. <<Left(x), Left(c)>> \in StrictSubsetOrdering(common)
    <3> HIDE DEF Left, T
    <3> QED
      BY <2>3, <2>4 DEF StrictSubsetOrdering
  <2> QED
    BY <1>3, <1>4, <2>4, <2>5
<1> DEFINE l == NearestCommonDominator(pd, a, b)
<1>6. l \in common /\ common \subseteq pd[l]
  BY <1>5 DEF NearestCommonDominator
<1>7. pd[l] \subseteq common
  BY <1>1, <1>6, PostDominatesOn
<1> QED
  BY <1>6, <1>7

(* What an edge makes dependent: what post-dominates its target and does   *)
(* not strictly post-dominate its source.                                  *)
LEMMA EdgeDependences ==
  ASSUME NEW g \in Graphs, NEW a \in Blocks, NEW b \in Blocks, NEW n \in Blocks,
         NEW pd, pd = Tree(g)
  PROVE  n \in DependsOnEdge(pd, a, b) <=> n \in pd[b] /\ (n = a \/ n \notin pd[a])
<1> DEFINE common == pd[a] \cap pd[b]
           l == NearestCommonDominator(pd, a, b)
<1>1. a \in pd[a] /\ b \in pd[b] /\ pd[a] \subseteq Blocks /\ pd[b] \subseteq Blocks
  BY PostDominatorsTyped DEF Tree
<1>2. CASE a # b /\ b \in pd[a]
  <2>1. pd[b] \subseteq pd[a]
    BY <1>2, PostDominatesOn DEF Tree
  <2>2. a \notin pd[b]
    BY <1>2, PostDominatesBack DEF Tree
  <2> QED
    BY <1>2, <2>1, <2>2 DEF DependsOnEdge
<1>3. CASE (a = b \/ b \notin pd[a]) /\ common = {}
  <2>1. l = Root /\ Root # a
    BY <1>3, RootAssumption DEF NearestCommonDominator
  <2>2. DependsOnEdge(pd, a, b) = pd[b]
    BY <1>3, <2>1 DEF DependsOnEdge, WayUp
  <2> QED
    BY <1>1, <1>3, <2>2
<1>4. CASE (a = b \/ b \notin pd[a]) /\ common # {}
  <2>1. l \in common /\ pd[l] = common
    <3>1. pd[a] \cap pd[b] # {}
      BY <1>4
    <3>2. \A S : S = pd[a] \cap pd[b] /\ S # {} =>
            NearestCommonDominator(pd, a, b) \in S /\ pd[NearestCommonDominator(pd, a, b)] = S
      BY NearestIsCommon
    <3> QED
      BY <3>1, <3>2
  <2>2. l # Root /\ WayUp(pd, l) = common
    BY <1>1, <2>1, RootAssumption DEF WayUp
  <2>3. l = a <=> a \in pd[b]
    <3>1. a \in pd[b] => l = a
      BY <1>1, <2>1, PostDominatesBack DEF Tree
    <3> QED
      BY <2>1, <3>1
  <2>4. DependsOnEdge(pd, a, b) = (IF l = a THEN {a} ELSE {}) \cup (pd[b] \ common)
    BY <1>4, <2>2 DEF DependsOnEdge
  <2> HIDE DEF l
  <2> QED
    BY <1>1, <2>3, <2>4
<1> QED
  BY <1>2, <1>3, <1>4

-----------------------------------------------------------------------------
(* The inductive invariant. *)

ProgramInv ==
  /\ Types /\ graph \in Graphs
  /\ pdt = [b \in Blocks |-> PostDominators(graph, b)]
  /\ pc # "dependences" => parents = ParentsIn(graph, Entry, pdt)

(* How far the search at hand is, and what the pair has shown before.      *)
SearchInv ==
  /\ pc \in {"influences"} \cup Calls => pair \in Pairs
  /\ pc = "influences" =>
       /\ Searched(parents[StoreBB(pair)], parents)
       /\ LoadBB(pair) \notin seen \ work
       /\ field[pair[1]] = field[pair[2]]
  /\ pc \in Calls => Searched(InIteration[from], InIteration)
  /\ pc = "path" =>
       /\ from = LoadBB(pair) /\ Decides(pair)
       /\ field[pair[1]] = field[pair[2]] /\ field[pair[1]] \in StateFields
  /\ pc = "true" => from = TrueBB
  /\ pc = "false" => from = FalseBB /\ ~Follows(TrueBB, pair)

(* Of the pairs looked at exactly the expected ones are found.             *)
MapInv ==
  /\ pc = "dependences" => todo = Pairs /\ loadStorePairMap = {}
  /\ pc \in Pairing =>
       /\ todo \cap loadStorePairMap = {}
       /\ pc # "pairs" => pair \notin todo \cup loadStorePairMap
       /\ \A p \in Pairs \ todo : \/ pc # "pairs" /\ p = pair
                                  \/ p \in loadStorePairMap <=> p \in Expected
  /\ pc \in Printing =>
       /\ loadStorePairMap = Expected /\ todo \subseteq loadStorePairMap
       /\ pc \in {"true", "false"} => pair \in loadStorePairMap \ todo
       /\ pc = "done" => todo = {}

(* The direction that findAPath() finds from the two targets.              *)
DirectionOf(p) ==
  LET targets == graph[LoadBB(p)]
  IN  IF Follows(targets[1], p) THEN "Yes"
      ELSE IF Follows(targets[2], p) THEN "Not" ELSE ""

(* Of the conditions looked at the direction is known, of others empty.    *)
DirectionInv ==
  \A p \in Pairs :
    direction[p] = IF \/ pc \notin Printing
                      \/ p \in todo \/ p \notin loadStorePairMap
                      \/ pc \in {"true", "false"} /\ p = pair
                   THEN "" ELSE DirectionOf(p)

IInv == ProgramInv /\ SearchInv /\ MapInv /\ DirectionInv

-----------------------------------------------------------------------------
(* What the successor relations of the searches are.                       *)

LEMMA ParentsTyped ==
  ASSUME NEW g, NEW pd
  PROVE  ParentsIn(g, Entry, pd)
           \in [Blocks \cup {Root} -> SUBSET (Blocks \cup {Root})]
BY DEF ParentsIn

LEMMA InIterationTyped ==
  ASSUME ProgramInv
  PROVE  InIteration \in [Blocks -> SUBSET Blocks]
BY DEF ProgramInv, Types, InIteration, Succ

LEMMA PairTyped ==
  ASSUME ProgramInv, NEW p \in Pairs
  PROVE  /\ LoadBB(p) \in Blocks /\ StoreBB(p) \in Blocks
         /\ p[1] \in Loads /\ p[2] \in Stores
BY DEF ProgramInv, Types, Pairs, LoadBB, StoreBB

(* The load of a pair that was found ends its block with two targets.      *)
LEMMA FoundBranches ==
  ASSUME ProgramInv, pc # "dependences", NEW p \in Pairs, Decides(p)
  PROVE  /\ Len(graph[LoadBB(p)]) = 2
         /\ graph[LoadBB(p)][1] \in Blocks /\ graph[LoadBB(p)][2] \in Blocks
<1> DEFINE N == Blocks \cup {Root}
           T == {a \in N : \E n \in N : a \in parents[n]}
<1>1. parents \in [N -> SUBSET N] /\ parents = ParentsIn(graph, Entry, pdt)
  BY DEF ProgramInv, Types
<1>2. LoadBB(p) \in Blocks /\ StoreBB(p) \in Blocks
  BY PairTyped
<1>3. From(parents[StoreBB(p)], parents) \subseteq T
  <2>1. parents[StoreBB(p)] \in SUBSET N /\ parents[StoreBB(p)] \subseteq T
    BY <1>1, <1>2
  <2>2. \A b \in T : parents[b] \subseteq T
    BY <1>1
  <2> HIDE DEF N, T
  <2>3. T \in SUBSET N
    BY DEF T
  <2> QED
    BY <1>1, <2>1, <2>2, <2>3, FromLeast
<1>4. PICK n \in N : LoadBB(p) \in parents[n]
  BY <1>3 DEF Decides
<1> QED
  BY <1>1, <1>2, <1>4, DecidersBranch DEF ProgramInv

(* The program and the dependences stay, and with them all that is asked.  *)
LEMMA SameProgram ==
  ASSUME UNCHANGED <<program, parents>>
  PROVE  /\ Expected' = Expected /\ InIteration' = InIteration
         /\ \A p \in Pairs : DirectionOf(p)' = DirectionOf(p)
BY DEF program, Expected, InIteration, DirectionOf, Decides, Follows, LoadBB, StoreBB, Pairs

LEMMA InitInv == Init => IInv
<1> SUFFICES ASSUME Init PROVE IInv
  OBVIOUS
<1>1. loop \subseteq Blocks
  BY DEF Init, NaturalLoop, DominatedBy, From, Successors
<1>2. Types
  <2>1. graph \in [Blocks -> Seq(Blocks)]
    BY ProgramAssumption DEF Init
  <2>2. pdt \in [Blocks -> SUBSET Blocks]
    BY DEF Init, PostDominators
  <2>3. block \in [Loads \cup Stores -> Blocks]
    BY <1>1 DEF Init
  <2> QED
    BY <1>1, <2>1, <2>2, <2>3 DEF Init, Types
<1> QED
  BY <1>2 DEF Init, IInv, ProgramInv, SearchInv, MapInv, DirectionInv, Calls, Pairing, Printing

-----------------------------------------------------------------------------
(* Every step keeps the invariant. *)

LEMMA ComputeDependenciesInv == IInv /\ ComputeDependencies => IInv'
<1> SUFFICES ASSUME IInv, ComputeDependencies PROVE IInv'
  OBVIOUS
<1> USE DEF IInv, ComputeDependencies, program, search
<1>1. ProgramInv'
  BY ParentsTyped DEF ProgramInv, Types, Pairing
<1>2. SearchInv'
  BY DEF SearchInv, Calls
<1>3. MapInv'
  BY DEF MapInv, Pairing, Printing, ProgramInv, Types
<1>4. DirectionInv'
  BY DEF DirectionInv, Pairing, Printing
<1> QED
  BY <1>1, <1>2, <1>3, <1>4

LEMMA TakePairInv == IInv /\ TakePair => IInv'
<1> SUFFICES ASSUME IInv, TakePair PROVE IInv'
  OBVIOUS
<1>1. PICK p \in todo :
        /\ pair' = p /\ todo' = todo \ {p}
        /\ IF field[p[1]] = field[p[2]]
           THEN /\ pc' = "influences"
                /\ work' = parents[StoreBB(p)] /\ seen' = parents[StoreBB(p)]
           ELSE UNCHANGED <<pc, work, seen>>
  BY DEF TakePair
<1>2. pc = "pairs" /\ UNCHANGED <<program, parents, from, loadStorePairMap, direction>>
  BY DEF TakePair
<1>3. p \in Pairs /\ p \notin loadStorePairMap
  BY <1>2 DEF IInv, ProgramInv, Types, MapInv, Pairing
<1>4. StoreBB(p) \in Blocks /\ LoadBB(p) \in Blocks
  BY <1>3, PairTyped DEF IInv
<1>5. parents \in [Blocks \cup {Root} -> SUBSET (Blocks \cup {Root})]
  BY DEF IInv, ProgramInv, Types
<1>6. ProgramInv'
  <2>1. /\ pc' \in {"pairs", "influences"} /\ todo' \subseteq Pairs /\ pair' \in Pairs
        /\ work' \subseteq Blocks \cup {Root} /\ seen' \subseteq Blocks \cup {Root}
    <3>1. /\ todo \subseteq Pairs /\ work \subseteq Blocks \cup {Root}
          /\ seen \subseteq Blocks \cup {Root}
      BY DEF IInv, ProgramInv, Types
    <3>2. parents[StoreBB(p)] \subseteq Blocks \cup {Root}
      BY <1>4, <1>5
    <3>3. CASE field[p[1]] = field[p[2]]
      BY <1>1, <1>3, <3>1, <3>2, <3>3
    <3>4. CASE field[p[1]] # field[p[2]]
      BY <1>1, <1>2, <1>3, <3>1, <3>4
    <3> QED
      BY <3>3, <3>4
  <2> QED
    BY <1>2, <2>1 DEF IInv, ProgramInv, Types, program, Pairing, Pairs
<1>7. SearchInv'
  <2>1. CASE field[p[1]] = field[p[2]]
    <3>1. /\ pc' = "influences" /\ pair' = p
          /\ work' = parents[StoreBB(p)] /\ seen' = parents[StoreBB(p)]
      BY <1>1, <2>1
    <3>2. Searched(parents[StoreBB(pair)], parents)'
      <4>1. parents[StoreBB(p)] \in SUBSET (Blocks \cup {Root})
        BY <1>4, <1>5
      <4>2. /\ parents[StoreBB(p)] \subseteq seen' /\ work' \subseteq seen'
            /\ seen' \subseteq From(parents[StoreBB(p)], parents)
            /\ \A n \in seen' \ work' : parents[n] \subseteq seen'
        BY <1>5, <3>1, <4>1, SearchStarts
      <4> QED
        BY <1>2, <3>1, <4>2 DEF Searched, StoreBB, program
    <3>3. (LoadBB(pair) \notin seen \ work)' /\ (field[pair[1]] = field[pair[2]])'
      BY <1>2, <2>1, <3>1 DEF program
    <3> QED
      BY <1>3, <3>1, <3>2, <3>3 DEF SearchInv, Calls, Pairs
  <2>2. CASE field[p[1]] # field[p[2]]
    BY <1>1, <1>2, <2>2 DEF SearchInv, Calls
  <2> QED
    BY <2>1, <2>2
<1>8. MapInv'
  <2>1. Expected' = Expected
    BY <1>2, SameProgram
  <2>2. CASE field[p[1]] = field[p[2]]
    BY <1>1, <1>2, <1>3, <2>1, <2>2 DEF IInv, MapInv, Pairing, Printing, Pairs
  <2>3. CASE field[p[1]] # field[p[2]]
    <3>1. p \notin Expected
      BY <2>3 DEF Expected
    <3> QED
      BY <1>1, <1>2, <1>3, <2>1, <2>3, <3>1 DEF IInv, MapInv, Pairing, Printing, Pairs
  <2> QED
    BY <2>2, <2>3
<1>9. DirectionInv'
  BY <1>1, <1>2 DEF IInv, DirectionInv, Printing, Pairs
<1> QED
  BY <1>6, <1>7, <1>8, <1>9 DEF IInv

LEMMA InfluencesInv == IInv /\ Influences => IInv'
<1> SUFFICES ASSUME IInv, Influences PROVE IInv'
  OBVIOUS
<1>1. PICK n \in work :
        /\ n # LoadBB(pair)
        /\ work' = (work \ {n}) \cup (parents[n] \ seen) /\ seen' = seen \cup parents[n]
  BY DEF Influences, NewParents
<1>2. /\ pc = "influences" /\ pc' = pc /\ pair' = pair /\ todo' = todo
      /\ UNCHANGED <<program, parents, from, loadStorePairMap, direction>>
  BY DEF Influences
<1>3. pair \in Pairs /\ Searched(parents[StoreBB(pair)], parents)
      /\ LoadBB(pair) \notin seen \ work
  BY <1>2 DEF IInv, SearchInv
<1>4. StoreBB(pair) \in Blocks /\ n \in Blocks \cup {Root}
  BY <1>3, PairTyped DEF IInv, ProgramInv, Types
<1>5. parents \in [Blocks \cup {Root} -> SUBSET (Blocks \cup {Root})]
  BY DEF IInv, ProgramInv, Types
<1>6. ProgramInv'
  BY <1>1, <1>2, <1>4, <1>5 DEF IInv, ProgramInv, Types, program, Pairs
<1>7. SearchInv'
  <2>1. parents[StoreBB(pair)] \in SUBSET (Blocks \cup {Root})
    BY <1>4, <1>5
  <2>2. /\ parents[StoreBB(pair)] \subseteq seen' /\ work' \subseteq seen'
        /\ seen' \subseteq From(parents[StoreBB(pair)], parents)
        /\ \A m \in seen' \ work' : parents[m] \subseteq seen'
    BY <1>1, <1>3, <1>5, <2>1, SearchGoesOn
  <2>3. Searched(parents[StoreBB(pair)], parents)'
    BY <1>2, <2>2 DEF Searched, StoreBB, program
  <2>4. LoadBB(pair)' = LoadBB(pair) /\ LoadBB(pair) \notin seen' \ work'
    <3>1. LoadBB(pair)' = LoadBB(pair)
      BY <1>2 DEF LoadBB, program
    <3>2. seen' \ work' \subseteq (seen \ work) \cup {n}
      BY <1>1
    <3> QED
      BY <1>1, <1>3, <3>1, <3>2
  <2> QED
    BY <1>2, <1>3, <2>3, <2>4 DEF IInv, SearchInv, Calls, Pairs, program
<1>8. MapInv'
  BY <1>2, SameProgram DEF IInv, MapInv, Pairing, Printing, Pairs
<1>9. DirectionInv'
  BY <1>2 DEF IInv, DirectionInv, Printing, Pairs
<1> QED
  BY <1>6, <1>7, <1>8, <1>9 DEF IInv

LEMMA NotInfluencedInv == IInv /\ NotInfluenced => IInv'
<1> SUFFICES ASSUME IInv, NotInfluenced PROVE IInv'
  OBVIOUS
<1>1. /\ pc = "influences" /\ pc' = "pairs" /\ work = {} /\ pair' = pair /\ todo' = todo
      /\ UNCHANGED <<program, parents, search, loadStorePairMap, direction>>
  BY DEF NotInfluenced
<1>2. ProgramInv'
  BY <1>1 DEF IInv, ProgramInv, Types, program, search, Pairing, Pairs
<1>3. SearchInv'
  BY <1>1 DEF SearchInv, Calls
<1>4. pair \notin Expected
  <2>1. pair \in Pairs /\ Searched(parents[StoreBB(pair)], parents)
        /\ LoadBB(pair) \notin seen
    BY <1>1 DEF IInv, SearchInv
  <2>2. parents \in [Blocks \cup {Root} -> SUBSET (Blocks \cup {Root})]
    BY DEF IInv, ProgramInv, Types
  <2>3. parents[StoreBB(pair)] \in SUBSET (Blocks \cup {Root})
    BY <2>1, <2>2, PairTyped DEF IInv
  <2>4. seen = From(parents[StoreBB(pair)], parents)
    BY <1>1, <2>1, <2>2, <2>3, SearchEnds
  <2> QED
    BY <2>1, <2>4 DEF Expected, Decides
<1>5. MapInv'
  BY <1>1, <1>4, SameProgram DEF IInv, MapInv, Pairing, Printing, Pairs
<1>6. DirectionInv'
  BY <1>1 DEF IInv, DirectionInv, Printing, Pairs
<1> QED
  BY <1>2, <1>3, <1>5, <1>6 DEF IInv

(* A call of findAPath() starts a search in the loop's iteration.          *)
LEMMA PathStarts ==
  ASSUME ProgramInv, NEW a \in Blocks, StartPath(a), UNCHANGED <<program, parents>>
  PROVE  /\ Searched(InIteration[from], InIteration)'
         /\ work' \subseteq Blocks /\ seen' \subseteq Blocks /\ from' = a
<1>1. InIteration \in [Blocks -> SUBSET Blocks] /\ InIteration[a] \in SUBSET Blocks
  BY InIterationTyped
<1>2. from' = a /\ work' = InIteration[a] /\ seen' = InIteration[a]
  BY DEF StartPath
<1>3. InIteration' = InIteration
  BY SameProgram
<1>4. /\ InIteration[a] \subseteq seen' /\ work' \subseteq seen'
      /\ seen' \subseteq From(InIteration[a], InIteration)
      /\ \A n \in seen' \ work' : InIteration[n] \subseteq seen'
  BY <1>1, <1>2, SearchStarts
<1> HIDE DEF InIteration
<1> QED
  BY <1>1, <1>2, <1>3, <1>4 DEF Searched

LEMMA InfluencedInv == IInv /\ Influenced => IInv'
<1> SUFFICES ASSUME IInv, Influenced PROVE IInv'
  OBVIOUS
<1>1. /\ pc = "influences" /\ LoadBB(pair) \in work /\ pair' = pair /\ todo' = todo
      /\ UNCHANGED <<program, parents, loadStorePairMap, direction>>
  BY DEF Influenced
<1>2. /\ pair \in Pairs /\ Searched(parents[StoreBB(pair)], parents)
      /\ field[pair[1]] = field[pair[2]]
  BY <1>1 DEF IInv, SearchInv
<1>3. Decides(pair)
  BY <1>1, <1>2 DEF Searched, Decides
<1>4. LoadBB(pair) \in Blocks
  BY <1>2, PairTyped DEF IInv
<1>5. CASE field[pair[1]] \in StateFields
  <2>1. pc' = "path" /\ StartPath(LoadBB(pair))
    BY <1>5 DEF Influenced
  <2>2. /\ Searched(InIteration[from], InIteration)'
        /\ work' \subseteq Blocks /\ seen' \subseteq Blocks /\ from' = LoadBB(pair)
    BY <1>1, <1>4, <2>1, PathStarts DEF IInv
  <2>3. ProgramInv'
    BY <1>1, <1>4, <2>1, <2>2 DEF IInv, ProgramInv, Types, program, Pairing, Pairs
  <2>4. SearchInv'
    <3>1. LoadBB(pair)' = LoadBB(pair) /\ Decides(pair)'
      BY <1>1, <1>3 DEF program, LoadBB, StoreBB, Decides
    <3> QED
      BY <1>1, <1>2, <1>5, <2>1, <2>2, <3>1 DEF SearchInv, Calls, program, Pairs
  <2>5. MapInv'
    BY <1>1, <2>1, SameProgram DEF IInv, MapInv, Pairing, Printing, Pairs
  <2>6. DirectionInv'
    BY <1>1, <2>1 DEF IInv, DirectionInv, Printing, Pairs
  <2> QED
    BY <2>3, <2>4, <2>5, <2>6 DEF IInv
<1>6. CASE field[pair[1]] \notin StateFields
  <2>1. pc' = "pairs" /\ UNCHANGED search
    BY <1>6 DEF Influenced
  <2>2. pair \notin Expected
    BY <1>6 DEF Expected
  <2>3. ProgramInv'
    BY <1>1, <2>1 DEF IInv, ProgramInv, Types, program, search, Pairing, Pairs
  <2>4. SearchInv'
    BY <2>1 DEF SearchInv, Calls
  <2>5. MapInv'
    BY <1>1, <2>1, <2>2, SameProgram DEF IInv, MapInv, Pairing, Printing, Pairs
  <2>6. DirectionInv'
    BY <1>1, <2>1 DEF IInv, DirectionInv, Printing, Pairs
  <2> QED
    BY <2>3, <2>4, <2>5, <2>6 DEF IInv
<1> QED
  BY <1>5, <1>6

LEMMA FindAPathInv == IInv /\ FindAPath => IInv'
<1> SUFFICES ASSUME IInv, FindAPath PROVE IInv'
  OBVIOUS
<1>1. PICK b \in work : /\ work' = (work \ {b}) \cup (InIteration[b] \ seen)
                        /\ seen' = seen \cup InIteration[b]
  BY DEF FindAPath
<1>2. /\ pc \in Calls /\ pc' = pc /\ pair' = pair /\ todo' = todo /\ from' = from
      /\ UNCHANGED <<program, parents, loadStorePairMap, direction>>
  BY DEF FindAPath
<1>3. pair \in Pairs /\ Searched(InIteration[from], InIteration)
  BY <1>2 DEF IInv, SearchInv
<1>4. InIteration \in [Blocks -> SUBSET Blocks] /\ InIteration' = InIteration
  BY <1>2, InIterationTyped, SameProgram DEF IInv
<1> HIDE DEF InIteration
<1>5. InIteration[from] \in SUBSET Blocks
  BY <1>4 DEF IInv, ProgramInv, Types
<1>6. /\ InIteration[from] \subseteq seen' /\ work' \subseteq seen'
      /\ seen' \subseteq From(InIteration[from], InIteration)
      /\ \A n \in seen' \ work' : InIteration[n] \subseteq seen'
  BY <1>1, <1>3, <1>4, <1>5, SearchGoesOn
<1>7. seen' \subseteq Blocks /\ work' \subseteq Blocks
  BY <1>4, <1>5, <1>6, FromHolds
<1>8. ProgramInv'
  BY <1>2, <1>7 DEF IInv, ProgramInv, Types, program, Pairs, Calls
<1>9. SearchInv'
  <2>1. Searched(InIteration[from], InIteration)'
    BY <1>2, <1>4, <1>6 DEF Searched
  <2>2. /\ LoadBB(pair)' = LoadBB(pair) /\ (Decides(pair) => Decides(pair)')
        /\ TrueBB' = TrueBB /\ FalseBB' = FalseBB
        /\ (~Follows(TrueBB, pair) => ~Follows(TrueBB, pair)')
    BY <1>2, <1>4 DEF program, LoadBB, StoreBB, Decides, TrueBB, FalseBB, Follows
  <2> QED
    BY <1>2, <1>3, <2>1, <2>2 DEF IInv, SearchInv, Calls, Pairs, program
<1>10. MapInv'
  BY <1>2, SameProgram DEF IInv, MapInv, Pairing, Printing, Pairs
<1>11. DirectionInv'
  BY <1>2, SameProgram DEF IInv, DirectionInv, Printing, Pairs
<1> QED
  BY <1>8, <1>9, <1>10, <1>11 DEF IInv

(* What the end of a search of findAPath() says.                           *)
LEMMA PathSaysFollows ==
  ASSUME IInv, pc \in Calls
  PROVE  /\ StoreBB(pair) \in seen => Follows(from, pair)
         /\ StoreBB(pair) \notin seen /\ work = {} => ~Follows(from, pair)
<1>1. Searched(InIteration[from], InIteration)
  BY DEF IInv, SearchInv
<1>2. InIteration \in [Blocks -> SUBSET Blocks]
  BY InIterationTyped DEF IInv
<1> HIDE DEF InIteration
<1>3. InIteration[from] \in SUBSET Blocks
  BY <1>2 DEF IInv, ProgramInv, Types
<1>4. StoreBB(pair) \in seen => Follows(from, pair)
  BY <1>1 DEF Searched, Follows
<1>5. work = {} => seen = From(InIteration[from], InIteration)
  BY <1>1, <1>2, <1>3, SearchEnds
<1> QED
  BY <1>4, <1>5 DEF Follows

LEMMA PathFoundInv == IInv /\ PathFound => IInv'
<1> SUFFICES ASSUME IInv, PathFound PROVE IInv'
  OBVIOUS
<1>1. /\ pc \in Calls /\ StoreBB(pair) \in seen /\ pair' = pair /\ todo' = todo
      /\ UNCHANGED <<program, parents, search>>
  BY DEF PathFound
<1>2. pair \in Pairs /\ Follows(from, pair)
  BY <1>1, PathSaysFollows DEF IInv, SearchInv
<1>3. CASE pc = "path"
  <2>1. /\ loadStorePairMap' = loadStorePairMap \cup {pair} /\ pc' = "pairs"
        /\ UNCHANGED direction
    BY <1>3 DEF PathFound
  <2>2. pair \in Expected
    BY <1>2, <1>3 DEF IInv, SearchInv, Expected
  <2>3. ProgramInv'
    BY <1>1, <1>2, <1>3, <2>1 DEF IInv, ProgramInv, Types, program, search, Pairing, Pairs
  <2>4. SearchInv'
    BY <2>1 DEF SearchInv, Calls
  <2>5. MapInv'
    BY <1>1, <1>3, <2>1, <2>2, SameProgram DEF IInv, MapInv, Pairing, Printing, Pairs
  <2>6. DirectionInv'
    BY <1>1, <1>3, <2>1 DEF IInv, DirectionInv, Printing, Pairs
  <2> QED
    BY <2>3, <2>4, <2>5, <2>6 DEF IInv
<1>4. ASSUME pc \in {"true", "false"},
             NEW d \in {"Yes", "Not"}, d = DirectionOf(pair),
             direction' = [direction EXCEPT ![pair] = d],
             pc' = "conditions", loadStorePairMap' = loadStorePairMap
      PROVE  IInv'
  <2>1. ProgramInv'
    BY <1>1, <1>2, <1>4 DEF IInv, ProgramInv, Types, program, search, Printing, Pairs
  <2>2. SearchInv'
    BY <1>4 DEF SearchInv, Calls
  <2>3. MapInv'
    BY <1>1, <1>4, SameProgram DEF IInv, MapInv, Pairing, Printing, Pairs
  <2>4. DirectionInv'
    <3>1. pair \in loadStorePairMap \ todo /\ direction \in [Pairs -> {"Yes", "Not", ""}]
      BY <1>4 DEF IInv, MapInv, Printing, ProgramInv, Types
    <3>2. Pairs' = Pairs /\ \A p \in Pairs : DirectionOf(p)' = DirectionOf(p)
      BY <1>1, SameProgram DEF Pairs
    <3> QED
      BY <1>1, <1>2, <1>4, <3>1, <3>2 DEF IInv, DirectionInv, Printing
  <2> QED
    BY <2>1, <2>2, <2>3, <2>4 DEF IInv
<1>5. CASE pc = "true"
  <2>1. DirectionOf(pair) = "Yes"
    BY <1>2, <1>5 DEF IInv, SearchInv, DirectionOf, TrueBB
  <2> QED
    BY <1>4, <1>5, <2>1 DEF PathFound
<1>6. CASE pc = "false"
  <2>1. DirectionOf(pair) = "Not"
    BY <1>2, <1>6 DEF IInv, SearchInv, DirectionOf, TrueBB, FalseBB
  <2> QED
    BY <1>4, <1>6, <2>1 DEF PathFound
<1> QED
  BY <1>1, <1>3, <1>5, <1>6 DEF Calls

LEMMA NoPathInv == IInv /\ NoPath => IInv'
<1> SUFFICES ASSUME IInv, NoPath PROVE IInv'
  OBVIOUS
<1>1. /\ pc \in Calls /\ pair' = pair /\ todo' = todo
      /\ UNCHANGED <<program, parents, loadStorePairMap, direction>>
  BY DEF NoPath
<1>2. pair \in Pairs /\ ~Follows(from, pair)
  BY PathSaysFollows DEF NoPath, IInv, SearchInv
<1>3. CASE pc = "path"
  <2>1. pc' = "pairs" /\ UNCHANGED search
    BY <1>3 DEF NoPath
  <2>2. pair \notin Expected
    BY <1>2, <1>3 DEF IInv, SearchInv, Expected
  <2>3. ProgramInv'
    BY <1>1, <1>3, <2>1 DEF IInv, ProgramInv, Types, program, search, Pairing, Pairs
  <2>4. SearchInv'
    BY <2>1 DEF SearchInv, Calls
  <2>5. MapInv'
    BY <1>1, <1>3, <2>1, <2>2, SameProgram DEF IInv, MapInv, Pairing, Printing, Pairs
  <2>6. DirectionInv'
    BY <1>1, <1>3, <2>1 DEF IInv, DirectionInv, Printing, Pairs
  <2> QED
    BY <2>3, <2>4, <2>5, <2>6 DEF IInv
<1>4. CASE pc = "true"
  <2>1. pc' = "false" /\ StartPath(FalseBB)
    BY <1>4 DEF NoPath
  <2>2. FalseBB \in Blocks
    <3>1. Decides(pair)
      BY <1>4 DEF IInv, MapInv, Printing, Expected
    <3> QED
      BY <1>2, <1>4, <3>1, FoundBranches DEF IInv, FalseBB
  <2>3. /\ Searched(InIteration[from], InIteration)'
        /\ work' \subseteq Blocks /\ seen' \subseteq Blocks /\ from' = FalseBB
    BY <1>1, <2>1, <2>2, PathStarts DEF IInv
  <2>4. ProgramInv'
    BY <1>1, <1>4, <2>1, <2>2, <2>3 DEF IInv, ProgramInv, Types, program, Printing, Pairs
  <2>5. SearchInv'
    <3>1. ~Follows(TrueBB, pair)
      BY <1>2, <1>4 DEF IInv, SearchInv
    <3>2. /\ TrueBB' = TrueBB /\ FalseBB' = FalseBB /\ ~Follows(TrueBB, pair)'
      BY <1>1, <3>1, SameProgram DEF program, LoadBB, StoreBB, TrueBB, FalseBB, Follows
    <3> QED
      BY <1>1, <1>2, <2>1, <2>3, <3>2 DEF SearchInv, Calls, Pairs
  <2>6. MapInv'
    BY <1>1, <1>4, <2>1, SameProgram DEF IInv, MapInv, Pairing, Printing, Pairs
  <2>7. DirectionInv'
    <3>1. Pairs' = Pairs /\ \A p \in Pairs : DirectionOf(p)' = DirectionOf(p)
      BY <1>1, SameProgram DEF Pairs
    <3> QED
      BY <1>1, <1>4, <2>1, <3>1 DEF IInv, DirectionInv, Printing
  <2> QED
    BY <2>4, <2>5, <2>6, <2>7 DEF IInv
<1>5. CASE pc = "false"
  <2>1. pc' = "conditions" /\ UNCHANGED search
    BY <1>5 DEF NoPath
  <2>2. DirectionOf(pair) = ""
    BY <1>2, <1>5 DEF IInv, SearchInv, DirectionOf, TrueBB, FalseBB
  <2>3. ProgramInv'
    BY <1>1, <1>5, <2>1 DEF IInv, ProgramInv, Types, program, search, Printing, Pairs
  <2>4. SearchInv'
    BY <2>1 DEF SearchInv, Calls
  <2>5. MapInv'
    BY <1>1, <1>5, <2>1, SameProgram DEF IInv, MapInv, Pairing, Printing, Pairs
  <2>6. DirectionInv'
    <3>1. Pairs' = Pairs /\ \A p \in Pairs : DirectionOf(p)' = DirectionOf(p)
      BY <1>1, SameProgram DEF Pairs
    <3> QED
      BY <1>1, <1>2, <1>5, <2>1, <2>2, <3>1 DEF IInv, DirectionInv, Printing
  <2> QED
    BY <2>3, <2>4, <2>5, <2>6 DEF IInv
<1> QED
  BY <1>1, <1>3, <1>4, <1>5 DEF Calls

LEMMA AllPairedInv == IInv /\ AllPaired => IInv'
<1> SUFFICES ASSUME IInv, AllPaired PROVE IInv'
  OBVIOUS
<1>1. /\ pc = "pairs" /\ todo = {} /\ pc' = "conditions" /\ todo' = loadStorePairMap
      /\ UNCHANGED <<program, parents, pair, search, loadStorePairMap, direction>>
  BY DEF AllPaired
<1>2. loadStorePairMap = Expected
  <2>1. loadStorePairMap \subseteq Pairs /\ Expected \subseteq Pairs
    BY DEF IInv, ProgramInv, Types, Expected
  <2> QED
    BY <1>1, <2>1 DEF IInv, MapInv, Pairing
<1>3. ProgramInv'
  BY <1>1 DEF IInv, ProgramInv, Types, program, search, Printing, Pairs
<1>4. SearchInv'
  BY <1>1 DEF SearchInv, Calls
<1>5. MapInv'
  BY <1>1, <1>2, SameProgram DEF MapInv, Pairing, Printing
<1>6. DirectionInv'
  BY <1>1 DEF IInv, DirectionInv, Printing, Pairs
<1> QED
  BY <1>3, <1>4, <1>5, <1>6 DEF IInv

LEMMA TakeConditionInv == IInv /\ TakeCondition => IInv'
<1> SUFFICES ASSUME IInv, TakeCondition PROVE IInv'
  OBVIOUS
<1>1. PICK p \in todo : /\ pair' = p /\ todo' = todo \ {p}
                        /\ pc' = "true" /\ StartPath(graph[LoadBB(p)][1])
  BY DEF TakeCondition
<1>2. pc = "conditions" /\ UNCHANGED <<program, parents, loadStorePairMap, direction>>
  BY DEF TakeCondition
<1>3. p \in Pairs /\ p \in loadStorePairMap /\ Decides(p)
  BY <1>2 DEF IInv, MapInv, Printing, Expected
<1>4. graph[LoadBB(p)][1] \in Blocks
  BY <1>2, <1>3, FoundBranches DEF IInv
<1>5. /\ Searched(InIteration[from], InIteration)'
      /\ work' \subseteq Blocks /\ seen' \subseteq Blocks /\ from' = graph[LoadBB(p)][1]
  BY <1>1, <1>2, <1>4, PathStarts DEF IInv
<1>6. ProgramInv'
  BY <1>1, <1>2, <1>3, <1>4, <1>5 DEF IInv, ProgramInv, Types, program, Printing, Pairs
<1>7. SearchInv'
  <2>1. TrueBB' = graph[LoadBB(p)][1]
    BY <1>1, <1>2 DEF TrueBB, LoadBB, program
  <2> QED
    BY <1>1, <1>3, <1>5, <2>1 DEF SearchInv, Calls, Pairs
<1>8. MapInv'
  BY <1>1, <1>2, <1>3, SameProgram DEF IInv, MapInv, Pairing, Printing
<1>9. DirectionInv'
  <2>1. Pairs' = Pairs /\ \A q \in Pairs : DirectionOf(q)' = DirectionOf(q)
    BY <1>2, SameProgram DEF Pairs
  <2> QED
    BY <1>1, <1>2, <1>3, <2>1 DEF IInv, DirectionInv, Printing
<1> QED
  BY <1>6, <1>7, <1>8, <1>9 DEF IInv

LEMMA PrintedInv == IInv /\ Printed => IInv'
<1> SUFFICES ASSUME IInv, Printed PROVE IInv'
  OBVIOUS
<1>1. /\ pc = "conditions" /\ todo = {} /\ pc' = "done" /\ todo' = todo
      /\ UNCHANGED <<program, parents, pair, search, loadStorePairMap, direction>>
  BY DEF Printed
<1>2. ProgramInv'
  BY <1>1 DEF IInv, ProgramInv, Types, program, search, Printing, Pairs
<1>3. SearchInv'
  BY <1>1 DEF SearchInv, Calls
<1>4. MapInv'
  BY <1>1, SameProgram DEF IInv, MapInv, Pairing, Printing
<1>5. DirectionInv'
  <2>1. Pairs' = Pairs /\ \A p \in Pairs : DirectionOf(p)' = DirectionOf(p)
    BY <1>1, SameProgram DEF Pairs
  <2> QED
    BY <1>1, <2>1 DEF IInv, DirectionInv, Printing
<1> QED
  BY <1>2, <1>3, <1>4, <1>5 DEF IInv

LEMMA StutterInv == IInv /\ UNCHANGED vars => IInv'
<1> SUFFICES ASSUME IInv, UNCHANGED vars PROVE IInv'
  OBVIOUS
<1> USE DEF vars, program, search
<1>1. ProgramInv'
  BY DEF IInv, ProgramInv, Types, Pairs
<1>2. SearchInv'
  <2>1. InIteration' = InIteration
    BY SameProgram
  <2>2. TrueBB' = TrueBB /\ FalseBB' = FalseBB /\ LoadBB(pair)' = LoadBB(pair)
    BY DEF TrueBB, FalseBB, LoadBB
  <2>3. /\ Decides(pair)' = Decides(pair)
        /\ Follows(TrueBB, pair)' = Follows(TrueBB, pair)
    BY <2>1, <2>2 DEF Decides, Follows, LoadBB, StoreBB
  <2>4. /\ Searched(InIteration[from], InIteration)' = Searched(InIteration[from], InIteration)
        /\ Searched(parents[StoreBB(pair)], parents)' = Searched(parents[StoreBB(pair)], parents)
    BY <2>1 DEF Searched, StoreBB
  <2> QED
    BY <2>2, <2>3, <2>4 DEF IInv, SearchInv, Pairs
<1>3. MapInv'
  BY SameProgram DEF IInv, MapInv, Pairs
<1>4. DirectionInv'
  <2>1. Pairs' = Pairs /\ \A p \in Pairs : DirectionOf(p)' = DirectionOf(p)
    BY SameProgram DEF Pairs
  <2> QED
    BY <2>1 DEF IInv, DirectionInv
<1> QED
  BY <1>1, <1>2, <1>3, <1>4 DEF IInv

LEMMA StepInv == IInv /\ [Next]_vars => IInv'
BY ComputeDependenciesInv, TakePairInv, InfluencesInv, NotInfluencedInv, InfluencedInv,
   FindAPathInv, PathFoundInv, NoPathInv, AllPairedInv, TakeConditionInv, PrintedInv,
   StutterInv DEF Next, Step, Done

LEMMA AlwaysInv == Spec => []IInv
<1>1. Init => IInv
  BY InitInv
<1>2. IInv /\ [Next]_vars => IInv'
  BY StepInv
<1> QED
  BY <1>1, <1>2, PTL DEF Spec

-----------------------------------------------------------------------------
(* The theorems. *)

(* Every variable has its type, and findAPath() stays in one iteration.    *)
THEOREM TypeCorrect == Spec => []TypeOK
<1>1. IInv => TypeOK
  <2>1. SUFFICES ASSUME IInv, pc \in Calls PROVE seen \subseteq loop \ {header}
    BY DEF TypeOK, IInv, ProgramInv
  <2>2. Searched(InIteration[from], InIteration)
    BY <2>1 DEF IInv, SearchInv
  <2>3. InIteration \in [Blocks -> SUBSET Blocks]
    BY <2>1, InIterationTyped DEF IInv
  <2>4. from \in Blocks /\ loop \ {header} \in SUBSET Blocks
    BY <2>1 DEF IInv, ProgramInv, Types
  <2>5. \A b \in Blocks : InIteration[b] \subseteq loop \ {header}
    BY DEF InIteration
  <2> HIDE DEF InIteration
  <2>6. From(InIteration[from], InIteration) \subseteq loop \ {header}
    BY <2>3, <2>4, <2>5, FromLeast
  <2> QED
    BY <2>2, <2>6 DEF Searched
<1> QED
  BY <1>1, AlwaysInv, PTL

(* For any function whose blocks all reach an exit, computeDependencies()  *)
(* walks the post-dominator tree to exactly the control dependences.       *)
THEOREM DependencesAreRight == Spec => []DependencesRight
<1>1. IInv => DependencesRight
  <2>1. SUFFICES ASSUME IInv, pc = "pairs", NEW n \in Blocks, NEW a \in Blocks
                 PROVE  a \in parents[n] <=> ControlDependent(graph, pdt, n, a)
    BY DEF DependencesRight
  <2>2. /\ graph \in Graphs /\ pdt = [b \in Blocks |-> PostDominators(graph, b)]
        /\ parents = ParentsIn(graph, Entry, pdt)
    BY <2>1 DEF IInv, ProgramInv
  <2>3. \A b \in Succ(graph, a) : b \in Blocks
    <3>1. graph[a] \in Seq(Blocks)
      BY <2>2, ProgramAssumption
    <3> QED
      BY <3>1 DEF Succ
  <2>4. n # Root /\ a # Root
    BY RootAssumption
  <2>5. a \in parents[n] <=> \E b \in Succ(graph, a) : n \in DependsOnEdge(pdt, a, b)
    BY <2>2, <2>4 DEF ParentsIn
  <2>6. \A b \in Succ(graph, a) :
          n \in DependsOnEdge(pdt, a, b) <=> n \in pdt[b] /\ (n = a \/ n \notin pdt[a])
    BY <2>2, <2>3, EdgeDependences DEF Tree
  <2> QED
    BY <2>5, <2>6 DEF ControlDependent
<1> QED
  BY <1>1, AlwaysInv, PTL

(* For any function, loop, loads and stores, and whatever order the        *)
(* addresses give the worklists, collectStoreAndStore() finds exactly the  *)
(* pairs of a load and a later store of a state field that it decides on.  *)
THEOREM FindsThePairs == Spec => []PairsFound
<1>1. IInv => PairsFound
  BY DEF IInv, MapInv, PairsFound
<1> QED
  BY <1>1, AlwaysInv, PTL

(* The block of a load that was found ends in a branch with two targets,   *)
(* so the second one that collectStoreAndStore() asks for is there.        *)
THEOREM FoundLoadsBranch == Spec => []BranchHasTwoTargets
<1>1. IInv => BranchHasTwoTargets
  <2>1. SUFFICES ASSUME IInv, pc \in {"true", "false"}
                 PROVE  Len(graph[LoadBB(pair)]) = 2
    BY DEF BranchHasTwoTargets
  <2>2. pair \in Pairs /\ Decides(pair)
    BY <2>1 DEF IInv, MapInv, Printing, Expected
  <2> QED
    BY <2>1, <2>2, FoundBranches DEF IInv
<1> QED
  BY <1>1, AlwaysInv, PTL

(* A search from b sees b and what a search from its successors sees.      *)
LEMMA FromOne ==
  ASSUME NEW N, NEW next \in [N -> SUBSET N], NEW b \in N
  PROVE  From({b}, next) = {b} \cup From(next[b], next)
<1>1. {b} \subseteq From({b}, next) /\ next[b] \subseteq From({b}, next)
  BY FromHolds, FromClosed
<1>2. From(next[b], next) \subseteq From({b}, next)
  <2> DEFINE T == From({b}, next)
  <2>1. \A c \in T : next[c] \subseteq T
    BY FromClosed
  <2>2. T \in SUBSET N /\ next[b] \in SUBSET N
    BY FromHolds
  <2>3. next[b] \subseteq T
    BY <1>1
  <2> HIDE DEF T
  <2>4. From(next[b], next) \subseteq T
    BY <2>1, <2>2, <2>3, FromLeast
  <2> QED
    BY <2>4 DEF T
<1>3. From({b}, next) \subseteq {b} \cup From(next[b], next)
  <2> DEFINE T == {b} \cup From(next[b], next)
  <2>1. \A c \in T : next[c] \subseteq T
    BY FromHolds, FromClosed
  <2>2. T \in SUBSET N
    BY FromHolds
  <2>3. {b} \subseteq T
    OBVIOUS
  <2> HIDE DEF T
  <2>4. From({b}, next) \subseteq T
    BY <2>1, <2>2, <2>3, FromLeast
  <2> QED
    BY <2>4 DEF T
<1> QED
  BY <1>1, <1>2, <1>3

(* What follows the load's block is one of its two targets or follows one. *)
LEMMA FollowsOne ==
  ASSUME ProgramInv, NEW p \in Pairs, Follows(LoadBB(p), p), Len(graph[LoadBB(p)]) = 2,
         graph[LoadBB(p)][1] \in Blocks, graph[LoadBB(p)][2] \in Blocks
  PROVE  \/ StoreBB(p) \in {graph[LoadBB(p)][1], graph[LoadBB(p)][2]}
         \/ Follows(graph[LoadBB(p)][1], p) \/ Follows(graph[LoadBB(p)][2], p)
<1> DEFINE yes == graph[LoadBB(p)][1]
           no == graph[LoadBB(p)][2]
           T == ({yes} \cup From(InIteration[yes], InIteration))
                \cup ({no} \cup From(InIteration[no], InIteration))
<1>1. InIteration \in [Blocks -> SUBSET Blocks] /\ LoadBB(p) \in Blocks
  BY InIterationTyped, PairTyped
<1>2. InIteration[LoadBB(p)] \subseteq {yes, no}
  <2>1. graph[LoadBB(p)] \in Seq(Blocks)
    BY <1>1 DEF ProgramInv, Types
  <2>2. DOMAIN graph[LoadBB(p)] = {1, 2}
    BY <2>1
  <2>3. Succ(graph, LoadBB(p)) \subseteq {yes, no}
    BY <2>2 DEF Succ
  <2> QED
    BY <1>1, <2>3 DEF InIteration
<1>3. \A c \in T : InIteration[c] \subseteq T
  BY <1>1, FromHolds, FromClosed
<1>4. T \in SUBSET Blocks
  BY <1>1, FromHolds
<1>5. From(InIteration[LoadBB(p)], InIteration) \subseteq T
  <2>1. InIteration[LoadBB(p)] \subseteq T /\ InIteration[LoadBB(p)] \in SUBSET Blocks
    BY <1>1, <1>2
  <2> HIDE DEF T
  <2> QED
    BY <1>1, <1>3, <1>4, <2>1, FromLeast
<1> QED
  BY <1>5 DEF Follows

(* The side printed with a condition leads to the store, in the load's     *)
(* block's iteration, but for stores in the branch's targets and for       *)
(* branches back to the header, which findAPath() does not tell apart.     *)
THEOREM DirectionsLeadToStores == Spec => []DirectionsLead
<1>1. IInv => DirectionsLead
  <2> SUFFICES ASSUME IInv, pc = "done", NEW p \in loadStorePairMap
               PROVE  LET yes == graph[LoadBB(p)][1]
                          no  == graph[LoadBB(p)][2]
                      IN  /\ direction[p] = "Yes" => LeadsTo(yes, p) \/ yes = header
                          /\ direction[p] = "Not" => /\ LeadsTo(no, p) \/ no = header
                                                     /\ LeadsTo(yes, p) => StoreBB(p) = yes
                          /\ direction[p] = "" => StoreBB(p) \in {yes, no}
    BY DEF DirectionsLead
  <2> DEFINE yes == graph[LoadBB(p)][1]
             no == graph[LoadBB(p)][2]
  <2>1. p \in Pairs /\ p \notin todo /\ Decides(p) /\ Follows(LoadBB(p), p)
    BY DEF IInv, MapInv, Printing, Expected
  <2>2. direction[p] = DirectionOf(p)
    BY <2>1 DEF IInv, DirectionInv, Printing
  <2>3. Len(graph[LoadBB(p)]) = 2 /\ yes \in Blocks /\ no \in Blocks
    BY <2>1, FoundBranches DEF IInv
  <2>4. InIteration \in [Blocks -> SUBSET Blocks]
    BY InIterationTyped DEF IInv
  <2>5. \A b \in {yes, no} : From({b}, InIteration) = {b} \cup From(InIteration[b], InIteration)
    BY <2>3, <2>4, FromOne
  <2>6. \A b \in {yes, no} : LeadsTo(b, p) <=> b # header /\ (StoreBB(p) = b \/ Follows(b, p))
    BY <2>5 DEF LeadsTo, Follows
  <2>7. StoreBB(p) \in {yes, no} \/ Follows(yes, p) \/ Follows(no, p)
    BY <2>1, <2>3, FollowsOne DEF IInv
  <2>8. direction[p] = IF Follows(yes, p) THEN "Yes" ELSE IF Follows(no, p) THEN "Not" ELSE ""
    BY <2>2 DEF DirectionOf
  <2> HIDE DEF yes, no
  <2>9. /\ direction[p] = "Yes" => LeadsTo(yes, p) \/ yes = header
        /\ direction[p] = "Not" => /\ LeadsTo(no, p) \/ no = header
                                   /\ LeadsTo(yes, p) => StoreBB(p) = yes
        /\ direction[p] = "" => StoreBB(p) \in {yes, no}
    BY <2>6, <2>7, <2>8
  <2> QED
    BY <2>9 DEF yes, no
<1> QED
  BY <1>1, AlwaysInv, PTL
=============================================================================
