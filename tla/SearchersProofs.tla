-------------------------- MODULE SearchersProofs --------------------------
(***************************************************************************)
(* Proofs about the searchers for every set of states, any number of core  *)
(* searchers in the stack, and any number of states added at once.         *)
(***************************************************************************)
EXTENDS Searchers, FiniteSetTheorems, TLAPS

USE DEF SearchersAssumption

-----------------------------------------------------------------------------
(* Sets in order, and lists with elements erased. *)

Distinct(list) == \A i, j \in DOMAIN list : list[i] = list[j] => i = j

Rank(S, x) == Cardinality({y \in S : y <= x})

LEMMA Ranks ==
  ASSUME NEW S \in SUBSET Nat, IsFiniteSet(S), NEW x \in S
  PROVE  /\ Rank(S, x) \in 1..Cardinality(S)
         /\ \A y \in S : x < y => Rank(S, x) < Rank(S, y)
<1> DEFINE upTo(y) == {z \in S : z <= y}
<1>1. /\ Cardinality(S) \in Nat
      /\ \A y \in S : IsFiniteSet(upTo(y)) /\ Cardinality(upTo(y)) \in Nat
                      /\ Cardinality(upTo(y)) <= Cardinality(S)
  <2>1. \A y \in S : upTo(y) \subseteq S
    OBVIOUS
  <2> HIDE DEF upTo
  <2> QED
    BY <2>1, FS_Subset, FS_CardinalityType
<1>2. Cardinality(upTo(x)) # 0
  <2>1. x \in upTo(x)
    OBVIOUS
  <2> HIDE DEF upTo
  <2> QED
    BY <1>1, <2>1, FS_EmptySet
<1>3. ASSUME NEW y \in S, x < y PROVE Cardinality(upTo(x)) < Cardinality(upTo(y))
  <2>1. \A z \in S : z \in Nat
    OBVIOUS
  <2>2. upTo(x) \in SUBSET upTo(y) /\ y \in upTo(y) /\ y \notin upTo(x)
    <3>1. x \in Nat /\ y \in Nat /\ y <= y /\ ~(y <= x)
      BY <1>3, <2>1
    <3>2. \A z \in S : z <= x => z <= y
      BY <1>3, <2>1, <3>1
    <3> QED
      BY <3>1, <3>2
  <2> HIDE DEF upTo
  <2>3. IsFiniteSet(upTo(y)) /\ upTo(x) # upTo(y)
    BY <1>1, <2>2
  <2>4. Cardinality(upTo(x)) <= Cardinality(upTo(y)) /\ Cardinality(upTo(x)) # Cardinality(upTo(y))
    BY <2>2, <2>3, FS_Subset
  <2> QED
    BY <1>1, <2>4
<1> QED
  BY <1>1, <1>2, <1>3 DEF Rank

(* ByAddress enumerates a set, each element once, from the least. *)
LEMMA InOrder ==
  ASSUME NEW S \in SUBSET Nat, IsFiniteSet(S)
  PROVE  /\ ByAddress(S) \in [1..Cardinality(S) -> S] /\ Cardinality(S) \in Nat
         /\ \A i, j \in 1..Cardinality(S) : i < j => ByAddress(S)[i] < ByAddress(S)[j]
         /\ \A x \in S : \E k \in 1..Cardinality(S) : ByAddress(S)[k] = x
<1> DEFINE n == Cardinality(S)
           rank == [x \in S |-> Rank(S, x)]
<1>1. n \in Nat
  BY FS_CardinalityType
<1>2. \A x, y \in S : x # y => Rank(S, x) # Rank(S, y)
  <2> SUFFICES ASSUME NEW x \in S, NEW y \in S, x # y PROVE Rank(S, x) # Rank(S, y)
    OBVIOUS
  <2>1. Rank(S, x) \in Nat /\ Rank(S, y) \in Nat
    BY <1>1, Ranks
  <2>2. x < y \/ y < x
    OBVIOUS
  <2> QED
    BY <2>1, <2>2, Ranks
<1>3. rank \in Injection(S, 1..n)
  BY <1>2, Ranks DEF Injection, IsInjective
<1>4. rank \in Surjection(S, 1..n)
  <2>1. IsFiniteSet(1..n) /\ Cardinality(1..n) = n
    BY <1>1, FS_Interval
  <2> HIDE DEF rank
  <2> QED
    BY <1>3, <2>1, FS_Injection
<1>5. \A k \in 1..n : \E x \in S : Rank(S, x) = k
  BY <1>4 DEF Surjection
<1>6. \A k \in 1..n : ByAddress(S)[k] \in S /\ Rank(S, ByAddress(S)[k]) = k
  BY <1>5 DEF ByAddress, Rank
<1>7. ASSUME NEW i \in 1..n, NEW j \in 1..n, i < j
      PROVE  ByAddress(S)[i] < ByAddress(S)[j]
  <2> DEFINE x == ByAddress(S)[i]
             y == ByAddress(S)[j]
  <2>1. x \in S /\ y \in S /\ Rank(S, x) = i /\ Rank(S, y) = j /\ i \in Nat /\ j \in Nat
    BY <1>6
  <2> HIDE DEF x, y
  <2>2. x # y /\ ~(y < x)
    BY <1>7, <2>1, Ranks
  <2>3. x \in Nat /\ y \in Nat
    BY <2>1
  <2>4. x < y
    BY <2>2, <2>3
  <2> QED
    BY <2>4 DEF x, y
<1>8. ASSUME NEW x \in S PROVE \E k \in 1..n : ByAddress(S)[k] = x
  <2>1. Rank(S, x) \in 1..n
    BY Ranks
  <2> QED
    BY <1>2, <1>6, <2>1
<1>9. ByAddress(S) \in [1..n -> S]
  BY <1>6 DEF ByAddress
<1> QED
  BY <1>1, <1>7, <1>8, <1>9

LEMMA AddressesDistinct ==
  ASSUME NEW S \in SUBSET Nat, IsFiniteSet(S)
  PROVE  /\ ByAddress(S) \in Seq(S) /\ Range(ByAddress(S)) = S /\ Distinct(ByAddress(S))
<1>1. /\ ByAddress(S) \in [1..Cardinality(S) -> S] /\ Cardinality(S) \in Nat
      /\ \A x \in S : \E k \in 1..Cardinality(S) : ByAddress(S)[k] = x
  BY InOrder
<1>2. Range(ByAddress(S)) = S
  BY <1>1 DEF Range
<1>3. ASSUME NEW i \in 1..Cardinality(S), NEW j \in 1..Cardinality(S),
             ByAddress(S)[i] = ByAddress(S)[j]
      PROVE  i = j
  <2>1. ByAddress(S)[i] \in Nat
    BY <1>1
  <2>2. \A a, b \in 1..Cardinality(S) : a < b => ByAddress(S)[a] < ByAddress(S)[b]
    BY InOrder
  <2>3. ~(i < j) /\ ~(j < i)
    BY <1>3, <2>1, <2>2
  <2> QED
    BY <1>1, <2>3
<1> QED
  BY <1>1, <1>2, <1>3 DEF Distinct

(* What is erased is gone, the rest keeps its order. *)
LEMMA Erased ==
  ASSUME NEW A, NEW list \in Seq(A), NEW S
  PROVE  /\ Without(list, S) \in Seq(A)
         /\ \E at \in [DOMAIN Without(list, S) -> DOMAIN list] :
              /\ \A k \in DOMAIN at : /\ Without(list, S)[k] = list[at[k]]
                                      /\ list[at[k]] \notin S
              /\ \A i, j \in DOMAIN at : i < j => at[i] < at[j]
              /\ \A i \in DOMAIN list : list[i] \notin S => \E k \in DOMAIN at : at[k] = i
<1> DEFINE kept == {i \in DOMAIN list : list[i] \notin S}
           at == ByAddress(kept)
           n == Cardinality(kept)
<1>1. DOMAIN list = 1..Len(list) /\ Len(list) \in Nat
  OBVIOUS
<1>2. kept \in SUBSET Nat /\ IsFiniteSet(kept)
  <2>1. IsFiniteSet(1..Len(list)) /\ kept \subseteq 1..Len(list)
    BY <1>1, FS_Interval
  <2> QED
    BY <1>1, <2>1, FS_Subset
<1>3. /\ at \in [1..n -> kept] /\ n \in Nat
      /\ \A i, j \in 1..n : i < j => at[i] < at[j]
      /\ \A i \in kept : \E k \in 1..n : at[k] = i
  <2> HIDE DEF kept
  <2> QED
    BY <1>2, InOrder
<1>4. Without(list, S) = [k \in 1..n |-> list[at[k]]]
  BY <1>3 DEF Without
<1> HIDE DEF at, n
<1>5. Without(list, S) \in [1..n -> A]
  BY <1>1, <1>3, <1>4
<1>6. Without(list, S) \in Seq(A) /\ DOMAIN Without(list, S) = 1..n
  BY <1>3, <1>5
<1>7. at \in [DOMAIN Without(list, S) -> DOMAIN list] /\ DOMAIN at = 1..n
  BY <1>3, <1>6
<1> QED
  BY <1>3, <1>4, <1>6, <1>7

LEMMA ErasedDistinct ==
  ASSUME NEW A, NEW list \in Seq(A), NEW S, Distinct(list)
  PROVE  /\ Without(list, S) \in Seq(A) /\ Distinct(Without(list, S))
         /\ Range(Without(list, S)) = Range(list) \ S
<1> DEFINE W == Without(list, S)
<1>1. PICK at \in [DOMAIN W -> DOMAIN list] :
        /\ \A k \in DOMAIN at : W[k] = list[at[k]] /\ list[at[k]] \notin S
        /\ \A i, j \in DOMAIN at : i < j => at[i] < at[j]
        /\ \A i \in DOMAIN list : list[i] \notin S => \E k \in DOMAIN at : at[k] = i
  BY Erased
<1>2. W \in Seq(A)
  BY Erased
<1> HIDE DEF W
<1>3. DOMAIN W = 1..Len(W) /\ Len(W) \in Nat /\ DOMAIN at = DOMAIN W
      /\ DOMAIN list = 1..Len(list) /\ Len(list) \in Nat
  BY <1>2
<1>4. ASSUME NEW i \in DOMAIN W, NEW j \in DOMAIN W, W[i] = W[j] PROVE i = j
  <2>1. at[i] = at[j]
    BY <1>1, <1>3, <1>4 DEF Distinct
  <2>2. at[i] \in Nat /\ i \in Nat /\ j \in Nat
    BY <1>3
  <2> QED
    BY <1>1, <1>3, <2>1, <2>2
<1>5. Range(W) = Range(list) \ S
  <2>1. \A x \in Range(W) : x \in Range(list) \ S
    BY <1>1, <1>3 DEF Range
  <2>2. \A x \in Range(list) \ S : x \in Range(W)
    BY <1>1, <1>3 DEF Range
  <2> QED
    BY <2>1, <2>2
<1> QED
  BY <1>2, <1>4, <1>5 DEF Distinct, W
-----------------------------------------------------------------------------
(* A list that holds the states S, each once. *)
Holds(list, S) == list \in Seq(StateIds) /\ Distinct(list) /\ Range(list) = S

LEMMA AddressesHold ==
  ASSUME NEW S \in SUBSET StateIds
  PROVE  Holds(ByAddress(S), S)
<1>1. S \in SUBSET Nat /\ IsFiniteSet(S)
  BY SearchersAssumption, FS_Subset
<1>2. ByAddress(S) \in [1..Cardinality(S) -> S] /\ Cardinality(S) \in Nat
  BY <1>1, InOrder
<1>3. ByAddress(S) \in [1..Cardinality(S) -> StateIds]
  BY <1>2
<1>4. ByAddress(S) \in Seq(StateIds)
  BY <1>2, <1>3
<1> QED
  BY <1>1, <1>4, AddressesDistinct DEF Holds

LEMMA HoldsErased ==
  ASSUME NEW list, NEW S, Holds(list, S), NEW R
  PROVE  Holds(Without(list, R), S \ R)
BY ErasedDistinct DEF Holds

LEMMA HoldsAppended ==
  ASSUME NEW list, NEW S, Holds(list, S), NEW added, NEW T, Holds(added, T), S \cap T = {}
  PROVE  Holds(list \o added, S \cup T)
<1> DEFINE m == Len(list)
           n == Len(added)
           both == list \o added
<1>1. /\ list \in Seq(StateIds) /\ added \in Seq(StateIds)
      /\ m \in Nat /\ n \in Nat /\ DOMAIN list = 1..m /\ DOMAIN added = 1..n
  BY DEF Holds
<1>2. /\ both \in Seq(StateIds) /\ DOMAIN both = 1..(m + n)
      /\ \A i \in 1..(m + n) : both[i] = IF i <= m THEN list[i] ELSE added[i - m]
  BY <1>1
<1>3. /\ \A i \in 1..m : i \in DOMAIN both /\ both[i] = list[i]
      /\ \A i \in 1..n : i + m \in DOMAIN both /\ both[i + m] = added[i]
      /\ \A i \in DOMAIN both : i \in 1..m \/ (i \notin 1..m /\ i - m \in 1..n /\ both[i] = added[i - m])
  BY <1>1, <1>2
<1> HIDE DEF both
<1>4. Range(both) = S \cup T
  <2>1. \A x \in S : x \in Range(both)
    BY <1>1, <1>3 DEF Range, Holds
  <2>2. \A x \in T : x \in Range(both)
    BY <1>1, <1>3 DEF Range, Holds
  <2>3. \A x \in Range(both) : x \in S \cup T
    BY <1>1, <1>3 DEF Range, Holds
  <2> QED
    BY <2>1, <2>2, <2>3
<1>5. ASSUME NEW i \in DOMAIN both, NEW j \in DOMAIN both, both[i] = both[j] PROVE i = j
  <2>1. (\A k \in 1..m : list[k] \in S) /\ \A k \in 1..n : added[k] \in T
    BY <1>1 DEF Range, Holds
  <2>2. CASE i \in 1..m /\ j \in 1..m
    BY <1>1, <1>3, <1>5, <2>2 DEF Holds, Distinct
  <2>3. CASE i \notin 1..m /\ j \notin 1..m
    <3>1. i - m \in 1..n /\ j - m \in 1..n /\ added[i - m] = added[j - m]
      BY <1>3, <1>5, <2>3
    <3>2. i - m = j - m
      BY <1>1, <3>1 DEF Holds, Distinct
    <3>3. i \in Nat /\ j \in Nat
      BY <1>1, <1>2
    <3> QED
      BY <1>1, <3>2, <3>3
  <2>4. CASE i \in 1..m /\ j \notin 1..m
    BY <1>3, <1>5, <2>1, <2>4
  <2>5. CASE i \notin 1..m /\ j \in 1..m
    BY <1>3, <1>5, <2>1, <2>5
  <2> QED
    BY <2>2, <2>3, <2>4, <2>5
<1> QED
  BY <1>2, <1>4, <1>5 DEF Holds, Distinct, both

LEMMA HoldsOne ==
  ASSUME NEW s \in StateIds
  PROVE  Holds(<<s>>, {s}) /\ \A list \in Seq(StateIds) : Append(list, s) = list \o <<s>>
<1>1. <<s>> \in Seq(StateIds) /\ DOMAIN <<s>> = {1} /\ <<s>>[1] = s
  OBVIOUS
<1>2. Range(<<s>>) = {s} /\ Distinct(<<s>>)
  BY <1>1 DEF Range, Distinct
<1>3. \A list \in Seq(StateIds) : Append(list, s) = list \o <<s>>
  OBVIOUS
<1> QED
  BY <1>1, <1>2, <1>3 DEF Holds

(* A core searcher that holds the states S, and hears of the added states  *)
(* T and the removed ones, holds what is left, and no assertion fails.     *)
LEMMA CoreUpdated ==
  ASSUME NEW type, NEW list, NEW S \in SUBSET StateIds, Holds(list, S),
         NEW added, NEW T \in SUBSET StateIds, Holds(added, T), S \cap T = {},
         NEW cur \in S \cup {None}, NEW removed, removed \subseteq S \cup T,
         type # "RandomPath"
  PROVE  /\ Holds(CoreUpdate(type, list, cur, added, removed), (S \cup T) \ removed)
         /\ CoreAsserts(type, list, cur, added, removed)
<1> DEFINE evolves == type = "BFS" /\ added # <<>> /\ cur \notin removed \cup {None}
           rotated == IF evolves THEN Append(Without(list, {cur}), cur) ELSE list
<1>1. Holds(rotated, S)
  <2>1. CASE evolves
    <3>1. cur \in S /\ cur \in StateIds
      BY <2>1
    <3>2. Holds(Without(list, {cur}), S \ {cur})
      BY HoldsErased
    <3>3. Holds(<<cur>>, {cur})
      BY <3>1, HoldsOne
    <3>4. Append(Without(list, {cur}), cur) = Without(list, {cur}) \o <<cur>>
      BY <3>1, <3>2, HoldsOne DEF Holds
    <3>5. (S \ {cur}) \cap {cur} = {} /\ (S \ {cur}) \cup {cur} = S
      BY <3>1
    <3>6. Holds(Without(list, {cur}) \o <<cur>>, (S \ {cur}) \cup {cur})
      BY <3>2, <3>3, <3>5, HoldsAppended
    <3> QED
      BY <2>1, <3>4, <3>5, <3>6
  <2>2. CASE ~evolves
    BY <2>2
  <2> QED
    BY <2>1, <2>2
<1>2. CoreUpdate(type, list, cur, added, removed) = Without(rotated \o added, removed)
  BY DEF CoreUpdate
<1> HIDE DEF rotated, evolves
<1>3. Holds(Without(rotated \o added, removed), (S \cup T) \ removed)
  BY <1>1, HoldsAppended, HoldsErased
<1>4. CoreAsserts(type, list, cur, added, removed)
  BY DEF CoreAsserts, Holds
<1> QED
  BY <1>2, <1>3, <1>4
-----------------------------------------------------------------------------
(* The searchers below the deepening one hold the states S.                *)
BaseHolds(b, S) ==
  /\ b = [lists |-> b.lists, lastState |-> b.lastState, failed |-> FALSE]
  /\ DOMAIN b.lists = Cores
  /\ \A i \in Cores : IF options.search[i] = "RandomPath" THEN b.lists[i] = <<>>
                                                         ELSE Holds(b.lists[i], S)
  /\ b.lastState \in S \cup {None}

LEMMA HoldsNone == Holds(<<>>, {})
BY DEF Holds, Distinct, Range

LEMMA BaseUpdated ==
  ASSUME NEW b, NEW S \in SUBSET StateIds, BaseHolds(b, S),
         NEW added, NEW T \in SUBSET StateIds, Holds(added, T), S \cap T = {},
         NEW cur \in S \cup {None}, NEW removed, removed \subseteq S \cup T
  PROVE  BaseHolds(BaseUpdate(b, cur, added, removed), (S \cup T) \ removed)
<1> DEFINE u == BaseUpdate(b, cur, added, removed)
           lists == [i \in Cores |-> CoreUpdate(options.search[i], b.lists[i], cur, added, removed)]
           L == (S \cup T) \ removed
<1>1. \A i \in Cores :
        IF options.search[i] = "RandomPath" THEN lists[i] = <<>> ELSE Holds(lists[i], L)
  <2> SUFFICES ASSUME NEW i \in Cores
               PROVE  IF options.search[i] = "RandomPath" THEN lists[i] = <<>> ELSE Holds(lists[i], L)
    OBVIOUS
  <2>1. CASE options.search[i] = "RandomPath"
    BY <2>1 DEF CoreUpdate
  <2>2. CASE options.search[i] # "RandomPath"
    <3>1. Holds(b.lists[i], S)
      BY <2>2 DEF BaseHolds
    <3> QED
      BY <2>2, <3>1, CoreUpdated
  <2> QED
    BY <2>1, <2>2
<1>2. \A i \in Cores : CoreAsserts(options.search[i], b.lists[i], cur, added, removed)
  <2> SUFFICES ASSUME NEW i \in Cores
               PROVE  CoreAsserts(options.search[i], b.lists[i], cur, added, removed)
    OBVIOUS
  <2>1. CASE options.search[i] = "RandomPath"
    BY <2>1 DEF CoreAsserts
  <2>2. CASE options.search[i] # "RandomPath"
    <3>1. Holds(b.lists[i], S)
      BY <2>2 DEF BaseHolds
    <3> QED
      BY <2>2, <3>1, CoreUpdated
  <2> QED
    BY <2>1, <2>2
<1>3. b.failed = FALSE /\ b.lastState \in S \cup {None}
  BY DEF BaseHolds
<1>4. /\ u.lists = lists /\ u.failed = FALSE
      /\ u.lastState = IF b.lastState \in removed THEN None ELSE b.lastState
      /\ u = [lists |-> u.lists, lastState |-> u.lastState, failed |-> FALSE]
  BY <1>2, <1>3 DEF BaseUpdate
<1>5. u.lastState \in L \cup {None}
  BY <1>3, <1>4
<1> HIDE DEF u, L
<1> QED
  BY <1>1, <1>4, <1>5 DEF BaseHolds, u, L

LEMMA OptionTypes ==
  ASSUME options \in Options
  PROVE  /\ Cores = 1..Len(options.search) /\ Len(options.search) \in Nat /\ 1 \in Cores
         /\ options.batching \in BOOLEAN /\ options.deepening \in BOOLEAN
<1>1. options.search \in Seq(CoreSearchType) /\ options.search # <<>>
      /\ options.batching \in BOOLEAN /\ options.deepening \in BOOLEAN
  BY SearchersAssumption
<1>2. Len(options.search) \in Nat /\ Len(options.search) # 0
  BY <1>1
<1> QED
  BY <1>1, <1>2 DEF Cores

(* With another first searcher than RandomPathSearcher, the stack is empty *)
(* when there is nothing to hold.                                          *)
LEMMA EmptyBase ==
  ASSUME options \in Options, options.search[1] # "RandomPath", NEW b, NEW S, BaseHolds(b, S)
  PROVE  BaseEmpty(b) <=> S = {}
<1>1. Holds(b.lists[1], S)
  BY OptionTypes DEF BaseHolds
<1>2. b.lists[1] = <<>> <=> Range(b.lists[1]) = {}
  <2> DEFINE list == b.lists[1]
  <2>1. list \in Seq(StateIds)
    BY <1>1 DEF Holds
  <2> HIDE DEF list
  <2>2. list = <<>> => Range(list) = {}
    BY DEF Range
  <2>3. list # <<>> => list[1] \in Range(list)
    BY <2>1 DEF Range
  <2> QED
    BY <2>2, <2>3 DEF list
<1> QED
  BY <1>1, <1>2 DEF BaseEmpty, Holds

-----------------------------------------------------------------------------
(* RandomPathSearcher does not know of paused states. *)
NoPausedWalks == \A o \in Options : o.deepening => "RandomPath" \notin Range(o.search)

StackOK ==
  /\ options \in Options /\ states \subseteq StateIds /\ paused \subseteq states
  /\ BaseHolds(base, states \ paused)
  /\ states # {} => states # paused
  /\ ~options.deepening => paused = {}
  /\ current \in (states \ paused) \cup {None}
  /\ index \in Cores

LEMMA FreshHolds ==
  ASSUME NEW fresh \in SUBSET StateIds, NEW added \in SetToSeqs(fresh)
  PROVE  Holds(added, fresh)
<1> DEFINE n == Cardinality(fresh)
<1>1. IsFiniteSet(fresh) /\ n \in Nat
  BY SearchersAssumption, FS_Subset, FS_CardinalityType
<1>2. added \in [1..n -> fresh] /\ \A i, j \in 1..n : i # j => added[i] # added[j]
  BY DEF SetToSeqs
<1>3. added \in Injection(1..n, fresh)
  BY <1>2 DEF Injection, IsInjective
<1>4. added \in Surjection(1..n, fresh)
  <2>1. Cardinality(1..n) = n
    BY <1>1, FS_Interval
  <2> QED
    BY <1>1, <1>3, <2>1, FS_Injection
<1>5. Range(added) = fresh
  BY <1>2, <1>4 DEF Surjection, Range
<1> QED
  BY <1>1, <1>2, <1>5 DEF Holds, Distinct
LEMMA CoreSelects ==
  ASSUME StackOK, NoPausedWalks, states # {}, NEW i \in Cores, NEW s \in Selectable(i)
  PROVE  s \in states \ paused
<1> DEFINE list == base.lists[i]
<1>1. states \ paused # {}
  BY DEF StackOK
<1>2. CASE options.search[i] = "RandomPath"
  <2>1. "RandomPath" \in Range(options.search)
    BY <1>2 DEF Range, Cores
  <2>2. ~options.deepening
    BY <2>1 DEF NoPausedWalks, StackOK
  <2> QED
    BY <1>2, <2>2 DEF Selectable, StackOK
<1>3. CASE options.search[i] # "RandomPath"
  <2>1. Holds(list, states \ paused)
    BY <1>3 DEF StackOK, BaseHolds
  <2>2. s \in Selectable(i) /\ list # <<>>
    BY <1>1, <2>1, HoldsNone DEF Holds
  <2>3. s = list[Len(list)] \/ s = list[1] \/ s \in Range(list)
    BY <1>3, <2>2 DEF Selectable, Last
  <2> HIDE DEF list
  <2>4. list \in Seq(StateIds) /\ Len(list) \in Nat /\ Len(list) # 0 /\ DOMAIN list = 1..Len(list)
    BY <2>1, <2>2 DEF Holds
  <2>5. s \in Range(list)
    BY <2>3, <2>4 DEF Range
  <2> QED
    BY <2>1, <2>5 DEF Holds
<1> QED
  BY <1>2, <1>3

LEMMA SelectStack ==
  ASSUME StackOK, NoPausedWalks, Select
  PROVE  StackOK'
<1>1. states # {} /\ UNCHANGED <<options, states, paused>>
  BY DEF Select
<1>2. CASE SelectLast
  <2>1. current' = base.lastState /\ base.lastState # None /\ UNCHANGED <<base, index>>
    BY <1>2 DEF SelectLast
  <2> QED
    BY <1>1, <2>1 DEF StackOK, BaseHolds, Cores
<1>3. CASE SelectCore
  <2>1. PICK s \in Selectable(index) :
          /\ current' = s
          /\ base' = [base EXCEPT !.lastState = IF options.batching THEN s ELSE @,
                                  !.failed = s = None]
    BY <1>3 DEF SelectCore
  <2>2. s \in states \ paused /\ s # None
    BY <1>1, CoreSelects, SearchersAssumption DEF StackOK
  <2>3. base = [lists |-> base.lists, lastState |-> base.lastState, failed |-> FALSE]
    BY DEF StackOK, BaseHolds
  <2>4. /\ base'.lists = base.lists
        /\ base'.lastState = IF options.batching THEN s ELSE base.lastState
        /\ base' = [lists |-> base'.lists, lastState |-> base'.lastState, failed |-> FALSE]
    BY <2>1, <2>2, <2>3
  <2>5. BaseHolds(base, states \ paused)'
    BY <1>1, <2>2, <2>4 DEF StackOK, BaseHolds, Cores
  <2>6. index' \in Cores'
    BY <1>1, <1>3, OptionTypes DEF SelectCore, TurnAfter, StackOK, Cores
  <2> QED
    BY <1>1, <2>1, <2>2, <2>5, <2>6 DEF StackOK
<1> QED
  BY <1>2, <1>3 DEF Select

LEMMA UpdateStack ==
  ASSUME StackOK, NoPausedWalks, Update
  PROVE  StackOK'
<1>1. PICK removed \in SUBSET states, fresh \in SUBSET (StateIds \ states) :
        \E added \in SetToSeqs(fresh), tooLong \in BOOLEAN :
          /\ IF options.deepening
             THEN DeepeningUpdate(current, added, removed, tooLong)
             ELSE base' = BaseUpdate(base, current, added, removed) /\ UNCHANGED paused
          /\ states' = (states \cup fresh) \ removed
  BY DEF Update
<1>2. PICK added \in SetToSeqs(fresh), tooLong \in BOOLEAN :
        /\ IF options.deepening
           THEN DeepeningUpdate(current, added, removed, tooLong)
           ELSE base' = BaseUpdate(base, current, added, removed) /\ UNCHANGED paused
        /\ states' = (states \cup fresh) \ removed
  BY <1>1
<1>3. /\ current # None /\ current \in states \ paused /\ current' = None
      /\ UNCHANGED <<options, index>> /\ fresh \subseteq StateIds
  BY DEF Update, StackOK
<1> DEFINE S == states \ paused
<1>4. /\ S \in SUBSET StateIds /\ BaseHolds(base, S) /\ fresh \in SUBSET StateIds
      /\ Holds(added, fresh) /\ S \cap fresh = {} /\ current \in S \cup {None}
  BY <1>3, FreshHolds DEF StackOK
<1>5. ASSUME NEW b, NEW T, BaseHolds(b, T), b = base', T = states' \ paused',
             paused' \subseteq states', states' # {} => states' # paused',
             ~options.deepening => paused' = {}
      PROVE  StackOK'
  <2>1. BaseHolds(base, states \ paused)'
    BY <1>3, <1>5 DEF BaseHolds, Cores
  <2> QED
    BY <1>1, <1>3, <1>5, <2>1 DEF StackOK, Cores
<1>6. CASE ~options.deepening
  <2>1. paused = {} /\ paused' = {} /\ base' = BaseUpdate(base, current, added, removed)
    BY <1>2, <1>6 DEF StackOK
  <2>2. removed \subseteq S \cup fresh
    BY <2>1
  <2>3. BaseHolds(base', (S \cup fresh) \ removed)
    BY <1>4, <2>1, <2>2, BaseUpdated
  <2>4. (S \cup fresh) \ removed = states' \ paused'
    BY <1>2, <2>1
  <2> QED
    BY <1>5, <2>1, <2>3, <2>4
<1>7. CASE options.deepening
  <2> DEFINE pauses == tooLong /\ current \notin removed
             updated == BaseUpdate(base, current, added, Filtered(removed))
             left == IF pauses THEN Pause(updated, current) ELSE updated
             waiting == (paused \ removed) \cup (IF pauses THEN {current} ELSE {})
             U == (S \cup fresh) \ (removed \ paused)
  <2>1. IF BaseEmpty(left) THEN base' = Resume(left, waiting) /\ paused' = {}
                           ELSE base' = left /\ paused' = waiting
    BY <1>2, <1>7 DEF DeepeningUpdate
  <2>2. options.search[1] # "RandomPath" /\ options \in Options
    <3>1. options \in Options /\ 1 \in DOMAIN options.search
      BY OptionTypes DEF StackOK, Cores
    <3>2. "RandomPath" \notin Range(options.search)
      BY <1>7, <3>1 DEF NoPausedWalks
    <3> QED
      BY <3>1, <3>2 DEF Range
  <2>3. BaseHolds(updated, U) /\ U \in SUBSET StateIds
    <3>1. removed \ paused \subseteq S \cup fresh
      BY <1>1
    <3>2. BaseHolds(BaseUpdate(base, current, added, removed \ paused), U)
      BY <1>4, <3>1, BaseUpdated
    <3> QED
      BY <1>4, <3>2 DEF Filtered
  <2>4. BaseHolds(left, states' \ waiting) /\ waiting \subseteq states'
    <3>1. waiting \subseteq states'
      BY <1>2, <1>3 DEF StackOK
    <3>2. CASE pauses
      <4>1. current \in U /\ Holds(<<>>, {}) /\ U \cap {} = {} /\ None \in U \cup {None}
            /\ {current} \subseteq U \cup {} /\ {} \in SUBSET StateIds
        BY <1>3, <3>2, HoldsNone
      <4>2. BaseHolds(Pause(updated, current), (U \cup {}) \ {current})
        <5> HIDE DEF updated, U
        <5> QED
          BY <2>3, <4>1, BaseUpdated DEF Pause
      <4>3. (U \cup {}) \ {current} = states' \ waiting
        BY <1>2, <1>3, <3>2 DEF StackOK
      <4> QED
        BY <3>1, <3>2, <4>2, <4>3
    <3>3. CASE ~pauses
      <4>1. U = states' \ waiting
        BY <1>2, <1>3, <3>3 DEF StackOK
      <4> QED
        BY <2>3, <3>1, <3>3, <4>1
    <3> QED
      BY <3>2, <3>3
  <2> HIDE DEF left, waiting
  <2>5. CASE BaseEmpty(left)
    <3>1. states' \ waiting = {}
      BY <2>2, <2>4, <2>5, EmptyBase
    <3>2. states' = waiting /\ waiting \in SUBSET StateIds
      BY <1>2, <1>3, <2>4, <3>1 DEF StackOK
    <3>3. Holds(ByAddress(waiting), waiting)
      BY <3>2, AddressesHold
    <3>4. BaseHolds(Resume(left, waiting), ({} \cup waiting) \ {})
      <4>1. BaseHolds(left, {}) /\ {} \in SUBSET StateIds /\ {} \cap waiting = {}
            /\ None \in {} \cup {None} /\ {} \subseteq {} \cup waiting
        BY <2>4, <3>1
      <4> QED
        BY <3>2, <3>3, <4>1, BaseUpdated DEF Resume
    <3>5. ({} \cup waiting) \ {} = states' \ {}
      BY <3>2
    <3> QED
      BY <1>5, <2>1, <2>5, <3>4, <3>5, <1>7
  <2>6. CASE ~BaseEmpty(left)
    <3>1. states' \ waiting # {}
      BY <2>2, <2>4, <2>6, EmptyBase
    <3> QED
      BY <1>5, <1>7, <2>1, <2>4, <2>6, <3>1
  <2> QED
    BY <2>5, <2>6
<1> QED
  BY <1>6, <1>7
LEMMA InitStack ==
  ASSUME Init
  PROVE  StackOK
<1> DEFINE none == [lists |-> [i \in Cores |-> <<>>], lastState |-> None, failed |-> FALSE]
<1>1. /\ options \in Options /\ states \in SUBSET StateIds /\ states # {} /\ paused = {}
      /\ current = None /\ base = BaseUpdate(none, None, ByAddress(states), {}) /\ index = 1
  BY DEF Init
<1>2. BaseHolds(none, {})
  BY HoldsNone DEF BaseHolds
<1>3. /\ Holds(ByAddress(states), states) /\ {} \cap states = {} /\ None \in {} \cup {None}
      /\ {} \subseteq {} \cup states /\ {} \in SUBSET StateIds
  BY <1>1, AddressesHold
<1> HIDE DEF none
<1>4. BaseHolds(base, ({} \cup states) \ {})
  BY <1>1, <1>2, <1>3, BaseUpdated
<1>5. ({} \cup states) \ {} = states \ paused
  BY <1>1
<1> QED
  BY <1>1, <1>4, <1>5, OptionTypes DEF StackOK

LEMMA AlwaysStack ==
  ASSUME NoPausedWalks
  PROVE  Spec => []StackOK
<1>1. Init => StackOK
  BY InitStack
<1>2. StackOK /\ [Next]_vars => StackOK'
  <2> SUFFICES ASSUME StackOK, [Next]_vars PROVE StackOK'
    OBVIOUS
  <2>1. CASE UNCHANGED vars
    BY <2>1 DEF vars, StackOK, BaseHolds, Cores
  <2>2. CASE Next
    BY <2>2, SelectStack, UpdateStack DEF Next
  <2> QED
    BY <2>1, <2>2
<1> QED
  BY <1>1, <1>2, PTL DEF Spec

(* Unless a RandomPathSearcher runs under iterative deepening, no searcher *)
(* of any stack fails an assertion, for any number of states and searchers.*)
THEOREM NoSearcherAsserts ==
  ASSUME NoPausedWalks
  PROVE  Spec => []NoAssertionFails
<1>1. StackOK => NoAssertionFails
  BY DEF StackOK, BaseHolds, NoAssertionFails
<1> QED
  BY <1>1, AlwaysStack, PTL

LEMMA LengthIsSize ==
  ASSUME NEW list, NEW S, Holds(list, S)
  PROVE  Len(list) = Cardinality(S)
<1>1. Len(list) \in Nat /\ DOMAIN list = 1..Len(list) /\ list \in Seq(StateIds)
  BY DEF Holds
<1>2. list \in [1..Len(list) -> S]
  BY <1>1 DEF Holds, Range
<1>3. list \in Injection(1..Len(list), S)
  BY <1>1, <1>2 DEF Holds, Distinct, Injection, IsInjective
<1>4. list \in Surjection(1..Len(list), S)
  BY <1>1, <1>2 DEF Holds, Range, Surjection
<1>5. ExistsBijection(1..Len(list), S)
  BY <1>3, <1>4 DEF Bijection, ExistsBijection
<1>6. IsFiniteSet(1..Len(list)) /\ Cardinality(1..Len(list)) = Len(list)
  BY <1>1, FS_Interval
<1> QED
  BY <1>5, <1>6, FS_Bijection

(* Every core searcher that keeps states has exactly those that may run,   *)
(* each once, and neither the batch nor the paused states lag behind.      *)
THEOREM SearchersHoldWhatRuns ==
  ASSUME NoPausedWalks
  PROVE  Spec => []HoldsWhatRuns
<1>1. StackOK => HoldsWhatRuns
  <2> SUFFICES ASSUME StackOK PROVE HoldsWhatRuns
    OBVIOUS
  <2>1. ASSUME NEW i \in Cores, options.search[i] # "RandomPath"
        PROVE  /\ Range(base.lists[i]) = states \ paused
               /\ Len(base.lists[i]) = Cardinality(states \ paused)
    <3>1. Holds(base.lists[i], states \ paused)
      BY <2>1 DEF StackOK, BaseHolds
    <3> QED
      BY <3>1, LengthIsSize DEF Holds
  <2>2. BatchIsAlive /\ PausedWait
    BY DEF StackOK, BaseHolds, BatchIsAlive, PausedWait
  <2> QED
    BY <2>1, <2>2 DEF HoldsWhatRuns
<1> QED
  BY <1>1, AlwaysStack, PTL
-----------------------------------------------------------------------------
(* Breadth first: who has evolved in this round is behind who has not. *)

Ordered(list, E) ==
  \A i, j \in DOMAIN list : i < j /\ list[i] \in E => list[j] \in E

LEMMA OrderedAs ==
  ASSUME NEW list, NEW E, NEW F, Ordered(list, E), \A x \in Range(list) : x \in E <=> x \in F
  PROVE  Ordered(list, F)
<1>1. \A i \in DOMAIN list : list[i] \in E <=> list[i] \in F
  BY DEF Range
<1> QED
  BY <1>1 DEF Ordered

LEMMA OrderedErased ==
  ASSUME NEW A, NEW list \in Seq(A), NEW R, NEW E, Ordered(list, E)
  PROVE  Ordered(Without(list, R), E)
<1> DEFINE W == Without(list, R)
<1>1. PICK at \in [DOMAIN W -> DOMAIN list] :
        /\ \A k \in DOMAIN at : W[k] = list[at[k]] /\ list[at[k]] \notin R
        /\ \A i, j \in DOMAIN at : i < j => at[i] < at[j]
  BY Erased
<1> HIDE DEF W
<1>2. Ordered(W, E)
  BY <1>1 DEF Ordered
<1> QED
  BY <1>2 DEF W

LEMMA OrderedAppended ==
  ASSUME NEW list \in Seq(StateIds), NEW added \in Seq(StateIds), NEW E, Ordered(list, E),
         Range(added) \subseteq E
  PROVE  Ordered(list \o added, E)
<1> DEFINE m == Len(list)
           n == Len(added)
           both == list \o added
<1>1. m \in Nat /\ n \in Nat /\ DOMAIN list = 1..m /\ DOMAIN added = 1..n
  OBVIOUS
<1>2. /\ DOMAIN both = 1..(m + n)
      /\ \A i \in 1..(m + n) : both[i] = IF i <= m THEN list[i] ELSE added[i - m]
  BY <1>1
<1>3. \A i \in 1..n : added[i] \in E
  BY <1>1 DEF Range
<1> HIDE DEF both
<1>4. ASSUME NEW i \in 1..(m + n), NEW j \in 1..(m + n), i < j, both[i] \in E
      PROVE  both[j] \in E
  <2>1. CASE j <= m
    <3>1. i \in 1..m /\ j \in 1..m /\ both[i] = list[i] /\ both[j] = list[j]
      BY <1>1, <1>2, <1>4, <2>1
    <3> QED
      BY <1>1, <1>4, <3>1 DEF Ordered
  <2>2. CASE ~(j <= m)
    <3>1. j - m \in 1..n /\ both[j] = added[j - m]
      BY <1>1, <1>2, <2>2
    <3> QED
      BY <1>3, <3>1
  <2> QED
    BY <2>1, <2>2
<1> QED
  BY <1>2, <1>4 DEF Ordered, both

BreadthOK ==
  OnlyBreadth =>
    /\ evolved \subseteq states
    /\ states # {} => evolved # states
    /\ current \notin evolved
    /\ Ordered(base.lists[1], evolved)

LEMMA OneList ==
  ASSUME StackOK, OnlyBreadth
  PROVE  /\ Cores = {1} /\ options.search[1] = "BFS" /\ ~options.batching /\ ~options.deepening
         /\ paused = {} /\ index = 1 /\ Holds(base.lists[1], states)
         /\ DOMAIN base.lists[1] = 1..Len(base.lists[1]) /\ Len(base.lists[1]) \in Nat
<1>1. options.search = <<"BFS">> /\ ~options.batching /\ ~options.deepening
  BY DEF OnlyBreadth
<1>2. Cores = {1} /\ options.search[1] = "BFS"
  BY <1>1 DEF Cores
<1>3. paused = {} /\ index = 1
  BY <1>1, <1>2 DEF StackOK
<1>4. Holds(base.lists[1], states)
  BY <1>2, <1>3 DEF StackOK, BaseHolds
<1> QED
  BY <1>1, <1>2, <1>3, <1>4 DEF Holds

LEMMA SelectBreadth ==
  ASSUME StackOK, BreadthOK, Select
  PROVE  BreadthOK'
<1> SUFFICES ASSUME OnlyBreadth' PROVE BreadthOK'
  BY DEF BreadthOK
<1>1. states # {} /\ UNCHANGED <<options, states, evolved>> /\ OnlyBreadth
  BY DEF Select, OnlyBreadth
<1> DEFINE list == base.lists[1]
<1>2. /\ options.search[1] = "BFS" /\ ~options.batching /\ index = 1 /\ Holds(list, states)
      /\ DOMAIN list = 1..Len(list) /\ Len(list) \in Nat
  BY <1>1, OneList
<1>3. list # <<>>
  BY <1>1, <1>2, HoldsNone DEF Holds
<1>4. PICK s \in Selectable(1) :
        /\ current' = s
        /\ base' = [base EXCEPT !.lastState = IF options.batching THEN s ELSE @,
                                !.failed = s = None]
  BY <1>2 DEF Select, SelectLast, SelectCore
<1>5. s = list[1]
  BY <1>2, <1>3, <1>4 DEF Selectable
<1>6. list[1] \notin evolved
  <2> SUFFICES ASSUME list[1] \in evolved PROVE FALSE
    OBVIOUS
  <2>1. Ordered(list, evolved) /\ evolved \subseteq states /\ evolved # states
    BY <1>1 DEF BreadthOK
  <2> HIDE DEF list
  <2>2. 1 \in DOMAIN list
    BY <1>2, <1>3 DEF Holds
  <2>3. \A j \in DOMAIN list : list[j] \in evolved
    BY <1>2, <2>1, <2>2 DEF Ordered
  <2>4. states \subseteq evolved
    BY <1>2, <2>3 DEF Holds, Range
  <2> QED
    BY <2>1, <2>4
<1>7. base'.lists = base.lists
  BY <1>4 DEF StackOK, BaseHolds
<1> QED
  BY <1>1, <1>4, <1>5, <1>6, <1>7 DEF BreadthOK

LEMMA UpdateBreadth ==
  ASSUME StackOK, BreadthOK, Update
  PROVE  BreadthOK'
<1> SUFFICES ASSUME OnlyBreadth' PROVE BreadthOK'
  BY DEF BreadthOK
<1>1. /\ UNCHANGED options /\ OnlyBreadth /\ current' = None
      /\ current \in states /\ current \in StateIds /\ None \notin StateIds /\ states \subseteq StateIds
  BY SearchersAssumption DEF Update, OnlyBreadth, StackOK
<1> DEFINE list == base.lists[1]
<1>2. /\ Cores = {1} /\ options.search[1] = "BFS" /\ ~options.deepening /\ Holds(list, states)
      /\ Ordered(list, evolved) /\ evolved \subseteq states
  BY <1>1, OneList DEF BreadthOK
<1>3. PICK removed \in SUBSET states, fresh \in SUBSET (StateIds \ states) :
        \E added \in SetToSeqs(fresh) :
          /\ base' = BaseUpdate(base, current, added, removed)
          /\ states' = (states \cup fresh) \ removed
          /\ evolved' = Evolved(current, added, states')
  BY <1>2 DEF Update
<1>4. PICK added \in SetToSeqs(fresh) :
        /\ base' = BaseUpdate(base, current, added, removed)
        /\ states' = (states \cup fresh) \ removed
        /\ evolved' = Evolved(current, added, states')
  BY <1>3
<1>5. Holds(added, fresh) /\ states \cap fresh = {} /\ Range(added) = fresh
  <2>1. fresh \in SUBSET StateIds /\ states \cap fresh = {}
    OBVIOUS
  <2>2. Holds(added, fresh)
    BY <2>1, FreshHolds
  <2> QED
    BY <2>1, <2>2 DEF Holds
<1> DEFINE evolves == added # <<>> /\ current \notin removed \cup {None}
           rotated == IF evolves THEN Append(Without(list, {current}), current) ELSE list
           E == evolved \cup fresh \cup (IF evolves THEN {current} ELSE {})
           new == Without(rotated \o added, removed)
           now == IF added # <<>> THEN (evolved \cup {current} \cup fresh) \cap states'
                                  ELSE evolved \cap states'
<1>6. base'.lists[1] = new
  <2>1. base'.lists[1] = CoreUpdate(options.search[1], base.lists[1], current, added, removed)
    BY <1>2, <1>4 DEF BaseUpdate
  <2> QED
    BY <1>2, <2>1 DEF CoreUpdate
<1>7. Holds(rotated, states) /\ Ordered(rotated, E)
  <2>1. Ordered(list, evolved \cup fresh)
    <3>1. \A x \in Range(list) : x \in evolved <=> x \in evolved \cup fresh
      BY <1>2, <1>5 DEF Holds
    <3> HIDE DEF list
    <3> QED
      BY <1>2, <3>1, OrderedAs
  <2>2. CASE evolves
    <3> DEFINE rest == Without(list, {current})
    <3>1. Holds(rest, states \ {current}) /\ Ordered(rest, evolved \cup fresh)
      <4> HIDE DEF list
      <4> QED
        BY <1>2, <2>1, HoldsErased, OrderedErased DEF Holds
    <3> HIDE DEF rest
    <3>2. Ordered(rest, E)
      <4>1. \A x \in Range(rest) : x \in evolved \cup fresh <=> x \in E
        BY <2>2, <3>1 DEF Holds
      <4> HIDE DEF E
      <4> QED
        BY <3>1, <4>1, OrderedAs
    <3>3. /\ Holds(<<current>>, {current}) /\ Append(rest, current) = rest \o <<current>>
      BY <1>1, <3>1, HoldsOne DEF Holds
    <3>4. Range(<<current>>) \subseteq E
      BY <2>2, <3>3 DEF Holds
    <3> HIDE DEF E
    <3>5. Ordered(rest \o <<current>>, E)
      BY <3>1, <3>2, <3>3, <3>4, OrderedAppended DEF Holds
    <3>6. (states \ {current}) \cap {current} = {} /\ (states \ {current}) \cup {current} = states
      BY <1>1
    <3>7. Holds(rest \o <<current>>, states)
      BY <3>1, <3>3, <3>6, HoldsAppended
    <3> QED
      BY <2>2, <3>3, <3>5, <3>7 DEF rest
  <2>3. CASE ~evolves
    <3>1. evolved \cup fresh = E
      BY <2>3
    <3> QED
      BY <1>2, <2>1, <2>3, <3>1
  <2> QED
    BY <2>2, <2>3
<1>8. Holds(new, states') /\ Ordered(new, E)
  <2>1. Range(added) \subseteq E
    BY <1>5
  <2> HIDE DEF rotated, E
  <2>2. Holds(rotated \o added, states \cup fresh) /\ Ordered(rotated \o added, E)
    BY <1>5, <1>7, <2>1, HoldsAppended, OrderedAppended DEF Holds
  <2> QED
    BY <1>4, <2>2, HoldsErased, OrderedErased DEF Holds
<1>9. Ordered(new, now)
  <2>1. \A x \in Range(new) : x \in E <=> x \in now
    <3>1. added = <<>> => fresh = {}
      BY <1>5 DEF Range
    <3>2. \A x \in states' : x \in E <=> x \in now
      BY <1>1, <1>4, <3>1
    <3> QED
      BY <1>8, <3>2 DEF Holds
  <2> HIDE DEF new, E, now
  <2> QED
    BY <1>8, <2>1, OrderedAs
<1>10. evolved' = IF now = states' THEN {} ELSE now
  BY <1>1, <1>4, <1>5 DEF Evolved
<1>11. Ordered(new, {})
  BY DEF Ordered
<1>12. now \subseteq states' /\ None \notin states'
  BY <1>1, <1>4
<1> HIDE DEF new, now
<1> QED
  BY <1>1, <1>6, <1>9, <1>10, <1>11, <1>12 DEF BreadthOK

(* Whatever the stack, the state that runs is alive and not paused, and    *)
(* breadth first no state runs on after it forked before all others did.   *)
THEOREM RunnableIsSelected ==
  ASSUME NoPausedWalks
  PROVE  Spec => []SelectsRunnable
<1>1. Init => StackOK /\ BreadthOK
  <2> SUFFICES ASSUME Init PROVE StackOK /\ BreadthOK
    OBVIOUS
  <2>1. evolved = {} /\ states # {}
    BY DEF Init
  <2> QED
    BY <2>1, InitStack DEF BreadthOK, Ordered
<1>2. StackOK /\ BreadthOK /\ [Next]_vars => StackOK' /\ BreadthOK'
  <2> SUFFICES ASSUME StackOK, BreadthOK, [Next]_vars PROVE StackOK' /\ BreadthOK'
    OBVIOUS
  <2>1. CASE UNCHANGED vars
    BY <2>1 DEF vars, StackOK, BaseHolds, Cores, BreadthOK, OnlyBreadth
  <2>2. CASE Next
    BY <2>2, SelectStack, UpdateStack, SelectBreadth, UpdateBreadth DEF Next
  <2> QED
    BY <2>1, <2>2
<1>3. StackOK /\ BreadthOK => SelectsRunnable
  BY DEF StackOK, BreadthOK, SelectsRunnable, BreadthFirst
<1> QED
  BY <1>1, <1>2, <1>3, PTL DEF Spec
=============================================================================
