----------------------------- MODULE Searchers -----------------------------
(***************************************************************************)
(* The searchers that pick the state Executor::run() executes next         *)
(* (lib/klee/Core/Searcher.cpp, UserSearcher.cpp).  constructUserSearcher  *)
(* builds a stack from the command line: core searchers, an                *)
(* InterleavedSearcher over them if there are several, a BatchingSearcher  *)
(* and an IterativeDeepeningTimeSearcher on top if asked for.  Each core   *)
(* searcher but RandomPathSearcher keeps states of its own, and has to     *)
(* hear of every state that is added, removed, paused or resumed.          *)
(*                                                                         *)
(* Execution states are addresses, which order a std::set.  Weights, clock *)
(* and random numbers are left out: a random choice, a budget that ran out *)
(* and a time that has elapsed are nondeterministic.                       *)
(***************************************************************************)
EXTENDS Integers, FiniteSets, Sequences, SequencesExt

CONSTANTS
  StateIds, \* addresses of execution states
  None,     \* no state
  Options,  \* the searcher options of the command line
  MaxAdded  \* bound: how many states one instruction adds

CoreSearchType == {"DFS", "BFS", "RandomState", "RandomPath", "NURS", "NURS_Depth"}

ASSUME SearchersAssumption ==
  /\ StateIds \subseteq Nat /\ IsFiniteSet(StateIds)
  /\ None \notin StateIds /\ MaxAdded \in Nat
  /\ Options \subseteq [search : Seq(CoreSearchType) \ {<<>>},
                        batching : BOOLEAN, deepening : BOOLEAN]

VARIABLES
  options, \* --search, --use-batching-search, --use-iterative-deepening-time-search
  states,  \* Executor::states
  current, \* the state that is executing
  base,    \* the searchers below the deepening one: the states of each core
           \* searcher, BatchingSearcher::lastState, has an assertion failed
  index,   \* InterleavedSearcher::index
  paused,  \* IterativeDeepeningTimeSearcher::pausedStates
  evolved  \* history, for plain breadth-first search: the states that forked
           \* or were born since the last time every state had done so

vars == <<options, states, current, base, index, paused, evolved>>

Cores == DOMAIN options.search
OnlyBreadth == options.search = <<"BFS">> /\ ~options.batching /\ ~options.deepening

(* The elements of a std::set of addresses, or of indices, in order.       *)
ByAddress(S) ==
  [k \in 1..Cardinality(S) |-> CHOOSE x \in S : Cardinality({y \in S : y <= x}) = k]

(* A list with the states of S erased.                                     *)
Without(list, S) ==
  LET left == ByAddress({i \in DOMAIN list : list[i] \notin S})
  IN  [k \in DOMAIN left |-> list[left[k]]]

(* Mutant: BFS forgets to take it off its old place.                       *)
CoreUpdateTwice(type, list, cur, added, removed) ==
  LET evolves == type = "BFS" /\ added # <<>> /\ cur \notin removed \cup {None}
      rotated == IF evolves THEN Append(list, cur) ELSE list
  IN  IF type = "RandomPath" THEN <<>> ELSE Without(rotated \o added, removed)

(* A core searcher's update().  BFS moves a state that forked to the back, *)
(* RandomPathSearcher holds nothing: it walks the process tree.            *)
CoreUpdate(type, list, cur, added, removed) ==
  LET evolves == type = "BFS" /\ added # <<>> /\ cur \notin removed \cup {None}
      rotated == IF evolves THEN Append(Without(list, {cur}), cur) ELSE list
  IN  IF type = "RandomPath" THEN <<>> ELSE Without(rotated \o added, removed)

(* The assertions of update() and of DiscretePDF: a state that is removed, *)
(* or whose weight changes, is known, one that is inserted is not.         *)
CoreAsserts(type, list, cur, added, removed) ==
  type # "RandomPath" =>
    /\ removed \subseteq Range(list) \cup Range(added)
    /\ type \in {"NURS", "NURS_Depth"} => Range(list) \cap Range(added) = {}
    /\ \/ type = "NURS"
       \/ type = "BFS" /\ added # <<>>
       => cur \in removed \cup {None} \cup Range(list)

(* update() of the searchers below the deepening one.                      *)
BaseUpdate(b, cur, added, removed) ==
  [lists |-> [i \in Cores |->
                CoreUpdate(options.search[i], b.lists[i], cur, added, removed)],
   lastState |-> IF b.lastState \in removed THEN None ELSE b.lastState,
   failed |-> \/ b.failed
              \/ \E i \in Cores :
                   ~CoreAsserts(options.search[i], b.lists[i], cur, added, removed)]

(* empty() of an InterleavedSearcher asks its first searcher.              *)
BaseEmpty(b) ==
  IF options.search[1] = "RandomPath" THEN states = {} ELSE b.lists[1] = <<>>

(* run() hands the states that seeding left, or the initial one, to the    *)
(* new searcher.                                                           *)
Init ==
  /\ options \in Options
  /\ states \in (SUBSET StateIds) \ {{}}
  /\ current = None
  /\ base = BaseUpdate([lists |-> [i \in Cores |-> <<>>], lastState |-> None,
                        failed |-> FALSE], None, ByAddress(states), {})
  /\ index = 1
  /\ paused = {}
  /\ evolved = {}

(* The states core searcher i may select: none if it has none, where the   *)
(* code fails an assertion or its behaviour is undefined.                  *)
Selectable(i) ==
  LET list == base.lists[i]
      type == options.search[i]
  IN  CASE type = "RandomPath" -> states
        [] type # "RandomPath" /\ list = <<>> -> {None}
        [] type = "DFS" /\ list # <<>> -> {Last(list)}
        [] type = "BFS" /\ list # <<>> -> {Head(list)}
        [] OTHER -> Range(list)

(* BatchingSearcher::selectState() within its budget.                      *)
SelectLast ==
  /\ options.batching /\ base.lastState # None
  /\ current' = base.lastState
  /\ UNCHANGED <<base, index>>

(* InterleavedSearcher::selectState() asks its searchers from the last to  *)
(* the first.                                                              *)
TurnAfter(i) == IF i = 1 THEN Len(options.search) ELSE i - 1

(* selectState() of the core searcher whose turn it is.                    *)
SelectCore ==
  /\ index' = TurnAfter(index)
  /\ \E s \in Selectable(index) :
       /\ current' = s
       /\ base' = [base EXCEPT !.lastState = IF options.batching THEN s ELSE @,
                              !.failed = s = None]

Select ==
  /\ states # {} /\ current = None
  /\ SelectLast \/ SelectCore
  /\ UNCHANGED <<options, states, paused, evolved>>

(* IterativeDeepeningTimeSearcher::update(): the base does not hold what   *)
(* is paused; the current state is paused if it has taken too long; when   *)
(* nothing is left to run, everything paused is resumed.                   *)
FilteredNot(removed) == removed \* Mutant: the base hears of all removals.
PauseOnly(b, cur) == b \* Mutant: the base does not hear of the pause.
Filtered(removed) == removed \ paused
Pause(b, cur) == BaseUpdate(b, None, <<>>, {cur})
Resume(b, waiting) == BaseUpdate(b, None, ByAddress(waiting), {})

DeepeningUpdate(cur, added, removed, tooLong) ==
  LET pauses == tooLong /\ cur \notin removed
      updated == BaseUpdate(base, cur, added, Filtered(removed))
      left == IF pauses THEN Pause(updated, cur) ELSE updated
      waiting == (paused \ removed) \cup (IF pauses THEN {cur} ELSE {})
  IN  IF BaseEmpty(left)
      THEN base' = Resume(left, waiting) /\ paused' = {}
      ELSE base' = left /\ paused' = waiting

(* Who has evolved in this round once cur has forked.                      *)
Evolved(cur, added, left) ==
  LET now == IF OnlyBreadth /\ added # <<>>
             THEN (evolved \cup {cur} \cup Range(added)) \cap left
             ELSE evolved \cap left
  IN  IF now = left THEN {} ELSE now

(* The instruction that current executed has forked the added states and   *)
(* terminated the removed ones; the memory cap removes others as well.     *)
(* The searcher is told first, then updateStates() changes states.         *)
Update ==
  /\ current # None
  /\ \E removed \in SUBSET states, fresh \in SUBSET (StateIds \ states) :
       /\ Cardinality(fresh) <= MaxAdded
       /\ \E added \in SetToSeqs(fresh), tooLong \in BOOLEAN :
            /\ IF options.deepening
               THEN DeepeningUpdate(current, added, removed, tooLong)
               ELSE base' = BaseUpdate(base, current, added, removed) /\ UNCHANGED paused
            /\ states' = (states \cup fresh) \ removed
            /\ evolved' = Evolved(current, added, states')
  /\ current' = None
  /\ UNCHANGED <<options, index>>

Next == ~base.failed /\ (Select \/ Update)

Spec == Init /\ [][Next]_vars

----------------------------------------------------------------------------
(* Types of the variables.                                                 *)
TypeOK ==
  /\ options \in Options
  /\ states \subseteq StateIds
  /\ current \in StateIds \cup {None}
  /\ base.lists \in [Cores -> Seq(StateIds)]
  /\ base.lastState \in StateIds \cup {None}
  /\ base.failed \in BOOLEAN
  /\ index \in Cores
  /\ paused \subseteq StateIds
  /\ evolved \subseteq StateIds

(* No stack of searchers trips over its own book-keeping: what is removed  *)
(* or updated is known (Searcher.cpp:143, DiscretePDF.inc:116, 156), what  *)
(* is inserted is new, and no searcher that has to select is empty.        *)
NoAssertionFails == ~base.failed

(* The state a batch goes on with exists and is not paused: lastState is a *)
(* pointer that outlives every update (Searcher.cpp:408-418).              *)
BatchIsAlive == base.lastState # None => base.lastState \in states \ paused

(* Paused states exist, and something else is left to run: iterative       *)
(* deepening never waits for states only it can resume.                    *)
PausedWait == paused \subseteq states /\ (states # {} => states # paused)

(* A core searcher holds every state that is not paused, once: run()'s     *)
(* states, the lists and the paused states are updated in different places *)
(* and must tell the same story whenever the searcher is asked, and the    *)
(* batch and the paused states with them.                                  *)
HoldsWhatRuns ==
  /\ \A i \in Cores : options.search[i] # "RandomPath" =>
       /\ Range(base.lists[i]) = states \ paused
       /\ Len(base.lists[i]) = Cardinality(states \ paused)
  /\ BatchIsAlive
  /\ PausedWait

(* --search=bfs: "scheduling decisions are taken at the level of (2-way)   *)
(* forks" (UserSearcher.cpp:46): no state runs on after it forked while    *)
(* another has still to fork once.                                         *)
BreadthFirst == OnlyBreadth => current \notin evolved

(* Whatever the stack of searchers, the state that run() executes is a     *)
(* live one that is not paused, and breadth first one whose turn it is.    *)
SelectsRunnable == (current # None => current \in states \ paused) /\ BreadthFirst

=============================================================================
