------------------------- MODULE ExplorationProofs -------------------------
(***************************************************************************)
(* Proofs about the exploration loop for every set of states, inputs and   *)
(* seeds and every setting of the options.                                 *)
(***************************************************************************)
EXTENDS Exploration, FiniteSetTheorems, SequenceTheorems, TLAPS

USE DEF ConstantsAssumption

LEMMA NodeTypes ==
  ASSUME NEW n \in Nodes
  PROVE  Left(n) \in Nodes /\ Right(n) \in Nodes
PROOF BY DEF Nodes, Left, Right

LEMMA TreeTypes ==
  ASSUME NEW t \in SUBSET Nodes
  PROVE  /\ \A n \in Nodes : Split(t, n) \subseteq Nodes
         /\ \A n : Remove(t, n) \subseteq Nodes
         /\ \A S : RemoveAll(t, S) \subseteq Nodes
PROOF BY NodeTypes DEF Split, Remove, RemoveAll

LEMMA RootIsNode == Root \in Nodes
PROOF BY DEF Root, Nodes

-----------------------------------------------------------------------------
(* The work lists between and during instructions: what is new is not yet  *)
(* old, only old states are on removedStates, and all lists are empty at   *)
(* the heads of the loops.                                                 *)
ListsOK ==
  /\ IsFiniteSet(states \cup addedStates)
  /\ addedStates \cap states = {}
  /\ \A s \in StateIds : removedStates[s] > 0 => s \in states
  /\ hand \subseteq states \cup addedStates
  /\ hand \subseteq Live \cup (IF options.callsPointers THEN {current} ELSE {})
  /\ pc \in {"handler", "branching", "timers"} => current \in states
  /\ pc \notin {"handler", "branching"} => hand = {}
  /\ pc \in {"handler", "branching"} => hand \subseteq {current} \cup addedStates
  /\ pc \in {"seeding", "seeded", "loop", "dump", "done"} =>
       addedStates = {} /\ Removed = {}

(* While branch() makes its states they are alive, different, and share    *)
(* one path, of which its conditions are disjoint parts.                   *)
BranchOK ==
  /\ pc # "branching" => conditions = <<>> /\ result = <<>>
  /\ pc = "branching" =>
       /\ Chosen # {} /\ Chosen \subseteq Live
       /\ Chosen \subseteq {current} \cup addedStates
       /\ \A s \in Chosen : MayBranchOn(s, conditions)
       /\ \A s, t \in Chosen : es[s].cond = es[t].cond
       /\ Len(result) <= Len(conditions)
       /\ \A i, j \in 1..Len(result) :
            result[i] = result[j] /\ result[i] # NoState => i = j

LEMMA TerminateStateTypes ==
  ASSUME TypeOK, NEW s \in StateIds, TerminateState(s)
  PROVE  /\ es' \in [StateIds -> ExecutionState]
         /\ addedStates' \subseteq StateIds
         /\ removedStates' \in [StateIds -> Nat]
         /\ tree' \subseteq Nodes
         /\ seedAt' \in [Seeds -> StateIds \cup {NoState}]
PROOF
<1>1. Freed \in ExecutionState
  BY RootIsNode DEF Freed, ExecutionState
<1>2. Remove(tree, es[s].node) \subseteq Nodes
  BY TreeTypes DEF TypeOK
<1>3. CASE s \in addedStates
  BY <1>1, <1>2, <1>3 DEF TerminateState, TypeOK, EraseSeeds
<1>4. CASE s \notin addedStates
  BY <1>4 DEF TerminateState, TypeOK
<1> QED
  BY <1>3, <1>4

LEMMA NarrowTypes ==
  ASSUME TypeOK, NEW s \in StateIds, NEW c \in SUBSET Inputs, Narrow(s, c)
  PROVE  es' \in [StateIds -> ExecutionState] /\ dropped' \subseteq Inputs
PROOF BY DEF Narrow, TypeOK, ExecutionState

LEMMA ChildType ==
  ASSUME TypeOK, NEW s \in StateIds, NEW n \in Nodes, NEW c \in SUBSET Inputs
  PROVE  Child(s, n, c) \in ExecutionState
PROOF BY DEF Child, TypeOK, ExecutionState

LEMMA BranchedTypes ==
  ASSUME TypeOK, NEW s \in StateIds, NEW n \in StateIds,
         NEW c \in SUBSET Inputs, NEW d \in SUBSET Inputs
  PROVE  Branched(s, n, c, d) \in [StateIds -> ExecutionState]
PROOF
<1>1. es[s].node \in Nodes
  BY DEF TypeOK, ExecutionState
<1> QED
  BY <1>1, NodeTypes, ChildType DEF Branched, TypeOK

(* A state the handler goes on with although it has ended it.              *)
Ended(s) ==
  /\ options.callsPointers /\ s = current
  /\ s \in states /\ s \notin addedStates /\ removedStates[s] > 0

(* What a handler does with one of its states. *)
Handles(s) ==
  /\ s \in hand /\ s \in StateIds /\ s \in states \cup addedStates
  /\ s \in Live \/ Ended(s)
  /\ \/ \E c \in SUBSET es[s].cond :
          \/ ForkOneSide(s, c)
          \/ \E n \in FreshIds : ForkBoth(s, c, n)
          \/ ForkTooDeep(s, c)
          \/ s \in Live /\ Constrain(s, c)
     \/ \E k \in 1..MaxTargets :
          \E cs \in [1..k -> SUBSET es[s].cond] : s \in Live /\ BranchStart(s, cs)
     \/ Terminate(s)
     \/ s \in Live /\ SetForking(s)

LEMMA HandlerDoes ==
  ASSUME TypeOK, ListsOK, Handler
  PROVE  \E s : Handles(s)
PROOF
<1>1. PICK s \in hand :
        \/ \E c \in SUBSET es[s].cond :
             \/ ForkOneSide(s, c)
             \/ \E n \in FreshIds : ForkBoth(s, c, n)
             \/ ForkTooDeep(s, c)
             \/ s \in Live /\ Constrain(s, c)
        \/ \E k \in 1..MaxTargets :
             \E cs \in [1..k -> SUBSET es[s].cond] : s \in Live /\ BranchStart(s, cs)
        \/ Terminate(s)
        \/ s \in Live /\ SetForking(s)
  BY DEF Handler
<1>2. s \in StateIds /\ s \in states \cup addedStates
  BY <1>1 DEF ListsOK, TypeOK
<1>3. s \in Live \/ Ended(s)
  <2>1. CASE s \notin Live
    <3>1. options.callsPointers /\ s = current /\ pc = "handler" /\ s \in states
      BY <1>1, <2>1 DEF ListsOK, Handler
    <3>2. removedStates[s] > 0 /\ s \notin addedStates
      BY <1>2, <2>1, <3>1 DEF ListsOK, Live, TypeOK
    <3> QED
      BY <3>1, <3>2 DEF Ended
  <2> QED
    BY <2>1
<1> QED
  BY <1>1, <1>2, <1>3 DEF Handles

(* Each operation of a handler preserves the types. *)
LEMMA HandlerTypes ==
  ASSUME TypeOK, ListsOK, BranchOK, Handler
  PROVE  TypeOK'
PROOF
<1> USE ConstantsAssumption, InputsAssumption
<1>1. PICK s : Handles(s)
  BY HandlerDoes
<1>2. s \in StateIds /\ es[s] \in ExecutionState /\ es[s].cond \subseteq Inputs
  BY <1>1 DEF Handles, TypeOK, ExecutionState
<1>3. ASSUME NEW c \in SUBSET es[s].cond, ForkOneSide(s, c) PROVE TypeOK'
  BY <1>2, <1>3, NarrowTypes DEF ForkOneSide, TypeOK, seedVars, branchVars, loopVars
<1>4. ASSUME NEW c \in SUBSET es[s].cond, NEW n \in FreshIds, ForkBoth(s, c, n) PROVE TypeOK'
  <2>1. n \in StateIds
    BY DEF FreshIds
  <2>2. es' \in [StateIds -> ExecutionState]
    BY <1>2, <1>4, <2>1, BranchedTypes DEF ForkBoth
  <2>3. tree' \subseteq Nodes
    BY <1>2, <1>4, TreeTypes DEF ForkBoth, TypeOK, ExecutionState
  <2>4. seedAt' \in [Seeds -> StateIds \cup {NoState}]
    BY <1>4, <2>1 DEF ForkBoth, TypeOK
  <2>5. addedStates' \subseteq StateIds /\ hand' \subseteq StateIds /\ forks' \in Nat
    BY <1>4, <2>1 DEF ForkBoth, TypeOK
  <2>6. UNCHANGED <<options, pc, haltExecution, states, removedStates, seedVal, patched,
                    branchVars, pathsExplored, explored, dropped, loopVars>>
    BY <1>4 DEF ForkBoth
  <2> QED
    BY <2>2, <2>3, <2>4, <2>5, <2>6 DEF TypeOK, branchVars, loopVars
<1>5. ASSUME NEW c \in SUBSET es[s].cond, ForkTooDeep(s, c) PROVE TypeOK'
  <2>1. es' \in [StateIds -> ExecutionState]
    <3>1. Freed \in ExecutionState /\ es[s].node \in Nodes
      BY <1>2, RootIsNode DEF Freed, ExecutionState
    <3>2. Child(s, Right(es[s].node), es[s].cond \cap c) \in ExecutionState
      BY <1>2, <3>1, NodeTypes, ChildType
    <3> QED
      BY <1>2, <1>5, <3>1, <3>2 DEF ForkTooDeep, TypeOK
  <2>2. tree' \subseteq Nodes
    <3>1. Right(es[s].node) \in Nodes /\ Remove(tree, es[s].node) \subseteq Nodes
      BY <1>2, NodeTypes, TreeTypes DEF TypeOK, ExecutionState
    <3> QED
      BY <1>5, <3>1 DEF ForkTooDeep, TypeOK
  <2>3. seedAt' \in [Seeds -> StateIds \cup {NoState}]
    BY <1>5 DEF ForkTooDeep, TypeOK, EraseSeeds
  <2>4. removedStates' \in [StateIds -> Nat] /\ addedStates' \subseteq StateIds
    BY <1>5 DEF ForkTooDeep, TypeOK
  <2> QED
    BY <1>2, <1>5, <2>1, <2>2, <2>3, <2>4 DEF ForkTooDeep, TypeOK, HandWithout, branchVars, loopVars
<1>6. ASSUME NEW c \in SUBSET es[s].cond, Constrain(s, c) PROVE TypeOK'
  BY <1>2, <1>6, NarrowTypes DEF Constrain, Patch, TypeOK, branchVars, loopVars
<1>7. ASSUME NEW k \in 1..MaxTargets, NEW cs \in [1..k -> SUBSET es[s].cond], BranchStart(s, cs)
      PROVE  TypeOK'
  <2>1. cs \in Seq(SUBSET Inputs) /\ Len(cs) = k /\ k \in Nat /\ k >= 1 /\ DOMAIN cs = 1..k
    BY <1>2
  <2>2. result' \in Seq(StateIds \cup {NoState}) /\ forks' \in Nat
    <3>1. CASE ForkLimitReached
      <4>1. PICK next \in 1..k : result' = [i \in 1..k |-> IF i = next THEN s ELSE NoState]
        BY <1>7, <2>1, <3>1 DEF BranchStart
      <4>2. result' \in [1..k -> StateIds \cup {NoState}]
        BY <1>2, <4>1
      <4>3. forks' = forks
        BY <1>7, <3>1 DEF BranchStart
      <4>4. result' \in Seq(StateIds \cup {NoState})
        BY <2>1, <4>2
      <4> QED
        BY <4>3, <4>4 DEF TypeOK
    <3>2. CASE ~ForkLimitReached
      <4>1. result' = <<s>> /\ forks' = forks + (Len(cs) - 1)
        BY <1>7, <3>2 DEF BranchStart, ForksFor
      <4> QED
        BY <1>2, <2>1, <4>1 DEF TypeOK
    <3> QED
      BY <3>1, <3>2
  <2> QED
    BY <1>7, <2>1, <2>2 DEF BranchStart, TypeOK, stateVars, seedVars, loopVars
<1>8. ASSUME Terminate(s) PROVE TypeOK'
  <2>1. TerminateState(s)
    BY <1>8 DEF Terminate
  <2> QED
    BY <1>2, <1>8, <2>1, TerminateStateTypes DEF Terminate, HandWithout, TypeOK, branchVars, loopVars
<1>9. ASSUME SetForking(s) PROVE TypeOK'
  <2>1. PICK b \in BOOLEAN : es' = [es EXCEPT ![s].forkDisabled = b]
    BY <1>9 DEF SetForking
  <2>2. [es[s] EXCEPT !.forkDisabled = b] \in ExecutionState
    BY <1>2 DEF ExecutionState
  <2>3. es' \in [StateIds -> ExecutionState]
    BY <2>1, <2>2 DEF TypeOK
  <2> QED
    BY <1>9, <2>3 DEF SetForking, TypeOK, seedVars, branchVars, countVars, loopVars
<1> QED
  BY <1>1, <1>3, <1>4, <1>5, <1>6, <1>7, <1>8, <1>9 DEF Handles

(* No action changes the command line. *)
LEMMA OptionsStay ==
  ASSUME [Next]_vars
  PROVE  UNCHANGED options
PROOF
<1>1. CASE Loop
  BY <1>1 DEF Loop, SeedStep, SelectState, StartInstruction, SeedingHalted,
       SeedingDone, StopAfterSeeding, LeaveLoop, MemoryUnchecked, UpdateAborts,
       LeaveStates, Goto, StartSearch, HandlerReturn, TimersQuiet,
       MemoryMeasured, InstructionTimedOut, MemoryFarOver, UpdateStates,
       DumpStates, BranchSplit, BranchFinish
<1>2. CASE Handler
  <2>1. PICK s \in hand :
          \/ \E c : ForkOneSide(s, c) \/ ForkTooDeep(s, c) \/ Constrain(s, c)
          \/ \E c, n : ForkBoth(s, c, n)
          \/ \E cs : BranchStart(s, cs)
          \/ Terminate(s) \/ SetForking(s)
    BY <1>2 DEF Handler
  <2>2. CASE \E c : ForkOneSide(s, c) \/ ForkTooDeep(s, c) \/ Constrain(s, c)
    BY <2>2 DEF ForkOneSide, ForkTooDeep, Constrain
  <2>3. CASE \E c, n : ForkBoth(s, c, n)
    BY <2>3 DEF ForkBoth
  <2>4. CASE \E cs : BranchStart(s, cs)
    BY <2>4 DEF BranchStart
  <2>5. CASE Terminate(s) \/ SetForking(s)
    BY <2>5 DEF Terminate, SetForking
  <2> QED
    BY <2>1, <2>2, <2>3, <2>4, <2>5
<1>3. CASE Halt \/ UNCHANGED vars
  BY <1>3 DEF Halt, vars
<1> QED
  BY <1>1, <1>2, <1>3 DEF Next, Finished

LEMMA StepTypes ==
  ASSUME TypeOK, ListsOK, BranchOK, [Next]_vars
  PROVE  TypeOK'
PROOF
<1> USE ConstantsAssumption, InputsAssumption
<1> UNCHANGED options
  BY OptionsStay
<1>0. CASE UNCHANGED vars
  BY <1>0 DEF TypeOK, vars, stateVars, seedVars, branchVars, countVars, loopVars
<1>1. CASE Halt
  BY <1>1 DEF Halt, TypeOK, stateVars, seedVars, branchVars, countVars, loopVars
<1>2. CASE SeedStep \/ SelectState
  BY <1>2 DEF SeedStep, SelectState, StartInstruction, TypeOK, stateVars, seedVars, branchVars, countVars
<1>3. CASE SeedingHalted \/ SeedingDone \/ StopAfterSeeding \/ LeaveLoop \/ MemoryUnchecked \/ UpdateAborts \/ LeaveStates
  BY <1>3 DEF SeedingHalted, SeedingDone, StopAfterSeeding, LeaveLoop, MemoryUnchecked, UpdateAborts, LeaveStates, Goto, TypeOK, stateVars, seedVars, branchVars, countVars, loopVars
<1>4. CASE StartSearch
  BY <1>4 DEF StartSearch, TypeOK, stateVars, seedVars, branchVars, countVars
<1>5. CASE HandlerReturn
  BY <1>5 DEF HandlerReturn, TypeOK, stateVars, seedVars, branchVars, countVars, loopVars
<1>6. CASE TimersQuiet
  BY <1>6 DEF TimersQuiet, AfterTimers, TypeOK, stateVars, seedVars, branchVars, countVars, loopVars
<1>7. CASE MemoryMeasured
  BY <1>7 DEF MemoryMeasured, TypeOK, stateVars, seedVars, branchVars, countVars, loopVars
<1>8. CASE InstructionTimedOut
  <2>1. current \in StateIds /\ TerminateState(current)
    BY <1>8 DEF InstructionTimedOut, ListsOK, TypeOK
  <2> QED
    BY <1>8, <2>1, TerminateStateTypes DEF InstructionTimedOut, AfterTimers, TypeOK, ExecutionState, branchVars, loopVars
<1>9. CASE MemoryFarOver
  <2>1. PICK K \in SUBSET states :
          /\ removedStates' = [s \in StateIds |-> IF s \in K THEN removedStates[s] + 1 ELSE removedStates[s]]
          /\ pathsExplored' = pathsExplored + Cardinality(K)
          /\ explored' = explored \cup UNION {es[s].cond : s \in K}
    BY <1>9 DEF MemoryFarOver
  <2>2. Cardinality(K) \in Nat
    BY FS_Subset, FS_CardinalityType DEF ListsOK
  <2>3. UNION {es[s].cond : s \in K} \subseteq Inputs
    BY DEF TypeOK, ExecutionState
  <2> QED
    BY <1>9, <2>1, <2>2, <2>3 DEF MemoryFarOver, TypeOK, seedVars, branchVars
<1>10. CASE UpdateStates
  BY <1>10, RootIsNode, TreeTypes DEF UpdateStates, TypeOK, MergedStates, EraseSeeds, Freed, ExecutionState, seedVars, branchVars, countVars, loopVars
<1>11. CASE DumpStates
  <2>1. Cardinality(states) \in Nat
    BY FS_Subset, FS_CardinalityType DEF ListsOK
  <2>2. UNION {es[s].cond : s \in states} \subseteq Inputs
    BY DEF TypeOK, ExecutionState
  <2>3. Freed \in ExecutionState
    BY RootIsNode DEF Freed, ExecutionState
  <2>4. tree' \subseteq Nodes
    BY <1>11, TreeTypes DEF DumpStates, TypeOK
  <2>5. seedAt' \in [Seeds -> StateIds \cup {NoState}]
    BY <1>11 DEF DumpStates, EraseSeeds, TypeOK
  <2>6. es' \in [StateIds -> ExecutionState]
    BY <1>11, <2>3 DEF DumpStates
  <2>7. /\ pc' = "done" /\ states' = {}
        /\ pathsExplored' = pathsExplored + Cardinality(states)
        /\ explored' = explored \cup UNION {es[s].cond : s \in states}
        /\ UNCHANGED <<hand, haltExecution, addedStates, removedStates, seedVal, patched,
                       conditions, result, forks, dropped, searching, current, atMemoryLimit>>
    BY <1>11 DEF DumpStates, branchVars, loopVars
  <2> QED
    BY <2>1, <2>2, <2>4, <2>5, <2>6, <2>7 DEF TypeOK
<1>12. CASE BranchSplit
  <2>1. PICK parent \in Chosen, n \in FreshIds :
          /\ es' = Branched(parent, n, es[parent].cond, es[parent].cond)
          /\ tree' = Split(tree, es[parent].node)
          /\ addedStates' = addedStates \cup {n}
          /\ result' = Append(result, n)
    BY <1>12 DEF BranchSplit
  <2>2. n \in StateIds /\ parent \in StateIds
    BY <1>12 DEF FreshIds, BranchSplit, BranchOK, Live, TypeOK
  <2>3. es' \in [StateIds -> ExecutionState] /\ tree' \subseteq Nodes
    BY <2>1, <2>2, BranchedTypes, TreeTypes DEF TypeOK, ExecutionState
  <2>4. result' \in Seq(StateIds \cup {NoState})
    BY <2>1, <2>2 DEF TypeOK
  <2> QED
    BY <1>12, <2>1, <2>2, <2>3, <2>4 DEF BranchSplit, TypeOK, seedVars, countVars, loopVars
<1>13. CASE BranchFinish
  <2>1. PICK dest \in [Seeds -> Targets] : FinishWith(dest)
    BY <1>13 DEF BranchFinish
  <2>2. seedAt' \in [Seeds -> StateIds \cup {NoState}]
    BY <1>13, <2>1 DEF FinishWith, BranchFinish, Moved, Targets, TypeOK
  <2>3. Killed(dest) \subseteq Chosen /\ Chosen \subseteq states \cup addedStates
    BY <1>13 DEF Killed, BranchFinish, BranchOK, Live
  <2>4. Cardinality(Killed(dest)) \in Nat
    BY <2>3, FS_Subset, FS_CardinalityType DEF ListsOK
  <2>5. \A s \in Chosen \ Killed(dest) : CondOf(dest, s) \subseteq Inputs
    <3> SUFFICES ASSUME NEW s \in Chosen \ Killed(dest)
                 PROVE  CondOf(dest, s) \subseteq Inputs
      OBVIOUS
    <3>1. \E i \in Targets : result[i] = s
      BY <1>13 DEF BranchFinish, Chosen, Targets
    <3>2. PICK i \in Targets : CondOf(dest, s) = conditions[i]
      BY <3>1 DEF CondOf, Kept
    <3> QED
      BY <3>2 DEF Targets, TypeOK
  <2>6. es' \in [StateIds -> ExecutionState]
    BY <2>1, <2>5, RootIsNode DEF FinishWith, TypeOK, ExecutionState, Freed
  <2>7. dropped' \subseteq Inputs
    BY <2>1, <2>3 DEF FinishWith, TypeOK, ExecutionState
  <2>8. seedVal' \in [Seeds -> Inputs] /\ patched' \subseteq Seeds
    BY <2>1 DEF FinishWith, Patch, TypeOK
  <2>9. tree' \subseteq Nodes
    BY <2>1, TreeTypes DEF FinishWith, TypeOK
  <2>10. /\ addedStates' \subseteq StateIds /\ hand' \subseteq StateIds
         /\ removedStates' \in [StateIds -> Nat]
    BY <2>1, <2>3 DEF FinishWith, TypeOK
  <2>11. pathsExplored' \in Nat
    BY <2>1, <2>4 DEF FinishWith, TypeOK
  <2>12. /\ pc' = "handler" /\ conditions' = <<>> /\ result' = <<>>
         /\ UNCHANGED <<haltExecution, states, forks, explored, loopVars>>
    BY <1>13 DEF BranchFinish
  <2> QED
    BY <2>2, <2>6, <2>7, <2>8, <2>9, <2>10, <2>11, <2>12 DEF TypeOK, loopVars
<1>14. CASE Handler
  BY <1>14, HandlerTypes
<1> QED
  BY <1>0, <1>1, <1>2, <1>3, <1>4, <1>5, <1>6, <1>7, <1>8, <1>9, <1>10, <1>11, <1>12, <1>13, <1>14 DEF Next, Loop, Finished

-----------------------------------------------------------------------------
(* The lists and branch()'s vectors. *)

LEMMA ListsKept ==
  ASSUME ListsOK,
         UNCHANGED <<options, pc, hand, current, states, addedStates, removedStates>>
  PROVE  ListsOK'
PROOF BY DEF ListsOK, Live, Removed

(* What it takes away from the lists that a handler ends state s. *)
EndsState(s) ==
  \/ s \in addedStates /\ addedStates' = addedStates \ {s} /\ UNCHANGED removedStates
  \/ /\ s \in states /\ UNCHANGED addedStates
     /\ removedStates' = [removedStates EXCEPT ![s] = @ + 1]

LEMMA EndsStateLists ==
  ASSUME TypeOK, ListsOK, NEW s \in states \cup addedStates, EndsState(s),
         UNCHANGED <<options, states, current>>,
         hand' = HandWithout(s),
         \/ pc = "handler" /\ pc' = "handler"
         \/ pc = "timers" /\ pc' \in {"memory", "update"} /\ hand = {}
  PROVE  ListsOK'
PROOF
<1>1. IsFiniteSet(states' \cup addedStates')
  BY FS_Subset DEF ListsOK, EndsState
<1>2. /\ hand' \subseteq Live' \cup (IF options'.callsPointers THEN {current'} ELSE {})
      /\ hand' \subseteq states' \cup addedStates'
  <2>1. \A t \in Live \ {s} : t \in Live'
    BY DEF ListsOK, EndsState, Live, TypeOK
  <2>2. CASE options.callsPointers /\ s = current
    <3>1. hand' = hand /\ \A t \in hand : t \in Live \/ t = s
      BY <2>2 DEF HandWithout, ListsOK
    <3>2. s \notin addedStates \/ hand = {}
      BY <2>2 DEF ListsOK
    <3> QED
      BY <2>1, <2>2, <3>1, <3>2 DEF ListsOK, EndsState
  <2>3. CASE ~(options.callsPointers /\ s = current)
    <3>1. hand' = hand \ {s}
      BY <2>3 DEF HandWithout
    <3> QED
      BY <2>1, <2>3, <3>1 DEF ListsOK, EndsState
  <2> QED
    BY <2>2, <2>3
<1>3. \A t \in StateIds : removedStates'[t] > 0 => t \in states'
  BY DEF ListsOK, EndsState, TypeOK
<1>4. /\ pc' \notin {"handler", "branching"} => hand' = {}
      /\ pc' \in {"handler", "branching"} => hand' \subseteq {current'} \cup addedStates'
  <2>1. hand' \subseteq hand /\ (pc = "handler" => s \notin hand' \/ s \notin addedStates)
    BY DEF HandWithout, ListsOK
  <2> QED
    BY <2>1 DEF ListsOK, EndsState
<1>5. /\ addedStates' \cap states' = {}
      /\ pc' \in {"handler", "branching", "timers"} => current' \in states'
      /\ pc' \notin {"seeding", "seeded", "loop", "dump", "done"}
  BY DEF ListsOK, EndsState
<1> QED
  BY <1>1, <1>2, <1>3, <1>4, <1>5 DEF ListsOK

LEMMA HandlerLists ==
  ASSUME TypeOK, ListsOK, BranchOK, Handler
  PROVE  ListsOK' /\ BranchOK'
PROOF
<1> USE ConstantsAssumption
<1>0. pc = "handler" /\ conditions = <<>> /\ result = <<>> /\ UNCHANGED options
  <2>1. [Next]_vars
    BY DEF Next
  <2> QED
    BY <2>1, OptionsStay DEF Handler, BranchOK
<1>1. PICK s : Handles(s)
  BY HandlerDoes
<1>2. s \in hand /\ s \in StateIds /\ s \in states \cup addedStates
  BY <1>1 DEF Handles
<1>3. CASE \/ \E c \in SUBSET es[s].cond : ForkOneSide(s, c) \/ Constrain(s, c)
           \/ SetForking(s)
  <2>1. UNCHANGED <<pc, hand, current, states, addedStates, removedStates, conditions, result>>
    BY <1>3 DEF ForkOneSide, Constrain, SetForking, branchVars, loopVars
  <2> QED
    BY <1>0, <2>1, ListsKept DEF BranchOK
<1>4. ASSUME NEW c \in SUBSET es[s].cond, NEW n \in FreshIds, ForkBoth(s, c, n)
      PROVE  ListsOK' /\ BranchOK'
  <2>1. /\ addedStates' = addedStates \cup {n} /\ hand' = hand \cup {n}
        /\ UNCHANGED <<pc, current, states, removedStates, conditions, result>>
    BY <1>4 DEF ForkBoth, branchVars, loopVars
  <2>2. n \in StateIds /\ n \notin states \cup addedStates /\ removedStates[n] = 0
    BY DEF FreshIds, ListsOK, TypeOK
  <2>3. IsFiniteSet(states' \cup addedStates')
    <3>1. states' \cup addedStates' = (states \cup addedStates) \cup {n}
      BY <2>1
    <3> QED
      BY <3>1, FS_AddElement DEF ListsOK
  <2>4. /\ hand' \subseteq Live' \cup (IF options'.callsPointers THEN {current'} ELSE {})
        /\ hand' \subseteq states' \cup addedStates'
    BY <1>0, <2>1, <2>2 DEF ListsOK, Live
  <2> QED
    BY <1>0, <2>1, <2>2, <2>3, <2>4 DEF ListsOK, BranchOK
<1>5. ASSUME \/ \E c \in SUBSET es[s].cond : ForkTooDeep(s, c)
             \/ Terminate(s)
      PROVE  ListsOK' /\ BranchOK'
  <2>1. EndsState(s)
    BY <1>2, <1>5 DEF EndsState, ForkTooDeep, Terminate, TerminateState
  <2>2. /\ hand' = HandWithout(s)
        /\ UNCHANGED <<pc, current, states, conditions, result>>
    BY <1>5 DEF ForkTooDeep, Terminate, branchVars, loopVars
  <2> QED
    BY <1>0, <1>2, <2>1, <2>2, EndsStateLists DEF BranchOK
<1>6. ASSUME NEW k \in 1..MaxTargets, NEW cs \in [1..k -> SUBSET es[s].cond],
             s \in Live, BranchStart(s, cs)
      PROVE  ListsOK' /\ BranchOK'
  <2>1. /\ pc' = "branching" /\ conditions' = cs /\ MayBranchOn(s, cs)
        /\ UNCHANGED <<hand, current, es, states, addedStates, removedStates>>
    BY <1>6 DEF BranchStart, stateVars, loopVars
  <2>2. /\ Len(cs) = k /\ k \in Nat /\ k >= 1 /\ DOMAIN cs = 1..k
    OBVIOUS
  <2>3. /\ Chosen' = {s} /\ Len(result') <= Len(conditions')
        /\ \A i, j \in 1..Len(result') :
             result'[i] = result'[j] /\ result'[i] # NoState => i = j
    <3>1. CASE ForkLimitReached
      <4>1. PICK next \in 1..k : result' = [i \in 1..k |-> IF i = next THEN s ELSE NoState]
        BY <1>6, <2>2, <3>1 DEF BranchStart
      <4>2. Len(result') = k
        BY <2>2, <4>1
      <4>3. Chosen' = {s}
        BY <1>2, <4>1, <4>2 DEF Chosen
      <4> QED
        BY <2>1, <2>2, <4>1, <4>2, <4>3
    <3>2. CASE ~ForkLimitReached
      <4>1. result' = <<s>>
        BY <1>6, <3>2 DEF BranchStart
      <4>2. Chosen' = {s}
        BY <1>2, <4>1 DEF Chosen
      <4> QED
        BY <2>1, <2>2, <4>1, <4>2
    <3> QED
      BY <3>1, <3>2
  <2>4. ListsOK'
    BY <1>0, <2>1 DEF ListsOK, Live
  <2>5. s \in {current} \cup addedStates
    BY <1>0, <1>2 DEF ListsOK
  <2> QED
    BY <1>2, <1>6, <2>1, <2>3, <2>4, <2>5 DEF BranchOK, Live, MayBranchOn
<1> QED
  BY <1>1, <1>3, <1>4, <1>5, <1>6 DEF Handles

(* Every step preserves both. *)
LEMMA StepLists ==
  ASSUME TypeOK, ListsOK, BranchOK, [Next]_vars
  PROVE  ListsOK' /\ BranchOK'
PROOF
<1> USE ConstantsAssumption
<1>12. UNCHANGED options
  BY OptionsStay
<1>0. CASE UNCHANGED vars
  <2>1. UNCHANGED <<pc, hand, current, es, states, addedStates, removedStates, conditions, result>>
    BY <1>0 DEF vars, stateVars, branchVars, loopVars
  <2>2. ListsOK'
    BY <1>12, <2>1, ListsKept
  <2> QED
    BY <2>1, <2>2 DEF BranchOK, Chosen, Live, MayBranchOn
<1>1. CASE Halt
  <2>1. UNCHANGED <<pc, hand, current, es, states, addedStates, removedStates, conditions, result>>
    BY <1>1 DEF Halt, stateVars, branchVars, loopVars
  <2>2. ListsOK'
    BY <1>12, <2>1, ListsKept
  <2> QED
    BY <2>1, <2>2 DEF BranchOK, Chosen, Live, MayBranchOn
<1>2. CASE SeedStep \/ SelectState
  <2>1. PICK s \in states : StartInstruction(s)
    BY <1>2 DEF SeedStep, SelectState
  <2>2. pc \in {"seeding", "loop"}
    BY <1>2 DEF SeedStep, SelectState
  <2> QED
    BY <2>1, <2>2 DEF StartInstruction, ListsOK, BranchOK, Live, Removed, TypeOK, stateVars, branchVars
<1>3. CASE SeedingHalted \/ SeedingDone \/ StopAfterSeeding \/ LeaveLoop \/ LeaveStates \/ StartSearch
  BY <1>3 DEF SeedingHalted, SeedingDone, StopAfterSeeding, LeaveLoop, LeaveStates, StartSearch,
              Goto, ListsOK, BranchOK, Live, Removed, stateVars, branchVars, loopVars
<1>4. CASE MemoryUnchecked \/ UpdateAborts \/ MemoryMeasured \/ TimersQuiet \/ HandlerReturn
  BY <1>4 DEF MemoryUnchecked, UpdateAborts, MemoryMeasured, TimersQuiet, HandlerReturn, AfterTimers,
              Goto, ListsOK, BranchOK, Live, Removed, stateVars, branchVars, loopVars
<1>5. CASE InstructionTimedOut
  <2>1. current \in states /\ hand = {} /\ pc = "timers"
    BY <1>5 DEF InstructionTimedOut, ListsOK
  <2>2. EndsState(current)
    BY <1>5, <2>1 DEF EndsState, InstructionTimedOut, TerminateState
  <2>3. /\ hand' = HandWithout(current) /\ pc' \in {"memory", "update"}
        /\ UNCHANGED <<current, states, conditions, result>>
    BY <1>5, <2>1 DEF InstructionTimedOut, HandWithout, AfterTimers, branchVars, loopVars
  <2> QED
    BY <1>12, <2>1, <2>2, <2>3, EndsStateLists DEF BranchOK
<1>6. CASE MemoryFarOver
  BY <1>6 DEF MemoryFarOver, ListsOK, BranchOK, Live, TypeOK, branchVars, seedVars
<1>7. CASE UpdateStates
  <2>1. IsFiniteSet(states' \cup addedStates')
    BY <1>7, FS_Subset DEF UpdateStates, MergedStates, ListsOK
  <2> QED
    BY <1>7, <2>1 DEF UpdateStates, ListsOK, BranchOK, Live, Removed, branchVars
<1>8. CASE DumpStates
  <2>1. IsFiniteSet(states' \cup addedStates')
    BY <1>8, FS_Subset DEF DumpStates, ListsOK
  <2> QED
    BY <1>8, <2>1 DEF DumpStates, ListsOK, BranchOK, Live, Removed, branchVars, loopVars
<1>9. CASE BranchSplit
  <2>1. PICK parent \in Chosen, n \in FreshIds :
          /\ es' = Branched(parent, n, es[parent].cond, es[parent].cond)
          /\ addedStates' = addedStates \cup {n}
          /\ result' = Append(result, n)
    BY <1>9 DEF BranchSplit
  <2>2. /\ pc = "branching" /\ Len(result) < Len(conditions)
        /\ UNCHANGED <<pc, hand, states, removedStates, conditions, current>>
    BY <1>9 DEF BranchSplit, loopVars
  <2>3. /\ n \in StateIds /\ n \notin states \cup addedStates /\ removedStates[n] = 0
        /\ n # NoState /\ parent \in StateIds /\ parent # n
    BY <2>2 DEF FreshIds, ListsOK, TypeOK, BranchOK, Live
  <2>4. IsFiniteSet(states' \cup addedStates')
    <3>1. states' \cup addedStates' = (states \cup addedStates) \cup {n}
      BY <2>1, <2>2
    <3> QED
      BY <3>1, FS_AddElement DEF ListsOK
  <2>5. ListsOK'
    BY <1>12, <2>1, <2>2, <2>3, <2>4 DEF ListsOK, Live
  <2>6. /\ Len(result') = Len(result) + 1
        /\ \A i \in 1..Len(result) : result'[i] = result[i]
        /\ result'[Len(result) + 1] = n
    BY <2>1, <2>3 DEF TypeOK
  <2>7. Chosen' = Chosen \cup {n}
    <3>1. Len(result) \in Nat
      BY DEF TypeOK
    <3>2. 1..Len(result)' = 1..Len(result) \cup {Len(result) + 1}
      BY <2>6, <3>1
    <3> QED
      BY <2>3, <2>6, <3>2 DEF Chosen
  <2>8. \A t \in Chosen' : es'[t].cond = es[parent].cond
    <3>1. \A t \in Chosen : es[t].cond = es[parent].cond /\ t \in StateIds
      BY <2>2 DEF BranchOK, Live, TypeOK
    <3> QED
      BY <2>1, <2>3, <2>7, <3>1 DEF Branched, Child, TypeOK
  <2>9. \A i, j \in 1..Len(result') :
          result'[i] = result'[j] /\ result'[i] # NoState => i = j
    <3>1. \A i \in 1..Len(result) : result[i] # n
      BY <2>2, <2>3 DEF BranchOK, Chosen, Live
    <3>2. Len(result) \in Nat
      BY DEF TypeOK
    <3> QED
      BY <2>2, <2>6, <3>1, <3>2 DEF BranchOK
  <2>10. Len(result') <= Len(conditions')
    BY <2>2, <2>6 DEF TypeOK
  <2>11. \A t \in Chosen' : MayBranchOn(t, conditions)'
    BY <2>2, <2>8 DEF BranchOK, MayBranchOn
  <2>12. Chosen' # {} /\ Chosen' \subseteq Live' /\ Chosen' \subseteq {current'} \cup addedStates'
    BY <2>1, <2>2, <2>3, <2>7 DEF BranchOK, Live
  <2>13. \A t, u \in Chosen' : es'[t].cond = es'[u].cond
    BY <2>8
  <2> QED
    BY <2>2, <2>5, <2>9, <2>10, <2>11, <2>12, <2>13 DEF BranchOK
<1>10. CASE BranchFinish
  <2>1. PICK dest \in [Seeds -> Targets] : FinishWith(dest)
    BY <1>10 DEF BranchFinish
  <2>2. /\ pc = "branching" /\ pc' = "handler" /\ conditions' = <<>> /\ result' = <<>>
        /\ UNCHANGED <<states, current>>
    BY <1>10 DEF BranchFinish, loopVars
  <2>3. Killed(dest) \subseteq Chosen /\ Chosen \subseteq Live
    BY <2>2 DEF Killed, BranchOK
  <2>4. IsFiniteSet(states' \cup addedStates')
    <3>1. states' \cup addedStates' \subseteq states \cup addedStates
      BY <2>1, <2>2 DEF FinishWith
    <3> QED
      BY <3>1, FS_Subset DEF ListsOK
  <2>5. /\ addedStates' = addedStates \ Killed(dest)
        /\ \A t \in StateIds : removedStates'[t] =
             IF t \in Killed(dest) \ addedStates THEN removedStates[t] + 1 ELSE removedStates[t]
        /\ hand' = (hand \cup Chosen) \ Killed(dest)
    BY <2>1 DEF FinishWith
  <2>6. /\ hand' \subseteq Live' \cup (IF options'.callsPointers THEN {current'} ELSE {})
        /\ hand' \subseteq states' \cup addedStates'
    <3>1. Live \ Killed(dest) \subseteq Live'
      BY <2>2, <2>3, <2>5 DEF ListsOK, Live, TypeOK
    <3>2. \A t \in hand' : t \in Live \ Killed(dest) \/ (options.callsPointers /\ t = current)
      BY <2>3, <2>5 DEF ListsOK
    <3>3. hand' \subseteq states' \cup addedStates'
      BY <2>2, <2>3, <2>5 DEF ListsOK, Live
    <3> QED
      BY <1>12, <2>2, <3>1, <3>2, <3>3
  <2>7. hand' \subseteq {current'} \cup addedStates'
    BY <2>2, <2>5 DEF ListsOK, BranchOK
  <2>8. \A t \in StateIds : removedStates'[t] > 0 => t \in states'
    BY <2>2, <2>3, <2>5 DEF ListsOK, Live, TypeOK
  <2> QED
    BY <2>2, <2>4, <2>5, <2>6, <2>7, <2>8 DEF ListsOK, BranchOK
<1>11. CASE Handler
  BY <1>11, HandlerLists
<1> QED
  BY <1>0, <1>1, <1>2, <1>3, <1>4, <1>5, <1>6, <1>7, <1>8, <1>9, <1>10, <1>11 DEF Next, Loop, Finished

LEMMA InitOK ==
  ASSUME Init
  PROVE  TypeOK /\ ListsOK /\ BranchOK
PROOF
<1> USE ConstantsAssumption, InputsAssumption
<1>1. PICK s \in StateIds :
        /\ states = {s}
        /\ es = [t \in StateIds |-> IF t = s THEN [Freed EXCEPT !.cond = Inputs] ELSE Freed]
        /\ seedAt = [sd \in Seeds |-> s]
  BY DEF Init
<1>2. Freed \in ExecutionState /\ [Freed EXCEPT !.cond = Inputs] \in ExecutionState
  BY RootIsNode DEF Freed, ExecutionState
<1>3. TypeOK
  <2>1. es \in [StateIds -> ExecutionState] /\ seedAt \in [Seeds -> StateIds \cup {NoState}]
    BY <1>1, <1>2
  <2>2. tree \subseteq Nodes /\ conditions \in Seq(SUBSET Inputs)
        /\ result \in Seq(StateIds \cup {NoState})
    BY RootIsNode DEF Init
  <2>3. pc \in {"seeded", "seeding"}
    BY DEF Init
  <2> QED
    BY <1>1, <2>1, <2>2, <2>3 DEF Init, TypeOK
<1>4. IsFiniteSet(states \cup addedStates)
  <2>1. states \cup addedStates = {s}
    BY <1>1 DEF Init
  <2> QED
    BY <2>1, FS_Singleton
<1>5. ListsOK
  BY <1>4 DEF Init, ListsOK, Live, Removed
<1> QED
  BY <1>3, <1>5 DEF Init, BranchOK

(* The variables keep their types, and the lists and branch()'s vectors    *)
(* stay in order, in every run of the executor.                            *)
THEOREM TypeCorrect == Spec => []TypeOK
PROOF
<1>1. Init => TypeOK /\ ListsOK /\ BranchOK
  BY InitOK
<1>2. TypeOK /\ ListsOK /\ BranchOK /\ [Next]_vars => (TypeOK /\ ListsOK /\ BranchOK)'
  BY StepTypes, StepLists
<1> QED
  BY <1>1, <1>2, PTL DEF Spec

THEOREM ListsCorrect == Spec => [](TypeOK /\ ListsOK /\ BranchOK)
PROOF
<1>1. Init => TypeOK /\ ListsOK /\ BranchOK
  BY InitOK
<1>2. TypeOK /\ ListsOK /\ BranchOK /\ [Next]_vars => (TypeOK /\ ListsOK /\ BranchOK)'
  BY StepTypes, StepLists
<1> QED
  BY <1>1, <1>2, PTL DEF Spec

(* What the handler holds is the current state or a new one, and alive but *)
(* for the current state of a call of a symbolic pointer or of va_start:   *)
(* no handler touches a state that was deleted, nor another's.             *)
THEOREM HandlersOwnTheirStates == Spec => []HandlerOwnsItsStates
PROOF
<1>1. TypeOK /\ ListsOK /\ BranchOK => HandlerOwnsItsStates
  BY DEF ListsOK, HandlerOwnsItsStates
<1> QED
  BY <1>1, ListsCorrect, PTL

-----------------------------------------------------------------------------
(* The paths partition the inputs. *)

PathsOK == PathsDisjoint /\ NoInputLost

LEMMA NoneChosen ==
  ASSUME result = <<>>
  PROVE  Chosen = {}
PROOF BY DEF Chosen

(* Steps that leave the states and their conditions alone. *)
LEMMA PathsKept ==
  ASSUME PathsOK, UNCHANGED <<options, es, states, addedStates, removedStates, explored, dropped>>,
         Chosen = Chosen'
  PROVE  PathsOK'
PROOF BY DEF PathsOK, PathsDisjoint, NoInputLost, Live, EndsAreFinal, RemovedOnce, RemovedTwice, SamePath

(* The states K, which share the path p, are replaced by the states N,     *)
(* which take disjoint parts of it; the rest of it is given up.            *)
Divides(p, K, N) ==
  /\ K \subseteq Live /\ K # {} /\ \A t \in K : es[t].cond = p
  /\ \A s \in K, t \in Live \ K : ~SamePath(s, t)
  /\ Live' = (Live \ K) \cup N
  /\ \A t \in Live \ K : es'[t].cond = es[t].cond
  /\ \A t \in N : es'[t].cond \subseteq p /\ es'[t].cond # {}
  /\ \A t, u \in N : t = u \/ es'[t].cond \cap es'[u].cond = {}
  /\ dropped' = dropped \cup (p \ UNION {es'[t].cond : t \in N})
  /\ UNCHANGED explored

LEMMA DividesPaths ==
  ASSUME PathsOK, EndsAreFinal' => EndsAreFinal, NEW p, NEW K, NEW N, Divides(p, K, N),
         Chosen \subseteq K, Chosen' = {}
  PROVE  PathsOK'
PROOF
<1> DEFINE given == p \ UNION {es'[t].cond : t \in N}
<1>1. /\ \A x \in given : x \in p /\ \A t \in N : x \notin es'[t].cond
      /\ \A x \in p : x \in given \/ \E t \in N : x \in es'[t].cond
      /\ dropped' = dropped \cup given /\ explored' = explored
  BY DEF Divides
<1> HIDE DEF given
<1>2. NoInputLost'
  <2> SUFFICES ASSUME NEW x \in Inputs
               PROVE  \/ x \in (explored \cup dropped)'
                      \/ \E t \in Live' : x \in es'[t].cond
    BY DEF NoInputLost
  <2>1. CASE x \in p
    BY <1>1, <2>1 DEF Divides
  <2>2. CASE x \notin p
    BY <1>1, <2>2 DEF Divides, PathsOK, NoInputLost
  <2> QED
    BY <2>1, <2>2
<1>3. PathsDisjoint'
  <2> SUFFICES ASSUME EndsAreFinal' PROVE PathsDisjoint'
    BY DEF PathsDisjoint
  <2>1. /\ \A t, u \in Live : SamePath(t, u) \/ es[t].cond \cap es[u].cond = {}
        /\ \A t \in Live : es[t].cond \cap (explored \cup dropped) = {}
        /\ explored \cap dropped = {}
    BY DEF PathsOK, PathsDisjoint
  <2>2. (\A t \in Live \ K : es[t].cond \cap p = {}) /\ p \cap (explored \cup dropped) = {}
    BY <2>1 DEF Divides
  <2>3. \A t, u \in Live \ K : t = u \/ es[t].cond \cap es[u].cond = {}
    BY <2>1 DEF SamePath
  <2>4. \A t, u \in Live' : t = u \/ es'[t].cond \cap es'[u].cond = {}
    <3> SUFFICES ASSUME NEW t \in Live', NEW u \in Live', t # u
                 PROVE  es'[t].cond \cap es'[u].cond = {}
      OBVIOUS
    <3>1. CASE t \in N /\ u \in N
      BY <3>1 DEF Divides
    <3>2. CASE t \in N /\ u \in Live \ K
      BY <2>2, <3>2 DEF Divides
    <3>3. CASE t \in Live \ K /\ u \in N
      BY <2>2, <3>3 DEF Divides
    <3>4. CASE t \in Live \ K /\ u \in Live \ K
      BY <2>3, <3>4 DEF Divides
    <3> QED
      BY <3>1, <3>2, <3>3, <3>4 DEF Divides
  <2>5. \A t \in Live' : es'[t].cond \cap (explored' \cup dropped') = {}
    <3> SUFFICES ASSUME NEW t \in Live'
                 PROVE  es'[t].cond \cap (explored' \cup dropped') = {}
      OBVIOUS
    <3>1. CASE t \in N
      BY <1>1, <2>2, <3>1 DEF Divides
    <3>2. CASE t \in Live \ K
      BY <1>1, <2>1, <2>2, <3>2 DEF Divides
    <3> QED
      BY <3>1, <3>2 DEF Divides
  <2>6. explored' \cap dropped' = {}
    BY <1>1, <2>1, <2>2
  <2> QED
    BY <2>4, <2>5, <2>6 DEF PathsDisjoint, SamePath
<1> QED
  BY <1>2, <1>3 DEF PathsOK

(* One state takes a part of its path, the rest is given up. *)
LEMMA NarrowDivides ==
  ASSUME TypeOK, NEW s \in Live, s \in StateIds, NEW c \in SUBSET es[s].cond,
         Narrow(s, c), es[s].cond \cap c # {}, Chosen = {},
         UNCHANGED <<states, addedStates, removedStates, explored>>
  PROVE  \E p : Divides(p, {s}, {s})
PROOF
<1> DEFINE K == {s}
<1>1. Live' = Live
  BY DEF Live
<1>2. es'[s].cond = es[s].cond \cap c /\ \A t \in Live \ K : es'[t].cond = es[t].cond
  BY DEF Narrow, TypeOK, ExecutionState, Live
<1>3. PICK p : p = es[s].cond
  OBVIOUS
<1>4. /\ K \subseteq Live /\ K # {} /\ (\A t \in K : es[t].cond = p)
      /\ (\A r \in K, t \in Live \ K : ~SamePath(r, t))
      /\ Live' = (Live \ K) \cup K
  BY <1>1, <1>3 DEF SamePath
<1>5. /\ \A t \in K : es'[t].cond \subseteq p /\ es'[t].cond # {}
      /\ \A t, u \in K : t = u \/ es'[t].cond \cap es'[u].cond = {}
  BY <1>2, <1>3
<1>6. dropped' = dropped \cup (p \ UNION {es'[t].cond : t \in K})
  <2>1. UNION {es'[t].cond : t \in K} = es[s].cond \cap c
    BY <1>2
  <2>2. dropped' = dropped \cup (es[s].cond \ c)
    BY DEF Narrow
  <2> QED
    BY <1>3, <2>1, <2>2
<1>7. Divides(p, K, K)
  BY <1>2, <1>4, <1>5, <1>6 DEF Divides
<1> QED
  BY <1>7

(* A state's path is divided between it and a new state. *)
LEMMA ForkDivides ==
  ASSUME TypeOK, ListsOK, NEW s \in Live, s \in StateIds,
         NEW c \in SUBSET es[s].cond, NEW n \in FreshIds, ForkBoth(s, c, n), Chosen = {}
  PROVE  \E p : Divides(p, {s}, {s, n})
PROOF
<1> DEFINE K == {s}
           N == {s, n}
<1>1. /\ es[s].cond \cap c # {} /\ es[s].cond \ c # {}
      /\ es' = Branched(s, n, es[s].cond \cap c, es[s].cond \ c)
      /\ addedStates' = addedStates \cup {n}
      /\ UNCHANGED <<states, removedStates, explored, dropped>>
  BY DEF ForkBoth, Splits
<1>2. /\ n \in StateIds /\ n \notin states \cup addedStates /\ removedStates[n] = 0
      /\ n # s /\ n \notin Live
  BY DEF FreshIds, ListsOK, TypeOK, Live
<1>3. Live' = Live \cup {n}
  BY <1>1, <1>2 DEF Live
<1>4. /\ es'[s].cond = es[s].cond \cap c /\ es'[n].cond = es[s].cond \ c
      /\ \A t \in Live \ K : es'[t].cond = es[t].cond
  BY <1>1, <1>2 DEF Branched, Child, TypeOK, Live
<1>5. PICK p : p = es[s].cond
  OBVIOUS
<1>6. /\ K \subseteq Live /\ K # {} /\ (\A t \in K : es[t].cond = p)
      /\ (\A r \in K, t \in Live \ K : ~SamePath(r, t))
      /\ Live' = (Live \ K) \cup N
  BY <1>3, <1>5 DEF SamePath
<1>7. /\ \A t \in N : es'[t].cond \subseteq p /\ es'[t].cond # {}
      /\ \A t, u \in N : t = u \/ es'[t].cond \cap es'[u].cond = {}
  BY <1>1, <1>4, <1>5
<1>8. dropped' = dropped \cup (p \ UNION {es'[t].cond : t \in N})
  <2>1. UNION {es'[t].cond : t \in N} = es'[s].cond \cup es'[n].cond
    OBVIOUS
  <2>2. UNION {es'[t].cond : t \in N} = p
    BY <1>4, <1>5, <2>1
  <2> QED
    BY <1>1, <2>2
<1>9. Divides(p, K, N)
  BY <1>1, <1>4, <1>6, <1>7, <1>8 DEF Divides
<1> QED
  BY <1>9

(* Live states end; each input of their paths is reported or given up. *)
LEMMA EndPaths ==
  ASSUME TypeOK, PathsOK, result = <<>>, UNCHANGED result, EndsAreFinal' => EndsAreFinal,
         NEW K, EndsAreFinal' => K \subseteq Live, Live' = Live \ K,
         \A t \in Live \ K : es'[t].cond = es[t].cond,
         \/ explored' = explored \cup UNION {es[t].cond : t \in K} /\ dropped' = dropped
         \/ dropped' = dropped \cup UNION {es[t].cond : t \in K} /\ explored' = explored
  PROVE  PathsOK'
PROOF
<1>1. Chosen = {} /\ Chosen' = {}
  BY NoneChosen DEF Chosen
<1>2. \A i \in UNION {es[t].cond : t \in K} : \E t \in K : i \in es[t].cond
  OBVIOUS
<1>3. \A t \in K : es[t].cond \subseteq explored' \cup dropped'
  OBVIOUS
<1>4. NoInputLost'
  BY <1>3 DEF PathsOK, NoInputLost
<1>5. PathsDisjoint'
  <2> SUFFICES ASSUME EndsAreFinal' PROVE PathsDisjoint'
    BY DEF PathsDisjoint
  <2>1. /\ \A t, u \in Live : t = u \/ es[t].cond \cap es[u].cond = {}
        /\ \A t \in Live : es[t].cond \cap (explored \cup dropped) = {}
        /\ explored \cap dropped = {} /\ K \subseteq Live
    BY <1>1 DEF PathsOK, PathsDisjoint, SamePath
  <2>2. \A t \in Live \ K : es[t].cond \cap UNION {es[u].cond : u \in K} = {}
    BY <2>1
  <2>3. \A u \in K : es[u].cond \cap explored = {} /\ es[u].cond \cap dropped = {}
    BY <2>1
  <2>4. /\ (UNION {es[u].cond : u \in K}) \cap explored = {}
        /\ (UNION {es[u].cond : u \in K}) \cap dropped = {}
    <3> DEFINE given == UNION {es[u].cond : u \in K}
    <3>1. \A i \in given : i \notin explored /\ i \notin dropped
      BY <2>3, <1>2
    <3> HIDE DEF given
    <3>2. given \cap explored = {} /\ given \cap dropped = {}
      BY <3>1
    <3> QED
      BY <3>2 DEF given
  <2> QED
    BY <2>1, <2>2, <2>4, <1>1 DEF PathsDisjoint, SamePath
<1> QED
  BY <1>4, <1>5 DEF PathsOK

LEMMA EndsStatePaths ==
  ASSUME TypeOK, ListsOK, PathsOK, result = <<>>, UNCHANGED <<result, states>>,
         NEW s \in Live, s \in StateIds, EndsState(s),
         \A t \in StateIds \ {s} : es'[t] = es[t],
         \/ explored' = explored \cup es[s].cond /\ dropped' = dropped
         \/ dropped' = dropped \cup es[s].cond /\ explored' = explored,
         UNCHANGED options
  PROVE  PathsOK'
PROOF
<1>1. Live' = Live \ {s}
  BY DEF Live, EndsState, ListsOK, TypeOK
<1>2. EndsAreFinal' => EndsAreFinal
  BY DEF EndsAreFinal, RemovedOnce, RemovedTwice, EndsState, TypeOK
<1>3. UNION {es[t].cond : t \in {s}} = es[s].cond
  OBVIOUS
<1>4. \A t \in Live \ {s} : es'[t].cond = es[t].cond
  BY DEF Live, TypeOK
<1> QED
  BY <1>1, <1>2, <1>3, <1>4, EndPaths

(* What a handler does with a state it has ended adds to the paths.        *)
LEMMA EndedGoesOn ==
  ASSUME TypeOK, ListsOK, NEW s, Handles(s), s \notin Live
  PROVE  /\ Live \subseteq Live' /\ \A t \in Live : es'[t].cond = es[t].cond
         /\ explored \subseteq explored' /\ dropped \subseteq dropped'
PROOF
<1>1. s \in StateIds /\ Ended(s) /\ Live \subseteq StateIds
  BY DEF Handles, Live, TypeOK
<1>2. ASSUME NEW c, ForkOneSide(s, c)
      PROVE  /\ Live \subseteq Live' /\ \A t \in Live : es'[t].cond = es[t].cond
             /\ explored \subseteq explored' /\ dropped \subseteq dropped'
  BY <1>1, <1>2 DEF ForkOneSide, Narrow, Live, TypeOK
<1>3. ASSUME NEW c, NEW n \in FreshIds, ForkBoth(s, c, n)
      PROVE  /\ Live \subseteq Live' /\ \A t \in Live : es'[t].cond = es[t].cond
             /\ explored \subseteq explored' /\ dropped \subseteq dropped'
  <2>1. n \in StateIds /\ n \notin Live
    BY DEF FreshIds, Live
  <2>2. es' = Branched(s, n, es[s].cond \cap c, es[s].cond \ c)
    BY <1>3 DEF ForkBoth
  <2>3. \A t \in Live : es'[t] = es[t]
    BY <1>1, <2>1, <2>2 DEF Branched, TypeOK
  <2>4. /\ addedStates' = addedStates \cup {n}
        /\ UNCHANGED <<states, removedStates, explored, dropped>>
    BY <1>3 DEF ForkBoth
  <2> QED
    BY <2>3, <2>4 DEF Live
<1>4. ASSUME NEW c, ForkTooDeep(s, c)
      PROVE  /\ Live \subseteq Live' /\ \A t \in Live : es'[t].cond = es[t].cond
             /\ explored \subseteq explored' /\ dropped \subseteq dropped'
  BY <1>1, <1>4 DEF ForkTooDeep, Ended, Live, TypeOK
<1>5. ASSUME Terminate(s)
      PROVE  /\ Live \subseteq Live' /\ \A t \in Live : es'[t].cond = es[t].cond
             /\ explored \subseteq explored' /\ dropped \subseteq dropped'
  BY <1>1, <1>5 DEF Terminate, TerminateState, Ended, Live, TypeOK
<1> QED
  BY <1>2, <1>3, <1>4, <1>5 DEF Handles

LEMMA EndedPaths ==
  ASSUME PathsOK, options.callsPointers, UNCHANGED options,
         Live \subseteq Live', \A t \in Live : es'[t].cond = es[t].cond,
         explored \subseteq explored', dropped \subseteq dropped'
  PROVE  PathsOK'
PROOF BY DEF PathsOK, PathsDisjoint, EndsAreFinal, NoInputLost

LEMMA HandlerPaths ==
  ASSUME TypeOK, ListsOK, BranchOK, PathsOK, Handler
  PROVE  PathsOK'
PROOF
<1>0. /\ pc = "handler" /\ conditions = <<>> /\ result = <<>> /\ Chosen = {}
      /\ UNCHANGED options
  <2>1. [Next]_vars
    BY DEF Next
  <2> QED
    BY <2>1, NoneChosen, OptionsStay DEF Handler, BranchOK
<1>1. PICK s : Handles(s)
  BY HandlerDoes
<1>2. s \in StateIds /\ (s \in Live \/ Ended(s))
  BY <1>1 DEF Handles
<1>8. CASE s \notin Live
  BY <1>0, <1>1, <1>2, <1>8, EndedGoesOn, EndedPaths DEF Ended
<1>9. SUFFICES ASSUME s \in Live PROVE PathsOK'
  BY <1>8
<1>3. ASSUME NEW c \in SUBSET es[s].cond, ForkOneSide(s, c) \/ Constrain(s, c) PROVE PathsOK'
  <2>1. /\ Narrow(s, c) /\ es[s].cond \cap c # {}
        /\ UNCHANGED <<states, addedStates, removedStates, explored, result>>
    BY <1>3 DEF ForkOneSide, Splits, Constrain, branchVars
  <2>2. PICK p : Divides(p, {s}, {s})
    BY <1>0, <1>2, <1>9, <2>1, NarrowDivides
  <2>3. Chosen' = {} /\ (EndsAreFinal' => EndsAreFinal)
    BY <1>0, <2>1 DEF Chosen, EndsAreFinal, RemovedOnce, RemovedTwice
  <2> QED
    BY <1>0, <2>2, <2>3, DividesPaths
<1>4. ASSUME NEW c \in SUBSET es[s].cond, NEW n \in FreshIds, ForkBoth(s, c, n) PROVE PathsOK'
  <2>1. PICK p : Divides(p, {s}, {s, n})
    BY <1>0, <1>2, <1>9, <1>4, ForkDivides
  <2>2. Chosen' = {} /\ (EndsAreFinal' => EndsAreFinal)
    BY <1>0, <1>4 DEF ForkBoth, branchVars, Chosen, EndsAreFinal, RemovedOnce, RemovedTwice
  <2> QED
    BY <1>0, <2>1, <2>2, DividesPaths
<1>5. ASSUME \/ \E c \in SUBSET es[s].cond : ForkTooDeep(s, c)
             \/ Terminate(s)
      PROVE  PathsOK'
  <2>1. EndsState(s)
    BY <1>2, <1>9, <1>5 DEF EndsState, ForkTooDeep, Terminate, TerminateState, Live
  <2>2. UNCHANGED <<result, states>>
    BY <1>5 DEF ForkTooDeep, Terminate, branchVars
  <2>3. \/ explored' = explored \cup es[s].cond /\ dropped' = dropped
        \/ dropped' = dropped \cup es[s].cond /\ explored' = explored
    BY <1>5 DEF ForkTooDeep, Terminate
  <2>4. \A t \in StateIds \ {s} : es'[t] = es[t]
    BY <1>5 DEF ForkTooDeep, Terminate, TerminateState, TypeOK
  <2> QED
    BY <1>0, <1>2, <1>9, <2>1, <2>2, <2>3, <2>4, EndsStatePaths
<1>6. ASSUME NEW k \in 1..MaxTargets, NEW cs \in [1..k -> SUBSET es[s].cond], BranchStart(s, cs)
      PROVE  PathsOK'
  <2>1. UNCHANGED <<es, states, addedStates, removedStates, explored, dropped>>
    BY <1>6 DEF BranchStart, stateVars
  <2>2. \A t, u \in Chosen' : t = u
    <3>1. CASE ForkLimitReached
      BY <1>6, <3>1 DEF BranchStart, Chosen
    <3>2. CASE ~ForkLimitReached
      <4>1. result' = <<s>>
        BY <1>6, <3>2 DEF BranchStart
      <4>2. Chosen' \subseteq {s}
        BY <4>1 DEF Chosen
      <4> QED
        BY <4>2
    <3> QED
      BY <3>1, <3>2
  <2> QED
    BY <1>0, <2>1, <2>2 DEF PathsOK, PathsDisjoint, NoInputLost, Live, EndsAreFinal, RemovedOnce, RemovedTwice, SamePath
<1>7. ASSUME SetForking(s) PROVE PathsOK'
  <2>1. PICK b \in BOOLEAN : es' = [es EXCEPT ![s].forkDisabled = b]
    BY <1>7 DEF SetForking
  <2>2. UNCHANGED <<states, addedStates, removedStates, explored, dropped, result>>
    BY <1>7 DEF SetForking, branchVars, countVars
  <2>3. \A t \in Live : es'[t].cond = es[t].cond
    BY <1>2, <1>9, <2>1 DEF TypeOK, ExecutionState, Live
  <2> QED
    BY <1>0, <2>2, <2>3, NoneChosen
       DEF PathsOK, PathsDisjoint, NoInputLost, Live, EndsAreFinal, RemovedOnce, RemovedTwice, SamePath
<1> QED
  BY <1>1, <1>3, <1>4, <1>5, <1>6, <1>7 DEF Handles

(* branch() copies the state before it divides the path. *)
LEMMA BranchSplitPaths ==
  ASSUME TypeOK, ListsOK, BranchOK, PathsOK, BranchSplit
  PROVE  PathsOK'
PROOF
<1> USE ConstantsAssumption
<1>1. PICK parent \in Chosen, n \in FreshIds :
        /\ es' = Branched(parent, n, es[parent].cond, es[parent].cond)
        /\ addedStates' = addedStates \cup {n}
        /\ result' = Append(result, n)
  BY DEF BranchSplit
<1>2. pc = "branching" /\ UNCHANGED <<options, states, removedStates, explored, dropped>>
  BY DEF BranchSplit, countVars
<1>3. /\ n \in StateIds /\ n \notin states \cup addedStates /\ removedStates[n] = 0
      /\ n # NoState /\ parent \in StateIds /\ parent # n /\ parent \in Live
  BY <1>2 DEF FreshIds, ListsOK, TypeOK, BranchOK, Live
<1>4. Live' = Live \cup {n} /\ n \notin Live /\ (EndsAreFinal' <=> EndsAreFinal)
  BY <1>1, <1>2, <1>3 DEF Live, EndsAreFinal, RemovedOnce, RemovedTwice
<1>5. \A t \in Live' : es'[t].cond = IF t = n THEN es[parent].cond ELSE es[t].cond
  BY <1>1, <1>3, <1>4 DEF Branched, Child, TypeOK, Live
<1>6. Chosen' = Chosen \cup {n}
  <2>1. /\ Len(result') = Len(result) + 1 /\ Len(result) \in Nat
        /\ \A i \in 1..Len(result) : result'[i] = result[i]
        /\ result'[Len(result) + 1] = n
    BY <1>1, <1>3 DEF TypeOK
  <2>2. 1..Len(result)' = 1..Len(result) \cup {Len(result) + 1}
    BY <2>1
  <2> QED
    BY <1>3, <2>1, <2>2 DEF Chosen
<1>7. \A t \in Live : t \notin Chosen /\ EndsAreFinal => es[t].cond \cap es[parent].cond = {}
  BY <1>3 DEF PathsOK, PathsDisjoint, SamePath
<1> QED
  BY <1>2, <1>3, <1>4, <1>5, <1>6, <1>7 DEF PathsOK, PathsDisjoint, NoInputLost, SamePath

(* branch() divides the path among the states it keeps; what no kept       *)
(* condition covers is given up.                                           *)
LEMMA BranchFinishDivides ==
  ASSUME TypeOK, ListsOK, BranchOK, BranchFinish
  PROVE  /\ EndsAreFinal' => EndsAreFinal
         /\ \E p, K, N : Divides(p, K, N) /\ Chosen \subseteq K
PROOF
<1> USE ConstantsAssumption
<1>1. PICK dest \in [Seeds -> Targets] : FinishWith(dest)
  BY DEF BranchFinish
<1> DEFINE kept == Chosen \ Killed(dest)
<1>2. /\ pc = "branching" /\ result' = <<>> /\ Len(result) = Len(conditions)
      /\ UNCHANGED <<options, states, explored>>
  BY DEF BranchFinish
<1>3. /\ Killed(dest) \subseteq Chosen /\ Chosen \subseteq Live /\ Chosen \subseteq StateIds
      /\ NoState \notin Chosen
  BY <1>2 DEF Killed, BranchOK, Live, TypeOK, Chosen
<1>4. PICK B \in SUBSET Inputs : \A t \in Chosen : es[t].cond = B
  <2>1. PICK t0 \in Chosen : TRUE
    BY <1>2 DEF BranchOK
  <2>2. es[t0].cond \in SUBSET Inputs
    BY <1>3 DEF TypeOK, ExecutionState
  <2>3. \A t \in Chosen : es[t].cond = es[t0].cond
    BY <1>2 DEF BranchOK
  <2> QED
    BY <2>2, <2>3
<1>5. Live' = Live \ Killed(dest)
  BY <1>1, <1>2, <1>3 DEF FinishWith, Live, ListsOK, TypeOK
<1>6. EndsAreFinal' => EndsAreFinal
  BY <1>1, <1>2 DEF EndsAreFinal, RemovedOnce, RemovedTwice, FinishWith, TypeOK
<1>7. \A t \in kept : \E i \in Kept(dest) : result[i] = t /\ CondOf(dest, t) = conditions[i]
  <2> SUFFICES ASSUME NEW t \in kept
               PROVE  \E i \in Kept(dest) : result[i] = t /\ CondOf(dest, t) = conditions[i]
    OBVIOUS
  <2>1. \E i \in Kept(dest) : result[i] = t
    BY <1>2 DEF Kept, Chosen, Targets
  <2> QED
    BY <2>1 DEF CondOf
<1>8. \A i \in Kept(dest) : /\ conditions[i] \subseteq B /\ result[i] \in kept
                            /\ CondOf(dest, result[i]) = conditions[i]
  <2> SUFFICES ASSUME NEW i \in Kept(dest)
               PROVE  /\ conditions[i] \subseteq B /\ result[i] \in kept
                      /\ CondOf(dest, result[i]) = conditions[i]
    OBVIOUS
  <2>1. i \in 1..Len(result) /\ i \in DOMAIN conditions /\ result[i] \in kept
    BY <1>2 DEF Kept, Targets, TypeOK
  <2>2. conditions[i] \subseteq B
    BY <1>2, <1>4, <2>1 DEF BranchOK, MayBranchOn
  <2>3. PICK j \in Kept(dest) : result[j] = result[i] /\ CondOf(dest, result[i]) = conditions[j]
    BY <1>7, <2>1
  <2>4. j \in 1..Len(result)
    BY <1>2 DEF Kept, Targets
  <2>5. i = j
    BY <1>2, <1>3, <2>1, <2>3, <2>4 DEF BranchOK
  <2> QED
    BY <2>1, <2>2, <2>3, <2>5
<1>9. \A t \in Live' : es'[t].cond = IF t \in kept THEN CondOf(dest, t) ELSE es[t].cond
  <2> SUFFICES ASSUME NEW t \in Live'
               PROVE  es'[t].cond = IF t \in kept THEN CondOf(dest, t) ELSE es[t].cond
    OBVIOUS
  <2>1. t \in StateIds /\ t \notin Killed(dest) /\ es[t] \in ExecutionState
    BY <1>5 DEF Live, TypeOK
  <2>2. es'[t] = IF t \in kept THEN [es[t] EXCEPT !.cond = CondOf(dest, t)] ELSE es[t]
    BY <1>1, <2>1 DEF FinishWith
  <2>3. CASE t \in kept
    BY <2>1, <2>2, <2>3 DEF ExecutionState
  <2>4. CASE t \notin kept
    BY <2>2, <2>4
  <2> QED
    BY <2>3, <2>4
<1>10. \A t \in kept : CondOf(dest, t) \subseteq B
  BY <1>7, <1>8
<1>11. \A t, u \in kept : t # u => CondOf(dest, t) \cap CondOf(dest, u) = {}
  <2> SUFFICES ASSUME NEW t \in kept, NEW u \in kept, t # u
               PROVE  CondOf(dest, t) \cap CondOf(dest, u) = {}
    OBVIOUS
  <2>1. PICK i \in Kept(dest) : result[i] = t /\ CondOf(dest, t) = conditions[i]
    BY <1>7
  <2>2. PICK j \in Kept(dest) : result[j] = u /\ CondOf(dest, u) = conditions[j]
    BY <1>7
  <2>3. i \in DOMAIN conditions /\ j \in DOMAIN conditions /\ i # j
    BY <2>1, <2>2 DEF Kept, Targets, TypeOK
  <2> QED
    BY <1>2, <2>1, <2>2, <2>3 DEF BranchOK, MayBranchOn
<1>12. dropped' = dropped \cup (B \ UNION {conditions[i] : i \in Kept(dest)})
  <2>1. UNION {es[t].cond : t \in Chosen} = B
    BY <1>2, <1>4 DEF BranchOK
  <2>2. dropped' = dropped \cup ((UNION {es[t].cond : t \in Chosen})
                                \ (UNION {conditions[i] : i \in Kept(dest)}))
    BY <1>1 DEF FinishWith
  <2> QED
    BY <2>1, <2>2
<1> DEFINE K == Chosen
<1>14. UNION {es'[t].cond : t \in kept} = UNION {conditions[i] : i \in Kept(dest)}
  <2>1. \A t \in kept : es'[t].cond = CondOf(dest, t)
    BY <1>3, <1>5, <1>9
  <2>2. {es'[t].cond : t \in kept} = {conditions[i] : i \in Kept(dest)}
    BY <1>7, <1>8, <2>1
  <2> QED
    BY <2>2
<1>15. \A t \in kept : CondOf(dest, t) # {}
  <2> SUFFICES ASSUME NEW t \in kept PROVE CondOf(dest, t) # {}
    OBVIOUS
  <2>1. PICK i \in Kept(dest) : CondOf(dest, t) = conditions[i]
    BY <1>7
  <2>2. i \in DOMAIN conditions
    BY DEF Kept, Targets, TypeOK
  <2> QED
    BY <1>2, <2>1, <2>2 DEF BranchOK, MayBranchOn
<1>16. Divides(B, K, kept)
  <2>1. /\ K \subseteq Live /\ K # {} /\ \A t \in K : es[t].cond = B
        /\ \A s \in K, t \in Live \ K : ~SamePath(s, t)
        /\ Live' = (Live \ K) \cup kept
    BY <1>2, <1>3, <1>4, <1>5 DEF BranchOK, SamePath
  <2>2. \A t \in Live \ K : es'[t].cond = es[t].cond
    BY <1>3, <1>5, <1>9
  <2>3. /\ \A t \in kept : es'[t].cond \subseteq B /\ es'[t].cond # {}
        /\ \A t, u \in kept : t = u \/ es'[t].cond \cap es'[u].cond = {}
    BY <1>3, <1>5, <1>9, <1>10, <1>11, <1>15
  <2> HIDE DEF kept, K
  <2> QED
    BY <1>2, <1>12, <1>14, <2>1, <2>2, <2>3 DEF Divides
<1> QED
  BY <1>6, <1>16

LEMMA StepPaths ==
  ASSUME TypeOK, ListsOK, BranchOK, PathsOK, [Next]_vars
  PROVE  PathsOK'
PROOF
<1> USE ConstantsAssumption
<1>0. CASE UNCHANGED vars
  BY <1>0, PathsKept DEF Chosen, vars, stateVars, branchVars, countVars
<1>1. CASE \/ SeedStep \/ SelectState \/ SeedingHalted \/ SeedingDone \/ StopAfterSeeding
           \/ LeaveLoop \/ LeaveStates \/ StartSearch \/ MemoryUnchecked \/ UpdateAborts
           \/ MemoryMeasured \/ TimersQuiet \/ HandlerReturn \/ Halt
  <2>1. UNCHANGED <<options, es, states, addedStates, removedStates, explored, dropped, result>>
    BY <1>1 DEF SeedStep, SelectState, StartInstruction, SeedingHalted, SeedingDone, StopAfterSeeding,
         LeaveLoop, LeaveStates, StartSearch, MemoryUnchecked, UpdateAborts, MemoryMeasured,
         TimersQuiet, HandlerReturn, Halt, Goto, stateVars, branchVars, countVars
  <2>2. Chosen = Chosen'
    BY <2>1 DEF Chosen
  <2> QED
    BY <2>1, <2>2, PathsKept
<1>2. CASE InstructionTimedOut
  <2>1. /\ current \in states /\ current \in StateIds /\ removedStates[current] = 0
        /\ result = <<>> /\ UNCHANGED <<options, result, states, dropped>>
        /\ explored' = explored \cup es[current].cond
    BY <1>2 DEF InstructionTimedOut, StillRunning, ListsOK, BranchOK, TypeOK, branchVars
  <2>2. EndsState(current)
    BY <1>2, <2>1 DEF EndsState, InstructionTimedOut, TerminateState
  <2>3. \A t \in StateIds \ {current} : es'[t] = es[t]
    BY <1>2 DEF InstructionTimedOut, TerminateState, TypeOK
  <2>4. current \in Live
    BY <2>1 DEF Live
  <2> QED
    BY <2>1, <2>2, <2>3, <2>4, EndsStatePaths
<1>3. CASE MemoryFarOver
  <2>1. PICK K \in SUBSET states :
          /\ removedStates' = [t \in StateIds |-> IF t \in K THEN removedStates[t] + 1 ELSE removedStates[t]]
          /\ explored' = explored \cup UNION {es[t].cond : t \in K}
    BY <1>3 DEF MemoryFarOver
  <2>2. result = <<>> /\ UNCHANGED <<options, result, es, states, addedStates, dropped>>
    BY <1>3 DEF MemoryFarOver, BranchOK, branchVars
  <2>3. Live' = Live \ K
    BY <2>1, <2>2 DEF Live, TypeOK
  <2>4. EndsAreFinal' => EndsAreFinal
    BY <2>1, <2>2 DEF EndsAreFinal, RemovedOnce, RemovedTwice, TypeOK
  <2>5. EndsAreFinal' => K \subseteq Live
    BY <2>1 DEF EndsAreFinal, RemovedOnce, RemovedTwice, Live, TypeOK
  <2>6. /\ \A t \in Live \ K : es'[t].cond = es[t].cond
        /\ explored' = explored \cup UNION {es[t].cond : t \in K} /\ dropped' = dropped
        /\ result = <<>> /\ UNCHANGED result
    BY <2>1, <2>2
  <2> QED
    BY <2>3, <2>4, <2>5, <2>6, EndPaths
<1>4. CASE UpdateStates
  <2>1. /\ states' = MergedStates /\ addedStates' = {} /\ removedStates' = [t \in StateIds |-> 0]
        /\ es' = [t \in StateIds |-> IF t \in Removed THEN Freed ELSE es[t]]
        /\ result = <<>> /\ UNCHANGED <<options, result, explored, dropped>> /\ RemovedOnce
    BY <1>4 DEF UpdateStates, BranchOK, RemovedOnce, branchVars, countVars
  <2>2. Live' = Live
    BY <2>1 DEF Live, MergedStates, Removed, TypeOK
  <2>3. \A t \in Live : es'[t] = es[t]
    BY <2>1 DEF Live, Removed, TypeOK
  <2>4. Chosen = {} /\ Chosen' = {}
    BY <2>1, NoneChosen DEF Chosen
  <2> QED
    BY <2>1, <2>2, <2>3, <2>4 DEF PathsOK, PathsDisjoint, EndsAreFinal, NoInputLost, SamePath
<1>5. CASE DumpStates
  <2>1. /\ result = <<>> /\ addedStates = {} /\ Live = states
    BY <1>5 DEF DumpStates, BranchOK, ListsOK, Live, Removed, TypeOK
  <2>2. /\ states' = {} /\ UNCHANGED <<options, addedStates, removedStates, result, dropped>>
        /\ explored' = explored \cup UNION {es[t].cond : t \in states}
    BY <1>5 DEF DumpStates, branchVars
  <2>3. Live' = Live \ states /\ (EndsAreFinal' => EndsAreFinal)
    BY <2>1, <2>2 DEF Live, EndsAreFinal, RemovedOnce, RemovedTwice
  <2> QED
    BY <2>1, <2>2, <2>3, EndPaths
<1>6. CASE BranchSplit
  BY <1>6, BranchSplitPaths
<1>7. CASE BranchFinish
  <2>1. PICK p, K, N : Divides(p, K, N) /\ Chosen \subseteq K
    BY <1>7, BranchFinishDivides
  <2>2. Chosen' = {} /\ (EndsAreFinal' => EndsAreFinal)
    BY <1>7, BranchFinishDivides DEF BranchFinish, Chosen
  <2> QED
    BY <2>1, <2>2, DividesPaths
<1>8. CASE Handler
  BY <1>8, HandlerPaths
<1> QED
  BY <1>0, <1>1, <1>2, <1>3, <1>4, <1>5, <1>6, <1>7, <1>8 DEF Next, Loop, Finished

LEMMA InitPaths ==
  ASSUME Init
  PROVE  PathsOK
PROOF
<1>1. PICK s \in StateIds :
        /\ states = {s}
        /\ es = [t \in StateIds |-> IF t = s THEN [Freed EXCEPT !.cond = Inputs] ELSE Freed]
  BY DEF Init
<1>2. Live = {s} /\ explored = {} /\ dropped = {} /\ Chosen = {}
  BY <1>1, NoneChosen DEF Init, Live
<1>3. es[s].cond = Inputs
  <2>1. es[s] = [Freed EXCEPT !.cond = Inputs]
    BY <1>1
  <2>2. [Freed EXCEPT !.cond = Inputs].cond = Inputs
    BY DEF Freed
  <2> QED
    BY <2>1, <2>2
<1> QED
  BY <1>2, <1>3 DEF PathsOK, PathsDisjoint, NoInputLost, SamePath

LEMMA PathsInvariant == Spec => [](TypeOK /\ ListsOK /\ BranchOK /\ PathsOK)
PROOF
<1>1. Init => TypeOK /\ ListsOK /\ BranchOK /\ PathsOK
  BY InitOK, InitPaths
<1>2. TypeOK /\ ListsOK /\ BranchOK /\ PathsOK /\ [Next]_vars => (TypeOK /\ ListsOK /\ BranchOK /\ PathsOK)'
  BY StepTypes, StepLists, StepPaths
<1> QED
  BY <1>1, <1>2, PTL DEF Spec

(* No input is on two paths, nor reported twice, whatever the program, the *)
(* seeds and the limits are, as long as a state that ends stays ended.     *)
THEOREM PathsStayDisjoint == Spec => []PathsDisjoint
PROOF
<1>1. TypeOK /\ ListsOK /\ BranchOK /\ PathsOK => PathsDisjoint
  BY DEF PathsOK
<1> QED
  BY <1>1, PathsInvariant, PTL

(* No input is lost: fork(), branch(), the work lists and the final dump   *)
(* keep each on a live path until it is reported or given up.              *)
THEOREM InputsAreKept == Spec => []NoInputLost
PROOF
<1>1. TypeOK /\ ListsOK /\ BranchOK /\ PathsOK => NoInputLost
  BY DEF PathsOK
<1> QED
  BY <1>1, PathsInvariant, PTL

-----------------------------------------------------------------------------
(* The process tree. *)

LEMMA IsAboveAt ==
  ASSUME NEW m \in Nodes, NEW n \in Nodes
  PROVE  IsAbove(m, n) <=> Len(m) <= Len(n) /\ \A i \in 1..Len(m) : n[i] = m[i]
<1>1. Len(m) \in Nat /\ Len(n) \in Nat
  BY DEF Nodes
<1>2. SUFFICES ASSUME Len(m) <= Len(n)
      PROVE  SubSeq(n, 1, Len(m)) = m <=> \A i \in 1..Len(m) : n[i] = m[i]
  BY DEF IsAbove
<1> DEFINE p == SubSeq(n, 1, Len(m))
<1>3. p \in Nodes /\ Len(p) = Len(m) /\ \A i \in 1..Len(m) : p[i] = n[i]
  <2>1. \A i \in 1..Len(m) : n[i] \in {"L", "R"}
    BY <1>1, <1>2, ElementOfSeq DEF Nodes
  <2> QED
    BY <1>1, <2>1, SubSeqProperties DEF Nodes
<1> HIDE DEF p
<1>4. (\A i \in 1..Len(m) : n[i] = m[i]) => p = m
  BY <1>3, SeqEqual DEF Nodes
<1> QED
  BY <1>3, <1>4 DEF p

LEMMA Children ==
  ASSUME NEW n \in Nodes
  PROVE  /\ Left(n) \in Nodes /\ Right(n) \in Nodes
         /\ Len(Left(n)) = Len(n) + 1 /\ Len(Right(n)) = Len(n) + 1
         /\ \A i \in 1..Len(n) : Left(n)[i] = n[i] /\ Right(n)[i] = n[i]
         /\ Left(n)[Len(n) + 1] = "L" /\ Right(n)[Len(n) + 1] = "R"
BY DEF Nodes, Left, Right

LEMMA LengthOfNode ==
  ASSUME NEW n \in Nodes
  PROVE  Len(n) \in Nat
BY DEF Nodes

LEMMA EqualNodes ==
  ASSUME NEW m \in Nodes, NEW n \in Nodes, Len(m) = Len(n),
         \A i \in 1..Len(m) : m[i] = n[i]
  PROVE  m = n
BY SeqEqual DEF Nodes

LEMMA AboveItself ==
  ASSUME NEW n \in Nodes
  PROVE  IsAbove(n, n)
BY IsAboveAt DEF Nodes

LEMMA AboveOn ==
  ASSUME NEW k \in Nodes, NEW m \in Nodes, NEW n \in Nodes, IsAbove(k, m), IsAbove(m, n)
  PROVE  IsAbove(k, n)
<1>1. Len(k) \in Nat /\ Len(m) \in Nat /\ Len(n) \in Nat
  BY DEF Nodes
<1> QED
  BY <1>1, IsAboveAt

LEMMA ParentAbove ==
  ASSUME NEW n \in Nodes
  PROVE  IsAbove(n, Left(n)) /\ IsAbove(n, Right(n))
<1>1. Len(n) \in Nat
  BY DEF Nodes
<1> QED
  BY <1>1, Children, IsAboveAt

(* What is above a child is the child or above its parent.                 *)
LEMMA AboveChild ==
  ASSUME NEW m \in Nodes, NEW n \in Nodes, NEW c \in {Left(n), Right(n)}, IsAbove(m, c)
  PROVE  m = c \/ IsAbove(m, n)
<1>1. /\ c \in Nodes /\ Len(c) = Len(n) + 1 /\ Len(n) \in Nat /\ Len(m) \in Nat
      /\ \A i \in 1..Len(n) : c[i] = n[i]
  <2>1. CASE c = Left(n)
    BY <2>1, Children, LengthOfNode
  <2>2. CASE c = Right(n)
    BY <2>2, Children, LengthOfNode
  <2> QED
    BY <2>1, <2>2
<1>2. Len(m) <= Len(c) /\ \A i \in 1..Len(m) : c[i] = m[i]
  BY <1>1, IsAboveAt
<1>3. CASE Len(m) = Len(c)
  BY <1>1, <1>2, <1>3, EqualNodes
<1>4. CASE Len(m) # Len(c)
  <2>1. Len(m) <= Len(n)
    BY <1>1, <1>2, <1>4
  <2>2. \A i \in 1..Len(m) : n[i] = m[i]
    BY <1>1, <1>2, <2>1
  <2> QED
    BY <2>1, <2>2, IsAboveAt
<1> QED
  BY <1>3, <1>4

(* A child of a node is above what is below the node.                      *)
LEMMA ChildTowards ==
  ASSUME NEW m \in Nodes, NEW n \in Nodes, IsAbove(m, n), m # n
  PROVE  IsAbove(Left(m), n) \/ IsAbove(Right(m), n)
<1>1. /\ Len(m) \in Nat /\ Len(n) \in Nat
      /\ Len(m) <= Len(n) /\ \A i \in 1..Len(m) : n[i] = m[i]
  BY IsAboveAt DEF Nodes
<1>2. Len(m) # Len(n)
  BY <1>1, SeqEqual DEF Nodes
<1>3. Len(m) + 1 <= Len(n) /\ Len(m) + 1 \in 1..Len(n)
  BY <1>1, <1>2
<1>4. n[Len(m) + 1] \in {"L", "R"}
  BY <1>3, ElementOfSeq DEF Nodes
<1>5. \A i \in 1..(Len(m) + 1) : i = Len(m) + 1 \/ i \in 1..Len(m)
  BY <1>1
<1>6. CASE n[Len(m) + 1] = "L"
  <2>1. Left(m) \in Nodes /\ Len(Left(m)) = Len(m) + 1
    BY Children
  <2>2. \A i \in 1..Len(m) : n[i] = Left(m)[i]
    BY <1>1, Children
  <2>3. n[Len(m) + 1] = Left(m)[Len(m) + 1]
    BY <1>6, Children
  <2>4. \A i \in 1..Len(Left(m)) : n[i] = Left(m)[i]
    BY <1>5, <2>1, <2>2, <2>3
  <2> QED
    BY <1>3, <2>1, <2>4, IsAboveAt
<1>7. CASE n[Len(m) + 1] = "R"
  <2>1. Right(m) \in Nodes /\ Len(Right(m)) = Len(m) + 1
    BY Children
  <2>2. \A i \in 1..Len(m) : n[i] = Right(m)[i]
    BY <1>1, Children
  <2>3. n[Len(m) + 1] = Right(m)[Len(m) + 1]
    BY <1>7, Children
  <2>4. \A i \in 1..Len(Right(m)) : n[i] = Right(m)[i]
    BY <1>5, <2>1, <2>2, <2>3
  <2> QED
    BY <1>3, <2>1, <2>4, IsAboveAt
<1> QED
  BY <1>4, <1>6, <1>7

LEMMA DifferentChildren ==
  ASSUME NEW m \in Nodes, NEW n \in Nodes
  PROVE  /\ Left(m) # Right(n) /\ m # Left(m) /\ m # Right(m)
         /\ Left(m) = Left(n) => m = n
         /\ Right(m) = Right(n) => m = n
<1>1. Len(m) \in Nat /\ Len(n) \in Nat
  BY DEF Nodes
<1>2. Left(m) # Right(n) /\ m # Left(m) /\ m # Right(m)
  <2>1. /\ Len(Left(m)) = Len(m) + 1 /\ Len(Right(m)) = Len(m) + 1
        /\ Len(Right(n)) = Len(n) + 1
    BY Children
  <2>2. Left(m)[Len(m) + 1] = "L" /\ Right(n)[Len(n) + 1] = "R"
    BY Children
  <2>3. Left(m) # Right(n)
    <3>1. Left(m) = Right(n) => Len(m) = Len(n)
      BY <1>1, <2>1
    <3> QED
      BY <2>2, <3>1
  <2> QED
    BY <1>1, <2>1, <2>3
<1>3. ASSUME Left(m) = Left(n) \/ Right(m) = Right(n) PROVE m = n
  <2>1. Len(m) = Len(n)
    <3>1. /\ Len(Left(m)) = Len(m) + 1 /\ Len(Right(m)) = Len(m) + 1
          /\ Len(Left(n)) = Len(n) + 1 /\ Len(Right(n)) = Len(n) + 1
      BY Children
    <3> QED
      BY <1>1, <1>3, <3>1
  <2>2. /\ \A i \in 1..Len(m) : Left(m)[i] = m[i] /\ Right(m)[i] = m[i]
        /\ \A i \in 1..Len(n) : Left(n)[i] = n[i] /\ Right(n)[i] = n[i]
    BY Children
  <2>3. \A i \in 1..Len(m) : m[i] = n[i]
    BY <1>3, <2>1, <2>2
  <2> QED
    BY <2>1, <2>3, EqualNodes
<1> QED
  BY <1>2, <1>3

(* A tree has the ancestors of its nodes.                                  *)
IsTree(t) ==
  t \in SUBSET Nodes /\ \A k \in t : \A m \in Nodes : IsAbove(m, k) => m \in t

(* A leaf gets children. *)
LEMMA GrowTree ==
  ASSUME NEW t, IsTree(t), NEW n, n \in Leaves(t),
         NEW C, C \subseteq {Left(n), Right(n)}, C # {}
  PROVE  IsTree(t \cup C) /\ Leaves(t \cup C) = (Leaves(t) \ {n}) \cup C
<1>1. n \in t /\ n \in Nodes /\ Left(n) \notin t /\ Right(n) \notin t
  BY DEF Leaves, IsTree
<1>2. C \subseteq Nodes
  BY <1>1, Children
<1>3. IsTree(t \cup C)
  <2> SUFFICES ASSUME NEW k \in t \cup C, NEW m \in Nodes, IsAbove(m, k)
               PROVE  m \in t \cup C
    BY <1>2 DEF IsTree
  <2>1. CASE k \in t
    BY <2>1 DEF IsTree
  <2>2. CASE k \in C
    BY <1>1, <2>2, AboveChild DEF IsTree
  <2> QED
    BY <2>1, <2>2
<1>4. \A c \in C : Left(c) \notin t \cup C /\ Right(c) \notin t \cup C
  <2> SUFFICES ASSUME NEW c \in C, NEW d \in {Left(c), Right(c)}, d \in t \cup C PROVE FALSE
    OBVIOUS
  <2>1. d \notin C
    <3>1. c \in Nodes /\ Len(c) = Len(n) + 1 /\ Len(n) \in Nat
      BY <1>1, <1>2, Children, LengthOfNode
    <3>2. Len(d) = Len(c) + 1
      BY <3>1, Children
    <3>3. \A e \in C : Len(e) = Len(n) + 1
      BY <1>1, Children
    <3> QED
      BY <3>1, <3>2, <3>3
  <2>2. c \in t
    BY <1>2, <2>1, ParentAbove DEF IsTree
  <2> QED
    BY <1>1, <2>2
<1>5. C \cap t = {}
  BY <1>1
<1>6. \A m \in t : m # n => (Left(m) \in t \cup C <=> Left(m) \in t)
                            /\ (Right(m) \in t \cup C <=> Right(m) \in t)
  <2> SUFFICES ASSUME NEW m \in t, m # n PROVE Left(m) \notin C /\ Right(m) \notin C
    OBVIOUS
  <2>1. m \in Nodes
    BY DEF IsTree
  <2> QED
    BY <1>1, <2>1, DifferentChildren
<1>7. n \notin Leaves(t \cup C)
  BY DEF Leaves
<1> QED
  BY <1>3, <1>4, <1>5, <1>6, <1>7 DEF Leaves

(* Leaves go, with what only they were below.                              *)
LEMMA PruneTree ==
  ASSUME NEW t, IsTree(t), NEW S
  PROVE  IsTree(RemoveAll(t, S)) /\ Leaves(RemoveAll(t, S)) = Leaves(t) \ S
<1> DEFINE u == RemoveAll(t, S)
<1>1. u \subseteq t /\ t \subseteq Nodes /\ Leaves(t) \subseteq t
  BY DEF RemoveAll, IsTree, Leaves
<1>2. \A m \in Nodes : \A k \in Leaves(t) \ S : IsAbove(m, k) => m \in u
  BY <1>1 DEF RemoveAll, IsTree
<1>3. \A m \in u : \E k \in Leaves(t) \ S : IsAbove(m, k)
  BY DEF RemoveAll
<1> HIDE DEF u
<1>4. IsTree(u)
  <2> SUFFICES ASSUME NEW k \in u, NEW m \in Nodes, IsAbove(m, k) PROVE m \in u
    BY <1>1 DEF IsTree
  <2>1. PICK l \in Leaves(t) \ S : IsAbove(k, l)
    BY <1>3
  <2>2. IsAbove(m, l)
    BY <1>1, <2>1, AboveOn
  <2> QED
    BY <1>2, <2>2
<1>5. Leaves(u) \subseteq Leaves(t) \ S
  <2> SUFFICES ASSUME NEW m \in Leaves(u) PROVE m \in Leaves(t) \ S
    OBVIOUS
  <2>1. m \in u /\ m \in Nodes /\ Left(m) \notin u /\ Right(m) \notin u
    BY <1>1 DEF Leaves
  <2>2. PICK k \in Leaves(t) \ S : IsAbove(m, k)
    BY <1>3, <2>1
  <2>3. m = k
    BY <1>1, <1>2, <2>1, <2>2, ChildTowards, Children
  <2> QED
    BY <2>2, <2>3
<1>6. Leaves(t) \ S \subseteq Leaves(u)
  <2> SUFFICES ASSUME NEW m \in Leaves(t) \ S PROVE m \in Leaves(u)
    OBVIOUS
  <2>1. m \in Nodes /\ IsAbove(m, m)
    BY <1>1, AboveItself
  <2>2. m \in u
    BY <1>2, <2>1
  <2> QED
    BY <1>1, <2>2 DEF Leaves
<1> QED
  BY <1>4, <1>5, <1>6 DEF u

-----------------------------------------------------------------------------
(* The tree follows the states. *)

TreeOK == IsTree(tree) /\ TreeMatches

All == states \cup addedStates

LEMMA TreeKept ==
  ASSUME TreeOK, UNCHANGED tree, All' = All,
         \A s \in All : es'[s].node = es[s].node /\ es'[s].depth = es[s].depth
  PROVE  TreeOK'
<1>1. {es'[s].node : s \in All'} = {es[s].node : s \in All}
  OBVIOUS
<1> QED
  BY <1>1 DEF TreeOK, TreeMatches, All

(* The states K go. *)
LEMMA TreePruned ==
  ASSUME TypeOK, TreeOK, NEW K \in SUBSET All, All' = All \ K,
         tree' = RemoveAll(tree, {es[s].node : s \in K}),
         \A s \in All \ K : es'[s].node = es[s].node /\ es'[s].depth = es[s].depth
  PROVE  TreeOK'
<1> DEFINE gone == {es[s].node : s \in K}
<1>1. IsTree(tree') /\ Leaves(tree') = Leaves(tree) \ gone
  BY PruneTree DEF TreeOK
<1>2. /\ Leaves(tree) = {es[s].node : s \in All}
      /\ \A s, t \in All : es[s].node = es[t].node => s = t
      /\ \A s \in All : Len(es[s].node) = es[s].depth
  BY DEF TreeOK, TreeMatches, All
<1>3. {es'[s].node : s \in All'} = Leaves(tree) \ gone
  BY <1>2
<1>4. TreeMatches'
  BY <1>1, <1>2, <1>3 DEF TreeMatches, All
<1> QED
  BY <1>1, <1>4 DEF TreeOK

(* The state s becomes deeper, and N, empty or one new state, its copy.    *)
LEMMA TreeGrown ==
  ASSUME TypeOK, TreeOK, NEW s \in All, NEW N, N \cap All = {}, All' = All \cup N,
         \A m, n \in N : m = n,
         tree' = tree \cup {Right(es[s].node)}
                      \cup {Left(es[s].node) : n \in N},
         es'[s].node = Right(es[s].node), es'[s].depth = es[s].depth + 1,
         \A n \in N : es'[n].node = Left(es[s].node) /\ es'[n].depth = es[s].depth + 1,
         \A t \in All \ {s} : es'[t].node = es[t].node /\ es'[t].depth = es[t].depth
  PROVE  TreeOK'
<1> DEFINE node == es[s].node
           C == {Right(node)} \cup {Left(node) : n \in N}
<1>1. /\ Leaves(tree) = {es[t].node : t \in All}
      /\ \A t, u \in All : es[t].node = es[u].node => t = u
      /\ \A t \in All : Len(es[t].node) = es[t].depth
  BY DEF TreeOK, TreeMatches, All
<1>2. node \in Leaves(tree) /\ node \in tree /\ node \in Nodes
      /\ Right(node) \notin tree /\ Left(node) \notin tree
  BY <1>1 DEF Leaves, TreeOK, IsTree
<1>3. tree' = tree \cup C /\ C \in SUBSET {Left(node), Right(node)} /\ C # {}
  OBVIOUS
<1>4. IsTree(tree') /\ Leaves(tree') = (Leaves(tree) \ {node}) \cup C
  <2>1. IsTree(tree)
    BY DEF TreeOK
  <2>2. node \in Leaves(tree) /\ C \subseteq {Left(node), Right(node)} /\ C # {}
    BY <1>2, <1>3
  <2> HIDE DEF C, node
  <2>4. IsTree(tree \cup C) /\ Leaves(tree \cup C) = (Leaves(tree) \ {node}) \cup C
    BY <2>1, <2>2, GrowTree, Zenon
  <2> QED
    BY <1>3, <2>4
<1>5. \A t \in All : es[t].node \in tree
  BY <1>1 DEF Leaves
<1>6. {es'[t].node : t \in All'} = {es[t].node : t \in All \ {s}} \cup C
  <2>1. \A t \in All' : t = s \/ t \in N \/ t \in All \ {s}
    OBVIOUS
  <2>2. \A t \in All' : es'[t].node \in {es[u].node : u \in All \ {s}} \cup C
    BY <2>1
  <2>3. \A t \in All \ {s} : t \in All' /\ es'[t].node = es[t].node
    OBVIOUS
  <2>4. s \in All' /\ N \subseteq All'
    OBVIOUS
  <2>5. \A c \in C : \E t \in All' : es'[t].node = c
    BY <2>4
  <2> HIDE DEF C
  <2> QED
    BY <2>2, <2>3, <2>5
<1>7. {es[t].node : t \in All \ {s}} = Leaves(tree) \ {node}
  BY <1>1
<1>8. \A t, u \in All' : es'[t].node = es'[u].node => t = u
  <2>1. Left(node) # Right(node)
    BY <1>2, DifferentChildren
  <2>2. \A t \in All \ {s} : es'[t].node \in tree
    BY <1>5
  <2>3. \A t \in All' : t = s \/ t \in N \/ t \in All \ {s}
    OBVIOUS
  <2> SUFFICES ASSUME NEW t \in All', NEW u \in All', es'[t].node = es'[u].node PROVE t = u
    OBVIOUS
  <2>4. CASE t \in All \ {s} /\ u \in All \ {s}
    BY <1>1, <2>4
  <2>5. CASE t \in All \ {s} /\ u \notin All \ {s}
    BY <1>2, <2>2, <2>3, <2>5
  <2>6. CASE t \notin All \ {s} /\ u \in All \ {s}
    BY <1>2, <2>2, <2>3, <2>6
  <2>7. CASE t \notin All \ {s} /\ u \notin All \ {s}
    BY <2>1, <2>3, <2>7
  <2> QED
    BY <2>4, <2>5, <2>6, <2>7
<1>9. \A t \in All' : Len(es'[t].node) = es'[t].depth
  <2>1. /\ Len(Right(node)) = es[s].depth + 1 /\ Len(Left(node)) = es[s].depth + 1
    BY <1>1, <1>2, Children
  <2> QED
    BY <1>1, <2>1
<1>10. TreeMatches'
  BY <1>4, <1>6, <1>7, <1>8, <1>9 DEF TreeMatches, All
<1> QED
  BY <1>4, <1>10 DEF TreeOK

LEMMA EndsStateTree ==
  ASSUME TypeOK, ListsOK, TreeOK, NEW s \in All, TerminateState(s), UNCHANGED states
  PROVE  TreeOK'
<1>1. s \in All /\ s \in StateIds
  BY DEF Live, All, TypeOK
<1>2. CASE s \in addedStates
  <2>1. /\ All' = All \ {s}
        /\ tree' = RemoveAll(tree, {es[t].node : t \in {s}})
    <3>1. {es[t].node : t \in {s}} = {es[s].node}
      OBVIOUS
    <3>2. addedStates' = addedStates \ {s} /\ tree' = Remove(tree, es[s].node)
      BY <1>2 DEF TerminateState
    <3>3. s \notin states
      BY <1>2 DEF ListsOK
    <3> QED
      BY <3>1, <3>2, <3>3 DEF All, Remove
  <2>2. \A t \in All \ {s} : es'[t] = es[t]
    BY <1>2 DEF TerminateState, All, TypeOK
  <2> QED
    BY <1>1, <2>1, <2>2, TreePruned
<1>3. CASE s \notin addedStates
  <2>1. UNCHANGED <<tree, es, states, addedStates>>
    BY <1>3 DEF TerminateState
  <2> QED
    BY <2>1, TreeKept DEF All
<1> QED
  BY <1>2, <1>3

LEMMA BranchedTree ==
  ASSUME TypeOK, TreeOK, NEW s \in All, NEW n \in FreshIds, NEW c, NEW d,
         es' = Branched(s, n, c, d), tree' = Split(tree, es[s].node),
         addedStates' = addedStates \cup {n}, UNCHANGED states
  PROVE  TreeOK'
<1>1. /\ n \in StateIds /\ n \notin All /\ s \in StateIds /\ s # n /\ All' = All \cup {n}
      /\ All \subseteq StateIds
  BY DEF FreshIds, All, TypeOK
<1>2. tree' = tree \cup {Right(es[s].node)} \cup {Left(es[s].node) : m \in {n}}
  BY DEF Split
<1>3. /\ es'[s].node = Right(es[s].node) /\ es'[s].depth = es[s].depth + 1
      /\ es'[n].node = Left(es[s].node) /\ es'[n].depth = es[s].depth + 1
      /\ \A t \in All \ {s} : es'[t] = es[t]
  BY <1>1 DEF Branched, Child, TypeOK
<1>4. {n} \cap All = {} /\ \A k, m \in {n} : k = m
  BY <1>1
<1>5. \A m \in {n} : es'[m].node = Left(es[s].node) /\ es'[m].depth = es[s].depth + 1
  BY <1>3
<1>6. \A t \in All \ {s} : es'[t].node = es[t].node /\ es'[t].depth = es[t].depth
  BY <1>3
<1> QED
  BY <1>1, <1>2, <1>3, <1>4, <1>5, <1>6, TreeGrown

LEMMA HandlerTree ==
  ASSUME TypeOK, ListsOK, TreeOK, Handler
  PROVE  TreeOK'
<1>1. PICK s : Handles(s)
  BY HandlerDoes
<1>2. s \in StateIds /\ s \in All /\ All \subseteq StateIds
  BY <1>1 DEF Handles, TypeOK, All
<1>3. ASSUME NEW c \in SUBSET es[s].cond, ForkOneSide(s, c) \/ Constrain(s, c) PROVE TreeOK'
  <2>1. Narrow(s, c) /\ UNCHANGED <<tree, states, addedStates>>
    BY <1>3 DEF ForkOneSide, Constrain
  <2>2. \A t \in All : es'[t].node = es[t].node /\ es'[t].depth = es[t].depth
    BY <1>2, <2>1 DEF Narrow, TypeOK, ExecutionState
  <2> QED
    BY <2>1, <2>2, TreeKept DEF All
<1>4. ASSUME NEW c \in SUBSET es[s].cond, NEW n \in FreshIds, ForkBoth(s, c, n) PROVE TreeOK'
  <2>1. /\ es' = Branched(s, n, es[s].cond \cap c, es[s].cond \ c)
        /\ tree' = Split(tree, es[s].node)
        /\ addedStates' = addedStates \cup {n} /\ UNCHANGED states
    BY <1>4 DEF ForkBoth
  <2> QED
    BY <1>2, <2>1, BranchedTree
<1>5. ASSUME NEW c \in SUBSET es[s].cond, ForkTooDeep(s, c) PROVE TreeOK'
  <2>1. CASE s \in addedStates
    <3>1. TerminateState(s) /\ UNCHANGED states
      BY <1>5, <2>1 DEF ForkTooDeep, TerminateState
    <3> QED
      BY <1>2, <3>1, EndsStateTree
  <2>2. CASE s \notin addedStates
    <3>1. /\ es' = [es EXCEPT ![s] = Child(s, Right(es[s].node), es[s].cond \cap c)]
          /\ tree' = tree \cup {Right(es[s].node)} /\ UNCHANGED <<states, addedStates>>
      BY <1>5, <2>2 DEF ForkTooDeep
    <3>2. /\ es'[s].node = Right(es[s].node) /\ es'[s].depth = es[s].depth + 1
          /\ \A t \in All \ {s} : es'[t] = es[t]
      BY <1>2, <3>1 DEF Child, TypeOK
    <3>3. All' = All \cup {} /\ {} \cap All = {}
          /\ tree' = tree \cup {Right(es[s].node)} \cup {Left(es[s].node) : m \in {}}
      BY <3>1 DEF All
    <3> QED
      BY <1>2, <3>2, <3>3, TreeGrown
  <2> QED
    BY <2>1, <2>2
<1>6. ASSUME NEW k \in 1..MaxTargets, NEW cs \in [1..k -> SUBSET es[s].cond], BranchStart(s, cs)
      PROVE  TreeOK'
  <2>1. UNCHANGED <<es, tree, states, addedStates>>
    BY <1>6 DEF BranchStart, stateVars
  <2> QED
    BY <2>1, TreeKept DEF All
<1>7. ASSUME Terminate(s) PROVE TreeOK'
  BY <1>2, <1>7, EndsStateTree DEF Terminate
<1>8. ASSUME SetForking(s) PROVE TreeOK'
  <2>1. PICK b \in BOOLEAN : es' = [es EXCEPT ![s].forkDisabled = b]
    BY <1>8 DEF SetForking
  <2>2. \A t \in All : es'[t].node = es[t].node /\ es'[t].depth = es[t].depth
    BY <1>2, <2>1 DEF TypeOK, ExecutionState
  <2>3. UNCHANGED <<tree, states, addedStates>>
    BY <1>8 DEF SetForking
  <2> QED
    BY <2>2, <2>3, TreeKept DEF All
<1> QED
  BY <1>1, <1>3, <1>4, <1>5, <1>6, <1>7, <1>8 DEF Handles

LEMMA StepTree ==
  ASSUME TypeOK, ListsOK, BranchOK, TreeOK, [Next]_vars
  PROVE  TreeOK'
<1> USE ConstantsAssumption
<1>1. CASE \/ SeedStep \/ SelectState \/ SeedingHalted \/ SeedingDone \/ StopAfterSeeding
           \/ LeaveLoop \/ LeaveStates \/ StartSearch \/ MemoryUnchecked \/ UpdateAborts
           \/ MemoryMeasured \/ MemoryFarOver \/ TimersQuiet \/ HandlerReturn \/ Halt
           \/ UNCHANGED vars
  <2>1. UNCHANGED <<es, tree, states, addedStates>>
    BY <1>1 DEF SeedStep, SelectState, StartInstruction, SeedingHalted, SeedingDone, StopAfterSeeding,
         LeaveLoop, LeaveStates, StartSearch, MemoryUnchecked, UpdateAborts, MemoryMeasured,
         MemoryFarOver, TimersQuiet, HandlerReturn, Halt, Goto, stateVars, vars
  <2> QED
    BY <2>1, TreeKept DEF All
<1>2. CASE InstructionTimedOut
  <2>1. current \in All /\ TerminateState(current) /\ UNCHANGED states
    BY <1>2 DEF InstructionTimedOut, ListsOK, All
  <2> QED
    BY <2>1, EndsStateTree
<1>3. CASE UpdateStates
  <2>1. /\ states' = (states \cup addedStates) \ Removed /\ addedStates' = {}
        /\ es' = [s \in StateIds |-> IF s \in Removed THEN Freed ELSE es[s]]
        /\ tree' = RemoveAll(tree, {es[s].node : s \in Removed})
    BY <1>3 DEF UpdateStates, MergedStates
  <2>2. Removed \in SUBSET All /\ All' = All \ Removed /\ All \subseteq StateIds
    BY <2>1 DEF Removed, ListsOK, All, TypeOK
  <2>3. \A s \in All \ Removed : es'[s] = es[s]
    BY <2>1, <2>2
  <2> QED
    BY <2>1, <2>2, <2>3, TreePruned
<1>4. CASE DumpStates
  <2>1. /\ states' = {} /\ addedStates' = {} /\ addedStates = {}
        /\ tree' = RemoveAll(tree, {es[s].node : s \in states})
    BY <1>4 DEF DumpStates, ListsOK
  <2>2. states \in SUBSET All /\ All' = All \ states /\ All \ states = {}
    BY <2>1 DEF All
  <2> QED
    BY <2>1, <2>2, TreePruned
<1>5. CASE BranchSplit
  <2>1. PICK parent \in Chosen, n \in FreshIds :
          /\ es' = Branched(parent, n, es[parent].cond, es[parent].cond)
          /\ tree' = Split(tree, es[parent].node)
          /\ addedStates' = addedStates \cup {n}
    BY <1>5 DEF BranchSplit
  <2>2. parent \in All /\ UNCHANGED states
    BY <1>5 DEF BranchSplit, BranchOK, Live, All
  <2> QED
    BY <2>1, <2>2, BranchedTree
<1>6. CASE BranchFinish
  <2>1. PICK dest \in [Seeds -> Targets] : FinishWith(dest)
    BY <1>6 DEF BranchFinish
  <2> DEFINE K == Killed(dest) \cap addedStates
  <2>2. /\ addedStates' = addedStates \ K /\ UNCHANGED states
        /\ tree' = RemoveAll(tree, {es[s].node : s \in K})
    BY <1>6, <2>1 DEF FinishWith, BranchFinish
  <2>3. K \in SUBSET All /\ All' = All \ K /\ All \subseteq StateIds
    BY <2>2 DEF All, ListsOK, TypeOK
  <2>4. \A s \in All \ K : es'[s].node = es[s].node /\ es'[s].depth = es[s].depth
    <3> SUFFICES ASSUME NEW s \in All \ K
                 PROVE  es'[s].node = es[s].node /\ es'[s].depth = es[s].depth
      OBVIOUS
    <3>1. s \in StateIds /\ es[s] \in ExecutionState
      BY <2>3 DEF TypeOK
    <3>2. es'[s] = es[s] \/ es'[s] = [es[s] EXCEPT !.cond = CondOf(dest, s)]
      BY <2>1, <3>1 DEF FinishWith
    <3> QED
      BY <3>1, <3>2 DEF ExecutionState
  <2> HIDE DEF K
  <2> QED
    BY <2>2, <2>3, <2>4, TreePruned
<1>7. CASE Handler
  BY <1>7, HandlerTree
<1> QED
  BY <1>1, <1>2, <1>3, <1>4, <1>5, <1>6, <1>7 DEF Next, Loop, Finished

LEMMA InitTree ==
  ASSUME Init
  PROVE  TreeOK
<1>1. PICK s \in StateIds :
        /\ states = {s}
        /\ es = [t \in StateIds |-> IF t = s THEN [Freed EXCEPT !.cond = Inputs] ELSE Freed]
  BY DEF Init
<1>2. All = {s} /\ tree = {Root}
  BY <1>1 DEF Init, All
<1>3. es[s].node = Root /\ es[s].depth = 0
  BY <1>1 DEF Freed
<1>4. Root \in Nodes /\ Len(Root) = 0
  BY DEF Root, Nodes
<1>5. Left(Root) # Root /\ Right(Root) # Root
  BY <1>4, DifferentChildren
<1>6. Leaves(tree) = {Root}
  BY <1>2, <1>5 DEF Leaves
<1>7. IsTree(tree)
  <2>1. SUFFICES ASSUME NEW m \in Nodes, IsAbove(m, Root) PROVE m = Root
    BY <1>2, <1>4 DEF IsTree
  <2>2. Len(m) \in Nat /\ Len(m) <= 0
    BY <1>4, <2>1, LengthOfNode DEF IsAbove
  <2> QED
    BY <1>4, <2>2, EqualNodes
<1>8. TreeMatches
  BY <1>2, <1>3, <1>4, <1>6 DEF TreeMatches, All
<1> QED
  BY <1>7, <1>8 DEF TreeOK

-----------------------------------------------------------------------------
(* Paths are counted. *)

CountOK == PathCount

LEMMA LiveFinite ==
  ASSUME ListsOK
  PROVE  IsFiniteSet(Live) /\ Cardinality(Live) \in Nat
<1>1. Live \subseteq states \cup addedStates
  BY DEF Live
<1> QED
  BY <1>1, FS_Subset, FS_CardinalityType DEF ListsOK

LEMMA VectorLengths ==
  ASSUME TypeOK
  PROVE  Len(conditions) \in Nat /\ Len(result) \in Nat
BY DEF TypeOK

(* The live states K end, and each is counted; f forks are.                *)
LEMMA CountEnds ==
  ASSUME TypeOK, ListsOK, CountOK, UNCHANGED <<options, conditions, result, forks>>,
         RemovedOnce' => RemovedOnce,
         NEW K, RemovedOnce' => K \subseteq Live, Live' = Live \ K,
         pathsExplored' = pathsExplored + Cardinality(K)
  PROVE  CountOK'
<1>1. SUFFICES ASSUME RemovedOnce', options.maxForks = NoLimit
               PROVE  1 + forks = Cardinality(Live') + pathsExplored'
                                  + (Len(conditions) - Len(result))
  BY DEF CountOK, PathCount
<1>2. 1 + forks = Cardinality(Live) + pathsExplored + (Len(conditions) - Len(result))
  BY <1>1 DEF CountOK, PathCount
<1>3. K \subseteq Live /\ IsFiniteSet(Live) /\ IsFiniteSet(K)
  BY <1>1, LiveFinite, FS_Subset
<1>4. /\ Cardinality(Live \ K) = Cardinality(Live) - Cardinality(K)
      /\ Cardinality(K) \in Nat /\ Cardinality(Live) \in Nat /\ Cardinality(Live') \in Nat
  <2>1. Cardinality(Live \ K) = Cardinality(Live) - Cardinality(Live \cap K)
    BY <1>3, FS_Difference
  <2>2. Live \cap K = K
    BY <1>3
  <2>3. IsFiniteSet(Live \ K)
    BY <1>3, FS_Subset
  <2> QED
    BY <1>3, <2>1, <2>2, <2>3, FS_CardinalityType
<1> QED
  BY <1>2, <1>4, VectorLengths DEF TypeOK

LEMMA SingleCard ==
  ASSUME NEW x
  PROVE  Cardinality({x}) = 1
BY FS_Singleton

(* States that are not on removedStates yet are put there once.            *)
LEMMA StillOnce ==
  ASSUME TypeOK, NEW K \in SUBSET Live,
         \A t \in StateIds : removedStates'[t] = IF t \in K \ addedStates
                                                THEN removedStates[t] + 1 ELSE removedStates[t]
  PROVE  RemovedOnce' <=> RemovedOnce
<1>1. \A t \in StateIds : removedStates[t] \in Nat /\ (t \in K => removedStates[t] = 0)
  BY DEF TypeOK, Live
<1>2. \A t \in StateIds : removedStates'[t] > 1 <=> removedStates[t] > 1
  BY <1>1
<1> QED
  BY <1>2 DEF RemovedOnce, RemovedTwice

LEMMA EndsOnce ==
  ASSUME TypeOK, ListsOK, NEW s \in Live, EndsState(s)
  PROVE  RemovedOnce' <=> RemovedOnce
<1>1. CASE UNCHANGED removedStates
  BY <1>1 DEF RemovedOnce, RemovedTwice
<1>2. CASE s \in states /\ removedStates' = [removedStates EXCEPT ![s] = @ + 1]
  <2>1. s \notin addedStates
    BY <1>2 DEF ListsOK
  <2>2. \A t \in StateIds : removedStates'[t] = IF t \in {s} \ addedStates
                                                THEN removedStates[t] + 1 ELSE removedStates[t]
    BY <1>2, <2>1 DEF TypeOK
  <2> QED
    BY <2>2, StillOnce
<1> QED
  BY <1>1, <1>2 DEF EndsState

(* A state ends by terminateState(). *)
LEMMA EndsStateCounts ==
  ASSUME TypeOK, ListsOK, CountOK, NEW s \in Live, EndsState(s),
         UNCHANGED <<states, options, conditions, result, forks>>,
         pathsExplored' = pathsExplored + 1
  PROVE  CountOK'
<1>1. Live' = Live \ {s} /\ s \in StateIds
  BY DEF Live, EndsState, ListsOK, TypeOK
<1>2. RemovedOnce' <=> RemovedOnce
  BY EndsOnce
<1>3. pathsExplored' = pathsExplored + Cardinality({s}) /\ {s} \subseteq Live
  BY SingleCard
<1> QED
  BY <1>1, <1>2, <1>3, CountEnds

(* What is counted stays. *)
LEMMA CountKept ==
  ASSUME CountOK, Live' = Live, RemovedOnce' <=> RemovedOnce,
         UNCHANGED <<options, conditions, result, forks, pathsExplored>>
  PROVE  CountOK'
BY DEF CountOK, PathCount

LEMMA SameLists ==
  ASSUME UNCHANGED <<states, addedStates, removedStates>>
  PROVE  Live' = Live /\ (RemovedOnce' <=> RemovedOnce)
BY DEF Live, RemovedOnce, RemovedTwice

(* A new state n. *)
LEMMA NewLive ==
  ASSUME TypeOK, ListsOK, NEW n \in FreshIds, addedStates' = addedStates \cup {n},
         UNCHANGED <<states, removedStates>>
  PROVE  /\ Live' = Live \cup {n} /\ (RemovedOnce' <=> RemovedOnce)
         /\ Cardinality(Live') = Cardinality(Live) + 1
<1>1. n \in StateIds /\ n \notin states \cup addedStates /\ removedStates[n] = 0
  BY DEF FreshIds, ListsOK, TypeOK
<1>2. Live' = Live \cup {n} /\ n \notin Live /\ (RemovedOnce' <=> RemovedOnce)
  BY <1>1 DEF Live, RemovedOnce, RemovedTwice
<1> QED
  BY <1>2, LiveFinite, FS_AddElement

LEMMA HandlerCounts ==
  ASSUME TypeOK, ListsOK, BranchOK, CountOK, Handler
  PROVE  CountOK'
<1>0. pc = "handler" /\ conditions = <<>> /\ result = <<>> /\ UNCHANGED options
  <2>1. [Next]_vars
    BY DEF Next
  <2> QED
    BY <2>1, OptionsStay DEF Handler, BranchOK
<1>1. PICK s : Handles(s)
  BY HandlerDoes
<1>2. s \in StateIds /\ (s \in Live \/ Ended(s))
  BY <1>1 DEF Handles
<1>3. CASE \/ \E c \in SUBSET es[s].cond : ForkOneSide(s, c) \/ Constrain(s, c)
           \/ SetForking(s)
  <2>1. UNCHANGED <<states, addedStates, removedStates, conditions, result, forks, pathsExplored>>
    BY <1>3 DEF ForkOneSide, Constrain, SetForking, branchVars, countVars
  <2> QED
    BY <1>0, <2>1, SameLists, CountKept
<1>4. ASSUME NEW c \in SUBSET es[s].cond, NEW n \in FreshIds, ForkBoth(s, c, n) PROVE CountOK'
  <2>1. /\ addedStates' = addedStates \cup {n} /\ forks' = forks + 1
        /\ UNCHANGED <<states, removedStates, conditions, result, pathsExplored>>
    BY <1>4 DEF ForkBoth, branchVars
  <2>2. /\ Cardinality(Live') = Cardinality(Live) + 1 /\ (RemovedOnce' <=> RemovedOnce)
    BY <2>1, NewLive
  <2>3. /\ Cardinality(Live) \in Nat /\ forks \in Nat /\ pathsExplored \in Nat
        /\ Len(conditions) \in Nat /\ Len(result) \in Nat
    BY LiveFinite, VectorLengths DEF TypeOK
  <2> QED
    BY <1>0, <2>1, <2>2, <2>3 DEF CountOK, PathCount
<1>5. ASSUME NEW c \in SUBSET es[s].cond, ForkTooDeep(s, c), s \in Live PROVE CountOK'
  <2>1. EndsState(s)
    BY <1>2, <1>5 DEF EndsState, ForkTooDeep, Live
  <2>2. /\ forks' = forks + 1 /\ pathsExplored' = pathsExplored + 2
        /\ UNCHANGED <<states, conditions, result>>
    BY <1>5 DEF ForkTooDeep, branchVars
  <2>3. Live' = Live \ {s}
    BY <1>2, <1>5, <2>1, <2>2 DEF Live, EndsState, ListsOK, TypeOK
  <2>4. RemovedOnce' <=> RemovedOnce
    BY <1>5, <2>1, EndsOnce
  <2>5. Cardinality(Live') = Cardinality(Live) - 1
    BY <1>5, <2>3, LiveFinite, FS_RemoveElement
  <2>6. /\ Cardinality(Live) \in Nat /\ forks \in Nat /\ pathsExplored \in Nat
        /\ Len(conditions) \in Nat /\ Len(result) \in Nat
    BY LiveFinite, VectorLengths DEF TypeOK
  <2> QED
    BY <1>0, <2>2, <2>4, <2>5, <2>6 DEF CountOK, PathCount
<1>6. ASSUME NEW k \in 1..MaxTargets, NEW cs \in [1..k -> SUBSET es[s].cond], BranchStart(s, cs)
      PROVE  CountOK'
  <2>1. /\ conditions' = cs
        /\ UNCHANGED <<states, addedStates, removedStates, pathsExplored>>
    BY <1>6 DEF BranchStart, stateVars
  <2>2. Len(cs) = k /\ k \in Nat
    OBVIOUS
  <2>3. options.maxForks = NoLimit => Len(result') = 1 /\ forks' = forks + (k - 1)
    <3>1. options.maxForks = NoLimit => ~ForkLimitReached
      BY DEF ForkLimitReached
    <3>2. ~ForkLimitReached => result' = <<s>> /\ forks' = forks + (Len(cs) - 1)
      BY <1>6 DEF BranchStart, ForksFor
    <3> QED
      BY <2>2, <3>1, <3>2
  <2>4. Live' = Live /\ (RemovedOnce' <=> RemovedOnce)
    BY <2>1, SameLists
  <2>5. Cardinality(Live) \in Nat /\ forks \in Nat /\ pathsExplored \in Nat
    BY LiveFinite DEF TypeOK
  <2>6. Len(conditions) = 0 /\ Len(result) = 0 /\ Len(conditions') = k
    BY <1>0, <2>1, <2>2
  <2>7. PathCount'
    <3> SUFFICES ASSUME RemovedOnce', options.maxForks = NoLimit
                 PROVE  1 + forks' = Cardinality(Live') + pathsExplored'
                                     + (Len(conditions') - Len(result'))
      BY <1>0 DEF PathCount
    <3>1. 1 + forks = Cardinality(Live) + pathsExplored + (0 - 0)
      BY <2>4, <2>6 DEF CountOK, PathCount
    <3>2. /\ forks' = forks + (k - 1) /\ Len(result') = 1 /\ Cardinality(Live') = Cardinality(Live)
          /\ pathsExplored' = pathsExplored
      BY <2>1, <2>3, <2>4
    <3> QED
      BY <2>2, <2>5, <2>6, <3>1, <3>2
  <2> QED
    BY <2>7 DEF CountOK
<1>7. ASSUME Terminate(s), s \in Live PROVE CountOK'
  <2>1. EndsState(s)
    BY <1>2, <1>7 DEF EndsState, Terminate, TerminateState, Live
  <2>2. /\ pathsExplored' = pathsExplored + 1
        /\ UNCHANGED <<states, options, conditions, result, forks>>
    BY <1>7 DEF Terminate, branchVars
  <2> QED
    BY <1>7, <2>1, <2>2, EndsStateCounts
<1>8. ASSUME NEW c, ForkTooDeep(s, c) \/ Terminate(s), s \notin Live PROVE CountOK'
  <2>1. removedStates[s] > 0 /\ removedStates' = [removedStates EXCEPT ![s] = @ + 1]
    BY <1>2, <1>8 DEF Ended, ForkTooDeep, Terminate, TerminateState
  <2>2. RemovedTwice'
    BY <1>2, <2>1 DEF RemovedTwice, TypeOK
  <2> QED
    BY <2>2 DEF CountOK, PathCount, RemovedOnce
<1> QED
  BY <1>1, <1>3, <1>4, <1>5, <1>6, <1>7, <1>8 DEF Handles

LEMMA BranchFinishCounts ==
  ASSUME TypeOK, ListsOK, BranchOK, CountOK, BranchFinish
  PROVE  CountOK'
<1>1. PICK dest \in [Seeds -> Targets] : FinishWith(dest)
  BY DEF BranchFinish
<1> DEFINE K == Killed(dest)
<1>2. /\ pc = "branching" /\ conditions' = <<>> /\ result' = <<>>
      /\ Len(result) = Len(conditions) /\ UNCHANGED <<options, states, forks>>
  BY DEF BranchFinish
<1>3. K \subseteq Chosen /\ Chosen \subseteq Live
  BY <1>2 DEF Killed, BranchOK
<1>4. /\ addedStates' = addedStates \ K
      /\ \A t \in StateIds : removedStates'[t] =
           IF t \in K \ addedStates THEN removedStates[t] + 1 ELSE removedStates[t]
      /\ pathsExplored' = pathsExplored + Cardinality(K)
  BY <1>1 DEF FinishWith
<1> HIDE DEF K
<1>5. Live' = Live \ K
  BY <1>2, <1>3, <1>4 DEF Live, ListsOK, TypeOK
<1>6. RemovedOnce' <=> RemovedOnce
  <2>1. K \in SUBSET Live
    BY <1>3
  <2> QED
    BY <1>4, <2>1, StillOnce
<1>7. /\ Cardinality(Live') = Cardinality(Live) - Cardinality(K)
      /\ Cardinality(K) \in Nat /\ Cardinality(Live) \in Nat
  <2>1. IsFiniteSet(Live) /\ K \subseteq Live /\ IsFiniteSet(K) /\ Live \cap K = K
    BY <1>3, LiveFinite, FS_Subset
  <2> QED
    BY <1>5, <2>1, FS_Difference, FS_CardinalityType
<1>8. Len(conditions) \in Nat /\ Len(conditions') = 0 /\ Len(result') = 0
  BY <1>2, VectorLengths
<1> QED
  BY <1>2, <1>4, <1>6, <1>7, <1>8 DEF CountOK, PathCount, TypeOK

LEMMA StepCounts ==
  ASSUME TypeOK, ListsOK, BranchOK, CountOK, [Next]_vars
  PROVE  CountOK'
<1> USE ConstantsAssumption
<1>0. UNCHANGED options
  BY OptionsStay
<1>1. CASE \/ SeedStep \/ SelectState \/ SeedingHalted \/ SeedingDone \/ StopAfterSeeding
           \/ LeaveLoop \/ LeaveStates \/ StartSearch \/ MemoryUnchecked \/ UpdateAborts
           \/ MemoryMeasured \/ TimersQuiet \/ HandlerReturn \/ Halt \/ UNCHANGED vars
  <2>1. UNCHANGED <<states, addedStates, removedStates, conditions, result, forks, pathsExplored>>
    BY <1>1 DEF SeedStep, SelectState, StartInstruction, SeedingHalted, SeedingDone, StopAfterSeeding,
         LeaveLoop, LeaveStates, StartSearch, MemoryUnchecked, UpdateAborts, MemoryMeasured,
         TimersQuiet, HandlerReturn, Halt, Goto, stateVars, branchVars, countVars, vars
  <2> QED
    BY <1>0, <2>1, SameLists, CountKept
<1>2. CASE InstructionTimedOut
  <2>1. /\ current \in Live /\ current \in states /\ TerminateState(current)
        /\ UNCHANGED <<states, conditions, result, forks>>
        /\ pathsExplored' = pathsExplored + 1
    BY <1>2 DEF InstructionTimedOut, StillRunning, ListsOK, Live, branchVars
  <2>2. EndsState(current)
    BY <2>1 DEF EndsState, TerminateState
  <2> QED
    BY <1>0, <2>1, <2>2, EndsStateCounts
<1>3. CASE MemoryFarOver
  <2>1. PICK K \in SUBSET states :
          /\ removedStates' = [t \in StateIds |-> IF t \in K THEN removedStates[t] + 1 ELSE removedStates[t]]
          /\ pathsExplored' = pathsExplored + Cardinality(K)
    BY <1>3 DEF MemoryFarOver
  <2>2. UNCHANGED <<conditions, result, forks, states, addedStates>> /\ options.maxMemory
    BY <1>3 DEF MemoryFarOver, branchVars
  <2>3. Live' = Live \ K /\ (RemovedOnce' => RemovedOnce) /\ (RemovedOnce' => K \subseteq Live)
    BY <2>1, <2>2 DEF Live, RemovedOnce, RemovedTwice, TypeOK
  <2> QED
    BY <1>0, <2>1, <2>2, <2>3, CountEnds
<1>4. CASE UpdateStates
  <2>1. /\ states' = (states \cup addedStates) \ Removed /\ addedStates' = {}
        /\ removedStates' = [t \in StateIds |-> 0] /\ RemovedOnce
        /\ UNCHANGED <<conditions, result, forks, pathsExplored>>
    BY <1>4 DEF UpdateStates, MergedStates, RemovedOnce, branchVars, countVars
  <2>2. Live' = Live /\ (RemovedOnce' <=> RemovedOnce)
    BY <2>1 DEF Live, Removed, RemovedOnce, RemovedTwice, TypeOK
  <2> QED
    BY <1>0, <2>1, <2>2, CountKept
<1>5. CASE DumpStates
  <2>1. addedStates = {} /\ Live = states
    BY <1>5 DEF DumpStates, ListsOK, Live, Removed, TypeOK
  <2>2. /\ states' = {} /\ pathsExplored' = pathsExplored + Cardinality(states)
        /\ UNCHANGED <<addedStates, removedStates, conditions, result, forks>>
    BY <1>5 DEF DumpStates, branchVars
  <2>3. Live' = Live \ states /\ (RemovedOnce' <=> RemovedOnce)
    BY <2>1, <2>2 DEF Live, RemovedOnce, RemovedTwice
  <2> QED
    BY <1>0, <2>1, <2>2, <2>3, CountEnds
<1>6. CASE BranchSplit
  <2>1. PICK n \in FreshIds : addedStates' = addedStates \cup {n} /\ result' = Append(result, n)
    BY <1>6 DEF BranchSplit
  <2>2. UNCHANGED <<states, removedStates, conditions, forks, pathsExplored>>
    BY <1>6 DEF BranchSplit, countVars
  <2>3. Cardinality(Live') = Cardinality(Live) + 1 /\ (RemovedOnce' <=> RemovedOnce)
    BY <2>1, <2>2, NewLive
  <2>4. /\ Len(result') = Len(result) + 1 /\ Len(result) \in Nat
    BY <2>1 DEF TypeOK
  <2>5. /\ Cardinality(Live) \in Nat /\ forks \in Nat /\ pathsExplored \in Nat
        /\ Len(conditions) \in Nat
    BY LiveFinite, VectorLengths DEF TypeOK
  <2> QED
    BY <1>0, <2>2, <2>3, <2>4, <2>5 DEF CountOK, PathCount
<1>7. CASE BranchFinish
  BY <1>7, BranchFinishCounts
<1>8. CASE Handler
  BY <1>8, HandlerCounts
<1> QED
  BY <1>1, <1>2, <1>3, <1>4, <1>5, <1>6, <1>7, <1>8 DEF Next, Loop, Finished

(* Who is on removedStates twice. *)
LEMMA HandlerAsserts ==
  ASSUME TypeOK, ListsOK, AssertionHolds, Handler
  PROVE  AssertionHolds'
<1>1. PICK s : Handles(s)
  BY HandlerDoes
<1>2. s \in StateIds /\ (s \in Live \/ Ended(s)) /\ UNCHANGED options
  <2>1. [Next]_vars
    BY DEF Next
  <2> QED
    BY <1>1, <2>1, OptionsStay DEF Handles
<1>3. CASE UNCHANGED <<removedStates, current>>
  BY <1>2, <1>3 DEF AssertionHolds
<1>4. CASE UNCHANGED current /\ removedStates' = [removedStates EXCEPT ![s] = @ + 1]
  <2>1. \A t \in StateIds : t # s => removedStates'[t] = removedStates[t]
    BY <1>4 DEF TypeOK
  <2>2. removedStates'[s] > 1 => Ended(s)
    BY <1>2, <1>4 DEF TypeOK, Live
  <2> QED
    BY <1>2, <1>4, <2>1, <2>2 DEF AssertionHolds, Ended
<1>5. ASSUME NEW c, \/ ForkOneSide(s, c) \/ ForkTooDeep(s, c) \/ Constrain(s, c)
                   \/ Terminate(s) \/ SetForking(s) \/ BranchStart(s, c)
                   \/ \E n : ForkBoth(s, c, n)
      PROVE  \/ UNCHANGED <<removedStates, current>>
             \/ UNCHANGED current /\ removedStates' = [removedStates EXCEPT ![s] = @ + 1]
  BY <1>5 DEF ForkOneSide, ForkTooDeep, Constrain, Terminate, TerminateState, SetForking,
       BranchStart, ForkBoth, stateVars, loopVars
<1> QED
  BY <1>1, <1>3, <1>4, <1>5 DEF Handles

LEMMA StepAsserts ==
  ASSUME TypeOK, ListsOK, BranchOK, AssertionHolds, [Next]_vars
  PROVE  AssertionHolds'
<1>0. UNCHANGED options
  BY OptionsStay
<1>1. CASE \/ SeedingHalted \/ SeedingDone \/ StopAfterSeeding
           \/ LeaveLoop \/ LeaveStates \/ StartSearch \/ MemoryUnchecked \/ UpdateAborts
           \/ MemoryMeasured \/ TimersQuiet \/ HandlerReturn \/ Halt \/ UNCHANGED vars
           \/ DumpStates \/ BranchSplit
  <2>1. UNCHANGED <<removedStates, current>>
    BY <1>1 DEF SeedingHalted, SeedingDone, StopAfterSeeding,
         LeaveLoop, LeaveStates, StartSearch, MemoryUnchecked, UpdateAborts, MemoryMeasured,
         TimersQuiet, HandlerReturn, Halt, Goto, stateVars, loopVars, vars, DumpStates, BranchSplit
  <2> QED
    BY <1>0, <2>1 DEF AssertionHolds
<1>2. CASE SeedStep \/ SelectState
  <2>1. Removed = {} /\ UNCHANGED removedStates
    BY <1>2 DEF SeedStep, SelectState, StartInstruction, ListsOK, stateVars
  <2> QED
    BY <2>1 DEF Removed, AssertionHolds, TypeOK
<1>3. CASE InstructionTimedOut
  <2>1. /\ removedStates[current] = 0 /\ current \in StateIds /\ UNCHANGED current
        /\ \/ UNCHANGED removedStates
           \/ removedStates' = [removedStates EXCEPT ![current] = @ + 1]
    BY <1>3 DEF InstructionTimedOut, TerminateState, StillRunning, ListsOK, TypeOK, loopVars
  <2> QED
    BY <1>0, <2>1 DEF AssertionHolds, TypeOK
<1>4. CASE MemoryFarOver
  <2>1. options.maxMemory
    BY <1>4 DEF MemoryFarOver
  <2> QED
    BY <1>0, <2>1 DEF AssertionHolds
<1>5. CASE UpdateStates
  BY <1>5 DEF UpdateStates, AssertionHolds
<1>6. CASE BranchFinish
  <2>1. PICK dest \in [Seeds -> Targets] : FinishWith(dest)
    BY <1>6 DEF BranchFinish
  <2>2. Killed(dest) \subseteq Live /\ UNCHANGED current
    BY <1>6 DEF Killed, BranchOK, BranchFinish, loopVars
  <2>3. \A t \in StateIds : removedStates'[t] =
           IF t \in Killed(dest) \ addedStates THEN removedStates[t] + 1 ELSE removedStates[t]
    BY <2>1 DEF FinishWith
  <2>4. \A t \in StateIds : removedStates'[t] > 1 => removedStates[t] > 1
    BY <2>2, <2>3 DEF Live, TypeOK
  <2> QED
    BY <1>0, <2>2, <2>4 DEF AssertionHolds
<1>7. CASE Handler
  BY <1>7, HandlerAsserts
<1> QED
  BY <1>1, <1>2, <1>3, <1>4, <1>5, <1>6, <1>7 DEF Next, Loop, Finished

(* When all states were dumped none is left. *)
DumpedOK == pc = "done" /\ options.dumpStatesOnHalt => states = {} /\ tree = {}

LEMMA StepDumped ==
  ASSUME TypeOK, ListsOK, TreeOK, DumpedOK, [Next]_vars
  PROVE  DumpedOK'
<1>0. UNCHANGED options
  BY OptionsStay
<1>1. CASE DumpStates
  <2>1. /\ states' = {} /\ addedStates = {}
        /\ tree' = RemoveAll(tree, {es[s].node : s \in states})
    BY <1>1 DEF DumpStates, ListsOK
  <2>2. Leaves(tree) = {es[s].node : s \in states}
    BY <2>1 DEF TreeOK, TreeMatches
  <2>3. tree' = {}
    BY <2>1, <2>2 DEF RemoveAll
  <2> QED
    BY <2>1, <2>3 DEF DumpedOK
<1>2. CASE LeaveStates
  BY <1>0, <1>2 DEF LeaveStates, DumpedOK
<1>3. CASE Halt
  BY <1>3 DEF Halt, DumpedOK
<1>4. CASE UNCHANGED vars
  BY <1>4 DEF vars, stateVars, DumpedOK
<1>5. CASE Handler
  <2>1. pc' # "done"
    <3>1. PICK s \in hand :
            \/ \E c : ForkOneSide(s, c) \/ ForkTooDeep(s, c) \/ Constrain(s, c)
            \/ \E c, n : ForkBoth(s, c, n)
            \/ \E cs : BranchStart(s, cs)
            \/ Terminate(s) \/ SetForking(s)
      BY <1>5 DEF Handler
    <3>2. pc = "handler"
      BY <1>5 DEF Handler
    <3>3. CASE \E c : ForkOneSide(s, c) \/ ForkTooDeep(s, c) \/ Constrain(s, c)
      BY <3>2, <3>3 DEF ForkOneSide, ForkTooDeep, Constrain
    <3>4. CASE \E c, n : ForkBoth(s, c, n)
      BY <3>2, <3>4 DEF ForkBoth
    <3>5. CASE \E cs : BranchStart(s, cs)
      BY <3>5 DEF BranchStart
    <3>6. CASE Terminate(s) \/ SetForking(s)
      BY <3>2, <3>6 DEF Terminate, SetForking
    <3> QED
      BY <3>1, <3>3, <3>4, <3>5, <3>6
  <2> QED
    BY <2>1 DEF DumpedOK
<1>6. CASE Loop /\ ~DumpStates /\ ~LeaveStates
  <2>1. pc' # "done"
    BY <1>6 DEF Loop, SeedStep, SelectState, StartInstruction, SeedingHalted, SeedingDone,
         StopAfterSeeding, LeaveLoop, StartSearch, MemoryUnchecked, UpdateAborts, MemoryMeasured,
         MemoryFarOver, TimersQuiet, HandlerReturn, InstructionTimedOut, AfterTimers,
         BranchSplit, BranchFinish, UpdateStates, Goto
  <2> QED
    BY <2>1 DEF DumpedOK
<1> QED
  BY <1>1, <1>2, <1>3, <1>4, <1>5, <1>6 DEF Next, Finished

BooksInv ==
  TypeOK /\ ListsOK /\ BranchOK /\ PathsOK /\ TreeOK /\ CountOK /\ AssertionHolds /\ DumpedOK

LEMMA InitBooks ==
  ASSUME Init
  PROVE  BooksInv
<1> USE ConstantsAssumption
<1>1. PICK s \in StateIds : states = {s}
  BY DEF Init
<1>2. /\ addedStates = {} /\ removedStates = [t \in StateIds |-> 0]
      /\ conditions = <<>> /\ result = <<>> /\ forks = 0 /\ pathsExplored = 0
  BY DEF Init
<1>3. CountOK
  <2>1. Live = {s} /\ RemovedOnce
    BY <1>1, <1>2 DEF Live, RemovedOnce, RemovedTwice
  <2>2. Len(conditions) = 0 /\ Len(result) = 0 /\ Cardinality(Live) = 1
    BY <1>2, <2>1, SingleCard
  <2> QED
    BY <1>2, <2>1, <2>2 DEF CountOK, PathCount
<1>4. DumpedOK /\ AssertionHolds
  BY DEF Init, DumpedOK, AssertionHolds
<1> QED
  BY <1>3, <1>4, InitOK, InitPaths, InitTree DEF BooksInv

LEMMA AlwaysBooks == Spec => []BooksInv
<1>1. Init => BooksInv
  BY InitBooks
<1>2. BooksInv /\ [Next]_vars => BooksInv'
  BY StepTypes, StepLists, StepPaths, StepTree, StepCounts, StepAsserts, StepDumped DEF BooksInv
<1> QED
  BY <1>1, <1>2, PTL DEF Spec

(* The counters of forks and paths, the process tree and the work lists    *)
(* agree all the time, updateStates() finds no state removed twice unless  *)
(* memory runs out or the current state was ended again by the handler of  *)
(* a call of a symbolic pointer or of va_start, and with                   *)
(* --dump-states-on-halt a run that is over has explored one path more     *)
(* than it has forked.                                                     *)
THEOREM BooksAlwaysAgree == Spec => []BooksAgree
<1>1. BooksInv => BooksAgree
  <2> SUFFICES ASSUME BooksInv PROVE BooksAgree
    OBVIOUS
  <2>1. NothingLeftBehind
    <3> SUFFICES ASSUME pc = "done", options.dumpStatesOnHalt
                 PROVE  /\ states = {} /\ tree = {} /\ explored \cup dropped = Inputs
                        /\ options.maxForks = NoLimit => pathsExplored = 1 + forks
      BY DEF NothingLeftBehind
    <3>1. states = {} /\ tree = {}
      BY DEF BooksInv, DumpedOK
    <3>2. addedStates = {} /\ Removed = {} /\ Live = {}
      BY <3>1 DEF BooksInv, ListsOK, Live
    <3>3. explored \cup dropped = Inputs
      BY <3>2 DEF BooksInv, PathsOK, NoInputLost, TypeOK
    <3>4. RemovedOnce
      BY <3>2 DEF RemovedOnce, RemovedTwice, Removed, BooksInv, TypeOK
    <3>5. Cardinality(Live) = 0 /\ conditions = <<>> /\ result = <<>>
      BY <3>2, FS_EmptySet DEF BooksInv, BranchOK
    <3>6. Len(conditions) = 0 /\ Len(result) = 0
      BY <3>5
    <3>7. options.maxForks = NoLimit => pathsExplored = 1 + forks
      <4>1. forks \in Nat /\ pathsExplored \in Nat
        BY DEF BooksInv, TypeOK
      <4> QED
        BY <3>4, <3>5, <3>6, <4>1 DEF BooksInv, CountOK, PathCount
    <3> QED
      BY <3>1, <3>3, <3>7
  <2> QED
    BY <2>1 DEF BooksInv, CountOK, TreeOK, BooksAgree
<1> QED
  BY <1>1, AlwaysBooks, PTL

-----------------------------------------------------------------------------
(* Seeds follow the paths they satisfy. *)

SeedsPlaced ==
  \A sd \in Seeds : seedAt[sd] # NoState =>
    /\ seedAt[sd] \in All
    /\ sd \in patched \/ seedVal[sd] \in es[seedAt[sd]].cond

(* The states that run, and the one the handler may go on with.            *)
Held == Live \cup hand

(* While branch() has not handed out its seeds some state has them.        *)
SeedsLeft ==
  options.onlyReplaySeeds /\ Seeds # {} =>
    /\ pc # "branching" => \A s \in Held : Seeded(s)
    /\ pc = "branching" => (\A s \in Held \ Chosen : Seeded(s)) /\ BranchSeeds # {}

SeedsOK == SeedsPlaced /\ SeedsLeft

LEMMA SeedTypes ==
  ASSUME TypeOK, NEW sd \in Seeds
  PROVE  /\ seedAt[sd] \in StateIds \cup {NoState} /\ seedVal[sd] \in Inputs
         /\ NoState \notin StateIds /\ NoState \notin All
BY ConstantsAssumption DEF TypeOK, All

(* Seeds stay where they are, on paths that stay. *)
LEMMA PlacedKept ==
  ASSUME SeedsPlaced, UNCHANGED seedVars, All \subseteq All',
         \A s \in All : es[s].cond \subseteq es'[s].cond
  PROVE  SeedsPlaced'
BY DEF SeedsPlaced, seedVars

LEMMA LeftKept ==
  ASSUME SeedsLeft, UNCHANGED <<options, seedAt>>, Held' \subseteq Held,
         pc # "branching", pc' # "branching"
  PROVE  SeedsLeft'
BY DEF SeedsLeft, Seeded

(* A state ends, and its seeds with it at the latest in updateStates().    *)
LEMMA EndsStateSeeds ==
  ASSUME TypeOK, ListsOK, SeedsOK, NEW s \in All, TerminateState(s),
         UNCHANGED <<options, states, seedVal, patched>>,
         hand' \subseteq hand, s \in addedStates => s \notin hand',
         pc # "branching", pc' # "branching"
  PROVE  SeedsOK'
<1>1. s \in StateIds /\ All \subseteq StateIds
  BY DEF All, TypeOK
<1>2. CASE s \in addedStates
  <2>1. /\ addedStates' = addedStates \ {s} /\ es' = [es EXCEPT ![s] = Freed]
        /\ seedAt' = EraseSeeds(seedAt, {s}) /\ UNCHANGED removedStates
    BY <1>2 DEF TerminateState
  <2>2. All' = All \ {s} /\ Held' \subseteq Held \ {s}
    BY <1>2, <2>1 DEF All, Live, Held, ListsOK
  <2>3. \A sd \in Seeds : seedAt'[sd] = IF seedAt[sd] = s THEN NoState ELSE seedAt[sd]
    BY <2>1 DEF EraseSeeds
  <2>4. \A t \in All \ {s} : es'[t] = es[t]
    BY <1>1, <2>1 DEF TypeOK
  <2>5. SeedsPlaced'
    BY <2>2, <2>3, <2>4 DEF SeedsOK, SeedsPlaced
  <2>6. SeedsLeft'
    BY <2>2, <2>3 DEF SeedsOK, SeedsLeft, Seeded
  <2> QED
    BY <2>5, <2>6 DEF SeedsOK
<1>3. CASE s \notin addedStates
  <2>1. UNCHANGED <<es, states, addedStates, seedAt>>
        /\ removedStates' = [removedStates EXCEPT ![s] = @ + 1]
    BY <1>3 DEF TerminateState
  <2>2. Held' \subseteq Held /\ All' = All
    BY <1>1, <2>1 DEF Live, Held, All, TypeOK
  <2>3. SeedsPlaced'
    BY <2>1, <2>2, PlacedKept DEF SeedsOK, seedVars
  <2>4. SeedsLeft'
    BY <2>1, <2>2, LeftKept DEF SeedsOK
  <2> QED
    BY <2>3, <2>4 DEF SeedsOK
<1> QED
  BY <1>2, <1>3

LEMMA HandlerLeaves ==
  ASSUME ListsOK, pc = "handler", NEW s, hand' = HandWithout(s)
  PROVE  hand' \subseteq hand /\ (s \in addedStates => s \notin hand')
BY DEF HandWithout, ListsOK

LEMMA HandlerSeeds ==
  ASSUME TypeOK, ListsOK, BranchOK, SeedsOK, Handler
  PROVE  SeedsOK'
<1> USE ConstantsAssumption
<1>0. pc = "handler" /\ result = <<>> /\ UNCHANGED options
  <2>1. [Next]_vars
    BY DEF Next
  <2> QED
    BY <2>1, OptionsStay DEF Handler, BranchOK
<1>1. PICK s : Handles(s)
  BY HandlerDoes
<1>2. s \in hand /\ s \in Held /\ s \in StateIds /\ s \in All /\ All \subseteq StateIds
      /\ Live \subseteq All /\ (s \in Live \/ Ended(s)) /\ Held \subseteq All
  BY <1>1 DEF Handles, ListsOK, TypeOK, Live, All, Held
<1>3. ASSUME NEW c \in SUBSET es[s].cond, ForkOneSide(s, c) PROVE SeedsOK'
  <2>1. /\ Narrow(s, c) /\ UNCHANGED <<states, addedStates, removedStates, seedVars, pc, hand>>
        /\ \A sd \in SeedsOf(s) : Takes(sd, c)
    BY <1>3 DEF ForkOneSide
  <2>2. All' = All /\ Held' = Held
    BY <2>1 DEF All, Live, Held
  <2>3. \A t \in All : es'[t].cond = IF t = s THEN es[t].cond \cap c ELSE es[t].cond
    BY <1>2, <2>1 DEF Narrow, TypeOK, ExecutionState
  <2>4. SeedsPlaced'
    BY <2>1, <2>2, <2>3 DEF SeedsOK, SeedsPlaced, SeedsOf, Takes, seedVars
  <2>5. SeedsLeft'
    BY <1>0, <2>1, <2>2, LeftKept DEF SeedsOK, seedVars
  <2> QED
    BY <2>4, <2>5 DEF SeedsOK
<1>4. ASSUME NEW c \in SUBSET es[s].cond, NEW n \in FreshIds, ForkBoth(s, c, n) PROVE SeedsOK'
  <2>1. /\ ~StaysWhole(s, c) /\ es' = Branched(s, n, es[s].cond \cap c, es[s].cond \ c)
        /\ addedStates' = addedStates \cup {n} /\ hand' = hand \cup {n}
        /\ UNCHANGED <<pc, states, removedStates, seedVal, patched>>
    BY <1>4 DEF ForkBoth
  <2>2. \A sd \in Seeds : seedAt'[sd] = IF seedAt[sd] = s /\ ~Takes(sd, c) THEN n ELSE seedAt[sd]
    BY <1>4 DEF ForkBoth
  <2>3. /\ n \in StateIds /\ n \notin All /\ s # n /\ All' = All \cup {n} /\ Held' \subseteq Held \cup {n}
    BY <1>2, <2>1 DEF FreshIds, All, Live, Held
  <2>4. /\ es'[s].cond = es[s].cond \cap c /\ es'[n].cond = es[s].cond \ c
        /\ \A t \in All \ {s} : es'[t] = es[t]
    BY <1>2, <2>1, <2>3 DEF Branched, Child, TypeOK
  <2>5. SeedsPlaced'
    <3> SUFFICES ASSUME NEW sd \in Seeds, seedAt'[sd] # NoState
                 PROVE  /\ seedAt'[sd] \in All'
                        /\ sd \in patched' \/ seedVal'[sd] \in es'[seedAt'[sd]].cond
      BY DEF SeedsPlaced
    <3>1. n # NoState
      BY <2>3
    <3>2. seedAt[sd] # NoState
      BY <1>2, <2>2
    <3>3. seedAt[sd] \in All /\ (sd \in patched \/ seedVal[sd] \in es[seedAt[sd]].cond)
      BY <3>2 DEF SeedsOK, SeedsPlaced
    <3>4. CASE seedAt[sd] = s /\ ~Takes(sd, c)
      BY <2>1, <2>2, <2>3, <2>4, <3>3, <3>4 DEF Takes
    <3>5. CASE seedAt[sd] = s /\ Takes(sd, c)
      BY <2>1, <2>2, <2>3, <2>4, <3>3, <3>5 DEF Takes
    <3>6. CASE seedAt[sd] # s
      BY <2>1, <2>2, <2>3, <2>4, <3>3, <3>6
    <3> QED
      BY <3>4, <3>5, <3>6
  <2>6. SeedsLeft'
    <3> SUFFICES ASSUME options.onlyReplaySeeds, Seeds # {}, NEW t \in Held'
                 PROVE  \E sd \in Seeds : seedAt'[sd] = t
      BY <1>0, <2>1 DEF SeedsLeft, Seeded
    <3>1. \A u \in Held : \E sd \in Seeds : seedAt[sd] = u
      BY <1>0 DEF SeedsOK, SeedsLeft, Seeded
    <3>2. Seeded(s)
      BY <1>2, <3>1 DEF Seeded
    <3>3. PICK x \in SeedsOf(s), y \in SeedsOf(s) : Takes(x, c) /\ ~Takes(y, c)
      BY <2>1, <3>2 DEF StaysWhole
    <3>4. seedAt'[x] = s /\ seedAt'[y] = n /\ x \in Seeds /\ y \in Seeds
      BY <2>2, <3>3 DEF SeedsOf
    <3>5. CASE t = s \/ t = n
      BY <3>4, <3>5
    <3>6. CASE t # s /\ t # n
      BY <2>2, <2>3, <3>1, <3>6
    <3> QED
      BY <3>5, <3>6
  <2> QED
    BY <2>5, <2>6 DEF SeedsOK
<1>5. ASSUME NEW c \in SUBSET es[s].cond, ForkTooDeep(s, c) PROVE SeedsOK'
  <2>1. CASE s \in addedStates
    <3>1. TerminateState(s) /\ UNCHANGED <<options, pc, states, seedVal, patched>>
          /\ hand' = HandWithout(s)
      BY <1>5, <2>1 DEF ForkTooDeep, TerminateState
    <3> QED
      BY <1>0, <1>2, <3>1, HandlerLeaves, EndsStateSeeds
  <2>2. CASE s \notin addedStates
    <3>1. /\ es' = [es EXCEPT ![s] = Child(s, Right(es[s].node), es[s].cond \cap c)]
          /\ removedStates' = [removedStates EXCEPT ![s] = @ + 1]
          /\ UNCHANGED <<pc, states, addedStates, seedVal, patched>>
          /\ hand' = HandWithout(s)
      BY <1>5, <2>2 DEF ForkTooDeep
    <3>2. \A sd \in Seeds :
            seedAt'[sd] = IF seedAt[sd] = s /\ ~Takes(sd, c) THEN NoState ELSE seedAt[sd]
      BY <1>5, <2>2 DEF ForkTooDeep
    <3>3. /\ es'[s].cond = es[s].cond \cap c /\ \A t \in All \ {s} : es'[t] = es[t]
          /\ All' = All
      BY <1>2, <2>2, <3>1 DEF Child, TypeOK, All
    <3>6. Live' \subseteq Live /\ Held' \subseteq Held
      BY <1>0, <1>2, <3>1, HandlerLeaves DEF Live, Held, TypeOK
    <3>4. SeedsPlaced'
      BY <3>1, <3>2, <3>3 DEF SeedsOK, SeedsPlaced, Takes
    <3>5. SeedsLeft'
      <4> SUFFICES ASSUME options.onlyReplaySeeds, Seeds # {}, NEW t \in Held'
                   PROVE  \E sd \in Seeds : seedAt'[sd] = t
        BY <1>0, <3>1 DEF SeedsLeft, Seeded
      <4>1. PICK sd \in Seeds : seedAt[sd] = t
        BY <1>0, <3>6 DEF SeedsOK, SeedsLeft, Seeded
      <4>2. CASE t # s
        BY <3>2, <4>1, <4>2
      <4>3. CASE t = s
        <5>1. ~StaysWhole(s, c) /\ Seeded(s)
          BY <1>5, <4>1, <4>3 DEF ForkTooDeep, Seeded
        <5>2. PICK x \in SeedsOf(s) : Takes(x, c)
          BY <5>1 DEF StaysWhole
        <5> QED
          BY <3>2, <4>3, <5>2 DEF SeedsOf
      <4> QED
        BY <4>2, <4>3
    <3> QED
      BY <3>4, <3>5 DEF SeedsOK
  <2> QED
    BY <2>1, <2>2
<1>6. ASSUME NEW c \in SUBSET es[s].cond, Constrain(s, c) PROVE SeedsOK'
  <2> DEFINE need == [sd \in Seeds |-> IF seedAt[sd] = s THEN c ELSE Inputs]
  <2>1. /\ Narrow(s, c) /\ UNCHANGED <<states, addedStates, removedStates, seedAt, pc, hand>>
        /\ Patch(need)
    BY <1>6 DEF Constrain
  <2>2. All' = All /\ Held' = Held
    BY <2>1 DEF All, Live, Held
  <2>3. \A t \in All : es'[t].cond = IF t = s THEN es[t].cond \cap c ELSE es[t].cond
    BY <1>2, <2>1 DEF Narrow, TypeOK, ExecutionState
  <2>4. \A sd \in Seeds : \/ seedVal[sd] \notin need[sd] /\ sd \in patched'
                          \/ seedVal[sd] \in need[sd] /\ seedVal'[sd] = seedVal[sd]
                             /\ (sd \in patched => sd \in patched')
    BY <2>1 DEF Patch
  <2>5. SeedsPlaced'
    <3> SUFFICES ASSUME NEW sd \in Seeds, seedAt'[sd] # NoState
                 PROVE  /\ seedAt'[sd] \in All'
                        /\ sd \in patched' \/ seedVal'[sd] \in es'[seedAt'[sd]].cond
      BY DEF SeedsPlaced
    <3>1. seedAt[sd] \in All /\ (sd \in patched \/ seedVal[sd] \in es[seedAt[sd]].cond)
      BY <2>1 DEF SeedsOK, SeedsPlaced
    <3>2. seedAt[sd] = s => seedVal[sd] \in c \/ sd \in patched'
      BY <2>4
    <3>3. sd \in patched' \/ (seedVal'[sd] = seedVal[sd] /\ seedVal[sd] \in es[seedAt[sd]].cond)
      BY <2>4, <3>1
    <3> QED
      BY <2>1, <2>2, <2>3, <3>1, <3>2, <3>3
  <2>6. SeedsLeft'
    BY <1>0, <2>1, <2>2, LeftKept DEF SeedsOK
  <2> QED
    BY <2>5, <2>6 DEF SeedsOK
<1>7. ASSUME NEW k \in 1..MaxTargets, NEW cs \in [1..k -> SUBSET es[s].cond],
             s \in Live, BranchStart(s, cs)
      PROVE  SeedsOK'
  <2>1. /\ pc' = "branching"
        /\ UNCHANGED <<es, states, addedStates, removedStates, hand, seedAt, seedVal, patched>>
    BY <1>7 DEF BranchStart, stateVars, seedVars
  <2>2. Chosen' = {s}
    <3>1. CASE ForkLimitReached
      <4>1. PICK next \in 1..k : result' = [i \in 1..k |-> IF i = next THEN s ELSE NoState]
        <5>1. DOMAIN cs = 1..k
          OBVIOUS
        <5> QED
          BY <1>7, <3>1, <5>1 DEF BranchStart
      <4>2. Len(result') = k
        BY <4>1
      <4> QED
        BY <1>2, <4>1, <4>2 DEF Chosen
    <3>2. CASE ~ForkLimitReached
      <4>1. result' = <<s>>
        BY <1>7, <3>2 DEF BranchStart
      <4> QED
        BY <1>2, <4>1 DEF Chosen
    <3> QED
      BY <3>1, <3>2
  <2>3. SeedsPlaced'
    BY <2>1 DEF SeedsOK, SeedsPlaced, All
  <2>4. SeedsLeft'
    BY <1>0, <1>2, <2>1, <2>2 DEF SeedsOK, SeedsLeft, Seeded, BranchSeeds, Live, Held
  <2> QED
    BY <2>3, <2>4 DEF SeedsOK
<1>8. ASSUME Terminate(s) PROVE SeedsOK'
  <2>1. TerminateState(s) /\ UNCHANGED <<options, pc, states, seedVal, patched>>
        /\ hand' = HandWithout(s)
    BY <1>8 DEF Terminate
  <2> QED
    BY <1>0, <1>2, <2>1, HandlerLeaves, EndsStateSeeds
<1>9. ASSUME SetForking(s) PROVE SeedsOK'
  <2>1. PICK b \in BOOLEAN : es' = [es EXCEPT ![s].forkDisabled = b]
    BY <1>9 DEF SetForking
  <2>2. UNCHANGED <<states, addedStates, removedStates, seedVars, pc, hand>>
    BY <1>9 DEF SetForking
  <2>3. \A t \in All : es'[t].cond = es[t].cond
    BY <1>2, <2>1 DEF TypeOK, ExecutionState
  <2>4. All' = All /\ Held' = Held
    BY <2>2 DEF All, Live, Held
  <2>5. SeedsPlaced'
    BY <2>2, <2>3, <2>4, PlacedKept DEF SeedsOK
  <2>6. SeedsLeft'
    BY <1>0, <2>2, <2>4, LeftKept DEF SeedsOK, seedVars
  <2> QED
    BY <2>5, <2>6 DEF SeedsOK
<1> QED
  BY <1>1, <1>3, <1>4, <1>5, <1>6, <1>7, <1>8, <1>9 DEF Handles

LEMMA BranchSplitSeeds ==
  ASSUME TypeOK, ListsOK, BranchOK, SeedsOK, BranchSplit
  PROVE  SeedsOK'
<1> USE ConstantsAssumption
<1>1. PICK parent \in Chosen, n \in FreshIds :
        /\ es' = Branched(parent, n, es[parent].cond, es[parent].cond)
        /\ addedStates' = addedStates \cup {n}
        /\ result' = Append(result, n)
  BY DEF BranchSplit
<1>2. /\ pc = "branching" /\ pc' = "branching"
      /\ UNCHANGED <<options, hand, states, removedStates, seedAt, seedVal, patched>>
  BY DEF BranchSplit, seedVars
<1>3. /\ n \in StateIds /\ n \notin All /\ n # NoState /\ parent \in StateIds /\ parent # n
      /\ All' = All \cup {n} /\ All \subseteq StateIds /\ Held' \subseteq Held \cup {n}
  BY <1>1, <1>2 DEF FreshIds, All, TypeOK, BranchOK, Live, Held
<1>4. \A t \in All : es'[t].cond = es[t].cond
  BY <1>1, <1>3 DEF Branched, Child, TypeOK
<1>5. Chosen' = Chosen \cup {n}
  <2>1. /\ Len(result') = Len(result) + 1 /\ Len(result) \in Nat
        /\ \A i \in 1..Len(result) : result'[i] = result[i]
        /\ result'[Len(result) + 1] = n
    BY <1>1, <1>3 DEF TypeOK
  <2>2. 1..Len(result)' = 1..Len(result) \cup {Len(result) + 1}
    BY <2>1
  <2> QED
    BY <1>3, <2>1, <2>2 DEF Chosen
<1>6. SeedsPlaced'
  BY <1>2, <1>3, <1>4, PlacedKept DEF SeedsOK, seedVars
<1>7. SeedsLeft'
  <2> SUFFICES ASSUME options.onlyReplaySeeds, Seeds # {}
               PROVE  (\A t \in Held' \ Chosen' : Seeded(t)') /\ BranchSeeds' # {}
    BY <1>2 DEF SeedsLeft
  <2>1. (\A t \in Held \ Chosen : Seeded(t)) /\ BranchSeeds # {}
    BY <1>2 DEF SeedsOK, SeedsLeft
  <2>2. \A t \in Held' \ Chosen' : Seeded(t)'
    BY <1>2, <1>3, <1>5, <2>1 DEF Seeded
  <2>3. BranchSeeds \subseteq BranchSeeds'
    BY <1>2, <1>5 DEF BranchSeeds
  <2> QED
    BY <2>1, <2>2, <2>3
<1> QED
  BY <1>6, <1>7 DEF SeedsOK

LEMMA BranchFinishSeeds ==
  ASSUME TypeOK, ListsOK, BranchOK, SeedsOK, BranchFinish
  PROVE  SeedsOK'
<1> USE ConstantsAssumption
<1>1. PICK dest \in [Seeds -> Targets] : FinishWith(dest)
  BY DEF BranchFinish
<1>2. /\ pc = "branching" /\ pc' = "handler" /\ Len(result) = Len(conditions)
      /\ UNCHANGED <<options, states>>
  BY DEF BranchFinish
<1> DEFINE K == Killed(dest)
           need == [sd \in Seeds |-> IF sd \in BranchSeeds /\ seedAt'[sd] # NoState
                                     THEN conditions[dest[sd]] ELSE Inputs]
<1>3. /\ K \subseteq Chosen /\ Chosen \subseteq Live /\ Live \subseteq All /\ All \subseteq StateIds
      /\ NoState \notin Chosen
  BY <1>2 DEF Killed, BranchOK, Live, All, TypeOK, Chosen
<1>4. /\ addedStates' = addedStates \ (K \cap addedStates) /\ seedAt' = Moved(dest) /\ Patch(need)
      /\ es' = [s \in StateIds |-> IF s \in K \cap addedStates THEN Freed
                                   ELSE IF s \in Chosen \ K
                                        THEN [es[s] EXCEPT !.cond = CondOf(dest, s)] ELSE es[s]]
      /\ \A t \in StateIds : removedStates'[t] =
           IF t \in K \ (K \cap addedStates) THEN removedStates[t] + 1 ELSE removedStates[t]
      /\ hand' = (hand \cup Chosen) \ K
  BY <1>1 DEF FinishWith
<1>5. \A sd \in Seeds :
        seedAt'[sd] = IF sd \in BranchSeeds THEN result[dest[sd]] ELSE seedAt[sd]
  BY <1>4 DEF Moved
<1>6. \A sd \in Seeds : /\ sd \in BranchSeeds <=> seedAt[sd] \in Chosen
                        /\ dest[sd] \in 1..Len(result) /\ dest[sd] \in Targets
  BY <1>2 DEF BranchSeeds, Targets
<1>7. \A sd \in Seeds : seedAt'[sd] # NoState /\ sd \in BranchSeeds =>
        /\ seedAt'[sd] \in Chosen /\ seedAt'[sd] \notin K
        /\ CondOf(dest, seedAt'[sd]) = conditions[dest[sd]]
  <2> SUFFICES ASSUME NEW sd \in Seeds, seedAt'[sd] # NoState, sd \in BranchSeeds
               PROVE  /\ seedAt'[sd] \in Chosen /\ seedAt'[sd] \notin K
                      /\ CondOf(dest, seedAt'[sd]) = conditions[dest[sd]]
    OBVIOUS
  <2> DEFINE t == seedAt'[sd]
  <2>1. t = result[dest[sd]] /\ t \in Chosen
    BY <1>5, <1>6 DEF Chosen
  <2>2. t \notin K
    BY <1>4 DEF Killed, Discarded
  <2>3. dest[sd] \in Kept(dest)
    BY <1>6, <2>1, <2>2 DEF Kept
  <2>4. PICK i \in Kept(dest) : result[i] = t /\ CondOf(dest, t) = conditions[i]
    BY <2>1, <2>3 DEF CondOf
  <2>5. i \in 1..Len(result)
    BY <1>2, <2>4 DEF Kept, Targets
  <2>6. i = dest[sd]
    BY <1>2, <1>6, <2>1, <2>4, <2>5 DEF BranchOK
  <2> QED
    BY <2>1, <2>2, <2>4, <2>6
<1>8. \A sd \in Seeds : \/ seedVal[sd] \notin need[sd] /\ sd \in patched'
                        \/ seedVal[sd] \in need[sd] /\ seedVal'[sd] = seedVal[sd]
                           /\ (sd \in patched => sd \in patched')
  <2> HIDE DEF need
  <2> QED
    BY <1>4 DEF Patch
<1>9. \A t \in All : /\ t \in Chosen \ K => es'[t].cond = CondOf(dest, t)
                     /\ t \notin Chosen => es'[t] = es[t] /\ t \in All'
                     /\ t \in Chosen \ K => t \in All'
  <2> SUFFICES ASSUME NEW t \in All
               PROVE  /\ t \in Chosen \ K => es'[t].cond = CondOf(dest, t)
                      /\ t \notin Chosen => es'[t] = es[t] /\ t \in All'
                      /\ t \in Chosen \ K => t \in All'
    OBVIOUS
  <2>1. t \in StateIds /\ es[t] \in ExecutionState
    BY <1>3 DEF TypeOK
  <2>2. t \notin K => t \in All'
    BY <1>2, <1>4 DEF All
  <2>3. t \in Chosen \ K => es'[t].cond = CondOf(dest, t)
    BY <1>4, <2>1 DEF ExecutionState
  <2>4. t \notin Chosen => es'[t] = es[t]
    BY <1>3, <1>4, <2>1
  <2> QED
    BY <1>3, <2>2, <2>3, <2>4
<1>10. SeedsPlaced'
  <2> SUFFICES ASSUME NEW sd \in Seeds, seedAt'[sd] # NoState
               PROVE  /\ seedAt'[sd] \in All'
                      /\ sd \in patched' \/ seedVal'[sd] \in es'[seedAt'[sd]].cond
    BY DEF SeedsPlaced
  <2>1. CASE sd \in BranchSeeds
    <3>1. need[sd] = conditions[dest[sd]]
      BY <2>1
    <3>2. /\ seedAt'[sd] \in Chosen \ K
          /\ CondOf(dest, seedAt'[sd]) = conditions[dest[sd]]
      BY <1>7, <2>1
    <3> HIDE DEF need, K
    <3>3. seedAt'[sd] \in All' /\ es'[seedAt'[sd]].cond = conditions[dest[sd]]
      BY <1>3, <1>9, <3>2
    <3> QED
      BY <1>8, <3>1, <3>3
  <2>2. CASE sd \notin BranchSeeds
    <3>1. seedAt'[sd] = seedAt[sd] /\ seedAt[sd] \notin Chosen /\ need[sd] = Inputs
      BY <1>5, <1>6, <2>2
    <3>2. seedVal[sd] \in Inputs /\ seedAt[sd] \in All
          /\ (sd \in patched \/ seedVal[sd] \in es[seedAt[sd]].cond)
      BY <3>1 DEF SeedsOK, SeedsPlaced, TypeOK
    <3> HIDE DEF need, K
    <3> QED
      BY <1>8, <1>9, <3>1, <3>2
  <2> QED
    BY <2>1, <2>2
<1>11. SeedsLeft'
  <2> SUFFICES ASSUME options.onlyReplaySeeds, Seeds # {}, NEW t \in Held'
               PROVE  \E sd \in Seeds : seedAt'[sd] = t
    BY <1>2 DEF SeedsLeft, Seeded
  <2>1. (\A u \in Held \ Chosen : Seeded(u)) /\ BranchSeeds # {}
    BY <1>2 DEF SeedsOK, SeedsLeft
  <2>2. t \in Held \ K
    BY <1>2, <1>3, <1>4 DEF Live, Held, ListsOK, TypeOK
  <2>3. CASE t \in Chosen
    <3>1. ~Discarded(t, seedAt')
      BY <1>4, <2>1, <2>2, <2>3 DEF Killed
    <3> QED
      BY <3>1 DEF Discarded
  <2>4. CASE t \notin Chosen
    <3>1. PICK sd \in Seeds : seedAt[sd] = t
      BY <2>1, <2>2, <2>4 DEF Seeded
    <3> QED
      BY <1>5, <1>6, <2>4, <3>1
  <2> QED
    BY <2>3, <2>4
<1> QED
  BY <1>10, <1>11 DEF SeedsOK

LEMMA StepSeeds ==
  ASSUME TypeOK, ListsOK, BranchOK, SeedsOK, [Next]_vars
  PROVE  SeedsOK'
<1> USE ConstantsAssumption
<1>0. UNCHANGED options
  BY OptionsStay
<1>1. CASE Halt \/ UNCHANGED vars
  <2>1. UNCHANGED <<pc, hand, es, states, addedStates, removedStates, seedAt, seedVal, patched, result>>
    BY <1>1 DEF Halt, vars, stateVars, seedVars, branchVars
  <2> QED
    BY <1>0, <2>1 DEF SeedsOK, SeedsPlaced, SeedsLeft, All, Live, Held, Seeded, Chosen, BranchSeeds
<1>2. CASE \/ SeedStep \/ SelectState \/ SeedingHalted \/ SeedingDone \/ StopAfterSeeding
           \/ LeaveLoop \/ LeaveStates \/ StartSearch \/ MemoryUnchecked \/ UpdateAborts
           \/ MemoryMeasured \/ TimersQuiet \/ HandlerReturn
  <2>1. /\ UNCHANGED <<es, states, addedStates, removedStates, seedAt, seedVal, patched>>
        /\ pc # "branching" /\ pc' # "branching"
    BY <1>2 DEF SeedStep, SelectState, StartInstruction, SeedingHalted, SeedingDone, StopAfterSeeding,
         LeaveLoop, LeaveStates, StartSearch, MemoryUnchecked, UpdateAborts, MemoryMeasured,
         TimersQuiet, AfterTimers, HandlerReturn, Goto, stateVars, seedVars
  <2>2. SeedsPlaced'
    BY <2>1 DEF SeedsOK, SeedsPlaced, All
  <2>3. Held' \subseteq Held
    <3>1. CASE SeedStep \/ SelectState
      <4>1. PICK s \in states : hand' = {s}
        BY <3>1 DEF SeedStep, SelectState, StartInstruction
      <4>2. s \in Live
        BY <3>1, <4>1 DEF SeedStep, SelectState, ListsOK, Removed, Live, TypeOK
      <4> QED
        BY <2>1, <4>1, <4>2 DEF Live, Held
    <3>2. CASE ~SeedStep /\ ~SelectState
      <4>1. hand' \subseteq hand
        BY <1>2, <3>2 DEF SeedingHalted, SeedingDone, StopAfterSeeding, LeaveLoop, LeaveStates,
             StartSearch, MemoryUnchecked, UpdateAborts, MemoryMeasured, TimersQuiet,
             HandlerReturn, Goto
      <4> QED
        BY <2>1, <4>1 DEF Live, Held
    <3> QED
      BY <3>1, <3>2
  <2>4. SeedsLeft'
    BY <1>0, <2>1, <2>3, LeftKept DEF SeedsOK
  <2> QED
    BY <2>2, <2>4 DEF SeedsOK
<1>3. CASE MemoryFarOver
  <2>1. /\ UNCHANGED <<hand, es, states, addedStates, seedAt, seedVal, patched>>
        /\ pc # "branching" /\ pc' # "branching"
        /\ \A t \in StateIds : removedStates'[t] = 0 => removedStates[t] = 0
    BY <1>3 DEF MemoryFarOver, seedVars, TypeOK
  <2>2. Held' \subseteq Held
    BY <2>1 DEF Live, Held, TypeOK
  <2>3. SeedsPlaced'
    BY <2>1 DEF SeedsOK, SeedsPlaced, All
  <2>4. SeedsLeft'
    BY <1>0, <2>1, <2>2, LeftKept DEF SeedsOK
  <2> QED
    BY <2>3, <2>4 DEF SeedsOK
<1>4. CASE InstructionTimedOut
  <2>1. current \in All /\ TerminateState(current) /\ UNCHANGED <<states, seedVal, patched>>
        /\ pc # "branching" /\ pc' # "branching" /\ hand = {} /\ hand' = {}
    BY <1>4 DEF InstructionTimedOut, AfterTimers, ListsOK, All
  <2> QED
    BY <1>0, <2>1, EndsStateSeeds
<1>5. CASE UpdateStates
  <2>1. /\ states' = (states \cup addedStates) \ Removed /\ addedStates' = {}
        /\ removedStates' = [t \in StateIds |-> 0]
        /\ es' = [s \in StateIds |-> IF s \in Removed THEN Freed ELSE es[s]]
        /\ UNCHANGED <<seedVal, patched>> /\ pc' # "branching" /\ pc # "branching"
        /\ hand = {} /\ hand' = {}
    BY <1>5 DEF UpdateStates, MergedStates, ListsOK
  <2>2. \A sd \in Seeds : seedAt'[sd] = IF seedAt[sd] \in Removed THEN NoState ELSE seedAt[sd]
    BY <1>5 DEF UpdateStates, EraseSeeds
  <2>3. All' = All \ Removed /\ All \subseteq StateIds /\ Live' = Live /\ Live \cap Removed = {}
    BY <2>1 DEF All, Live, Removed, TypeOK
  <2>4. SeedsPlaced'
    BY <2>1, <2>2, <2>3 DEF SeedsOK, SeedsPlaced
  <2>5. SeedsLeft'
    BY <1>0, <2>1, <2>2, <2>3 DEF SeedsOK, SeedsLeft, Seeded, Held
  <2> QED
    BY <2>4, <2>5 DEF SeedsOK
<1>6. CASE DumpStates
  <2>1. /\ states' = {} /\ addedStates = {} /\ addedStates' = {}
        /\ pc' # "branching" /\ pc # "branching" /\ hand' = {}
    BY <1>6 DEF DumpStates, ListsOK
  <2>2. \A sd \in Seeds : seedAt'[sd] = IF seedAt[sd] \in states THEN NoState ELSE seedAt[sd]
    BY <1>6 DEF DumpStates, EraseSeeds
  <2>3. \A sd \in Seeds : seedAt'[sd] = NoState
    BY <2>1, <2>2 DEF SeedsOK, SeedsPlaced, All
  <2> QED
    BY <2>1, <2>3 DEF SeedsOK, SeedsPlaced, SeedsLeft, Live, Held
<1>7. CASE BranchSplit
  BY <1>7, BranchSplitSeeds
<1>8. CASE BranchFinish
  BY <1>8, BranchFinishSeeds
<1>9. CASE Handler
  BY <1>9, HandlerSeeds
<1> QED
  BY <1>1, <1>2, <1>3, <1>4, <1>5, <1>6, <1>7, <1>8, <1>9 DEF Next, Loop, Finished

LEMMA InitSeeds ==
  ASSUME Init
  PROVE  SeedsOK
<1> USE ConstantsAssumption
<1>1. PICK s \in StateIds :
        /\ states = {s}
        /\ es = [t \in StateIds |-> IF t = s THEN [Freed EXCEPT !.cond = Inputs] ELSE Freed]
        /\ seedAt = [sd \in Seeds |-> s]
  BY DEF Init
<1>2. pc # "branching" /\ seedVal \in [Seeds -> Inputs]
  BY DEF Init
<1>3. Held \subseteq {s} /\ s \in All
  BY <1>1 DEF Init, Live, Held, All
<1>4. es[s].cond = Inputs
  <2>1. es[s] = [Freed EXCEPT !.cond = Inputs]
    BY <1>1
  <2>2. [Freed EXCEPT !.cond = Inputs].cond = Inputs
    BY DEF Freed
  <2> QED
    BY <2>1, <2>2
<1> QED
  BY <1>1, <1>2, <1>3, <1>4 DEF SeedsOK, SeedsPlaced, SeedsLeft, Seeded

(* Each seed is at a state that exists and satisfies its path condition    *)
(* until it is patched, and with --only-replay-seeds each state that runs  *)
(* has a seed: fork(), branch() and addConstraint() hand them out right.   *)
THEOREM SeedsAlwaysFollow == Spec => []SeedsFollowPaths
<1> DEFINE Inv == TypeOK /\ ListsOK /\ BranchOK /\ SeedsOK
<1>1. Init => Inv
  BY InitOK, InitSeeds
<1>2. Inv /\ [Next]_vars => Inv'
  BY StepTypes, StepLists, StepSeeds
<1>3. Inv => SeedsFollowPaths
  BY DEF SeedsOK, SeedsPlaced, SeedsLeft, SeedsFollowPaths, OnlySeededStates, All, Held
<1> QED
  BY <1>1, <1>2, <1>3, PTL DEF Spec

-----------------------------------------------------------------------------
(* The executor divides the inputs into paths. *)

LivePaths == {es[s].cond : s \in Live}

PathsFilled == \A s \in Live : es[s].cond # {}

PartitionStep == Partition!Next \/ UNCHANGED <<LivePaths, explored, dropped>>

(* The states K leave, the states N come or go on with another condition.  *)
LEMMA PathsAfter ==
  ASSUME EndsAreFinal, PathsDisjoint, PathsFilled,
         NEW K \in SUBSET Live, NEW N, Live' = (Live \ K) \cup N,
         \A t \in Live \ K : es'[t].cond = es[t].cond,
         \A s \in K, t \in Live \ K : ~SamePath(s, t)
  PROVE  LivePaths' = (LivePaths \ {es[s].cond : s \in K}) \cup {es'[s].cond : s \in N}
<1>1. \A s \in K, t \in Live \ K : es[s].cond # es[t].cond
  <2> SUFFICES ASSUME NEW s \in K, NEW t \in Live \ K, es[s].cond = es[t].cond
               PROVE  FALSE
    OBVIOUS
  <2>1. es[s].cond \cap es[t].cond = {}
    BY DEF PathsDisjoint
  <2> QED
    BY <2>1 DEF PathsFilled
<1>2. {es[t].cond : t \in Live \ K} = LivePaths \ {es[s].cond : s \in K}
  BY <1>1 DEF LivePaths
<1>3. LivePaths' = {es'[t].cond : t \in Live \ K} \cup {es'[t].cond : t \in N}
  BY DEF LivePaths
<1> QED
  BY <1>2, <1>3

(* A path is divided. *)
LEMMA DividesPath ==
  ASSUME EndsAreFinal, PathsDisjoint, PathsFilled,
         NEW p, NEW K, NEW N, Divides(p, K, N)
  PROVE  PartitionStep /\ PathsFilled'
<1> USE DEF Divides
<1> DEFINE Q == {es'[t].cond : t \in N}
<1>1. LivePaths' = (LivePaths \ {p}) \cup Q
  <2>1. {es[s].cond : s \in K} = {p}
    OBVIOUS
  <2>2. LivePaths' = (LivePaths \ {es[s].cond : s \in K}) \cup {es'[s].cond : s \in N}
    BY PathsAfter
  <2> QED
    BY <2>1, <2>2
<1>2. /\ p \in LivePaths /\ Q \in SUBSET SUBSET p /\ UNION Q \subseteq p /\ {} \notin Q
      /\ \A q, r \in Q : q = r \/ q \cap r = {}
  BY DEF LivePaths
<1>3. dropped' = dropped \cup (p \ UNION Q)
  OBVIOUS
<1> HIDE DEF Q
<1>4. Partition!Next
  BY <1>1, <1>2, <1>3 DEF Partition!Next, Partition!Divide, LivePaths
<1>5. PathsFilled'
  BY DEF PathsFilled
<1> QED
  BY <1>4, <1>5 DEF PartitionStep

(* The states K are reported. *)
LEMMA ReportsPaths ==
  ASSUME EndsAreFinal, PathsDisjoint, PathsFilled,
         NEW K, K \subseteq Live,
         \A s \in K, t \in Live \ K : ~SamePath(s, t),
         Live' = Live \ K, \A t \in Live \ K : es'[t].cond = es[t].cond,
         explored' = explored \cup UNION {es[t].cond : t \in K},
         UNCHANGED dropped
  PROVE  PartitionStep /\ PathsFilled'
<1> DEFINE P == {es[t].cond : t \in K}
<1>1. LivePaths' = LivePaths \ P
  <2>1. Live' = (Live \ K) \cup {}
    OBVIOUS
  <2>2. LivePaths' = (LivePaths \ {es[s].cond : s \in K}) \cup {es'[s].cond : s \in {}}
    BY <2>1, PathsAfter
  <2> QED
    BY <2>2
<1>2. P \in SUBSET LivePaths
  BY DEF LivePaths
<1>3. explored' = explored \cup UNION P
  OBVIOUS
<1> HIDE DEF P
<1>4. Partition!Next
  BY <1>1, <1>2, <1>3 DEF Partition!Next, Partition!Report, LivePaths
<1>5. PathsFilled'
  BY DEF PathsFilled
<1> QED
  BY <1>4, <1>5 DEF PartitionStep
(* Nothing changes for the partition. *)
LEMMA SamePaths ==
  ASSUME PathsFilled, UNCHANGED <<explored, dropped>>, Live' = Live,
         \A t \in Live : es'[t].cond = es[t].cond
  PROVE  PartitionStep /\ PathsFilled'
BY DEF PartitionStep, LivePaths, PathsFilled

(* A state's path is given up or reported when the state ends. *)
LEMMA EndsStatePath ==
  ASSUME TypeOK, ListsOK, EndsAreFinal, PathsDisjoint, PathsFilled, result = <<>>,
         NEW s \in Live, EndsState(s), UNCHANGED states,
         \A t \in StateIds \ {s} : es'[t] = es[t],
         \/ explored' = explored \cup es[s].cond /\ dropped' = dropped
         \/ dropped' = dropped \cup es[s].cond /\ explored' = explored
  PROVE  PartitionStep /\ PathsFilled'
<1> DEFINE K == {s}
<1>1. /\ K \subseteq Live /\ K # {} /\ Live' = Live \ K
      /\ \A r \in K, t \in Live \ K : ~SamePath(r, t)
      /\ \A t \in Live \ K : es'[t].cond = es[t].cond
  BY NoneChosen DEF Live, EndsState, ListsOK, TypeOK, SamePath
<1>2. CASE explored' = explored \cup es[s].cond /\ dropped' = dropped
  <2>1. UNION {es[t].cond : t \in K} = es[s].cond
    OBVIOUS
  <2> HIDE DEF K
  <2> QED
    BY <1>1, <1>2, <2>1, ReportsPaths
<1>3. CASE dropped' = dropped \cup es[s].cond /\ explored' = explored
  <2>1. PICK p : p = es[s].cond
    OBVIOUS
  <2>2. (\A t \in K : es[t].cond = p) /\ p \ UNION {es'[t].cond : t \in {}} = p
    BY <2>1
  <2> HIDE DEF K
  <2>3. Divides(p, K, {})
    BY <1>1, <1>3, <2>1, <2>2 DEF Divides
  <2> QED
    BY <2>3, DividesPath
<1> QED
  BY <1>2, <1>3

LEMMA HandlerDivides ==
  ASSUME TypeOK, ListsOK, BranchOK, PathsDisjoint, EndsAreFinal, PathsFilled, Handler
  PROVE  PartitionStep /\ PathsFilled'
<1> USE ConstantsAssumption
<1>0. pc = "handler" /\ result = <<>> /\ Chosen = {}
  BY NoneChosen DEF Handler, BranchOK
<1>1. PICK s : Handles(s)
  BY HandlerDoes
<1>2. s \in Live /\ s \in StateIds
  BY <1>1 DEF Handles, Ended, EndsAreFinal
<1>3. ASSUME NEW c \in SUBSET es[s].cond, ForkOneSide(s, c) \/ Constrain(s, c)
      PROVE  PartitionStep /\ PathsFilled'
  <2>1. /\ es[s].cond \cap c # {} /\ Narrow(s, c)
        /\ UNCHANGED <<states, addedStates, removedStates, explored>>
    BY <1>3 DEF ForkOneSide, Splits, Constrain
  <2>2. PICK p : Divides(p, {s}, {s})
    BY <1>0, <1>2, <2>1, NarrowDivides
  <2> QED
    BY <2>2, DividesPath
<1>4. ASSUME NEW c \in SUBSET es[s].cond, NEW n \in FreshIds, ForkBoth(s, c, n)
      PROVE  PartitionStep /\ PathsFilled'
  <2>1. PICK p : Divides(p, {s}, {s, n})
    BY <1>0, <1>2, <1>4, ForkDivides
  <2> QED
    BY <2>1, DividesPath
<1>5. ASSUME \/ \E c \in SUBSET es[s].cond : ForkTooDeep(s, c)
             \/ Terminate(s)
      PROVE  PartitionStep /\ PathsFilled'
  <2>1. EndsState(s)
    BY <1>2, <1>5 DEF EndsState, ForkTooDeep, Terminate, TerminateState, Live
  <2>2. UNCHANGED states
    BY <1>5 DEF ForkTooDeep, Terminate
  <2>3. \/ explored' = explored \cup es[s].cond /\ dropped' = dropped
        \/ dropped' = dropped \cup es[s].cond /\ explored' = explored
    BY <1>5 DEF ForkTooDeep, Terminate
  <2>4. \A t \in StateIds \ {s} : es'[t] = es[t]
    BY <1>5 DEF ForkTooDeep, Terminate, TerminateState, TypeOK
  <2> QED
    BY <1>0, <1>2, <2>1, <2>2, <2>3, <2>4, EndsStatePath
<1>6. ASSUME NEW cs, BranchStart(s, cs) PROVE PartitionStep /\ PathsFilled'
  <2>1. UNCHANGED <<es, states, addedStates, removedStates, explored, dropped>>
    BY <1>6 DEF BranchStart, stateVars
  <2> QED
    BY <2>1, SameLists, SamePaths
<1>7. ASSUME SetForking(s) PROVE PartitionStep /\ PathsFilled'
  <2>1. PICK b \in BOOLEAN : es' = [es EXCEPT ![s].forkDisabled = b]
    BY <1>7 DEF SetForking
  <2>2. UNCHANGED <<states, addedStates, removedStates, explored, dropped>>
    BY <1>7 DEF SetForking, countVars
  <2>3. \A t \in Live : es'[t].cond = es[t].cond
    BY <1>2, <2>1 DEF TypeOK, ExecutionState, Live
  <2> QED
    BY <2>2, <2>3, SameLists, SamePaths
<1> QED
  BY <1>1, <1>3, <1>4, <1>5, <1>6, <1>7 DEF Handles

LEMMA StepDivides ==
  ASSUME TypeOK, ListsOK, BranchOK, PathsDisjoint, EndsAreFinal, EndsAreFinal', PathsFilled,
         [Next]_vars
  PROVE  PartitionStep /\ PathsFilled'
<1> USE ConstantsAssumption
<1>1. CASE \/ SeedStep \/ SelectState \/ SeedingHalted \/ SeedingDone \/ StopAfterSeeding
           \/ LeaveLoop \/ LeaveStates \/ StartSearch \/ MemoryUnchecked \/ UpdateAborts
           \/ MemoryMeasured \/ TimersQuiet \/ HandlerReturn \/ Halt \/ UNCHANGED vars
  <2>1. UNCHANGED <<es, states, addedStates, removedStates, explored, dropped>>
    BY <1>1 DEF SeedStep, SelectState, StartInstruction, SeedingHalted, SeedingDone, StopAfterSeeding,
         LeaveLoop, LeaveStates, StartSearch, MemoryUnchecked, UpdateAborts, MemoryMeasured,
         TimersQuiet, HandlerReturn, Halt, Goto, stateVars, countVars, vars
  <2> QED
    BY <2>1, SameLists, SamePaths
<1>2. CASE InstructionTimedOut
  <2>1. /\ current \in Live /\ current \in states /\ TerminateState(current)
        /\ result = <<>> /\ UNCHANGED <<states, dropped>>
        /\ explored' = explored \cup es[current].cond
    BY <1>2 DEF InstructionTimedOut, StillRunning, ListsOK, BranchOK, Live
  <2>2. EndsState(current)
    BY <2>1 DEF EndsState, TerminateState
  <2>3. \A t \in StateIds \ {current} : es'[t] = es[t]
    BY <2>1 DEF TerminateState, TypeOK
  <2> QED
    BY <2>1, <2>2, <2>3, EndsStatePath
<1>3. CASE MemoryFarOver
  <2>1. PICK K \in SUBSET states :
          /\ removedStates' = [t \in StateIds |-> IF t \in K THEN removedStates[t] + 1 ELSE removedStates[t]]
          /\ explored' = explored \cup UNION {es[t].cond : t \in K}
    BY <1>3 DEF MemoryFarOver
  <2>2. UNCHANGED <<es, states, addedStates, dropped>> /\ Chosen = {}
    BY <1>3, NoneChosen DEF MemoryFarOver, BranchOK
  <2>3. /\ Live' = Live \ K /\ K \subseteq Live
        /\ \A t \in Live \ K : es'[t].cond = es[t].cond
        /\ \A s \in K, t \in Live \ K : ~SamePath(s, t)
    BY <2>1, <2>2 DEF Live, EndsAreFinal, RemovedOnce, RemovedTwice, SamePath, TypeOK
  <2> QED
    BY <2>1, <2>2, <2>3, ReportsPaths
<1>4. CASE UpdateStates
  <2>1. /\ states' = (states \cup addedStates) \ Removed /\ addedStates' = {}
        /\ removedStates' = [t \in StateIds |-> 0]
        /\ es' = [t \in StateIds |-> IF t \in Removed THEN Freed ELSE es[t]]
        /\ UNCHANGED <<explored, dropped>>
    BY <1>4 DEF UpdateStates, MergedStates, countVars
  <2>2. Live' = Live /\ \A t \in Live : es'[t].cond = es[t].cond
    BY <2>1 DEF Live, Removed, TypeOK
  <2> QED
    BY <2>1, <2>2, SamePaths
<1>5. CASE DumpStates
  <2>1. addedStates = {} /\ Live = states
    BY <1>5 DEF DumpStates, ListsOK, Live, Removed, TypeOK
  <2>2. /\ states' = {} /\ UNCHANGED <<addedStates, removedStates, dropped>>
        /\ explored' = explored \cup UNION {es[t].cond : t \in Live}
    BY <1>5, <2>1 DEF DumpStates
  <2>3. Live' = Live \ Live
    BY <2>1, <2>2 DEF Live
  <2> QED
    BY <2>2, <2>3, ReportsPaths
<1>6. CASE BranchSplit
  <2>1. PICK parent \in Chosen, n \in FreshIds :
          /\ es' = Branched(parent, n, es[parent].cond, es[parent].cond)
          /\ addedStates' = addedStates \cup {n}
    BY <1>6 DEF BranchSplit
  <2>2. UNCHANGED <<states, removedStates, explored, dropped>> /\ parent \in Live
    BY <1>6 DEF BranchSplit, BranchOK, countVars
  <2>3. Live' = Live \cup {n} /\ n \notin Live /\ n \in StateIds /\ Live \subseteq StateIds
    BY <2>1, <2>2, NewLive DEF Live, FreshIds, TypeOK
  <2>4. (\A t \in Live : es'[t].cond = es[t].cond) /\ es'[n].cond = es[parent].cond
    BY <2>1, <2>2, <2>3 DEF Branched, Child, TypeOK
  <2>5. LivePaths' = LivePaths /\ PathsFilled'
    BY <2>2, <2>3, <2>4 DEF LivePaths, PathsFilled
  <2> QED
    BY <2>2, <2>5 DEF PartitionStep
<1>7. CASE BranchFinish
  <2>1. PICK p, K, N : Divides(p, K, N)
    BY <1>7, BranchFinishDivides
  <2> QED
    BY <2>1, DividesPath
<1>8. CASE Handler
  BY <1>8, HandlerDivides
<1> QED
  BY <1>1, <1>2, <1>3, <1>4, <1>5, <1>6, <1>7, <1>8 DEF Next, Loop, Finished

LEMMA InitDivides ==
  ASSUME Init
  PROVE  Partition!Init /\ PathsFilled
<1>1. PICK s \in StateIds :
        /\ states = {s}
        /\ es = [t \in StateIds |-> IF t = s THEN [Freed EXCEPT !.cond = Inputs] ELSE Freed]
  BY DEF Init
<1>2. Live = {s} /\ explored = {} /\ dropped = {}
  BY <1>1 DEF Init, Live
<1>3. es[s].cond = Inputs
  BY <1>1 DEF Freed
<1> QED
  BY <1>2, <1>3, InputsAssumption DEF Partition!Init, PathsFilled

(* Path exploration refines the division of the inputs into paths, step by *)
(* step: each fork, branch, constraint and end of a state divides a path   *)
(* or reports paths, and nothing else touches them.  As long as a state    *)
(* that ends stays ended and is removed once, that is.                     *)
THEOREM ExplorationPartitions == Spec /\ []EndsAreFinal => ImplementsPartition
<1> DEFINE Inv == BooksInv /\ PathsFilled
<1>1. Init => Partition!Init /\ Inv
  BY InitDivides, InitBooks
<1>2. Inv /\ EndsAreFinal /\ EndsAreFinal' /\ [Next]_vars
        => Inv' /\ [Partition!Next]_<<LivePaths, explored, dropped>>
  <2> SUFFICES ASSUME Inv, EndsAreFinal, EndsAreFinal', [Next]_vars
               PROVE  Inv' /\ [Partition!Next]_<<LivePaths, explored, dropped>>
    OBVIOUS
  <2>1. BooksInv'
    BY StepTypes, StepLists, StepPaths, StepTree, StepCounts, StepAsserts, StepDumped DEF BooksInv
  <2>2. PartitionStep /\ PathsFilled'
    BY StepDivides DEF BooksInv, PathsOK
  <2> QED
    BY <2>1, <2>2 DEF PartitionStep
<1> HIDE DEF Inv
<1> QED
  BY <1>1, <1>2, PTL DEF Spec, ImplementsPartition, Partition!Spec, Partition!vars, LivePaths

(* Without --max-memory, that is every run of a program that calls no      *)
(* symbolic pointer and no va_start.                                       *)
THEOREM ExplorationPartitionsAll ==
  ASSUME \A o \in Options : ~o.maxMemory /\ ~o.callsPointers
  PROVE  Spec => ImplementsPartition
<1>1. BooksInv => EndsAreFinal
  <2> SUFFICES ASSUME BooksInv PROVE EndsAreFinal
    OBVIOUS
  <2>1. ~options.maxMemory /\ ~options.callsPointers
    BY DEF BooksInv, TypeOK
  <2> QED
    BY <2>1 DEF BooksInv, AssertionHolds, EndsAreFinal, RemovedOnce, RemovedTwice
<1> QED
  BY <1>1, AlwaysBooks, ExplorationPartitions, PTL

=============================================================================
