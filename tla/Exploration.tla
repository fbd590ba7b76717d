---------------------------- MODULE Exploration ----------------------------
(***************************************************************************)
(* The exploration loop of KLEE's Executor (lib/klee/Core/Executor.cpp):   *)
(* run(), the handler of one instruction with the forks it makes (fork(),  *)
(* branch(), addConstraint(), terminateState*()), processTimers(),         *)
(* checkMemoryUsage(), updateStates() and doDumpStates(), together with    *)
(* the work lists they share: states, addedStates, removedStates, seedMap  *)
(* and the process tree.                                                   *)
(*                                                                         *)
(* An execution state is its path condition: the set of program inputs     *)
(* that follow its path.  A branch condition is the set of inputs that     *)
(* satisfy it, and the solver is external: it knows those sets, or fails.  *)
(***************************************************************************)
EXTENDS Integers, FiniteSets, Sequences, PTree

CONSTANTS
  StateIds,          \* addresses an ExecutionState object can have
  NoState,           \* the null ExecutionState pointer
  Inputs,            \* the inputs of the program under test
  Seeds,             \* the .ktest files of --seed-out, empty without it
  Options,           \* the command lines looked at
  NoLimit,           \* no --max-forks
  MaxTargets,        \* bound: the most conditions branch() is called with
  MaxEnds            \* bound: how often an instruction ends one state

CommandLines ==
  [maxForks : Nat \cup {NoLimit}, \* --max-forks
   maxDepth : Nat,                \* --max-depth, 0 when it is not given
   onlySeed : BOOLEAN,            \* --only-seed
   onlyReplaySeeds : BOOLEAN,     \* --only-replay-seeds
   seedTime : BOOLEAN,            \* is --seed-time given
   maxMemory : BOOLEAN,           \* is --max-memory in force
   maxMemoryInhibit : BOOLEAN,    \* --max-memory-inhibit
   maxInstructionTime : BOOLEAN,  \* is --max-instruction-time given
   usesSetForking : BOOLEAN,      \* does the program call klee_set_forking
   callsPointers : BOOLEAN,       \* does it call symbolic pointers, or va_start
   dumpStatesOnHalt : BOOLEAN]    \* --dump-states-on-halt

ASSUME ConstantsAssumption ==
  /\ NoState \notin StateIds
  /\ NoLimit \notin Nat
  /\ Options \subseteq CommandLines
  /\ MaxTargets \in Nat /\ MaxEnds \in Nat

ASSUME InputsAssumption == Inputs # {}

VARIABLES
  options,       \* the command line
  pc,            \* where the executor's single thread is
  searching,     \* has run() left the seeding loop (searcher # 0)
  current,       \* the state whose instruction is executed
  hand,          \* the states the instruction's handler still works on
  es,            \* the ExecutionState objects, by address
  states,        \* Executor::states
  addedStates,   \* Executor::addedStates
  removedStates, \* Executor::removedStates: how often it holds each state
  tree,          \* Executor::processTree
  seedAt,        \* Executor::seedMap turned around: each seed's state
  seedVal,       \* the input a seed stands for
  conditions,    \* branch(): its argument, <<>> outside of it
  result,        \* branch(): the result vector, <<>> outside of it
  forks,         \* stats::forks
  atMemoryLimit, \* Executor::atMemoryLimit
  haltExecution, \* Executor::haltExecution
  pathsExplored, \* m_pathsExplored of the handler
  explored,      \* history: inputs whose path ended and was reported
  dropped,       \* history: inputs given up by concretization and limits
  patched        \* history: the seeds patchSeed() has changed

stateVars == <<es, states, addedStates, removedStates, tree>>
seedVars == <<seedAt, seedVal, patched>>
branchVars == <<conditions, result>>
countVars == <<forks, pathsExplored, explored, dropped>>
loopVars == <<searching, current, atMemoryLimit>>
vars == <<options, pc, hand, haltExecution, stateVars, seedVars, branchVars,
          countVars, loopVars>>

ExecutionState == [cond : SUBSET Inputs, depth : Nat, node : Nodes,
                   forkDisabled : BOOLEAN]

(* What a freed address holds. *)
Freed == [cond |-> {}, depth |-> 0, node |-> Root, forkDisabled |-> FALSE]

Live == {s \in states \cup addedStates : removedStates[s] = 0}
Seeded(s) == \E sd \in Seeds : seedAt[sd] = s
SeedsOf(s) == {sd \in Seeds : seedAt[sd] = s}
FreshIds == StateIds \ (states \cup addedStates)
ForkLimitReached == options.maxForks # NoLimit /\ forks >= options.maxForks

(* run() before its loops: one state, every seed at it. *)
Init ==
  /\ options \in Options
  /\ pc = IF Seeds = {} THEN "seeded" ELSE "seeding"
  /\ searching = FALSE /\ current = NoState /\ hand = {}
  /\ \E s \in StateIds :
       /\ states = {s}
       /\ es = [t \in StateIds |-> IF t = s THEN [Freed EXCEPT !.cond = Inputs]
                                            ELSE Freed]
       /\ seedAt = [sd \in Seeds |-> s]
  /\ seedVal \in [Seeds -> Inputs] /\ patched = {}
  /\ addedStates = {} /\ removedStates = [t \in StateIds |-> 0]
  /\ tree = {Root}
  /\ conditions = <<>> /\ result = <<>>
  /\ forks = 0 /\ pathsExplored = 0 /\ explored = {} /\ dropped = {}
  /\ atMemoryLimit = FALSE /\ haltExecution = FALSE
-----------------------------------------------------------------------------
(* The loops of run(). *)

StartInstruction(s) ==
  /\ current' = s /\ hand' = {s} /\ pc' = "handler"
  /\ UNCHANGED <<options, haltExecution, searching, atMemoryLimit, stateVars,
                 seedVars, branchVars, countVars>>

Goto(label) ==
  /\ pc' = label
  /\ UNCHANGED <<options, hand, haltExecution, stateVars, seedVars,
                 branchVars, countVars, loopVars>>

(* Mutant: the loops do not look at haltExecution. *)
NeverStops == TRUE

MayContinue == ~haltExecution

(* An iteration of the seeding loop.  seedMap is walked in the order of the *)
(* states' addresses, which the heap decides: any of its states may follow. *)
SeedStep ==
  /\ pc = "seeding" /\ MayContinue
  /\ \E s \in states : Seeded(s) /\ StartInstruction(s)

SeedingHalted ==
  /\ pc = "seeding" /\ haltExecution /\ \E s \in states : Seeded(s)
  /\ Goto("dump")

SeedingDone ==
  /\ pc = "seeding" /\ ~ \E s \in states : Seeded(s)
  /\ Goto("seeded")

StartSearch ==
  /\ pc = "seeded" /\ ~(Seeds # {} /\ options.onlySeed)
  /\ searching' = TRUE /\ pc' = "loop"
  /\ UNCHANGED <<options, current, hand, atMemoryLimit, haltExecution,
                 stateVars, seedVars, branchVars, countVars>>

StopAfterSeeding ==
  /\ pc = "seeded" /\ Seeds # {} /\ options.onlySeed
  /\ Goto("dump")

(* The searcher may pick any state: which one it picks, and that it knows  *)
(* all of them, is the subject of the searcher modules.                    *)
SelectState ==
  /\ pc = "loop" /\ MayContinue
  /\ \E s \in states : StartInstruction(s)

LeaveLoop ==
  /\ pc = "loop" /\ (states = {} \/ haltExecution)
  /\ Goto("dump")

-----------------------------------------------------------------------------
(* What the handler of an instruction may do with the states it holds.     *)

(* Mutant: a seed goes with the condition it violates. *)
TakesOther(sd, c) == seedVal[sd] \notin c

(* Does the seed satisfy a condition. *)
Takes(sd, c) == seedVal[sd] \in c

LimitsForking(s) ==
  \/ options.maxMemoryInhibit /\ atMemoryLimit
  \/ es[s].forkDisabled
  \/ ForkLimitReached

(* fork() keeps a state whole although both sides of c are feasible: a     *)
(* limit is reached, or the state replays seeds that all take one side.    *)
StaysWhole(s, c) ==
  IF Seeded(s)
  THEN /\ es[s].forkDisabled \/ options.onlyReplaySeeds
       /\ \A x, y \in SeedsOf(s) : Takes(x, c) <=> Takes(y, c)
  ELSE LimitsForking(s)

Splits(s, c) ==
  /\ es[s].cond \cap c # {}
  /\ es[s].cond \ c # {}

(* Mutant: the condition never reaches the state's constraints. *)
NarrowNothing(s, c) == es' = es /\ dropped' = dropped \cup (es[s].cond \ c)

Narrow(s, c) ==
  /\ es' = [es EXCEPT ![s].cond = @ \cap c]
  /\ dropped' = dropped \cup (es[s].cond \ c)

(* fork(): one side is taken, the other given up.  Without seeds the side  *)
(* is random, with them it is theirs.                                      *)
ForkOneSide(s, c) ==
  /\ Splits(s, c) /\ StaysWhole(s, c)
  /\ \A sd \in SeedsOf(s) : Takes(sd, c)
  /\ Narrow(s, c)
  /\ UNCHANGED <<options, pc, hand, haltExecution, states, addedStates,
                 removedStates, tree, seedVars, branchVars, forks,
                 pathsExplored, explored, loopVars>>

(* A copy of s, one level deeper.                                          *)
Child(s, node, cond) ==
  [cond |-> cond, depth |-> es[s].depth + 1, node |-> node,
   forkDisabled |-> es[s].forkDisabled]

(* Mutant: the parent keeps the process tree node it had. *)
BranchedInPlace(s, n, rest, copied) ==
  [es EXCEPT ![s] = Child(s, es[s].node, rest),
             ![n] = Child(s, Left(es[s].node), copied)]

(* branch() of ExecutionState: s becomes deeper and n is its copy; here    *)
(* with the conditions the two go on with.                                 *)
Branched(s, n, rest, copied) ==
  [es EXCEPT ![s] = Child(s, Right(es[s].node), rest),
             ![n] = Child(s, Left(es[s].node), copied)]

(* fork(): s goes on with c and its copy n with the rest; every seed goes  *)
(* with the side it satisfies.                                             *)
ForkBoth(s, c, n) ==
  /\ Splits(s, c) /\ ~StaysWhole(s, c)
  /\ ~(options.maxDepth # 0 /\ options.maxDepth <= es[s].depth + 1)
  /\ forks' = forks + 1
  /\ es' = Branched(s, n, es[s].cond \cap c, es[s].cond \ c)
  /\ addedStates' = addedStates \cup {n}
  /\ hand' = hand \cup {n}
  /\ tree' = Split(tree, es[s].node)
  /\ seedAt' = [sd \in Seeds |-> IF seedAt[sd] = s /\ ~Takes(sd, c)
                                 THEN n ELSE seedAt[sd]]
  /\ UNCHANGED <<options, pc, haltExecution, states, removedStates, seedVal,
                 patched, branchVars, pathsExplored, explored, dropped,
                 loopVars>>

EraseSeeds(at, S) == [sd \in Seeds |-> IF at[sd] \in S THEN NoState ELSE at[sd]]

(* terminateState(): a state that never reached the searcher is deleted at *)
(* once, another is left to updateStates().                                *)
TerminateState(s) ==
  IF s \in addedStates
  THEN /\ addedStates' = addedStates \ {s}
       /\ es' = [es EXCEPT ![s] = Freed]
       /\ tree' = Remove(tree, es[s].node)
       /\ seedAt' = EraseSeeds(seedAt, {s})
       /\ UNCHANGED removedStates
  ELSE /\ removedStates' = [removedStates EXCEPT ![s] = @ + 1]
       /\ UNCHANGED <<addedStates, es, tree, seedAt>>

(* Mutant: the handler goes on with the state it has just ended. *)
HandStill(s) == hand

(* Handlers return, or go on with the other states, once one has ended.    *)
(* Those of a call of a symbolic pointer, which ends the current state for *)
(* a value that is no function whatever the call for another value has     *)
(* done, and of va_start, which writes four times through the current      *)
(* state, do not see that it has ended: they fork it or end it again.      *)
HandWithout(s) ==
  IF options.callsPointers /\ s = current THEN hand ELSE hand \ {s}

MayEnd(s) == removedStates[s] < MaxEnds

(* The handler ends a path: with a test case for it (terminateStateEarly,  *)
(* OnExit, OnError; a solver failure in fork() too), or silently           *)
(* (klee_silent_exit, klee_assume under --silent-klee-assume).             *)
Terminate(s) ==
  /\ MayEnd(s) /\ TerminateState(s)
  /\ hand' = HandWithout(s)
  /\ pathsExplored' = pathsExplored + 1
  /\ \/ explored' = explored \cup es[s].cond /\ dropped' = dropped
     \/ dropped' = dropped \cup es[s].cond /\ explored' = explored
  /\ UNCHANGED <<options, pc, haltExecution, states, seedVal, patched,
                 branchVars, forks, loopVars>>

(* fork() at --max-depth: the state is split and both halves end at once.  *)
(* The copy was an added state, so nothing but its place in the tree stays.*)
ForkTooDeep(s, c) ==
  /\ MayEnd(s) /\ Splits(s, c) /\ ~StaysWhole(s, c)
  /\ options.maxDepth # 0 /\ options.maxDepth <= es[s].depth + 1
  /\ forks' = forks + 1 /\ pathsExplored' = pathsExplored + 2
  /\ explored' = explored \cup es[s].cond
  /\ hand' = HandWithout(s)
  /\ IF s \in addedStates
     THEN /\ addedStates' = addedStates \ {s}
          /\ es' = [es EXCEPT ![s] = Freed]
          /\ tree' = Remove(tree, es[s].node)
          /\ seedAt' = EraseSeeds(seedAt, {s})
          /\ UNCHANGED removedStates
     ELSE /\ removedStates' = [removedStates EXCEPT ![s] = @ + 1]
          /\ es' = [es EXCEPT ![s] = Child(s, Right(es[s].node), es[s].cond \cap c)]
          /\ tree' = tree \cup {Right(es[s].node)}
          /\ seedAt' = [sd \in Seeds |->
                          IF seedAt[sd] = s /\ ~Takes(sd, c)
                          THEN NoState ELSE seedAt[sd]]
          /\ UNCHANGED addedStates
  /\ UNCHANGED <<options, pc, haltExecution, states, seedVal, patched,
                 branchVars, dropped, loopVars>>

(* addConstraint(): seeds of the state that violate the condition are      *)
(* patched first.  patchSeed() makes them satisfy the condition; it does   *)
(* not look at the other constraints as a whole.                           *)
Patch(need) ==
  LET bad == {sd \in Seeds : seedVal[sd] \notin need[sd]}
  IN  /\ seedVal' \in [Seeds -> Inputs]
      /\ \A sd \in Seeds : IF sd \in bad THEN seedVal'[sd] \in need[sd]
                                         ELSE seedVal'[sd] = seedVal[sd]
      /\ patched' = patched \cup bad

Constrain(s, c) ==
  /\ es[s].cond \cap c # {}
  /\ Patch([sd \in Seeds |-> IF seedAt[sd] = s THEN c ELSE Inputs])
  /\ Narrow(s, c)
  /\ UNCHANGED <<options, pc, hand, haltExecution, states, addedStates,
                 removedStates, tree, seedAt, branchVars, forks,
                 pathsExplored, explored, loopVars>>

(* klee_set_forking *)
SetForking(s) ==
  /\ options.usesSetForking
  /\ \E b \in BOOLEAN : es' = [es EXCEPT ![s].forkDisabled = b]
  /\ UNCHANGED <<options, pc, hand, haltExecution, states, addedStates,
                 removedStates, tree, seedVars, branchVars, countVars,
                 loopVars>>
-----------------------------------------------------------------------------
(* branch(): one state per condition.  Only the states come from the loop  *)
(* of BranchSplit; BranchFinish hands out the seeds and the constraints.   *)

Targets == 1..Len(conditions)
Chosen == {result[i] : i \in 1..Len(result)} \ {NoState}

(* Mutant: two conditions may hold for the same input. *)
MayBranchOnAny(s, cs) ==
  \A i \in DOMAIN cs : cs[i] # {} /\ cs[i] \subseteq es[s].cond

(* Conditions exclude each other and each is feasible.  They need not      *)
(* exhaust the state: with seeds only the seeds' values are looked at.     *)
MayBranchOn(s, cs) ==
  /\ \A i \in DOMAIN cs : cs[i] # {} /\ cs[i] \subseteq es[s].cond
  /\ \A i, j \in DOMAIN cs : i # j => cs[i] \cap cs[j] = {}

ForksFor(cs) == Len(cs) - 1

BranchStart(s, cs) ==
  /\ MayBranchOn(s, cs)
  /\ pc' = "branching" /\ conditions' = cs
  /\ IF ForkLimitReached
     THEN /\ \E next \in DOMAIN cs :
               result' = [i \in DOMAIN cs |-> IF i = next THEN s ELSE NoState]
          /\ UNCHANGED forks
     ELSE /\ Len(cs) - 1 <= Cardinality(FreshIds)   \* bound
          /\ result' = <<s>>
          /\ forks' = forks + ForksFor(cs)
  /\ UNCHANGED <<options, hand, haltExecution, stateVars, seedVars,
                 pathsExplored, explored, dropped, loopVars>>

BranchSplit ==
  /\ pc = "branching" /\ Len(result) < Len(conditions)
  /\ \E parent \in Chosen, n \in FreshIds :
       /\ es' = Branched(parent, n, es[parent].cond, es[parent].cond)
       /\ tree' = Split(tree, es[parent].node)
       /\ addedStates' = addedStates \cup {n}
       /\ result' = Append(result, n)
  /\ UNCHANGED <<options, pc, hand, haltExecution, states, removedStates,
                 seedVars, conditions, countVars, loopVars>>

(* The first condition a seed satisfies, any if there is none.             *)
MayFollow(sd, i) ==
  Takes(sd, conditions[i]) \/ \A j \in Targets : ~Takes(sd, conditions[j])

(* --only-replay-seeds lets a state go that was given no seed.             *)
Discarded(s, at) == \A sd \in Seeds : at[sd] # s

(* Seeds of the branched state go to the states of their conditions, and   *)
(* nowhere when the fork limit kept that state from being made.            *)
BranchSeeds == {sd \in Seeds : seedAt[sd] \in Chosen}

Moved(dest) ==
  [sd \in Seeds |-> IF sd \in BranchSeeds THEN result[dest[sd]] ELSE seedAt[sd]]

Killed(dest) ==
  IF options.onlyReplaySeeds /\ BranchSeeds # {}
  THEN {s \in Chosen : Discarded(s, Moved(dest))}
  ELSE {}

(* What is left of the conditions, and the one of a state that stays.      *)
Kept(dest) == {i \in Targets : result[i] \in Chosen \ Killed(dest)}
CondOf(dest, s) == conditions[CHOOSE i \in Kept(dest) : result[i] = s]

FinishWith(dest) ==
  /\ \A sd \in BranchSeeds : MayFollow(sd, dest[sd])
  /\ seedAt' = Moved(dest)
  /\ Patch([sd \in Seeds |-> IF sd \in BranchSeeds /\ seedAt'[sd] # NoState
                             THEN conditions[dest[sd]] ELSE Inputs])
  /\ es' = [s \in StateIds |->
              IF s \in Killed(dest) \cap addedStates THEN Freed
              ELSE IF s \in Chosen \ Killed(dest)
                   THEN [es[s] EXCEPT !.cond = CondOf(dest, s)]
                   ELSE es[s]]
  /\ addedStates' = addedStates \ (Killed(dest) \cap addedStates)
  /\ removedStates' = [s \in StateIds |->
                         IF s \in Killed(dest) \ (Killed(dest) \cap addedStates)
                         THEN removedStates[s] + 1 ELSE removedStates[s]]
  /\ tree' = RemoveAll(tree, {es[s].node : s \in Killed(dest) \cap addedStates})
  /\ pathsExplored' = pathsExplored + Cardinality(Killed(dest))
  /\ dropped' = dropped \cup ((UNION {es[s].cond : s \in Chosen})
                              \ (UNION {conditions[i] : i \in Kept(dest)}))
  /\ hand' = (hand \cup Chosen) \ Killed(dest)

BranchFinish ==
  /\ pc = "branching" /\ Len(result) = Len(conditions)
  /\ \E dest \in [Seeds -> Targets] : FinishWith(dest)
  /\ pc' = "handler" /\ conditions' = <<>> /\ result' = <<>>
  /\ UNCHANGED <<options, haltExecution, states, forks, explored, loopVars>>

-----------------------------------------------------------------------------
(* The end of an iteration. *)

Handler ==
  /\ pc = "handler"
  /\ \/ \E s \in hand :
          \/ Terminate(s)
          \/ \E c \in SUBSET es[s].cond :
               \/ ForkOneSide(s, c)
               \/ \E n \in FreshIds : ForkBoth(s, c, n)
               \/ ForkTooDeep(s, c)
     \/ \E s \in hand \cap Live :
          \/ \E c \in SUBSET es[s].cond : Constrain(s, c)
          \/ \E k \in 1..MaxTargets :
               \E cs \in [1..k -> SUBSET es[s].cond] : BranchStart(s, cs)
          \/ SetForking(s)

HandlerReturn ==
  /\ pc = "handler"
  /\ pc' = "timers" /\ hand' = {}
  /\ UNCHANGED <<options, haltExecution, stateVars, seedVars, branchVars,
                 countVars, loopVars>>

AfterTimers == pc' = IF searching THEN "memory" ELSE "update"

StillRunning == removedStates[current] = 0

(* processTimers(): an instruction that took too long ends its state.      *)
InstructionTimedOut ==
  /\ pc = "timers" /\ options.maxInstructionTime /\ StillRunning
  /\ AfterTimers
  /\ TerminateState(current)
  /\ pathsExplored' = pathsExplored + 1
  /\ explored' = explored \cup es[current].cond
  /\ UNCHANGED <<options, hand, haltExecution, states, seedVal, patched,
                 branchVars, forks, dropped, loopVars>>

TimersQuiet ==
  /\ pc = "timers" /\ AfterTimers
  /\ UNCHANGED <<options, hand, haltExecution, stateVars, seedVars,
                 branchVars, countVars, loopVars>>

(* checkMemoryUsage(): not due, or without a cap. *)
MemoryUnchecked == pc = "memory" /\ Goto("update")

(* checkMemoryUsage(): below the cap, or above it by less than the slack.  *)
MemoryMeasured ==
  /\ pc = "memory" /\ options.maxMemory
  /\ pc' = "update" /\ atMemoryLimit' \in BOOLEAN
  /\ UNCHANGED <<options, hand, haltExecution, searching, current, stateVars,
                 seedVars, branchVars, countVars>>

(* checkMemoryUsage(): far above the cap, states picked at random end.     *)
MemoryFarOver ==
  /\ pc = "memory" /\ options.maxMemory
  /\ \E K \in SUBSET states :
       /\ K # {}
       /\ removedStates' = [s \in StateIds |-> IF s \in K THEN removedStates[s] + 1
                                                          ELSE removedStates[s]]
       /\ pathsExplored' = pathsExplored + Cardinality(K)
       /\ explored' = explored \cup UNION {es[s].cond : s \in K}
  /\ pc' = "update" /\ atMemoryLimit' = TRUE
  /\ UNCHANGED <<options, hand, haltExecution, searching, current, es, states,
                 addedStates, tree, seedVars, branchVars, forks, dropped>>

(* updateStates() stops at its assertion when a state is removed twice.    *)
RemovedTwice == \E s \in StateIds : removedStates[s] > 1

UpdateAborts == pc = "update" /\ RemovedTwice /\ Goto("aborted")

Removed == {s \in StateIds : removedStates[s] > 0}

(* Mutant: the added states are forgotten. *)
OldStates == states \ Removed

MergedStates == (states \cup addedStates) \ Removed

UpdateStates ==
  /\ pc = "update" /\ ~RemovedTwice
  /\ states' = MergedStates
  /\ addedStates' = {}
  /\ removedStates' = [s \in StateIds |-> 0]
  /\ es' = [s \in StateIds |-> IF s \in Removed THEN Freed ELSE es[s]]
  /\ tree' = RemoveAll(tree, {es[s].node : s \in Removed})
  /\ seedAt' = EraseSeeds(seedAt, Removed)
  /\ current' = NoState
  /\ \/ pc' = IF searching THEN "loop" ELSE "seeding"
     \/ options.seedTime /\ ~searching /\ pc' = "seeded"     \* --seed-time is up
  /\ UNCHANGED <<options, hand, haltExecution, seedVal, patched, branchVars,
                 countVars, searching, atMemoryLimit>>

(* doDumpStates() at the end of run(). *)
DumpStates ==
  /\ pc = "dump" /\ options.dumpStatesOnHalt
  /\ pathsExplored' = pathsExplored + Cardinality(states)
  /\ explored' = explored \cup UNION {es[s].cond : s \in states}
  /\ states' = {}
  /\ es' = [s \in StateIds |-> Freed]
  /\ tree' = RemoveAll(tree, {es[s].node : s \in states})
  /\ seedAt' = EraseSeeds(seedAt, states)
  /\ pc' = "done"
  /\ UNCHANGED <<options, hand, haltExecution, addedStates, removedStates,
                 seedVal, patched, branchVars, forks, dropped, loopVars>>

LeaveStates == pc = "dump" /\ ~options.dumpStatesOnHalt /\ Goto("done")

(* Anything that sets haltExecution from outside the handler's control     *)
(* flow: ctrl-C, --max-time, --stop-after-n-instructions, --exit-on-error. *)
Halt ==
  /\ pc \notin {"done", "aborted"}
  /\ haltExecution' = TRUE
  /\ UNCHANGED <<options, pc, hand, stateVars, seedVars, branchVars,
                 countVars, loopVars>>

Finished == pc \in {"done", "aborted"} /\ UNCHANGED vars

Loop ==
  \/ SeedStep \/ SeedingHalted \/ SeedingDone \/ StartSearch \/ StopAfterSeeding
  \/ SelectState \/ LeaveLoop
  \/ HandlerReturn \/ BranchSplit \/ BranchFinish
  \/ InstructionTimedOut \/ TimersQuiet
  \/ MemoryUnchecked \/ MemoryMeasured \/ MemoryFarOver
  \/ UpdateAborts \/ UpdateStates \/ DumpStates \/ LeaveStates

Next == Loop \/ Handler \/ Halt \/ Finished

Spec == Init /\ [][Next]_vars

(* The executor is one thread that runs until run() returns, and a handler *)
(* makes finitely many calls before it returns.                            *)
FairSpec == Spec /\ WF_vars(Loop) /\ SF_vars(HandlerReturn)

-----------------------------------------------------------------------------
(* Properties *)

(* Every variable has its type; between instructions no handler is at work.*)
TypeOK ==
  /\ options \in Options
  /\ pc \in {"seeding", "seeded", "loop", "handler", "branching", "timers",
             "memory", "update", "dump", "done", "aborted"}
  /\ searching \in BOOLEAN /\ atMemoryLimit \in BOOLEAN
  /\ haltExecution \in BOOLEAN
  /\ current \in StateIds \cup {NoState} /\ hand \subseteq StateIds
  /\ es \in [StateIds -> ExecutionState]
  /\ states \subseteq StateIds /\ addedStates \subseteq StateIds
  /\ removedStates \in [StateIds -> Nat]
  /\ tree \subseteq Nodes
  /\ seedAt \in [Seeds -> StateIds \cup {NoState}]
  /\ seedVal \in [Seeds -> Inputs] /\ patched \subseteq Seeds
  /\ conditions \in Seq(SUBSET Inputs) /\ result \in Seq(StateIds \cup {NoState})
  /\ forks \in Nat /\ pathsExplored \in Nat
  /\ explored \subseteq Inputs /\ dropped \subseteq Inputs

(* The states branch() has made share one path until it adds conditions.   *)
SamePath(s, t) == s = t \/ (s \in Chosen /\ t \in Chosen)

(* No state is on removedStates more than once. *)
RemovedOnce == ~RemovedTwice

(* A state that ends does so once, and no handler goes on with it.         *)
EndsAreFinal == RemovedOnce /\ ~options.callsPointers

(* The assertion of updateStates() (Executor.cpp:2511) can fail in two ways*)
(* only: checkMemoryUsage() ends states that may be on the list already,   *)
(* and the handlers of pointer calls and of va_start end the current one   *)
(* again.                                                                  *)
AssertionHolds ==
  \A s \in StateIds : removedStates[s] > 1 =>
    options.maxMemory \/ (options.callsPointers /\ s = current)

(* No input is on two live paths, nor on a live path and on one that ended *)
(* with a test case: fork(), branch() and addConstraint() never let two    *)
(* states cover the same input, so no test case repeats a path.  Until a   *)
(* state is removed twice or an ended one forked, that is: its path is     *)
(* reported twice, or goes on, then.                                       *)
PathsDisjoint ==
  EndsAreFinal =>
    /\ \A s, t \in Live : SamePath(s, t) \/ es[s].cond \cap es[t].cond = {}
    /\ \A s \in Live : es[s].cond \cap (explored \cup dropped) = {}
    /\ explored \cap dropped = {}

(* No input gets lost: it is on a live path, on a reported one, or was     *)
(* given up by a limit or a concretization that says so.                   *)
NoInputLost ==
  \A i \in Inputs : \/ i \in explored \cup dropped
                    \/ \E s \in Live : i \in es[s].cond

(* "explored paths = 1 + forks" (API.cpp:1400): each fork adds one path,   *)
(* and each path is live or was counted by terminateState() exactly once.  *)
(* A state that --max-forks keeps branch() from making is counted as a fork*)
(* and is no path.                                                         *)
PathCount ==
  RemovedOnce /\ options.maxForks = NoLimit =>
    1 + forks = Cardinality(Live) + pathsExplored + (Len(conditions) - Len(result))

(* The leaves of the process tree are the states, one each, and nothing is *)
(* left of a path whose state was deleted; a node's depth is its state's.  *)
TreeMatches ==
  /\ Leaves(tree) = {es[s].node : s \in states \cup addedStates}
  /\ \A s, t \in states \cup addedStates : es[s].node = es[t].node => s = t
  /\ \A s \in states \cup addedStates : Len(es[s].node) = es[s].depth

(* What the handler holds is the current state or a new one, so nothing it *)
(* does touches a state that was deleted or belongs to another instruction.*)
(* It is alive, too, but for the current state in the handlers of pointer  *)
(* calls and of va_start; what goes on with that one when it has ended     *)
(* still finds the object there.                                           *)
HandlerOwnsItsStates ==
  /\ addedStates \cap states = {}
  /\ \A s \in StateIds : removedStates[s] > 0 => s \in states
  /\ hand \subseteq states \cup addedStates
  /\ hand \subseteq Live \cup (IF options.callsPointers THEN {current} ELSE {})
  /\ pc \in {"handler", "branching"} => hand \subseteq {current} \cup addedStates

(* --only-replay-seeds, "Discard states that do not have a seed": as long  *)
(* as a state lives it has a seed to replay.                               *)
OnlySeededStates ==
  options.onlyReplaySeeds /\ Seeds # {} /\ pc # "branching" => \A s \in Live : Seeded(s)

(* A seed is at a state that exists; until it is patched it satisfies the  *)
(* path condition of the state that replays it, and with --only-replay-    *)
(* seeds no state runs without one.                                        *)
SeedsFollowPaths ==
  /\ OnlySeededStates
  /\ \A sd \in Seeds : seedAt[sd] # NoState =>
      /\ seedAt[sd] \in states \cup addedStates
      /\ sd \in patched \/ seedVal[sd] \in es[seedAt[sd]].cond

(* With --dump-states-on-halt every path ends with a test case, also when  *)
(* the run is cut short, the process tree is empty, and there was a path   *)
(* for each fork and one more.                                             *)
NothingLeftBehind ==
  pc = "done" /\ options.dumpStatesOnHalt =>
    /\ states = {} /\ tree = {}
    /\ explored \cup dropped = Inputs
    /\ options.maxForks = NoLimit => pathsExplored = 1 + forks

(* The counters, the process tree and the work lists tell the same story   *)
(* of the run, while it goes on and when it is over.                       *)
BooksAgree == PathCount /\ TreeMatches /\ AssertionHolds /\ NothingLeftBehind

(* The executor implements the abstract division of the inputs into paths: *)
(* states that branch() has made and not yet constrained are one path.     *)
Partition == INSTANCE InputPartition
  WITH paths <- {es[s].cond : s \in Live}

ImplementsPartition == Partition!Spec

(* Once told to halt, run() returns.                                       *)
HaltIsObeyed == haltExecution ~> pc \in {"done", "aborted"}
=============================================================================
