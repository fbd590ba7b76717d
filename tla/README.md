# A TLA+ model of onr-stage3

onr-stage3 finds the state machines hidden in network programs. It has three
parts, and this directory models the core of each:

- an **LLVM pass** (`src/lib`, `src/include`) that looks for a loop in which a
  struct field is loaded, compared and stored again, and prints the states and
  transitions it sees there;
- a copy of **KLEE** (`src/KleeSE`), the symbolic execution engine, which
  explores the paths of a program and solves their conditions;
- the program the pass is tried on, **OpenVPN's** control channel
  (`src/stubs/openvpn/ssl.c`).

Below, paths are relative to `src/`, and `Core/`, `Solver/`, `Expr/`, `Module/`
stand for directories of `KleeSE/lib/klee/`.

Every module is checked by TLC on small instances, and eight families are
proved with TLAPS for all values of their constants.

| Part | Modules | What it is compared with | TLC instance | Proofs |
|---|---|---|---|---|
| exploration loop, seeding, work lists | `Exploration` (with `PTree`) | `InputPartition` | `MCExploration` | `ExplorationProofs` |
| contents of one memory object | `ObjectState` | the history variable `contents` | `MCObjectState` | `ObjectStateProofs` |
| copy-on-write address spaces | `AddressSpaces` | `PrivateMemory` | `MCAddressSpaces` | `AddressSpacesProofs` |
| searchers | `Searchers` | — | `MCSearchers` | `SearchersProofs` |
| query caches | `SolverCaches` | the meaning of a query | `MCSolverCaches` | `SolverCachesProofs` |
| FSM extractor pass | `FSMExtractor` (with `ControlDependence`) | `ControlDependent`, `Expected` | `MCFSMExtractor` | `FSMExtractorProofs` |
| instructions, special functions, module passes, path files, driver | `Interpreter` on `ExecutorState`, `SpecialFunctions`, `ModulePasses`, `PathStreams` | `Bitcode`, the program run natively | `MCInterpreter` | — |
| expressions, query builders, terms for STP and Z3, value ranges | `ExprBuilding` on `Exprs`, `ExprBuilders`, `SolverTerms`, `ExprRanges` | `Eval`, an expression's value | `MCExprBuilding` | — |
| constraints, independent queries, fast solver | `PathConditions` on `Constraints`, `FastCex` | the conditions a path took on | `MCPathConditions` | — |
| file descriptors of the POSIX runtime | `PosixFd` | — | `MCPosixFd` | `PosixFdProofs` |
| OpenVPN's TLS sessions | `TlsSession` | — | `MCTlsSession` | `TlsSessionProofs`, on `TlsInvariants` |

To check a module: `tlc -config Exploration.cfg MCExploration.tla`; to prove
one: `tlapm ExplorationProofs.tla`.

# 1. Inventory

## The FSM extractor (`lib/FSMExtractor`, `lib/CFG`)

*State*: lists of the loop's struct field loads and stores, the control
dependence graph of the function, `loadStorePairMap`, and for each pair the
condition and its `direction`. *Operations*: `collectStoreAndStore()` for each
top-level loop, which asks `CFG::influences()` whether the block of a load
decides about that of a store, and `findAPath()` whether the store follows in
the same iteration, and then, for the two targets of the load's branch, on
which side it lies. *Interactions*: LLVM's post-dominator tree and loop info;
`states.txt` for a script that draws the machine. *Hard*: dependences form
cycles in every loop; both searches are worklists in an order given by
addresses; blocks depend on themselves; several exits. *Correct* if exactly the
pairs that belong together are found and each condition is attributed to the
right side of its branch.

## OpenVPN's control channel (`stubs/openvpn/ssl.c`)

*State*: per peer three sessions (active, untrusted, lame duck) of two keys
each; a key's `state`, its TLS connection, its payloads waiting, its packets
not acknowledged. *Operations*: `tls_process()` moves one key along,
`tls_multi_process()` all sessions, promoting, burying and resetting them;
`tls_pre_decrypt()` finds the session a packet is for, or opens one;
`tls_pre_encrypt()` chooses the key for data. *Hard*: packets lost, repeated,
late; one end times out or restarts while the other goes active; keys renewed
from both ends. *Correct* if no end uses a key that the other has not taken,
data finds the key it was written with, payloads keep their order, and the two connect.

## KLEE: exploring

- **Exploration loop** (`Core/Executor.cpp`, `ExecutorTimers.cpp`,
  `ExecutionState.cpp`). *State*: `states`, `addedStates`, `removedStates`,
  `seedMap`, `processTree`, `atMemoryLimit`, `haltExecution`, the counters.
  *Operations*: `run()` executes one instruction of one state per round; its
  handler forks (`fork()`, `branch()`), narrows (`addConstraint()`) and ends
  states (`terminateState*()`); then timers, the memory cap, `updateStates()`.
  *Hard*: states that end while they are on a list; the memory cap and timers,
  which end states behind the handler's back; seeds that follow states; a halt
  that may come at any moment. *Correct* if the paths always partition the
  program's inputs: no input explored twice, none lost except where a limit
  says so.
- **Instructions** (`Core/Executor.cpp`, `ExecutorUtil.cpp`). *State*: stack
  frames with registers, the current and previous block, memory, what is
  symbolic. *Operations*: one per opcode; calls by name, through pointers,
  through aliases, to external functions, with variable arguments; accesses
  that fork over what a pointer may point into; allocations of a size that is
  not known. *Hard*: one instruction that forks several times; some of its
  states ended by an error; conditions of a `switch` that must cover every
  value. *Correct* if a path ends as the program does on its inputs.
- **Special functions** (`Core/SpecialFunctionHandler.cpp`): `malloc`,
  `klee_make_symbolic`, `klee_assume` and so on, called like external
  functions, reading and changing the caller's state.
- **Module preparation** (`Module/`): passes that insert checks, lower
  switches and intrinsics, order phi nodes, call constructors, before anything
  runs. *Correct* if the program means the same afterwards.
- **Driver** (`tools/klee/main.cpp`, and once more as a library in
  `Core/API.cpp`): test cases, `--stop-after-n-tests`, path files and their
  replay, interrupts, and a watchdog process that interrupts, halts and at last
  kills the one that runs. *Correct* if the exit status tells whether the run
  was completed.
- **Path streams** (`Support/TreeStream.cpp`): streams that fork share one file
  and one write buffer; a reader finds its way back to the root.
- **Process tree** (`Core/PTree.cpp`): a leaf for each state; random-path
  search walks it. *Correct* if its leaves are exactly the states.
- **Searchers** (`Core/Searcher.cpp`, `UserSearcher.cpp`): a stack of objects
  that choose the next state, each with its own list of states, told of every
  change by `update()`. *Hard*: iterative deepening hides (pauses) states from
  the searchers below; pointers to the last state outlive it. *Correct* if
  every layer holds exactly what may run.

## KLEE: memory

- **Address spaces** (`Core/AddressSpace.cpp`, `MemoryManager.cpp`,
  `ObjectHolder.h`): a persistent map from memory objects to reference-counted
  contents that states share until they write; ownership by comparing `cowKey`
  with `copyOnWriteOwner`. *Hard*: any order of forks, writes, frees and
  deletions; operations that resolve a pointer to several objects and fork in
  between. *Correct* if sharing is never visible.
- **Object contents** (`Core/Memory.cpp`): each byte in a concrete cache, a
  symbolic cache, an update list, or several; two bit masks say which are
  valid. *Correct* if a read returns the last write by whatever way.
- **POSIX runtime** (`runtime/POSIX/fd.c`, `klee_init_env.c`, `stubs.c`): a
  table of descriptors over symbolic files and the operating system's, and
  calls that are made to fail. *Hard*: descriptors that alias; directories read
  partly here, partly there, with seeks in between; a failure inside another
  call. *Correct* if failures keep to their budget, a directory is listed
  once and in full, `select()` answers what it was asked.

## KLEE: solving

- **Expressions** (`Expr/Expr.cpp`, `ExprBuilder.cpp`): constructors fold
  constants and reorder operands by rules that call each other. **Terms**
  (`Solver/STPBuilder.cpp`, `Z3Builder.cpp`, `ConstantDivision.cpp`): what the
  core solvers get, with divisions by constants as products. *Correct* if all
  mean what was asked for.
- **Constraints** (`Expr/Constraints.cpp`): a list that each new equality
  rewrites. **Independent solver** (`Solver/IndependentSolver.cpp`): cuts it into
  parts that share no byte. **Fast solver** (`Solver/FastCexSolver.cpp`): answers
  from ranges of values. *Correct* if nothing the path requires is lost, and
  answers are those of the whole.
- **Query caches** (`Solver/CachingSolver.cpp`, `CexCachingSolver.cpp`):
  answers inferred from those to negated, smaller and larger queries. *Hard*:
  half answers, solver failures in between. *Correct* if every answer is the
  one that the constraints demand.
- **External**: the core solvers (STP, Z3), LLVM, the operating system.

*How they interact.* `run()` asks the searcher for a state and executes one
instruction. The handler calls the solver chain through `TimingSolver`, forks
through `fork()` or `branch()`, which copy an execution state and with it the
address space (both spaces get new `cowKey`s), and reads and writes objects
through `getWriteable()`. New and ended states collect in `addedStates` and
`removedStates` until `updateStates()` tells the searcher of both and then
changes `states`. All of this is one thread; signals only set flags or count
ticks, and the watchdog is a process of its own. The modules share no
variables: each takes from its neighbours what they promise (a searcher's state
is any live one, a query's answer is the right one or a failure), and the
neighbours' modules show that they do. `Interpreter` composes instructions,
special functions, passes, path streams and driver.

What is left out, `PROJECT.json` lists with its reasons, and section 5 sums up.

# 2. How the modules correspond to the code

`PROJECT.json` maps every definition to its lines. What follows are the
decisions behind them.

**Exploration.** An execution state *is* its path condition, the set of inputs
that follow its path; a branch condition is the set of inputs that satisfy it.
The solver, external here, knows these sets or fails. `pc` is where the single
thread is; `options` is the command line, chosen in `Init` and never changed.
An instruction's handler is any sequence of the calls real handlers
make (`Handler`): forks on any condition, `branch()` on any list of disjoint
ones, constraints (concretization), terminations; it goes on only with states
it knows to be alive (`HandWithout`). Two handlers do not know: that of a call of a symbolic
pointer ends the current state at `Core/Executor.cpp:1781` whatever
`executeCall()` has done with it for an earlier value, and that of `va_start`
(line 1233) writes through the current state four times without asking whether
the last write has ended it. `callsPointers` says of a program that it has
these: then the current state stays in the handler's hands when it ends, to be
forked or ended again, up to `MaxEnds` times. `branch()` is done in two steps, since
its states exist before they are constrained. `removedStates` is counted with
multiplicity: removing a state twice is what an assertion forbids. `seedMap` is
turned around: for each seed its state. Addresses (`StateIds`) are reused after
deletion. `explored`, `dropped`, `patched` are history variables. Left out:
coverage data, `replayPath` (it is in `Interpreter`), `inhibitForking`, which
only a debugger sets, and the order of seeds by address.

**PTree.** A node is its position, a sequence of L and R; `Remove` is the loop
that walks up while nodes have no children.

**ObjectState.** The model follows one assignment to the symbolic inputs, so an
expression is a byte value, an update list the array it denotes and a symbolic
offset the byte it hits; what holds for every assignment holds for expressions.
`contents` is history: what was last written. `missed` is history: flushed
bytes an external call has changed.

**AddressSpaces.** A `MemoryObject`'s contents are one value here. Reference
counts are derived: an `ObjectState` lives as long as some map holds it, a
`MemoryObject` as long as some binding or `symbolics` entry does. An operation
through a symbolic pointer is the variable `pending`: what is left of the
resolution list, the pairs found, the state not yet bound; it proceeds by
forks, as `executeMemoryOperation()` and `resolveExact()` do. Left out: how
`resolve()` searches, read-only objects, objects at user-given addresses; only
the innermost function's locals are followed.

**Searchers.** The stack that `constructUserSearcher()` builds is a record of
options; `base` holds each layer's state. Weights, clocks and random numbers
are nondeterministic. States are numbers because `std::set` orders addresses
(`ByAddress` puts each at its rank).
`evolved` is history for breadth-first rounds.

**SolverCaches.** An expression is the set of assignments it holds for, a
constraint set is satisfiable (states' are). The core solver finds any model or
fails. `--cex-cache-try-all` and `--cex-cache-superset` are chosen in `Init`;
`--cex-cache-exp` and the trie that holds the sets are left out.

**FSMExtractor, ControlDependence.** A control flow graph gives each block's
successors; LLVM's post-dominators, dominators and loops are written from their
definitions (`From` is the least closed set, no recursion, so that it can be
reasoned about). Each access has a block and a field; which field
`getStructFieldInfo()` finds is not followed. `influences()` and `findAPath()`
are worklists from which any element may be next: in the code the order is that
of pointers in a set. Blocks end in branches or returns; each load is compared
once; the values compared, `icmpString()` and the printing are left out.

**Bitcode.** The yardstick of the next module, and external: LLVM's bitcode and
what it means natively. A program is functions of blocks of instructions;
`Reference` runs it on one input, all of `klee_make_symbolic`'s objects read
from a test, as `runtime/Runtest/intrinsics.c` does. Errors (a bad access, a
division by zero) are outcomes like `exit`.

**ModulePasses.** Functions from programs to programs, in the order of
`KModule::prepare()`: checks inserted, intrinsics linked and lowered,
constructors called from `main`, switches lowered by `LowerSwitch` or left,
phi nodes replaced where one reads another. LLVM's own passes, `RaiseAsm` and
line tables are left out.

**ExecutorState, SpecialFunctions, Interpreter.** A symbolic value is the
function from the inputs to the value it has on each, a path condition the set
of inputs left; so an instruction is executed for all inputs of a path at once
and a fork divides a set. `e` is the executor and its states, `s` the state
executing; a handler returns the set of executors it may leave, one for each
choice of a solver's value or of the random branch at a limit. `is` marks the
state an instruction goes on with while it forks over others. `Settled` is
`updateStates()`. A state carries what the properties need of its past: the
branches `taken`, values sent `out`, whether it `shares` a stream, `splits`
without a branch, was `misled` or `renamed`. `Module`, the prepared program, is
a constant, computed once; `ModuleAssumption` says it is `SetModule`.
`driver` is the parent: the child's state, exit codes, signals, the watchdog's
level. Integers have a few widths and wrap; floating point is small numbers and
NaN; addresses are object and offset in one number. Left out:
`--allow-external-sym-calls`, `--no-externals`, `klee_define_fixed_object`,
`errno`, coercions in calls and returns whose types differ, constant vectors of
expressions, intrinsics that end the run, `--sym-path` files, `.ktest` replay.
Only queries of `fork()` and of memory accesses time out, and only those about
what is symbolic. `argv` is always laid out.

**PathStreams.** A file is the sequence of its records, data or fork; `Parents`
and `ReadDown` are the two passes of `readStream()`.

**Exprs, ExprBuilders, SolverTerms, ExprRanges.** An expression is a record of
kind, width, operands, update list; `Eval` is what it denotes for one content
of the arrays. `Create...` are the `create` functions of `Expr.cpp`,
`Build...` the builders of the query parser, `Term` the value of what
`STPBuilder` or `Z3Builder` constructs, `RangeOf` the fast solver's interval.
Widths and bytes are small, and all arithmetic wraps at them. `Ways` is a
constant like `Module`: the operands as each constructor makes them. Left out:
`NotOptimized`, comparisons with constant arrays, division by zero, widths
above 64, `ImpliedValue`, whose only caller aborts before it
(`Core/Executor.cpp:3681`).

**Constraints, FastCex, PathConditions.** The constraint manager with its two
visitors; `IndependentElementSet` as the arrays and bytes an expression reads;
`CexData` as a range per byte, once for what is possible and once for what is
certain, and `ok`, which a failed assertion clears.

**PosixFd.** The table of descriptors, the symbolic files, and for each
descriptor what its directory has listed (`scan`, history). A program is its
command line, what its symbolic files may be, the calls it may make and how
many. The operating system (external) lists its directory in order, each entry
once, none under a symbolic file's name (`DirectoryAssumption`; of two files of
one name the code would list both), and neither reads nor writes a directory.
Contents of files, spelling of names and the 32 bit variants are left out. A
listing buffer that has no room for the entries is written past its end, which
is memory's matter, not this module's; any larger one is allowed.

**TlsSession.** Two peers; the network is a queue to each, from which packets
are lost, repeated or moved to the back. The reliability layer and the TLS
library are external: the one numbers, keeps and orders packets, the other
exchanges a hello each way and then carries texts. Time is which of the
time-outs a call of `tls_process()` finds expired. `disturbed` is history: that
something other than the network has failed. The event loop calls `tls_multi_process()` until nothing changes
(`Settled`); `MaxRounds` more rounds of a call, and `MaxCalls` more calls, are
bounds that no step comes to: three of each would do, and a turn whose last
call still finds work (`Turn`) is out of bounds. Left out: key method 1, negotiation of ciphers, pushed options,
floating addresses, the wrap of packet ids; `n_sessions` is only whether one
was opened.

# 3. What the runs check

| Run | Distinct states | What it shows |
|---|---|---|
| `exploration` | 591 294 | the paths partition the inputs; `run()` ends when told to |
| `exploration_modes` | 330 469 | seeds, work lists, process tree and counters under `--only-replay-seeds`, under all limits together, and with handlers that go on with ended states |
| `object_state` | 38 792 | caches consistent, reads as written |
| `address_spaces` | 427 921 | ownership, resolved pairs stay current, refinement of `PrivateMemory` |
| `searchers` | 35 619 | book-keeping of the stacks of searchers |
| `solver_caches` | 25 106 | caches hold truths, answers are right |
| `fsm_extractor` | 214 322 | dependences, pairs, directions, termination of the extractor |
| `interpreter` | 16 363 | 27 programs end on every path as they do natively; path files; exit status |
| `expressions` | 73 080 | four ways to make an expression, and its range, mean the same |
| `path_conditions` | 1 517 | rewriting, cutting and guessing lose nothing |
| `posix_files` | 387 237 | injected failures, directories, `select()` |
| `tls_sessions` | 107 851 | the two ends' keys agree, keys for data, the payloads' order; the peers connect |

## Properties

*Exploration.* `PathsDisjoint`, `NoInputLost`: the paths partition the inputs,
up to `dropped`. `ImplementsPartition`: every step divides one path or reports
some, as `InputPartition` says, so paths also never grow or merge. All but
`NoInputLost` are about runs in which states that end stay ended (`EndsAreFinal`:
no state is removed twice, no handler goes on with an ended one); others report
a path twice. `HandlerOwnsItsStates`: what a handler holds exists and is its own,
and is alive but for the current state of the two handlers above. `BooksAgree`
puts together what the counters ("explored paths = 1 + forks",
`Core/API.cpp:1400`), the process tree and the lists say, while the run goes on
and after it, and that the assertion of `updateStates()` (`AssertionHolds`)
fails for two reasons only: a memory cap, or one of these two handlers. `SeedsFollowPaths`: seeds sit at live states they satisfy, and
with `--only-replay-seeds` no state is without one. `HaltIsObeyed` is liveness.

*ObjectState.* `CacheInvariants` is the comment of that name in `Memory.cpp`;
`ReadsAsWritten` compares both kinds of reads with history, bytes an external
call changed behind the update list excepted (see below).

*AddressSpaces.* `OwnedPrivately` is the comment at `AddressSpace.h`'s
`cowKey`; `ResolvedIsCurrent` says no operation ever uses an outdated
resolution; `ImplementsPrivateMemory` sums up.

*Searchers.* `NoAssertionFails`; `HoldsWhatRuns`: the lists, the batch and the
paused states; `SelectsRunnable`, and in breadth-first order if that was asked.

*SolverCaches.* `CachesSound` (what is stored is true), `AnswersRight` (so is
what is inferred next).

*FSMExtractor.* `DependencesRight` compares the tree walk with the textbook
definition of control dependence; `PairsFound` the two searches with
reachability. `DirectionsLead` says what the direction should be, with
reachability of its own and not by `findAPath()`: the side that leads to the
store in this iteration, the true one if both do. Two cases are excepted by
name, in which the code gets it wrong (no. 16 below): the store is in the
branch's target itself, and the target is the header. `Ends`.

*Interpreter.* `OutcomesAgree`: the same error or exit, value and calls out on
every input of a path, and its test is one of them. `EveryInputEndsOnce`: exit
status 0 means that every input ended on one path or was dropped where a value
was chosen for it; status 1 has one of three causes. `PathsReadBack`: a path
file holds the branches of its path. `ReplayFollowsPath`: a replay ends where
the path did.

*Expressions.* `CreateKeepsMeaning`, `BuildersKeepMeaning`, `SolversAgree`
(which also says that neither solver gets a term it refuses),
`RangesHoldTheValues`.

*PathConditions.* `ConstraintsKeepMeaning`, `RequiredDecide` (the constraints
sent with a query decide it), `FactorsCombine` (answers to the parts make an
answer to the whole), `FastAnswersRight`.

*PosixFd.* `FailuresAreBudgeted`, `ScanIsComplete` (for listings in buffers of
4096 bytes), `SelectAnswersWhatWasAsked`.

*TlsSession.* `EndsAgree`: if one end's key is active, and the key at the other
end that it is connected with is still a session's primary one, that one is
connected with it in turn and can decrypt already, whatever has failed, expired
or started again. `WhatIsSentCanBeRead`: as long as only the
network misbehaves, the key that one end encrypts with the other decrypts
with. `PayloadsInOrder`: what one end has taken are payloads of the other, in the
order they were given, none twice. `Connects` is liveness.

## Bounds, and why they are enough

- `exploration`: 3 addresses, 3 inputs, 1 seed, `branch()` with up to 3
  conditions, time-outs and `klee_set_forking`. `exploration_modes`: the same
  with 2 seeds, in three modes: seeds replayed only, all limits
  (`--max-forks=2`, `--max-depth=2`, `--seed-time`, a memory cap that ends any
  set of states), and a program that calls symbolic pointers, where an
  instruction ends its state up to twice (`MaxEnds`; the code's `va_start` might
  four times, but what the properties tell apart is once and more than once). Every path needs an input, so the addresses suffice for all
  paths; they are reused. Three inputs give the shortest histories in which a
  path divides twice, in one instruction or two, and in which one state ends
  between two forks of the other. What is *proved* holds for any number.
- `object_state`: 3 bytes, 2 values. Two bytes show what one write does to the
  other; a third lets ranges overlap partly.
- `address_spaces`: 2 states, 2 objects, 4 `ObjectState`s, keys up to 3, 2
  values. Two states suffice for one to see the other's write; keys up to 3
  allow two forks in a row with writes between. `MaxKey` and the number of
  `ObjectState`s stop the model where the program would go on, so deadlock is
  not checked there.
- `searchers`: 4 states, up to 2 added per step; eight searches, with and
  without batching and deepening, deepening over random paths excluded. When
  all states have ended nothing is left to do: deadlock is not checked.
- `solver_caches`: 3 assignments, two conditions of which one implies the
  other, with their negations: the least universe with proper subsets,
  supersets, canonical and negated queries. At most 3 entries in both caches
  together, after which the model stops: deadlock is not checked.
- `fsm_extractor`: every control flow graph of an entry, a loop of one to three
  blocks with any branches, and an exit; every place of one load and one store
  in the loop. Three blocks allow a block that depends on itself, nested loops,
  several exits and paths that join. Blocks that never reach the exit are
  excluded: post-dominators treat them in a way of their own.
- `interpreter`: 27 programs, each about one group of instructions, among them
  phis that exchange values, switches with cases at the default's block,
  pointers into several objects, sizes not known, variable arguments, invokes,
  aliases, constructors; on inputs 0 to 3, so that a path may divide, divide
  again, and keep more than one input. 41 jobs vary the kind of switch, path
  files and their replay, time-outs, the limit on tests, signals, and the
  watchdog. Runs end in `Done`, so deadlock is checked.
- `expressions`: bytes and indices of 2 bits, values up to 6 bits, products for
  divisions at 4; two symbolic bytes, one constant array, reads through updates
  at known and unknown indices; every two operations, of any kind, on a byte or
  a concat. Two steps are what a rule looks at: a node and its operands, which
  are sums and differences with constants themselves. Contents are all 16.
  After two steps nothing is left to do: deadlock is not checked.
- `path_conditions`: fourteen conditions over two arrays and a constant one, up
  to three of them in any order: equalities that rewrite others, reads at
  unknown indices, through updates and from the constant array, choices, casts,
  sums that wrap. Three conditions allow a chain: the second meets the query
  only through the third. After three nothing is left to do: deadlock is not
  checked.
- `posix_files`: seven programs, each with the calls of one concern and up to
  five calls that change something, on 4 descriptors, so that the table gets
  full, files of one or two bytes, a directory of two entries, listed into
  buffers of one entry to four, four being what fills the runtime's part. A program stops
  when it has made its calls: deadlock is not checked.
- `tls_sessions`: four sessions and two keys per session and peer, four packets
  on their way to each, any two events (`MaxEvents`) out of faults, renewals and
  restarts, and any two payloads (`MaxPayloads`) of either end, three of all
  these together (`MaxTotal`). So two payloads meet any one fault or renewal,
  and one payload, or none, any two: a fault meets a renewal or another fault.
  The bounds on sessions, keys and packets stop the model where peers would go
  on, so deadlock is not checked.

## Fairness

Three runs check liveness. `Exploration`'s `FairSpec` has weak fairness of the
loop (one thread that nothing blocks: no other thread exists, and signal
handlers return), and strong fairness of `HandlerReturn`: a handler makes
finitely many calls of `fork()`, `branch()` and so on before it returns;
without it, the model could call them for ever. The solver's time-out lets
every call return. `FSMExtractor` has weak fairness of `Step`, a sequential
program's. There is no fairness between states: a searcher may starve one.
`TlsSession` has fairness of what the event loop does: it reads a packet that
is there, sends again what was not acknowledged (`reliable_schedule_packet()`
sets the wake-up), and wakes up to start a session. Its conditions are written
out; they say when each action can be taken. Faults are finitely many
(`MaxEvents`), which is the assumption that the network works again at last.
The other modules state safety only.

## What modelling showed

These are places where the code does something its authors may not have
wanted. The model does what the code does; where a property would fail, the
property or the run says what it leaves aside.

*Exploration and memory.*
1. `checkMemoryUsage()` (`Core/Executor.cpp:2619`) chooses its victims from
   `states`, where the current state still is if its instruction has just
   ended it; `updateStates()` then fails `assert(it2 != states.end())`.
   `processTimers()` looks out for this. `AssertionHolds` excepts memory caps.
2. `copyInConcretes()` (`Core/AddressSpace.cpp:323`) overwrites
   `concreteStore` and leaves bytes marked as flushed; reads at symbolic
   offsets keep returning the old value.
3. `free()` of a local object is refused, `realloc()` is not
   (`Core/Executor.cpp:3119`); the frame keeps a pointer to a deleted
   `MemoryObject`. `address_spaces` does not reallocate locals.
4. Random-path search knows nothing of paused states (`Core/Searcher.cpp:366`);
   with `--use-iterative-deepening-time-search` the weighted search next to it
   is asked to choose from nothing.
5. A `MemoryObject`'s name, its `isGlobal` and its preferences belong to all
   paths: `klee_mark_global` on one makes `free()` fail on another, and a test
   may carry another path's names. `OutcomesAgree` leaves such paths aside.

*Interpreter, passes, driver.*
6. When the second value of a symbolic function pointer is no function, the
   state of the first is ended (`Core/Executor.cpp:1781`), for the second time
   if the call has ended it, and `updateStates()` fails as in 1. `va_start` may
   end the state by each of its four writes through a pointer to several objects
   that is not known to be in bounds (line 1233), and `fork()`s it in between.
7. `branch()` leaves all its states on one stream of the path file and does not
   look at `replayPath`; `loadPathFile()` appends one `false` too many.
8. `va_copy` is lowered to copies of which the second repeats the first
   (`Module/IntrinsicCleaner.cpp:90`).
9. The inputs of a default destination that is also a case's would be lost at
   `Core/Executor.cpp:1650`; a pass that runs before drops such cases.
10. `klee_range(n, n + 1)` makes no object in `runtime/Intrinsic`, while
    `runtime/Runtest` always takes one from the test, so a later object is read
    from the wrong entry; `klee_int` is missing there.
11. A child killed by a signal is noticed only when `wait` fails, and by then
    `kill()` may have been sent to its old pid. `--stop-after-n-tests` counts
    tests generated.
12. `evalConstant()` lays a `ConstantVector` out with its first element highest
    (`Core/ExecutorUtil.cpp:100`); constant data, `InsertElement` and
    `ExtractElement` have it lowest. Only the latter order is in the model.

*Solving.*
13. The range of a concat is shifted by eight bits whatever the width of its
    right operand (`ExprRangeEvaluator.h:124`); `RangesHoldTheValues` is about
    concats of bytes.
14. `FastCexSolver` runs into assertions on empty ranges; for an `and` that is
    to be false it asks whether the left side has become *true*.
15. Constants fill an arithmetic shift by more than the width with the sign,
    the solvers' terms with zeros; the inserted check keeps programs from it.

*Extractor, runtime, OpenVPN.*
16. `findAPath()` does not look at the block it starts in
    (`lib/FSMExtractor/FSMExtractor.cpp:238`), so a store directly in a branch
    target is attributed to the other side if that leads to it, and to neither
    if not. A branch back to the header is the end of the iteration, but
    `findAPath()` starts at it and finds the stores of the next one.
    `DirectionsLead` excepts both.
17. In `runtime/POSIX/fd.c`: `dup2(fd, fd)` closes; `getdents()` lists the
    symbolic files for any directory; in a buffer below 4096 bytes it leaves the
    offset among its own entries (line 861), where the next call fails, lists a
    file again or lists nothing for ever, and the operating system's part is
    never reached; `select()` counts a file once for every
    descriptor that names it; `open()` without `O_CREAT` resets a file's mode;
    a `chmod()` made to fail then uses a null pointer.
18. In `ssl.c`, a SOFT_RESET that was delayed and arrives after its renewal
    renews once more; payloads on their way are lost with the key.

# 4. What is proved

All theorems are proved by TLAPS for every value of the constants that the
named assumptions allow. These give constants their types
(`ConstantsAssumption`, `NoneAssumption`, `ExprsAssumption`, ...); they say of
the extractor's graphs that blocks are finitely many, end in at most two-way
branches and reach an exit (`GraphsAssumption`, `ProgramAssumption`), of state
addresses that they are finitely many (`SearchersAssumption`), of the operating
system's directory what section 2 says (`DirectoryAssumption`), and of command
lines that options have the numbers they need (`ProgramsAssumption`).

**`ExplorationProofs`**: `TypeCorrect`, `HandlersOwnTheirStates`,
`PathsStayDisjoint`, `InputsAreKept`, `BooksAlwaysAgree`, `SeedsAlwaysFollow`,
`ExplorationPartitions`, `ExplorationPartitionsAll`, for any program, seeds and
limits. `PathsDisjoint` is not inductive alone: that a fork's copy has an address
of its own needs that lists do not overlap (`ListsOK`: `addedStates` are new,
`removedStates` old, all empty between rounds), and that `branch()` ends with
disjoint states needs what its vectors hold half-way (`BranchOK`: the chosen
states are alive, share one path and its conditions are disjoint parts of it).
So the first invariant is `TypeOK /\ ListsOK /\ BranchOK /\ PathsOK`; each
step is handled by one lemma, each kind of handler call by one case. The others
rest on it:

- `BooksAlwaysAgree`: the tree's leaves are one per state that exists or is
  about to be removed (`TreeOK`: splitting a leaf gives two, removing one walks
  up to the next branching), the counter of paths is one more than the forks
  (`CountOK`), and after the run the lists are empty (`DumpedOK`). The assertion
  in `updateStates()` cannot fail unless a memory cap has ended a state that its
  own instruction ended too, or one of the two handlers that do not look has
  ended it again: hence the conditions in `AssertionHolds`.
- `SeedsAlwaysFollow` (`SeedsOK`): wherever a fork divides a state, each of its
  seeds goes to the side it satisfies.
- `ExplorationPartitions`: every step is a step of `InputPartition`, or changes
  no path. What divides a path leaves disjoint parts that make it up, what is given up aside
  (`Divides`), none of them empty (`PathsFilled`: no live path is); what ends
  one reports it. Its premise is `[]EndsAreFinal`. `ExplorationPartitionsAll`
  shows that for a program that calls no symbolic pointer and no `va_start`, run
  without `--max-memory`, there is none.

**`ObjectStateProofs`**: `CachesAreConsistent`, `ReadsReturnWrites`, for
objects of any size. The two invariants need each other: flushing a byte keeps
its value only if the cache has one.

**`AddressSpacesProofs`**: `OwnersStayBeforeKey`, `OwnedObjectsArePrivate`,
`ResolvedStaysCurrent`, and `SharingIsInvisible`, the refinement of
`PrivateMemory`: every step of the shared heap is one step of memories that no
two states share, or none. The inductive invariant is `RefinementOK`: types;
ownership (no key is ahead of its space's, and what carries the space's own key
is bound nowhere else), which survives a fork because both sides get a key that
no object has; resolution (the states of a pending operation differ, and what
they were resolved to is still bound); and that deleted states hold nothing.

**`SearchersProofs`**: `NoSearcherAsserts`, `SearchersHoldWhatRuns`,
`RunnableIsSelected`, for any number of states and any stack of searchers that
does not put iterative deepening over random paths (`NoPausedWalks`: the fourth
observation above is why). The invariant `StackOK` says that each list holds the
states that are not paused, without repetition (`BaseHolds`, kept by `Without`
and by appending new states, `ByAddress`), that only live states are paused and
not all of them, and that a batch's state is one of the rest. Breadth-first
search needs the order of the list as well (`BreadthOK`): states that have
forked in this round come after those that have not.

**`SolverCachesProofs`**: `CachesStaySound`, `EveryAnswerIsRight`: the caches'
entries are true for any set of expressions, any order of queries, and a core
solver that may fail at any call; each inference has a lemma.

**`FSMExtractorProofs`**: `TypeCorrect`, `FindsThePairs`, `FoundLoadsBranch`,
`DirectionsLeadToStores`, `DependencesAreRight`, for every function, loop, place
of any number of loads and stores and order of the worklists. `From` is the
least closed set; a worklist search keeps "what is seen is reachable, and what
it leads to is seen or still to do" (`SearchEnds`, `SearchStarts`,
`SearchGoesOn`), used for both searches. `BranchHasTwoTargets`, that
`getSuccessor(1)` exists although nothing checks it, rests on
`OneTargetDecidesNothing`: an edge from a block with one successor makes nothing
dependent, since what post-dominates the successor post-dominates the block; and
every block that `influences()` visits is one that another block depends on. The
inductive invariant is `ProgramInv /\ SearchInv /\ MapInv /\ DirectionInv`; it
holds `findAPath()`'s answers against its own definition (`DirectionOf`), and
`DirectionsLeadToStores` compares that with what the direction means.
`DependencesAreRight` says that the walk up the post-dominator tree from one end
of an edge to the other meets exactly the blocks that depend on it: the
post-dominators of a block are ordered by post-dominance, so each but the block
itself lies above its parent, and a finite chain of them has a last one.

**`PosixFdProofs`**: three theorems about every command line, directory and
sequence of calls.

- `FailuresStayInBudget`: failures injected and failures left add up to those
  allowed (`Balanced`); every call spends one or none (`CallSpends`).
- `SelectAnswersRight`: what the operating system says of its own descriptors,
  translated back, was asked for or is another number for one that was
  (`BackFound`); nothing is counted exactly if nothing is found.
- `ListingsAreComplete`. What a scan has listed need not be all that lies in
  front of the descriptor's offset if the program seeks to where the listing
  has not been, or lists into a small buffer; such scans are no longer `whole`. Of the others the invariant
  `Listings` says that offsets ascend in what was listed (`GoodScan`; an entry's
  offset tells its name, so nothing is listed twice), and that what lies in
  front of the descriptor's offset has been listed unless it was deleted
  (`UpToDate`). A directory's two parts have a lemma each (`OwnPartListed`,
  `OsPartListed`), and every other call is one of five changes: a descriptor
  moves, begins, is copied, seeks, or a file is deleted (`MovesGood`,
  `BeginsGood`, ...).

**`TlsSessionProofs`**: `PayloadsStayInOrder`, `EndsAlwaysAgree`.

`PayloadsStayInOrder`: for any number of sessions, packets, events and payloads,
each end takes the payloads of the other in the order they were given, none
twice and none invented. The hypothesis `MaxKeyId <= 5` says that a session is
not renewed until its key ids repeat (`P_KEY_ID_MASK` is 7, and a turn may go
one beyond the bound). The code lets them wrap from 7 to 1; then a session's id
and a key id no longer name one key, which the argument rests on.

The property speaks of what has been taken only. That the next payload is later
than all those depends on the packets still on their way, on what both ends have
stored, and on which of several keys will take them, so the invariant
(`InOrderInv`, in `TlsInvariants`) describes all of that, as a *world* of two
peers, their keys and the packets between them:

- `KeyGood`: what a key in this state has sent and taken. Its hello is packet 1,
  its key method message packet 2, payloads come after.
- `MailGood`: packets name keys that have existed (`Known`), and the records of
  one connection are numbered in the order of their texts (`Numbered`).
- `Mine`, `Heard`, `Paired`, `ServerGood`: nobody but this key has used its name,
  and only with its peer; whoever has had an answer has greeted; if a key has had
  a text, the key it came from is connected to it and to no other.
- `BacklogGood`, `ActiveGood`: what an active key still has to send is later than
  everything on its way or seen by the other end; packets that it has not taken
  are later than everything it has seen.
- `UntrustedGood`: no payload is on its way to an untrusted key.
- `Resting`, between turns: an untrusted key has not read a key method message.

The last two are why no simpler invariant will do. A payload read by an untrusted
session would overtake those that the active one still holds. It cannot come
there, because a peer only writes payloads after it has read the other's key
method message, and the other, who has sent it, is active by then: a server
sends its message in answer to the client's, and the turn in which a session
reads one does not end before `tls_multi_process()` has promoted it. This holds
as the event loop calls `tls_multi_process()` until nothing is left to do, which
is also the reason for the condition of `Turn`.

`Evolves` is the relation by which a world changes: every key is the heir of one
that was there, or new under a new name, or none; every packet was there or is
welcome (`Welcome`). `GoodEvolves` shows that it keeps a world good. Most steps of
a key are quiet (`QuietGood`): they neither take nor write a text. Taking
(`TakeGood`), greeting (`GreetGood`) and sending a text (`PostGood`, with
`PaysGoToActive`) are not, nor are sessions that open, move, are renewed or end
(`NewSlotGood`, `MoveGood`, `EmptySlotGood`). From these follow, in the order of
the code: the ten steps of a round (`...Steps`), all rounds (`RoundsWork`; each
moves a measure on, `Onward`, or leaves nothing to do), `tls_process()` (`ProcessWorks`), a session's turn (`ProcessSessionGood`), all
sessions' (`MultiProcessGood`), the event loop (`SettledGood`), what arrives
(`PreDecryptGood`), and the nine actions (`NextOrder`).

`EndsAlwaysAgree`, under the same hypothesis, follows from the same invariant
(`WorldAgrees`). An active key has read its peer's key method message, so by
`Paired` the key that this came from is connected with it and has sent that
message. A server that has sent it has read the client's before, and decrypts. A
client has read the server's: the server is active only when its message has been
acknowledged (`ServerGood`), and a session between turns leaves nothing unread
that it has acknowledged (`Idle`).

`MCTlsSession` extends `TlsInvariants`: add `INVARIANT InOrderInv` to
`TlsSession.cfg` to see it hold. With `MaxEvents = 1` and without the liveness
property that takes TLC seconds (22 450 states). It is not among the runs since
it says no more than the theorem.

Two remarks on how the modules are written for this. The provers cannot see
into `SelectSeq`, `SortSeq` and folds, so orders are given by ranks (`ByAddress`,
`Ascending`) and options looked up where they are (`LastGiven`). And induction is
by least elements and by injections into finite sets: theorems that take an
operator as a parameter, `NatInduction` and its like, cannot be used.

## Only model-checked

- `HaltIsObeyed`, `Ends`, `Connects`: liveness, which is out of the prover's
  reach.
- `WhatIsSentCanBeRead` of `TlsSession`: it speaks of lame ducks too, which
  `InOrderInv` leaves out, and holds only as long as nothing but the network
  fails, so the invariant would have to follow which keys each end has kept
  since.
- Everything about `Interpreter`, `Exprs`, `Constraints` and the modules around
  them (`OutcomesAgree`, `CreateKeepsMeaning`, `ConstraintsKeepMeaning`, ...):
  they evaluate programs and expressions by recursion, about which nothing can
  be proved for every input with these tools.

# 5. Not modelled, and the plan

Left out of what is modelled: `--max-static-*-pct` (off by default), coverage,
and whatever section 2 says.

Not modelled, and why:

- **STP and Z3** themselves, LLVM's passes, the operating system: external.
- **The script that draws the machine** and the printing it reads
  (`icmpString`, `printPoState`): text to text.
- **Parsing and printing of queries** (`Expr/Parser.cpp`, printers, logging
  solvers), **statistics**, **test case files**, **support**: I/O and formats.
- **The C library**: small functions compiled into the program under test, that
  the interpreter executes like any other.
- **Containers** (`ImmutableTree`, `MapOfSets`, `DiscretePDF`): taken as the
  maps and sets they implement.
- **Merging searchers** and `ExecutionState::merge()`, which need intrinsics no
  program here uses; `ImpliedValue`, which is not reached.

What would come next, in this order:

1. `WhatIsSentCanBeRead` of `TlsSession` as a theorem.
2. `Searchers` composed with `Exploration`.
3. `AddressSpace::resolve()` with its time-out, and `resolveExact()`, which
   ignores it (`Core/Executor.cpp:3237`).
4. `MapOfSets` below the counterexample cache, and `--cex-cache-exp`.
5. How `patchSeed()` searches.
