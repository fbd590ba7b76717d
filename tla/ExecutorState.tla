--------------------------- MODULE ExecutorState ---------------------------
(***************************************************************************)
(* What Core/Executor.cpp executes instructions on: the constants and      *)
(* objects a program starts with, the states, how a state forks, ends or   *)
(* is given values, and its memory.  Which state runs next, limits and     *)
(* seeds are the subject of Exploration.                                   *)
(*                                                                         *)
(* A value is what it is for each input, a path condition the inputs that  *)
(* satisfy it: that expressions mean this, and that the solver answers     *)
(* for it, is the subject of Exprs, Constraints and SolverCaches.          *)
(***************************************************************************)
EXTENDS ModulePasses, PathStreams

CONSTANTS
  Jobs,       \* [program, switchType, writePaths, stopAfter, timeouts, replays, signals, watchdog]
  Module,     \* [Jobs -> what is run of the job's program]: SetModule
  ArrayInput, \* [array -> [Inputs -> what the array of that name holds]]
  SmallSize,  \* an example size above it is halved (128)
  HugeSize    \* malloc of a symbolic size above it returns 0 (2^31)

VARIABLES
  job,     \* what is run
  ex,      \* the Executor and its handler
  driver   \* the processes around it

vars == <<job, ex, driver>>

-----------------------------------------------------------------------------
(* Constants of the module.                                                *)

RECURSIVE EvalConstant(_, _)
EvalConstant(funcs, o) ==
  LET Op(j) == EvalConstant(funcs, o.ins.args[j])
      \* A zero index is passed over, whatever is indexed.
      Index1(at, k) ==
        LET x == Op(k + 1)
        IN  CASE x = 0 -> [at EXCEPT !.t = IF at.t.kind = "struct" THEN @.of[1] ELSE @.of]
              [] x # 0 /\ at.t.kind = "struct" -> [t |-> at.t.of[x + 1], a |-> at.a + at.t.offsets[x + 1]]
              [] OTHER -> [t |-> at.t.of, a |-> at.a + V!SExtValue(x, o.ins.w, PtrW) * at.t.of.size]
      \* From the last to the first, with the padding above each.
      Above(j) == IF j = Len(o.parts) THEN o.parts[j].end ELSE o.parts[j + 1].at
      Concat(acc, j) == acc * 2^(Above(j) - o.parts[j].at) + EvalConstant(funcs, o.parts[j].v)
  IN  CASE o.kind = "fn"     -> funcs[o.name].addr
        [] o.kind = "global" -> Base(o.val)
        [] o.kind = "packed" -> FoldLeft(Concat, 0, Reverse([j \in DOMAIN o.parts |-> j]))
        [] o.kind = "expr"   ->
             IF o.ins.op = "gep"
             THEN V!Wrap(FoldLeft(Index1, [t |-> ArrayOf(1, o.ins.to[1]), a |-> Op(1)], [k \in 1..Len(o.ins.args) - 1 |-> k]).a, PtrW)
             ELSE Computed(o.ins, [j \in DOMAIN o.ins.args |-> Op(j)])
        [] OTHER -> o.val

\* What the indices known now add to an address, and the sizes of what the
\* others count.
ComputeOffsets(funcs, ins) ==
  LET Type(acc, j) ==
        LET o == ins.args[j + 1]
            t == acc.t
        IN  IF t.kind = "struct"
            THEN [acc EXCEPT !.t = t.of[o.val + 1], !.offset = @ + t.offsets[o.val + 1]]
            ELSE IF o.kind # "reg"
            THEN [acc EXCEPT !.t = t.of, !.offset = @ + V!SExtValue(EvalConstant(funcs, o), ins.w, PtrW) * t.of.size]
            ELSE [acc EXCEPT !.t = t.of, !.args = Append(@, o), !.sizes = Append(@, t.of.size)]
  IN  FoldLeft(Type, [t |-> ArrayOf(1, ins.to[1]), offset |-> 0, args |-> <<ins.args[1]>>, sizes |-> <<>>],
               [j \in 1..Len(ins.args) - 1 |-> j])
BindInstructionConstants(funcs, ins) ==
  IF ins.op # "gep" THEN ins
  ELSE LET c == ComputeOffsets(funcs, ins)
       IN  [ins EXCEPT !.op = "GEP", !.args = c.args, !.to = c.sizes, !.n = V!Wrap(c.offset, PtrW)]
\* The table of constants: operands that are no register have their values.
ConstantTable(funcs, ins) ==
  LET Known(o) == IF o.kind = "reg" THEN o ELSE [o EXCEPT !.val = EvalConstant(funcs, o)]
  IN  [ins EXCEPT !.args = [j \in DOMAIN @ |-> Known(@[j])]]
BindModuleConstants(funcs) ==
  OnBlocks(funcs, LAMBDA block : [k \in DOMAIN block |-> ConstantTable(funcs, BindInstructionConstants(funcs, block[k]))])

\* setModule(): what the passes and the binding leave of each job's program.
SetModule == [j \in Jobs |-> BindModuleConstants(Prepare(Programs[j.program], j.switchType))]
ASSUME ModuleAssumption == Module = SetModule

Funcs == Module[job]

-----------------------------------------------------------------------------
(* Values, objects and states.                                             *)

K(v) == [i \in Inputs |-> v]
IsConstant(v) == Cardinality(Range(v)) = 1
ValuesOn(cond, v) == {v[i] : i \in cond}
Where(v, x) == {i \in Inputs : v[i] = x}

\* One for all the states that hold the object.
NewObject(place) == [place |-> place, readOnly |-> FALSE, name |-> "unnamed", prefs |-> <<>>]

\* Two passes: all globals have an address when the first is initialized.
RECURSIVE InitializeGlobalObject(_, _, _, _)
InitializeGlobalObject(funcs, cells, c, offset) ==
  LET Place(os, j) == InitializeGlobalObject(funcs, os, c.parts[j], offset + (IF c.kind = "fields" THEN c.offsets[j] ELSE (j - 1) * c.size))
  IN  CASE c.kind = "zero" -> [x \in DOMAIN cells |-> IF x \in offset + 1..offset + c.size THEN 0 ELSE cells[x]]
        [] c.kind \in {"elements", "fields"} -> FoldLeftDomain(Place, cells, c.parts)
        [] OTHER -> [cells EXCEPT ![offset + 1] = EvalConstant(funcs, c)]
InitializeGlobals(p, funcs) ==
  [o \in DOMAIN p.globals |-> InitializeGlobalObject(funcs, [x \in 1..p.globals[o].size |-> 0], p.globals[o].init, 0)]
\* Only the character tables of the C library are protected: constants of
\* the program itself can be written.
GlobalObjects(p) == [o \in DOMAIN p.globals |-> [NewObject("global") EXCEPT !.readOnly = p.globals[o].isTable]]

\* argv, a null, the environment and two nulls; every string is an object.
ArgvContent(p) ==
  LET argc == Len(p.args)
      envc == Len(p.envs)
      Slot(i) == IF i = argc \/ i >= argc + 1 + envc THEN 0
                 ELSE Base(ArgvObject(p) + (IF i < argc THEN i + 1 ELSE i))
  IN  [c \in 1..argc + 1 + envc + 1 + 1 |-> Slot(c - 1)]
MainMemory(p, funcs) ==
  LET concrete == InitializeGlobals(p, funcs) \o <<ArgvContent(p)>> \o [j \in DOMAIN Strings(p) |-> Append(Strings(p)[j], 0)]
  IN  [o \in DOMAIN concrete |-> [c \in DOMAIN concrete[o] |-> K(concrete[o][c])]]
MainArguments(p) ==
  [r \in Range(p.funcs["main"].params) |->
     CASE r = "x"    -> [i \in Inputs |-> i]
       [] r = "argc" -> K(Len(p.args))
       [] r = "argv" -> K(Base(ArgvObject(p)))
       [] r = "envp" -> K(Base(ArgvObject(p)) + Len(p.args) + 1)]
InitialState ==
  LET p == Programs[job.program]
  IN  [blk |-> 1, k |-> 1, inc |-> 0, prev |-> <<"main", 1, 1>>, stack |-> <<Frame("main", MainArguments(p), 0, 0)>>,
       mem |-> MainMemory(p, Funcs), cond |-> Inputs, out |-> <<>>, ps |-> 1, aliases |-> <<>>, forkDisabled |-> FALSE,
       symbolics |-> <<>>,
       is |-> {},       \* what the code running now calls it
       taken |-> <<>>,  \* for the properties: the branches it took
       shares |-> FALSE, splits |-> FALSE, misled |-> FALSE]

StackTop(s) == s.stack[Len(s.stack)]
BlocksOf(s) == Funcs[StackTop(s).fn].blocks
\* After an invoke that ends without a jump comes the next block.
Pc(s) == IF s.k <= Len(BlocksOf(s)[s.blk]) THEN <<s.blk, s.k>> ELSE <<s.blk + 1, 1>>
Instruction(s) == BlocksOf(s)[Pc(s)[1]][Pc(s)[2]]

Eval(s, o) ==
  CASE o.kind = "reg" -> StackTop(s).regs[o.name]
    [] OTHER          -> K(o.val)
BindLocal(s, r, v) == IF r = "" THEN s ELSE [s EXCEPT !.stack[Len(s.stack)].regs = (r :> v) @@ @]
AddConstraint(s, c) == [s EXCEPT !.cond = @ \intersect c]
TransferToBasicBlock(s, b, from) ==
  LET first == BlocksOf(s)[b][1]
  IN  [s EXCEPT !.blk = b, !.k = 1, !.inc = IF IsPhi(first) THEN SelectInSeq(first.to, LAMBDA c : c = from) ELSE @]

Keep(e, S) == [e EXCEPT !.states = @ \union S]

-----------------------------------------------------------------------------
(* A path ends: it is counted, and its test written unless the error has   *)
(* been reported for this place before.                                    *)

\* The last instruction that neither is the runtime's nor was called by it.
LastInstruction(s) ==
  LET internal == {k \in DOMAIN s.stack : s.stack[k].fn \in InternalFunctions}
      outermost == Min(internal)
  IN  IF internal = {} \/ outermost = 1 THEN s.prev
      ELSE <<s.stack[outermost - 1].fn, s.stack[outermost].blk, s.stack[outermost].k>>

\* Values that satisfy the path, and of the preferences as many as can be
\* in the order of the symbolic objects; their names are the objects' now.
RECURSIVE Preferred(_, _)
Preferred(c, prefs) ==
  IF prefs = <<>> THEN c
  ELSE Preferred(IF c \intersect Head(prefs) = {} THEN c ELSE c \intersect Head(prefs), Tail(prefs))
SymbolicSolution(e, s) ==
  Preferred(s.cond, FlattenSeq([j \in DOMAIN s.symbolics |-> e.objects[s.symbolics[j].object].prefs]))
TestObject(e, symbolic) == [name |-> e.objects[symbolic.object].name, array |-> symbolic.array]
\* For the properties: another path has given one of its objects a name.
Renamed(e, s) == \E j \in DOMAIN s.symbolics : e.objects[s.symbolics[j].object].name # s.symbolics[j].name
ProcessTestCase(e, tested) ==
  IF ~tested THEN e
  ELSE [e EXCEPT !.ts = IF job.writePaths THEN FlushBuffer(@) ELSE @, !.generated = @ + 1,
                 !.halt = @ \/ e.generated + 1 = job.stopAfter]
TerminateState(e, s, kind, ret, tested) ==
  [ProcessTestCase(e, tested) EXCEPT !.ended = @ \union
     {[cond |-> s.cond, kind |-> kind, ret |-> ret, out |-> s.out, tested |-> tested, taken |-> s.taken,
       test |-> IF tested THEN SymbolicSolution(e, s) ELSE {}, objects |-> [j \in DOMAIN s.symbolics |-> TestObject(e, s.symbolics[j])],
       path |-> IF job.writePaths THEN ReadStream(e.ts, s.ps) ELSE <<>>,
       shares |-> s.shares, splits |-> s.splits, misled |-> s.misled, renamed |-> Renamed(e, s)]}]
TerminateStateOnExit(e, s, ret) == TerminateState(e, s, "exit", ret, TRUE)
TerminateStateEarly(e, s) == TerminateState(e, s, "early", <<>>, TRUE)
TerminateStateOnError(e, s, message) ==
  LET site == <<LastInstruction(s), message>>
  IN  TerminateState([e EXCEPT !.emitted = @ \union {site}], s, message, <<>>, site \notin e.emitted)

\* Paths the interpreter gives up.
GivesUp == {"early", "silent", "external call with symbolic argument", "concretized symbolic size",
            "out of memory (varargs)", "klee_set_forking requires a constant arg", "check_memory_access requires constant args",
            "expected return value from void special function", "wrong size given to klee_make_symbolic", "invalid range",
            "InsertElement, support for symbolic index not implemented",
            "ExtractElement, support for symbolic index not implemented",
            "unexpected VAArg instruction", "Unexpected ShuffleVector instruction"}

-----------------------------------------------------------------------------
(* fork(), branch() and the concretizations.                               *)

Recorded(e, s, b) == IF job.writePaths THEN [e EXCEPT !.ts = Write(@, s.ps, <<b>>)] ELSE e
Taking(s, b, c, isInternal) ==
  [AddConstraint(s, c) EXCEPT !.taken = IF isInternal THEN @ ELSE Append(@, b)]
Forked(e, t, f) == [e |-> e, t |-> t, f |-> f]
OneSide(e, s, b, c, isInternal) ==
  LET Side(e1, t) == Forked(e1, IF b THEN {t} ELSE {}, IF b THEN {} ELSE {t})
  IN  Side(IF isInternal THEN e ELSE Recorded(e, s, b), Taking(s, b, c, isInternal))

ForkBoth(e, s, c, isInternal) ==
  LET false == [s EXCEPT !.ps = IF job.writePaths THEN Opened(e.ts) ELSE @, !.is = {}]
      split(t) == [t EXCEPT !.splits = @ \/ isInternal]
      Both(opened) == IF isInternal THEN opened ELSE Recorded(Recorded(opened, s, TRUE), false, FALSE)
  IN  Forked(Both(IF job.writePaths THEN [e EXCEPT !.ts = OpenFrom(@, s.ps)] ELSE e),
             {split(Taking(s, TRUE, c, isInternal))}, {split(Taking(false, FALSE, Inputs \ c, isInternal))})

\* Forking is disabled on the path: one side at random, the other is lost.
OneAtRandom(e, s, c, isInternal) ==
  LET split == [s EXCEPT !.splits = @ \/ isInternal]
      Side(b) == IF b THEN c ELSE Inputs \ c
      Lose(b) == [e EXCEPT !.dropped = @ \union (s.cond \ Side(b))]
  IN  {OneSide(Lose(b), split, b, Side(b), isInternal) : b \in BOOLEAN}

ForkReplayed(e, s, c) ==
  LET b == e.replay[e.pos]
      side == IF b THEN c ELSE Inputs \ c
  IN  IF e.pos > Len(e.replay) \/ s.cond \intersect side = {}
      THEN Forked([Keep(e, {s}) EXCEPT !.aborted = TRUE], {}, {})
      ELSE OneSide([e EXCEPT !.pos = @ + 1], s, b, side, FALSE)

\* Mutant: forks the path has no entry for are replayed too.
AlwaysReplays(e, isInternal) == e.replaying
Replays(e, isInternal) == e.replaying /\ ~isInternal
Fork(e, s, c, isInternal) ==
  LET isOpen == ~(s.cond \subseteq c) /\ s.cond \intersect c # {}
      answers ==
        IF Replays(e, isInternal) THEN {ForkReplayed(e, s, c)}
        ELSE IF ~isOpen THEN {OneSide(e, s, s.cond \subseteq c, Inputs, isInternal)}
        ELSE IF s.forkDisabled THEN OneAtRandom(e, s, c, isInternal)
        ELSE {ForkBoth(e, s, c, isInternal)}
      timesOut == Forked(TerminateStateEarly([e EXCEPT !.timeouts = @ - 1], s), {}, {})
  IN  answers
      \union IF e.timeouts > 0 /\ c \notin {{}, Inputs} THEN {timesOut} ELSE {}

\* branch(): a state for the condition c, one of n: all share a stream.
Branched(s, c, n) == [AddConstraint(s, c) EXCEPT !.shares = @ \/ n > 1, !.splits = @ \/ n > 1]

\* [e, s, x]: with the value v now has.
ToConstant(e, s, v) ==
  LET values == ValuesOn(s.cond, v)
      Only(x) == [AddConstraint(s, Where(v, x)) EXCEPT !.splits = @ \/ Cardinality(values) > 1]
  IN  {[e |-> [e EXCEPT !.dropped = @ \union (s.cond \ Where(v, x))], s |-> Only(x), x |-> x] : x \in values}

-----------------------------------------------------------------------------
(* Memory.                                                                 *)

Covers(s, o, a) == ObjectAt(a) = o /\ CellAt(a) <= Len(s.mem[o])
\* An object without cells is found where it starts, but not accessed.
ResolvesTo(s, o, a) == Covers(s, o, a) \/ (s.mem[o] = <<>> /\ a = Base(o))
MayPointInto(s, v) == {o \in DOMAIN s.mem : \E i \in s.cond : ResolvesTo(s, o, v[i])}
InBounds(s, o, v) == {i \in Inputs : Covers(s, o, v[i])}

Read(s, o, v) == [i \in Inputs |-> IF Covers(s, o, v[i]) THEN s.mem[o][CellAt(v[i])][i] ELSE 0]
WriteObject(s, o, v, value) ==
  [s EXCEPT !.mem[o] = [c \in DOMAIN @ |-> [i \in Inputs |-> IF Covers(s, o, v[i]) /\ CellAt(v[i]) = c THEN value[i] ELSE @[c][i]]]]
\* The states in which the object is found are accessed, or end.
Access(e, S, o, v, op) ==
  CASE S = {} -> e
    [] S # {} /\ op.isWrite /\ e.objects[o].readOnly -> TerminateStateOnError(e, CHOOSE s \in S : TRUE, "object read only")
    [] OTHER -> Keep(e, {IF op.isWrite THEN WriteObject(s, o, v, op.value) ELSE BindLocal(s, op.dest, Read(s, o, v)) : s \in S})

RECURSIVE OnEachObject(_, _, _, _, _, _)
OnEachObject(e, unbound, v, op, objects, incomplete) ==
  IF objects = <<>>
  THEN {IF incomplete THEN TerminateStateEarly(e, unbound) ELSE TerminateStateOnError(e, unbound, "out of bound pointer")}
  ELSE LET o == Head(objects)
           After(r) == LET e1 == Access(r.e, r.t, o, v, op)
                       IN  IF r.f = {} THEN {e1}
                           ELSE UNION {OnEachObject(e1, s, v, op, Tail(objects), incomplete) : s \in r.f}
       IN  UNION {After(r) : r \in Fork(e, unbound, InBounds(unbound, o, v), TRUE)}

ResolvedAccess(e, s, v, op) ==
  LET objects == MayPointInto(s, v)
      only == CHOOSE o \in objects : TRUE
  IN  IF objects # {} /\ s.cond \subseteq InBounds(s, only, v) THEN {Access(e, {s}, only, v, op)}
      ELSE OnEachObject(e, s, v, op, SetToSortSeq(objects, <), FALSE)
\* A query that takes too long, which one of a constant never does: the
\* address is given a value, or the bounds stay unknown, or only some of
\* the objects are found.
ExecuteMemoryOperation(e, s, v, op) ==
  ResolvedAccess(e, s, v, op)
  \union IF e.timeouts = 0 \/ IsConstant(v) THEN {}
         ELSE LET late == [e EXCEPT !.timeouts = @ - 1]
              IN  UNION {ResolvedAccess(c.e, c.s, v, op) : c \in ToConstant(late, s, v)}
                  \union UNION {OnEachObject(late, s, v, op, SetToSortSeq(found, <), TRUE) : found \in SUBSET MayPointInto(s, v)}

\* What is allocated: whether on the stack, zeroed, and the object it is
\* to take the place of, if any.
OnHeap == [isLocal |-> FALSE, zero |-> FALSE, from |-> 0]
OnStack == [OnHeap EXCEPT !.isLocal = TRUE]

Bound(e, s, n, how, dest) ==
  LET o == Len(e.objects) + 1
      fresh == K(IF how.zero THEN 0 ELSE Uninitialized)
      bound == [s EXCEPT !.mem = (o :> [c \in 1..n |-> fresh]) @@ @,
                         !.stack[Len(s.stack)].allocas = IF how.isLocal THEN @ \union {o} ELSE @]
      moved == [bound EXCEPT !.mem[o] = [c \in 1..n |-> IF c <= Len(s.mem[how.from]) THEN s.mem[how.from][c] ELSE fresh],
                             !.mem = Restrict(@, DOMAIN @ \ {how.from})]
  IN  IF n > MaxAlloc THEN Keep(e, {BindLocal(s, dest, K(0))})
      ELSE Keep([e EXCEPT !.objects = Append(@, NewObject(IF how.isLocal THEN "local" ELSE "heap"))],
                {BindLocal(IF how.from = 0 THEN bound ELSE moved, dest, K(Base(o)))})

RECURSIVE Smaller(_, _)
Smaller(sizes, x) == IF x > SmallSize /\ x \div 2 \in sizes THEN Smaller(sizes, x \div 2) ELSE x

\* The size differs from the example: one other value, or too many.
OtherSize(e, s, size, how, dest) ==
  LET sizes == ValuesOn(s.cond, size)
      Huge(r) == LET e1 == Keep(r.e, {BindLocal(h, dest, K(0)) : h \in r.t})
                 IN  IF r.f = {} THEN e1
                     ELSE TerminateStateOnError(e1, CHOOSE h \in r.f : TRUE, "concretized symbolic size")
  IN  IF Cardinality(sizes) = 1 THEN {Bound(e, s, CHOOSE n \in sizes : TRUE, how, dest)}
      ELSE {Huge(r) : r \in Fork(e, s, {i \in Inputs : size[i] > HugeSize}, TRUE)}
ExecuteAlloc(e, s, size, how, dest) ==
  LET sizes == ValuesOn(s.cond, size)
      Example(x) == Smaller(sizes, x)
      Here(e1, S, n) == IF S = {} THEN {e1} ELSE {Bound(e1, s1, n, how, dest) : s1 \in S}
      Other(r) == IF r.f = {} THEN {r.e} ELSE UNION {OtherSize(r.e, s1, size, how, dest) : s1 \in r.f}
  IN  IF Cardinality(sizes) = 1 THEN Here(e, {s}, CHOOSE n \in sizes : TRUE)
      ELSE UNION {UNION {UNION {Here(e1, r.t, Example(x)) : e1 \in Other(r)}
                           : r \in Fork(e, s, Where(size, Example(x)), TRUE)} : x \in sizes}

\* [e, rl]: the state in which the pointer is each object's, rl; the one in
\* which it is no object's has ended.
RECURSIVE ResolveExact(_, _, _, _, _)
ResolveExact(e, unbound, v, objects, name) ==
  IF objects = <<>> THEN {[e |-> TerminateStateOnError(e, unbound, "invalid pointer: " \o name), rl |-> <<>>]}
  ELSE LET Found(r) == [j \in 1..Cardinality(r.t) |-> [s |-> CHOOSE s \in r.t : TRUE, o |-> Head(objects)]]
           Rest(r) == IF r.f = {} THEN {[e |-> r.e, rl |-> <<>>]}
                      ELSE UNION {ResolveExact(r.e, u, v, Tail(objects), name) : u \in r.f}
       IN  UNION {{[rest EXCEPT !.rl = Found(r) \o @] : rest \in Rest(r)}
                    : r \in Fork(e, unbound, Where(v, Base(Head(objects))), TRUE)}
\* One after the other, what is done with each.
EachResolved(e, s, v, name, Do(_, _, _)) ==
  LET Each(worlds, p) == UNION {Do(e1, p.s, p.o) : e1 \in worlds}
  IN  UNION {FoldLeft(Each, {r.e}, r.rl) : r \in ResolveExact(e, s, v, SetToSortSeq(MayPointInto(s, v), <), name)}

Freed(e, s, o, dest) ==
  CASE e.objects[o].place = "local"  -> TerminateStateOnError(e, s, "free of alloca")
    [] e.objects[o].place = "global" -> TerminateStateOnError(e, s, "free of global")
    [] OTHER -> Keep(e, {BindLocal([s EXCEPT !.mem = Restrict(@, DOMAIN @ \ {o})], dest, K(0))})
ExecuteFree(e, s, v, dest) ==
  LET Free1(e1, u, o) == {Freed(e1, u, o, dest)}
  IN  UNION {LET e1 == Keep(r.e, {BindLocal(t, dest, K(0)) : t \in r.t})
             IN  IF r.f = {} THEN {e1} ELSE UNION {EachResolved(e1, u, v, "free", Free1) : u \in r.f}
             : r \in Fork(e, s, Where(v, 0), TRUE)}

=============================================================================
