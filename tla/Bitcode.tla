------------------------------ MODULE Bitcode ------------------------------
(***************************************************************************)
(* The bitcode of a program under test, and what running it on one input   *)
(* means.  Reference is that meaning, kept apart from the interpreter: the *)
(* phis of a block read their operands before any of them is written, a    *)
(* switch takes its matching case or its default, dividing by zero and     *)
(* shifting too far are errors, a memory access is of one object.          *)
(*                                                                         *)
(* An instruction is [op, dest, w, args, to, n]: what it writes and how    *)
(* wide, its operands in LLVM's order, its blocks, sizes or types, a       *)
(* number (the width of what is compared or cast, an offset).  A memory    *)
(* cell holds one value of any width and has an address of its own; the    *)
(* k-th global is object k.  What the functions of klee.h mean natively is *)
(* runtime/Runtest/intrinsics.c: a symbolic object is the test's next.     *)
(***************************************************************************)
EXTENDS Integers, Sequences, FiniteSets, FiniteSetsExt, SequencesExt, Functions, TLC

CONSTANTS
  Inputs,     \* what the symbolic argument of main may hold
  PtrW,       \* width of a pointer
  ObjSpace,   \* addresses an object is given, its guard included
  MaxAlloc,   \* more cells than this cannot be allocated
  Programs    \* [name -> program]

V == INSTANCE Exprs WITH ByteW <- 8, IndexW <- 32, Arrays <- <<>>

Reg(r) == [kind |-> "reg", name |-> r, val |-> 0]
Const(v) == [kind |-> "const", name |-> "", val |-> v]
Fn(f) == [kind |-> "fn", name |-> f, val |-> 0]
Asm == [kind |-> "asm", name |-> "", val |-> 0]
Ins(op, dest, w, args, to, n) == [op |-> op, dest |-> dest, w |-> w, args |-> args, to |-> to, n |-> n]
Fun(addr, params, blocks) == [addr |-> addr, params |-> params, vararg |-> FALSE, blocks |-> blocks]
Declared(addr) == Fun(addr, <<>>, <<>>)

\* The address of a global, a constant expression, a constant of several
\* values, each with its place.
Global(k) == [kind |-> "global", name |-> "", val |-> k]
Expr(ins) == [kind |-> "expr", name |-> "", val |-> 0, ins |-> ins]
Packed(parts) == [kind |-> "packed", name |-> "", val |-> 0, parts |-> parts]

\* Types, for addresses that are computed, and what globals start with.
Cell == [kind |-> "cell", size |-> 1]
ArrayOf(n, t) == [kind |-> "array", of |-> t, size |-> n * t.size]
Struct(fields, offsets, size) == [kind |-> "struct", of |-> fields, offsets |-> offsets, size |-> size]
Zero(n) == [kind |-> "zero", size |-> n]
Elements(parts, size) == [kind |-> "elements", parts |-> parts, size |-> size]
Fields(parts, offsets, size) == [kind |-> "fields", parts |-> parts, offsets |-> offsets, size |-> size]

Casts == {"Trunc", "ZExt", "SExt", "IntToPtr", "PtrToInt", "BitCast"}
Shifts == {"Shl", "LShr", "AShr"}
\* Floating point: on small numbers and what is not one.
FloatArith == {"FAdd", "FSub", "FMul"}
FloatCasts == {"FPTrunc", "FPExt", "FPToUI", "UIToFP"}
FloatOperations == FloatArith \cup FloatCasts \cup {"FCmp"}
NaN(w) == 2^w - 1
Overflows == [uadd |-> "Add", usub |-> "Sub", umul |-> "Mul", sadd |-> "Add", ssub |-> "Sub", smul |-> "Mul"]
SignedOverflows == {"sadd", "ssub", "smul"}
Base(o) == o * ObjSpace
ObjectAt(a) == a \div ObjSpace
CellAt(a) == (a % ObjSpace) + 1
Uninitialized == 171

FunctionAt(funcs, a) == {f \in DOMAIN funcs : funcs[f].addr = a}

-----------------------------------------------------------------------------
(* The machine: one step on one input.                                     *)

Top(m) == m.stack[Len(m.stack)]
Code(funcs, m) == funcs[Top(m).fn].blocks[m.blk]
SetReg(m, r, v) ==
  IF r = "" THEN m ELSE [m EXCEPT !.stack[Len(m.stack)].regs = (r :> v) @@ @]
Stop(m, outcome) == [m EXCEPT !.outcome = outcome]

\* What an instruction that only computes gives, a: its operands' values.
Exact(op, a, b, w) ==
  LET x == IF op \in SignedOverflows THEN V!Signed(a, w) ELSE a
      y == IF op \in SignedOverflows THEN V!Signed(b, w) ELSE b
  IN  CASE Overflows[op] = "Add" -> x + y [] Overflows[op] = "Sub" -> x - y [] OTHER -> x * y
Representable(op, v, w) ==
  IF op \in SignedOverflows THEN v \in -(2^(w-1)) .. 2^(w-1) - 1 ELSE v \in 0 .. 2^w - 1
OverflowPair(op, a, b, w) ==
  LET v == Exact(op, a, b, w)
  IN  V!Wrap(v, w) + (IF Representable(op, v, w) THEN 0 ELSE 2^w)
ReplaceBits(v, off, bits, w) == v - V!ExtractValue(v, off, w) * 2^off + bits * 2^off

Number(v, w) == v % (2^w - 1)
FloatResult(op, a, b, w) ==
  CASE NaN(w) \in {a, b} -> NaN(w)
    [] op = "FAdd" -> Number(a + b, w) [] op = "FSub" -> Number(a - b, w) [] op = "FMul" -> Number(a * b, w)
FloatCast(op, a, from, w) ==
  CASE op \in {"FPTrunc", "FPExt"} -> IF a = NaN(from) THEN NaN(w) ELSE Number(a, w)
    [] op = "FPToUI" -> IF a = NaN(from) THEN 0 ELSE V!Wrap(a, w)
    [] op = "UIToFP" -> Number(a, w)
Comparison(a, b, w) ==
  IF NaN(w) \in {a, b} THEN "unordered" ELSE IF a < b THEN "less" ELSE IF a = b THEN "equal" ELSE "greater"
FCmpPredicates ==
  LET O(results) == results
      U(results) == results \union {"unordered"}
  IN  [FCMP_FALSE |-> O({}), FCMP_ORD |-> O({"less", "equal", "greater"}), FCMP_UNO |-> U({}), FCMP_TRUE |-> U({"less", "equal", "greater"}),
       FCMP_OEQ |-> O({"equal"}), FCMP_UEQ |-> U({"equal"}), FCMP_ONE |-> O({"less", "greater"}), FCMP_UNE |-> U({"less", "greater"}),
       FCMP_OGT |-> O({"greater"}), FCMP_UGT |-> U({"greater"}), FCMP_OGE |-> O({"greater", "equal"}), FCMP_UGE |-> U({"greater", "equal"}),
       FCMP_OLT |-> O({"less"}), FCMP_ULT |-> U({"less"}), FCMP_OLE |-> O({"less", "equal"}), FCMP_ULE |-> U({"less", "equal"})]

\* Where the indices lead from an address of type t, the first over a row
\* of such.
RECURSIVE Walk(_, _, _)
Walk(at, t, indices) ==
  IF indices = <<>> THEN at
  ELSE LET x == Head(indices)
       IN  IF t.kind = "struct" THEN Walk(at + t.offsets[x + 1], t.of[x + 1], Tail(indices))
           ELSE Walk(at + x * t.of.size, t.of, Tail(indices))
Index(ins, a) == FoldLeftDomain(LAMBDA acc, j : acc + V!SExtValue(a[j + 1], ins.w, PtrW) * ins.to[j], 0, ins.to)
Computed(ins, a) ==
  CASE ins.op \in V!Arith       -> V!ArithValue(ins.op, a[1], a[2], ins.w)
    [] ins.op \in V!Compare     -> V!CompareValue(ins.op, a[1], a[2], ins.n)
    [] ins.op \in DOMAIN Overflows    -> OverflowPair(ins.op, a[1], a[2], ins.w)
    [] ins.op = "Select"        -> IF a[1] = 1 THEN a[2] ELSE a[3]
    [] ins.op = "SExt"          -> V!SExtValue(a[1], ins.n, ins.w)
    [] ins.op \in Casts         -> V!Wrap(a[1], ins.w)
    [] ins.op = "gep"           ->
         V!Wrap(Walk(a[1], ArrayOf(1, ins.to[1]), [j \in 1..Len(a) - 1 |-> V!SExtValue(a[j + 1], ins.w, PtrW)]), PtrW)
    [] ins.op = "GEP"           -> V!Wrap(a[1] + Index(ins, a) + ins.n, PtrW)
    [] ins.op = "InsertValue"   -> ReplaceBits(a[1], ins.n, a[2], ins.to[1])
    [] ins.op = "ExtractValue"  -> V!ExtractValue(a[1], ins.n, ins.w)
    [] ins.op = "InsertElement" -> ReplaceBits(a[1], ins.w * a[3], a[2], ins.w)
    [] ins.op = "ExtractElement" -> V!ExtractValue(a[1], ins.w * a[2], ins.w)
    [] ins.op \in FloatArith    -> FloatResult(ins.op, a[1], a[2], ins.w)
    [] ins.op \in FloatCasts    -> FloatCast(ins.op, a[1], ins.n, ins.w)
    [] ins.op = "FCmp"          -> IF Comparison(a[1], a[2], ins.n) \in FCmpPredicates[ins.to[1]] THEN 1 ELSE 0
    [] ins.op = "objectsize"    -> IF a[2] = 0 THEN 2^ins.w - 1 ELSE 0 \* not known

RECURSIVE Operand(_, _, _)
Operand(funcs, m, o) ==
  CASE o.kind = "reg"    -> Top(m).regs[o.name]
    [] o.kind = "fn"     -> funcs[o.name].addr
    [] o.kind = "global" -> Base(o.val)
    [] o.kind = "packed" -> FoldLeftDomain(LAMBDA acc, j : acc + Operand(funcs, m, o.parts[j].v) * 2^o.parts[j].at, 0, o.parts)
    [] o.kind = "expr"   -> Computed(o.ins, [j \in DOMAIN o.ins.args |-> Operand(funcs, m, o.ins.args[j])])
    [] OTHER             -> o.val

IsPhi(ins) == ins.op = "PHI"
Phis(block) == {k \in DOMAIN block : IsPhi(block[k])}
Incoming(phi, from) == phi.args[SelectInSeq(phi.to, LAMBDA b : b = from)]

\* Enter a block: its phis all read before any is written.
Enter(funcs, m, b) ==
  LET block == funcs[Top(m).fn].blocks[b]
      new == [r \in {block[k].dest : k \in Phis(block)} |->
                LET k == CHOOSE k \in Phis(block) : block[k].dest = r
                IN  Operand(funcs, m, Incoming(block[k], m.blk))]
  IN  [m EXCEPT !.blk = b, !.k = Cardinality(Phis(block)) + 1,
                !.stack[Len(m.stack)].regs = new @@ @]

\* The errors the checks the passes put in find before the instruction.
Undefined(ins, a) ==
  CASE ins.op \in V!Divisions /\ a[2] = 0 -> "divide by zero"
    [] ins.op \in Shifts /\ a[2] >= ins.w -> "overshift error"
    [] ins.op = "InsertElement" /\ a[3] >= ins.to[1] -> "Out of bounds write when inserting element"
    [] ins.op = "ExtractElement" /\ a[2] >= ins.to[1] -> "Out of bounds read when extracting element"
    [] OTHER -> ""

Cells(n) == [c \in 1..n |-> Uninitialized]
Valid(m, a) == ObjectAt(a) \in DOMAIN m.mem /\ CellAt(a) <= Len(m.mem[ObjectAt(a)])
Allocated(m, cells, isLocal) ==
  [m EXCEPT !.nobj = @ + 1, !.mem = (m.nobj :> cells) @@ @,
            !.stack[Len(m.stack)].allocas = IF isLocal THEN @ \union {m.nobj} ELSE @]
Allocate(m, n, isLocal) == Allocated(m, Cells(n), isLocal)
WriteAt(m, a, v) == [m EXCEPT !.mem[ObjectAt(a)][CellAt(a)] = v]

Frame(fn, regs, blk, k) == [fn |-> fn, regs |-> regs, blk |-> blk, k |-> k, allocas |-> {}, varargs |-> 0]
Arguments(f, a) == [r \in Range(f.params) |-> a[SelectInSeq(f.params, LAMBDA p : p = r)]]
Push(funcs, m, fn, a) ==
  LET f == funcs[fn]
      extra == SubSeq(a, Len(f.params) + 1, Len(a))
      pushed == [m EXCEPT !.stack = Append(@, Frame(fn, Arguments(f, a), m.blk, m.k)), !.blk = 1, !.k = 1]
  IN  IF Len(a) < Len(f.params) THEN Stop(m, "calling function with too few arguments")
      ELSE IF ~f.vararg THEN pushed
      ELSE [Allocate(pushed, Len(extra), TRUE) EXCEPT !.mem[m.nobj] = extra,
                                                      !.stack[Len(m.stack) + 1].varargs = m.nobj]

\* The heap: how many cells there are to be, and what they start with.
Malloc(m, cells, dest) ==
  IF Len(cells) > MaxAlloc THEN SetReg(m, dest, 0) ELSE SetReg(Allocated(m, cells, FALSE), dest, Base(m.nobj))
Free(m, a) ==
  LET o == ObjectAt(a)
  IN  CASE a = 0 -> m
        [] a # 0 /\ (o \notin DOMAIN m.mem \/ a # Base(o)) -> Stop(m, "invalid pointer: free")
        [] \E f \in Range(m.stack) : o \in f.allocas -> Stop(m, "free of alloca")
        [] o \in m.global -> Stop(m, "free of global")
        [] OTHER -> [m EXCEPT !.mem = Restrict(@, DOMAIN @ \ {o})]
Realloc(m, a, n, dest) ==
  LET o == ObjectAt(a)
      old == m.mem[o]
      moved == Malloc(m, [c \in 1..n |-> IF c <= Len(old) THEN old[c] ELSE Uninitialized], dest)
  IN  CASE n = 0 -> SetReg(Free(m, a), dest, 0)
        [] n # 0 /\ a = 0 -> Malloc(m, Cells(n), dest)
        [] n # 0 /\ a # 0 /\ (o \notin DOMAIN m.mem \/ a # Base(o)) -> Stop(m, "invalid pointer: realloc")
        [] OTHER -> IF n > MaxAlloc THEN moved ELSE [moved EXCEPT !.mem = Restrict(@, DOMAIN @ \ {o})]

\* The native runtime: what a symbolic object holds comes from the test.
MakeSymbolic(m, a, name) ==
  IF m.objs = <<>> THEN Stop(m, "out of inputs")
  ELSE IF Head(m.objs).name # name THEN Stop(m, "object name mismatch")
  ELSE [m EXCEPT !.objs = Tail(@), !.mem[ObjectAt(a)] = Head(m.objs).cells]
NativeRange(m, begin, end, name, dest) ==
  LET x == Head(m.objs).cells[1]
      read == [m EXCEPT !.objs = Tail(@)]
  IN  IF m.objs = <<>> THEN Stop(m, "out of inputs")
      ELSE IF x < begin \/ x >= end THEN Stop(m, "invalid klee_range") ELSE SetReg(read, dest, x)
\* (It has no klee_int: that is the one of klee.h, without bounds.)
NativeRuntime == {"klee_make_symbolic", "klee_int", "klee_range", "klee_choose", "klee_silent_exit", "klee_assume",
                  "klee_get_value_i32", "klee_set_forking"}
Native(m, fn, dest, a) ==
  CASE fn = "klee_make_symbolic" -> MakeSymbolic(m, a[1], a[3])
    [] fn = "klee_int"           -> NativeRange(m, 0, 2^PtrW, a[1], dest)
    [] fn = "klee_range"         -> NativeRange(m, a[1], a[2], a[3], dest)
    [] fn = "klee_choose"        -> NativeRange(m, 0, a[1], "klee_choose", dest)
    [] fn = "klee_silent_exit"   -> Stop(m, "exit")
    [] fn = "klee_assume"        -> IF a[1] = 0 THEN Stop(m, "invalid klee_assume") ELSE m
    [] fn = "klee_get_value_i32" -> SetReg(m, dest, a[1])
    [] fn = "klee_set_forking"   -> m

\* The four words of a va_list: every argument is said to be in memory.
VaList(area) == <<48, 304, area, 0>>

\* What the functions the program only declares do.
Fails == ("abort" :> "abort failure") @@ ("exit" :> "exit") @@ ("crash" :> "failed external call")
         @@ ("__assert_fail" :> "ASSERTION FAIL") @@ ("__ubsan_handle_add_overflow" :> "overflow on addition")
         @@ ("__ubsan_handle_sub_overflow" :> "overflow on subtraction") @@ ("__ubsan_handle_mul_overflow" :> "overflow on multiplication")
         @@ ("__ubsan_handle_divrem_overflow" :> "overflow on division or remainder")
External(m, fn, ins, a) ==
  LET goOn == [m EXCEPT !.k = @ + 1]
  IN  CASE fn \in DOMAIN Fails -> Stop(m, Fails[fn])
        [] fn \in NativeRuntime -> Native(goOn, fn, ins.dest, a)
        [] fn \in {"malloc", "_Znwm", "_Znam"} -> Malloc(goOn, Cells(a[1]), ins.dest)
        [] fn = "calloc"  -> Malloc(goOn, [c \in 1..a[1] * a[2] |-> 0], ins.dest)
        [] fn = "realloc" -> Realloc(goOn, a[1], a[2], ins.dest)
        [] fn \in {"free", "_ZdlPv", "_ZdaPv"} -> Free(goOn, a[1])
        [] fn = "klee_mark_global"  -> [goOn EXCEPT !.global = @ \union {ObjectAt(a[1])}]
        [] fn \in {"klee_prefer_cex", "klee_warning", "klee_print_range"} -> goOn
        [] fn = "klee_is_symbolic"  -> SetReg(goOn, ins.dest, 0)
        [] fn = "klee_get_obj_size" -> SetReg(goOn, ins.dest, Len(m.mem[ObjectAt(a[1])]))
        [] fn = "klee_check_memory_access" ->
             IF a[2] # 0 /\ ~(Valid(m, a[1]) /\ Valid(m, a[1] + a[2] - 1)) THEN Stop(m, "check_memory_access: memory error") ELSE goOn
        [] fn = "klee_alias_function" -> [goOn EXCEPT !.aliases = (a[1] :> a[2]) @@ @]
        [] fn = "llvm.va_start" -> IF Top(m).varargs = 0 THEN goOn
                                   ELSE LET list == VaList(Base(Top(m).varargs))
                                        IN  FoldLeftDomain(LAMBDA acc, j : WriteAt(acc, a[1] + j - 1, list[j]), goOn, list)
        [] fn = "llvm.va_end" -> goOn
        [] OTHER -> SetReg([goOn EXCEPT !.out = Append(@, a[1])], ins.dest, a[1])

\* An external call of an invoke goes on at its normal destination.
Landed(funcs, ins, m) == IF ins.op = "Invoke" /\ m.outcome = "" THEN Enter(funcs, m, ins.to[1]) ELSE m
Call(funcs, m, ins, called, a) ==
  LET targets == FunctionAt(funcs, called)
      written == CHOOSE f \in targets : TRUE
      \* An alias is for the calls that name the function.
      fn == IF ins.args[1].kind = "fn" /\ written \in DOMAIN m.aliases THEN m.aliases[written] ELSE written
  IN  CASE ins.args[1] = Asm -> Stop(m, "inline assembly is unsupported")
        [] ins.args[1] # Asm /\ targets = {} -> Stop(m, "invalid function pointer")
        [] OTHER -> IF funcs[fn].blocks # <<>> THEN Push(funcs, m, fn, a)
                    ELSE Landed(funcs, ins, External(m, fn, ins, a))

\* The constructors, main and the destructors run one after the other.
Start(m, fn, a) == [m EXCEPT !.stack = <<Frame(fn, a, 0, 0)>>, !.blk = 1, !.k = 1]
Return(funcs, m, v) ==
  LET frame == Top(m)
      rest == SubSeq(m.stack, 1, Len(m.stack) - 1)
      popped == [m EXCEPT !.mem = Restrict(@, DOMAIN @ \ frame.allocas), !.stack = rest, !.blk = frame.blk, !.k = frame.k]
      caller == funcs[rest[Len(rest)].fn].blocks[frame.blk][frame.k]
      back == IF caller.op = "Invoke" THEN Enter(funcs, popped, caller.to[1]) ELSE [popped EXCEPT !.k = @ + 1]
      over == IF frame.fn = "main" THEN [m EXCEPT !.ret = v] ELSE m
  IN  IF rest = <<>>
      THEN IF m.todo = <<>> THEN Stop(over, "exit")
           ELSE [Start(over, Head(m.todo), m.input) EXCEPT !.todo = Tail(@)]
      ELSE IF v = <<>> THEN IF caller.dest = "" THEN back ELSE Stop(m, "return void when caller expected a result")
      ELSE SetReg(back, caller.dest, v[1])

Switch(m, ins, v) ==
  LET hit == {j \in 2..Len(ins.args) : ins.args[j].val = v}
  IN  IF hit = {} THEN ins.to[1] ELSE ins.to[CHOOSE j \in hit : TRUE]

Perform(funcs, m, ins, a) ==
  LET goOn == [m EXCEPT !.k = @ + 1]
  IN  CASE ins.op = "Ret"    -> Return(funcs, m, a)
        [] ins.op = "Br"     -> Enter(funcs, m, IF a # <<>> /\ a[1] = 0 THEN ins.to[2] ELSE ins.to[1])
        [] ins.op = "Switch" -> Enter(funcs, m, Switch(m, ins, a[1]))
        [] ins.op = "Unreachable" -> Stop(m, "reached unreachable instruction")
        [] ins.op \in {"Call", "Invoke"} -> Call(funcs, m, ins, a[1], Tail(a))
        [] ins.op = "Alloca" -> SetReg(Allocate(goOn, ins.n * a[1], TRUE), ins.dest, Base(m.nobj))
        [] ins.op = "Load"   -> IF Valid(m, a[1]) THEN SetReg(goOn, ins.dest, m.mem[ObjectAt(a[1])][CellAt(a[1])])
                                ELSE Stop(m, "out of bound pointer")
        [] ins.op = "Store"  -> IF ~Valid(m, a[2]) THEN Stop(m, "out of bound pointer")
                                ELSE IF ObjectAt(a[2]) \in m.readOnly THEN Stop(m, "object read only") ELSE WriteAt(goOn, a[2], a[1])
        [] ins.op \in {"Fence", "dbg"} -> goOn
        [] ins.op = "trap"   -> Stop(m, "abort failure")
        [] OTHER             -> IF Undefined(ins, a) # "" THEN Stop(m, Undefined(ins, a))
                                ELSE SetReg(goOn, ins.dest, Computed(ins, a))

MachineStep(funcs, m) ==
  LET ins == Code(funcs, m)[m.k]
  IN  Perform(funcs, m, ins, [j \in DOMAIN ins.args |-> Operand(funcs, m, ins.args[j])])

RECURSIVE RunOn(_, _)
RunOn(funcs, m) == IF m.outcome # "" THEN m ELSE RunOn(funcs, MachineStep(funcs, m))

\* What a global starts with, laid out; what lies between fields is 0.
RECURSIVE Laid(_, _)
Laid(funcs, c) ==
  CASE c.kind = "zero"     -> [j \in 1..c.size |-> 0]
    [] c.kind = "elements" -> FlattenSeq([j \in DOMAIN c.parts |-> Laid(funcs, c.parts[j])])
    [] c.kind = "fields"   ->
         LET Field(j) == Laid(funcs, c.parts[j])
             Holding(at) == {j \in DOMAIN c.parts : at \in c.offsets[j] + 1..c.offsets[j] + Len(Field(j))}
         IN  [at \in 1..c.size |-> IF Holding(at) = {} THEN 0
                                   ELSE LET j == CHOOSE j \in Holding(at) : TRUE IN Field(j)[at - c.offsets[j]]]
    [] OTHER -> <<Operand(funcs, [stack |-> <<>>], c)>>

\* The objects there are before main: the globals, the array argv points
\* to, which the environment ends, and the strings.
Strings(p) == p.args \o p.envs
ArgvObject(p) == Len(p.globals) + 1
ArgvCells(p) ==
  LET n == Len(p.args)
      At(k) == Base(ArgvObject(p) + k)
  IN  [c \in 1..Len(Strings(p)) + 3 |-> IF c <= n THEN At(c) ELSE IF c \in n + 2..Len(Strings(p)) + 1 THEN At(c - 1) ELSE 0]
StartMemory(p) ==
  [o \in 1..ArgvObject(p) + Len(Strings(p)) |->
     IF o <= Len(p.globals) THEN Laid(p.funcs, p.globals[o].init)
     ELSE IF o = ArgvObject(p) THEN ArgvCells(p) ELSE Append(Strings(p)[o - ArgvObject(p)], 0)]
MainArgument(p, x) ==
  [x |-> x, argc |-> Len(p.args), argv |-> Base(ArgvObject(p)), envp |-> Base(ArgvObject(p)) + Len(p.args) + 1]

\* What the program does on the input x and the symbolic objects objs.
Reference(p, x, objs) ==
  LET todo == Append(p.ctors, "main") \o p.dtors
      InMemory(mem) == [blk |-> 1, k |-> 1, stack |-> <<>>, mem |-> mem, nobj |-> Len(mem) + 1, out |-> <<>>, outcome |-> "",
            ret |-> <<>>, input |-> Restrict(MainArgument(p, x), Range(p.funcs["main"].params)), todo |-> Tail(todo),
            objs |-> objs, global |-> DOMAIN mem, readOnly |-> {o \in DOMAIN p.globals : p.globals[o].isTable}, aliases |-> <<>>]
      Seen(end) == [outcome |-> end.outcome, ret |-> end.ret, out |-> end.out]
      Run(m) == RunOn(p.funcs, Start(m, Head(todo), m.input))
  IN  Seen(Run(InMemory(StartMemory(p))))

=============================================================================
