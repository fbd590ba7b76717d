---------------------------- MODULE Interpreter ----------------------------
(***************************************************************************)
(* Core/Executor.cpp's instruction interpreter and the driver around it    *)
(* (API.cpp, and the same again in tools/klee/main.cpp): the prepared      *)
(* program is executed for all inputs at once, every path leaves a test    *)
(* and the branches it took, a path file can be replayed, and signals or   *)
(* the watchdog may end the run.                                           *)
(***************************************************************************)
EXTENDS SpecialFunctions

-----------------------------------------------------------------------------
(* Calls.                                                                  *)

\* What the caller goes on with after what it called has handled `name`.
Own(e, name) == {s \in e.states : name \in s.is}
Without(e, S) == [e EXCEPT !.states = @ \ S]
Ending(e, S, kind) == \* the state is ended twice when it is no longer there
  IF S = {} THEN [e EXCEPT !.aborted = TRUE]
  ELSE TerminateStateOnError(Without(e, S), [(CHOOSE s \in S : TRUE) EXCEPT !.misled = TRUE], kind)

CallExternalFunction(e, s, ins, fn, a) ==
  IF fn \in Handlers THEN Handle(e, s, ins, fn, a)
  ELSE IF \E j \in DOMAIN a : Cardinality(ValuesOn(s.cond, a[j])) > 1
  THEN {TerminateStateOnError(e, s, "external call with symbolic argument")}
  ELSE IF fn = "crash" THEN {TerminateStateOnError(e, s, "failed external call")}
  ELSE LET x == CHOOSE x \in ValuesOn(s.cond, a[1]) : TRUE
       IN  {Keep(e, {BindLocal([s EXCEPT !.out = Append(@, x)], ins.dest, K(x))})}

RECURSIVE WriteWords(_, _, _, _)
WriteWords(e, list, varargs, j) ==
  LET Word == [i \in Inputs |-> list[i] + j]
      value == K(VaList(Base(varargs))[j + 1])
      WriteWord(t) == ExecuteMemoryOperation(Without(e, {t}), t, Word, [isWrite |-> TRUE, value |-> value, dest |-> ""])
  IN  CASE j = 4 -> {e}
        [] j # 4 /\ Own(e, "callee") = {} -> {[e EXCEPT !.aborted = TRUE]}
        [] OTHER -> UNION {WriteWords(e1, list, varargs, j + 1) : e1 \in UNION {WriteWord(t) : t \in Own(e, "callee")}}
VaStart(e, s, list) == WriteWords(Keep(e, {s}), list, StackTop(s).varargs, 0)

\* A function without a body; only the state itself follows an invoke.
CallDeclared(e, s0, ins, fn, a) ==
  LET s == [s0 EXCEPT !.is = @ \union {"callee"}]
      Done(e1) == [e1 EXCEPT !.states = {[t EXCEPT !.is = @ \ {"callee"}] : t \in @}]
      Follow(t) == IF ins.op = "Invoke" /\ "callee" \in t.is THEN TransferToBasicBlock(t, ins.to[1], s.prev[2]) ELSE t
      after == CASE fn = "llvm.va_start" -> VaStart(e, s, a[1])
                 [] fn = "llvm.va_end"   -> {Keep(e, {s})}
                 [] OTHER                -> CallExternalFunction(e, s, ins, fn, a)
  IN  IF fn = "llvm.va_start" /\ StackTop(s).varargs = 0 THEN {Keep(e, {s0})}
      ELSE {Done([e1 EXCEPT !.states = {Follow(t) : t \in @}]) : e1 \in after}

\* The frame is pushed before the arguments are counted.
PushFrame(s, fn) == [s EXCEPT !.stack = Append(@, Frame(fn, <<>>, s.prev[2], s.prev[3])), !.blk = 1, !.k = 1]
BindArguments(s, f, a) ==
  [s EXCEPT !.stack[Len(s.stack)].regs = Arguments(f, a)]
ExecuteDefined(e, s, fn, a) ==
  LET f == Funcs[fn]
      formals == Len(f.params)
      pushed == PushFrame(s, fn)
      o == Len(e.objects) + 1
      bound == [BindArguments(pushed, f, a) EXCEPT
                  !.mem = (o :> SubSeq(a, formals + 1, Len(a))) @@ @,
                  !.stack[Len(pushed.stack)].varargs = o, !.stack[Len(pushed.stack)].allocas = {o}]
  IN  IF Len(a) < formals THEN TerminateStateOnError(e, pushed, "calling function with too few arguments")
      ELSE IF ~f.vararg THEN Keep(e, {BindArguments(pushed, f, a)})
      ELSE IF Len(a) - formals > MaxAlloc THEN TerminateStateOnError(e, pushed, "out of memory (varargs)")
      ELSE Keep([e EXCEPT !.objects = Append(@, NewObject("local"))], {bound})
ExecuteCall(e, s, ins, fn, a) ==
  IF Funcs[fn].blocks = <<>> THEN CallDeclared(e, s, ins, fn, a) ELSE {ExecuteDefined(e, s, fn, a)}

\* A pointer: a state for each value it has.  For the first that is no
\* function the state the call came with is ended; the others go on.
RECURSIVE CallThrough(_, _, _, _, _, _)
CallThrough(e, free, ins, v, a, hasInvalid) ==
  LET Called(r, x) ==
        LET s == CHOOSE s \in r.t : TRUE
            misled == Keep(r.e, {[s EXCEPT !.misled = TRUE]})
        IN  CASE FunctionAt(Funcs, x) # {} -> ExecuteCall(r.e, s, ins, CHOOSE f \in FunctionAt(Funcs, x) : TRUE, a)
              [] FunctionAt(Funcs, x) = {} /\ hasInvalid -> {misled}
              [] OTHER -> IF "state" \in s.is THEN {TerminateStateOnError(r.e, s, "invalid function pointer")}
                          ELSE {Ending(misled, Own(r.e, "state"), "invalid function pointer")}
      Rest(e1, r, x) ==
        IF r.f = {} THEN {e1}
        ELSE UNION {CallThrough(e1, f, ins, v, a, hasInvalid \/ FunctionAt(Funcs, x) = {}) : f \in r.f}
      OnValue(x) == UNION {IF r.t = {} THEN {r.e} ELSE UNION {Rest(e1, r, x) : e1 \in Called(r, x)}
                             : r \in Fork(e, free, Where(v, x), TRUE)}
  IN  UNION {OnValue(x) : x \in ValuesOn(free.cond, v)}

-----------------------------------------------------------------------------
(* executeInstruction(): ins is executed in s, which e no longer holds.    *)

Args(s, ins) == [j \in DOMAIN ins.args |-> Eval(s, ins.args[j])]
Result(e, s, ins, v) == {Keep(e, {BindLocal(s, ins.dest, v)})}

PopFrame(s) ==
  [s EXCEPT !.mem = Restrict(@, DOMAIN @ \ StackTop(s).allocas), !.stack = Front(@)]
ExecuteRet(e, s, ins) ==
  LET v == Args(s, ins)
      frame == StackTop(s)
      popped == PopFrame(s)
      caller == BlocksOf(popped)[frame.blk][frame.k]
      back == IF caller.op = "Invoke" THEN TransferToBasicBlock(popped, caller.to[1], frame.blk)
              ELSE [popped EXCEPT !.blk = frame.blk, !.k = frame.k + 1]
  IN  IF Len(s.stack) = 1 THEN {TerminateStateOnExit(e, s, v)}
      ELSE IF v # <<>> THEN Result(e, back, caller, v[1])
      ELSE IF caller.dest = "" THEN {Keep(e, {back})}
      ELSE {TerminateStateOnError(e, back, "return void when caller expected a result")}

ExecuteBr(e, s, ins) ==
  LET To(S, b) == {TransferToBasicBlock(t, b, s.blk) : t \in S}
  IN  IF ins.args = <<>> THEN {Keep(e, To({s}, ins.to[1]))}
      ELSE {Keep(r.e, To(r.t, ins.to[1]) \union To(r.f, ins.to[2]))
              : r \in Fork(e, s, Where(Eval(s, ins.args[1]), 1), FALSE)}

\* Every block that can be reached, with the values that lead there; the
\* default's are not added when a case already leads to the same block.
DefaultCondition(ins, v) == {i \in Inputs : \A j \in 2..Len(ins.args) : v[i] # ins.args[j].val}
CaseTargets(s, ins, v) ==
  LET possible == {j \in 2..Len(ins.args) : s.cond \intersect Where(v, ins.args[j].val) # {}}
  IN  [b \in {ins.to[j] : j \in possible} |-> UNION {Where(v, ins.args[j].val) : j \in {j \in possible : ins.to[j] = b}}]
\* Mutant: the default only when there is no case.
DefaultIsLast(s, ins, v) ==
  IF CaseTargets(s, ins, v) # <<>> THEN CaseTargets(s, ins, v) ELSE ins.to[1] :> DefaultCondition(ins, v)
SwitchTargets(s, ins, v) ==
  LET byCase == CaseTargets(s, ins, v)
  IN  IF s.cond \intersect DefaultCondition(ins, v) = {} THEN byCase
      ELSE byCase @@ (ins.to[1] :> DefaultCondition(ins, v))
ExecuteSwitch(e, s, ins) ==
  LET v == Eval(s, ins.args[1])
      values == ValuesOn(s.cond, v)
      targets == SwitchTargets(s, ins, v)
  IN  IF Cardinality(values) = 1
      THEN {Keep(e, {TransferToBasicBlock(s, Switch(s, ins, CHOOSE x \in values : TRUE), s.blk)})}
      ELSE {Keep(e, {TransferToBasicBlock(Branched(s, targets[b], Cardinality(DOMAIN targets)), b, s.blk) : b \in DOMAIN targets})}

\* What a call by name reaches: the path's alias of it, not an alias' alias.
TargetFunction(s, name) == IF name \in DOMAIN s.aliases THEN s.aliases[name] ELSE name
ExecuteCallOrInvoke(e, s, ins) ==
  LET callee == ins.args[1]
      a == Tail(Args(s, ins))
  IN  CASE callee = Asm -> {TerminateStateOnError(e, s, "inline assembly is unsupported")}
        [] callee.kind = "fn" -> ExecuteCall(e, s, ins, TargetFunction(s, callee.name), a)
        [] OTHER -> CallThrough(e, s, ins, Eval(s, callee), a, FALSE)

Arithmetic == V!Arith
Predicates == V!Compare
ExecutePHI(e, s, ins) == Result(e, s, ins, Eval(s, ins.args[s.inc]))
ExecuteComputed(e, s, ins) ==
  LET a == Args(s, ins)
      On(i) == [j \in DOMAIN a |-> a[j][i]]
  IN  Result(e, s, ins, [i \in Inputs |-> IF Undefined(ins, On(i)) = "" THEN Computed(ins, On(i)) ELSE 0])

ExecuteAlloca(e, s, ins) ==
  LET count == Eval(s, ins.args[1]) IN ExecuteAlloc(e, s, [i \in Inputs |-> V!Wrap(ins.n * count[i], PtrW)], OnStack, ins.dest)
ExecuteLoad(e, s, ins) ==
  ExecuteMemoryOperation(e, s, Eval(s, ins.args[1]), [isWrite |-> FALSE, value |-> <<>>, dest |-> ins.dest])
ExecuteStore(e, s, ins) ==
  ExecuteMemoryOperation(e, s, Eval(s, ins.args[2]), [isWrite |-> TRUE, value |-> Eval(s, ins.args[1]), dest |-> ""])

\* Extracts concatenated: what is below, the value, what is above.
ExecuteInsertValue(e, s, ins) ==
  LET a == Args(s, ins)
      above == ins.n + ins.to[1]
      Low(x) == V!ExtractValue(x, 0, ins.n)
      High(x) == V!ExtractValue(x, above, ins.w - above)
  IN  Result(e, s, ins, [i \in Inputs |-> High(a[1][i]) * 2^above + a[2][i] * 2^ins.n + Low(a[1][i])])

VectorIndex(e, s, ins, idx, message) ==
  IF ~IsConstant(idx) THEN {TerminateStateOnError(e, s, ins.op \o ", support for symbolic index not implemented")}
  ELSE {TerminateStateOnError(e, s, message)}
InRange(idx, n) == IsConstant(idx) /\ \A x \in Range(idx) : x < n
ExecuteInsertElement(e, s, ins) ==
  LET a == Args(s, ins)
      Element(of, i) == IF of = a[3][i] THEN a[2][i] ELSE V!ExtractValue(a[1][i], ins.w * of, ins.w)
  IN  IF ~InRange(a[3], ins.to[1]) THEN VectorIndex(e, s, ins, a[3], "Out of bounds write when inserting element")
      ELSE Result(e, s, ins, [i \in Inputs |-> FoldLeft(LAMBDA acc, of : acc + Element(of - 1, i) * 2^(ins.w * (of - 1)), 0,
                                                         [of \in 1..ins.to[1] |-> of])])
ExecuteExtractElement(e, s, ins) ==
  IF InRange(Eval(s, ins.args[2]), ins.to[1]) THEN ExecuteComputed(e, s, ins)
  ELSE VectorIndex(e, s, ins, Eval(s, ins.args[2]), "Out of bounds read when extracting element")

\* Floating point is done on values: the operands are given one each, one
\* after the other.
ExecuteFloat(e, s, ins) ==
  LET NextOperand(given, o) == UNION {{[e |-> c.e, s |-> c.s, a |-> Append(g.a, c.x)] : c \in ToConstant(g.e, g.s, Eval(g.s, o))} : g \in given}
  IN  UNION {Result(g.e, g.s, ins, K(Computed(ins, g.a))) : g \in FoldLeft(NextOperand, {[e |-> e, s |-> s, a |-> <<>>]}, ins.args)}
ExecuteFence(e, s, ins) == {Keep(e, {s})}
\* What a pass should have taken away.
Unexpected == [VAArg |-> "unexpected VAArg instruction", ShuffleVector |-> "Unexpected ShuffleVector instruction"]
ExecuteUnexpected(e, s, ins) == {TerminateStateOnError(e, s, Unexpected[ins.op])}
ExecuteUnreachable(e, s, ins) == {TerminateStateOnError(e, s, "reached unreachable instruction")}

-----------------------------------------------------------------------------
(* One instruction of one state.                                           *)

StepInstruction(s) ==
  LET pc == Pc(s)
  IN  [s EXCEPT !.prev = <<StackTop(s).fn, pc[1], pc[2]>>, !.blk = pc[1], !.k = pc[2] + 1, !.is = {"state"}]
Settled(e) == [e EXCEPT !.states = {[s EXCEPT !.is = {}] : s \in @}]

Going == driver.child = "running" /\ ~ex.halt /\ ~ex.aborted
\* The states whose next instruction is one of these, and what one of them
\* leaves of ex.
Ready(ops) == IF Going THEN {s \in ex.states : Instruction(s).op \in ops} ELSE {}
Others(s) == Without(ex, {s})
Step(worlds) == (\E e \in worlds : ex' = Settled(e)) /\ UNCHANGED <<job, driver>>

ControlFlow ==
  \/ \E s \in Ready({"Ret"}) : Step(ExecuteRet(Others(s), StepInstruction(s), Instruction(s)))
  \/ \E s \in Ready({"Br"}) : Step(ExecuteBr(Others(s), StepInstruction(s), Instruction(s)))
  \/ \E s \in Ready({"Switch"}) : Step(ExecuteSwitch(Others(s), StepInstruction(s), Instruction(s)))
  \/ \E s \in Ready({"Call", "Invoke"}) : Step(ExecuteCallOrInvoke(Others(s), StepInstruction(s), Instruction(s)))
  \/ \E s \in Ready({"Unreachable"}) : Step(ExecuteUnreachable(Others(s), StepInstruction(s), Instruction(s)))
  \/ \E s \in Ready({"PHI"}) : Step(ExecutePHI(Others(s), StepInstruction(s), Instruction(s)))
Computation ==
  \/ \E s \in Ready(Arithmetic \cup Predicates \cup Casts \cup {"Select", "GEP", "ExtractValue"}) :
       Step(ExecuteComputed(Others(s), StepInstruction(s), Instruction(s)))
  \/ \E s \in Ready({"InsertValue"}) : Step(ExecuteInsertValue(Others(s), StepInstruction(s), Instruction(s)))
  \/ \E s \in Ready({"InsertElement"}) : Step(ExecuteInsertElement(Others(s), StepInstruction(s), Instruction(s)))
  \/ \E s \in Ready({"ExtractElement"}) : Step(ExecuteExtractElement(Others(s), StepInstruction(s), Instruction(s)))
  \/ \E s \in Ready(FloatOperations) : Step(ExecuteFloat(Others(s), StepInstruction(s), Instruction(s)))
  \/ \E s \in Ready(DOMAIN Unexpected) : Step(ExecuteUnexpected(Others(s), StepInstruction(s), Instruction(s)))
  \/ \E s \in Ready({"Fence"}) : Step(ExecuteFence(Others(s), StepInstruction(s), Instruction(s)))
MemoryAccess ==
  \/ \E s \in Ready({"Alloca"}) : Step(ExecuteAlloca(Others(s), StepInstruction(s), Instruction(s)))
  \/ \E s \in Ready({"Load"}) : Step(ExecuteLoad(Others(s), StepInstruction(s), Instruction(s)))
  \/ \E s \in Ready({"Store"}) : Step(ExecuteStore(Others(s), StepInstruction(s), Instruction(s)))

-----------------------------------------------------------------------------
(* The driver: the process that interprets, and the watchdog over it.      *)

NoStatus == -1
KilledStatus == -9  \* by a signal: it has no exit status
StartObjects(p) == GlobalObjects(p) \o [j \in 1..1 + Len(Strings(p)) |-> NewObject("global")]
InitialEx(replay) ==
  [states |-> {InitialState}, ended |-> {}, ts |-> OpenFrom(NewWriter, 0), objects |-> StartObjects(Programs[job.program]), emitted |-> {}, dropped |-> {},
   generated |-> 0, halt |-> FALSE, replaying |-> replay # <<>>, replay |-> replay, pos |-> 1, aborted |-> FALSE,
   timeouts |-> IF replay = <<>> THEN job.timeouts ELSE 0]
Init ==
  /\ job \in Jobs
  /\ ex = InitialEx(<<>>)
  /\ driver = [child |-> "running", code |-> NoStatus, status |-> NoStatus, interrupted |-> FALSE,
               signals |-> 0, level |-> 0, original |-> {}]

Exit(code, e) ==
  /\ ex' = e
  /\ driver' = [driver EXCEPT !.child = "exited", !.code = code, !.status = IF job.watchdog THEN @ ELSE code]

\* run() is over: what still runs is ended early, and the process exits.
DumpStates(e) ==
  LET dumped == FoldLeft(TerminateStateEarly, e, SetToSeq(e.states)) IN [dumped EXCEPT !.states = {}]
FinishRun ==
  /\ driver.child = "running" /\ ~ex.aborted /\ (ex.states = {} \/ ex.halt)
  /\ Exit(0, DumpStates(ex))
  /\ UNCHANGED job
Abort ==
  /\ driver.child = "running" /\ ex.aborted
  /\ Exit(KilledStatus, ex)
  /\ UNCHANGED job

\* SIGINT: the first asks the interpreter to halt, the second exits.
InterruptHandle(d, e) ==
  IF ~driver.interrupted THEN ex' = [e EXCEPT !.halt = TRUE] /\ driver' = [d EXCEPT !.interrupted = TRUE]
  ELSE /\ ex' = e
       /\ driver' = [d EXCEPT !.child = "exited", !.code = 1, !.status = IF job.watchdog THEN @ ELSE 1]
Interrupt ==
  /\ driver.child = "running" /\ driver.signals < job.signals
  /\ InterruptHandle([driver EXCEPT !.signals = @ + 1], ex)
  /\ UNCHANGED job

\* Time is up: SIGINT, then halt_execution() by a debugger, then SIGKILL.
\* It looks at the child first, so that one that has exited is not hit.
WatchdogExpires ==
  /\ job.watchdog /\ driver.status = NoStatus /\ driver.child = "running"
  /\ LET d == [driver EXCEPT !.level = @ + 1]
     IN  CASE d.level = 1 -> InterruptHandle(d, ex)
           [] d.level = 2 -> ex' = [ex EXCEPT !.halt = TRUE] /\ driver' = d
           [] OTHER -> UNCHANGED ex /\ driver' = [d EXCEPT !.child = "exited", !.code = KilledStatus, !.status = 1]
  /\ UNCHANGED job
\* waitpid(): a child a signal ended has no status to pass on; the next
\* call fails because there is no child.
WatchdogReaps ==
  /\ job.watchdog /\ driver.status = NoStatus /\ driver.child = "exited"
  /\ driver' = [driver EXCEPT !.status = IF driver.code = KilledStatus THEN 1 ELSE driver.code]
  /\ UNCHANGED <<job, ex>>

\* Another process with --replay-path: what it reads from the file ends
\* with the value of a read that failed.
LoadPathFile(path) == Append(path, FALSE)
ReplayPath ==
  /\ job.replays /\ driver.status = 0 /\ driver.original = {}
  /\ \E path \in ex.ended :
       /\ path.tested
       /\ ex' = InitialEx(LoadPathFile(path.path))
       /\ driver' = [driver EXCEPT !.child = "running", !.code = NoStatus, !.status = NoStatus, !.interrupted = FALSE,
                                   !.signals = job.signals, !.original = {path}]
  /\ UNCHANGED job

Done == driver.status # NoStatus /\ (~job.replays \/ driver.original # {} \/ driver.status # 0) /\ UNCHANGED vars

Driver == FinishRun \/ Abort \/ Interrupt \/ WatchdogExpires \/ WatchdogReaps \/ ReplayPath
Next == ControlFlow \/ Computation \/ MemoryAccess \/ Driver \/ Done

Spec == Init /\ [][Next]_vars

-----------------------------------------------------------------------------
(* Properties.                                                             *)

\* What the program does natively on x, its symbolic objects from the test.
Objects(path, x) == [j \in DOMAIN path.objects |-> [name |-> path.objects[j].name, cells |-> ArrayInput[path.objects[j].array][x]]]
Meaning == [name \in {j.program : j \in Jobs} |-> [x \in Inputs |-> Reference(Programs[name], x, <<>>)]]
EndsAs(path, x, m) ==
  path.kind = m.outcome /\ path.out = m.out /\ [j \in DOMAIN path.ret |-> path.ret[j][x]] = m.ret
Same(path, x) ==
  EndsAs(path, x, IF path.objects = <<>> THEN Meaning[job.program][x]
                  ELSE Reference(Programs[job.program], x, Objects(path, x)))

\* A path that ends, and that the interpreter did not give up, ends as the
\* program ends on every input that follows it: the same error or exit, the
\* same value returned, the same calls out with the same arguments, its
\* symbolic objects read from the test in the order they were made.  Its
\* test is such an input.  (The name of an object is one for all paths: what
\* is left out are paths that end after another has renamed theirs.)
OutcomesAgree ==
  \A path \in ex.ended :
    /\ path.kind \in GivesUp \/ path.misled \/ path.renamed \/ \A x \in path.cond : Same(path, x)
    /\ path.tested => path.test # {} /\ path.test \subseteq path.cond

\* When the status says the run was completed, every input has ended on one
\* path, or was dropped where a value was chosen for it; and any other
\* status is the doing of a second interrupt, of the watchdog's SIGKILL or
\* of an assertion.
EveryInputEndsOnce ==
  LET paths == ex.ended
      completed == /\ \A p, q \in paths : p = q \/ p.cond \intersect q.cond = {}
                   /\ UNION {p.cond : p \in paths} \union ex.dropped = Inputs
                   /\ ex.states = {}
  IN  /\ driver.status = 0 /\ driver.original = {} => completed
      /\ driver.status = 1 => ex.aborted \/ driver.level > 2 \/ driver.signals + driver.level > 1

\* The path file of a test holds the branches its path took, in order, for
\* every path that shares its stream with no other.
PathsReadBack ==
  \A path \in ex.ended : job.writePaths /\ path.tested /\ ~path.shares => path.path = path.taken

\* Replaying the path file of a path that was followed to its end, and that
\* its branches determine, takes the same branches to the same end, for the
\* same inputs.
ReplayFollowsPath ==
  \A path \in driver.original :
    driver.status # NoStatus /\ path.kind # "early" /\ ~path.splits
      => /\ driver.status = 0
         /\ {[kind |-> p.kind, cond |-> p.cond, taken |-> p.taken, out |-> p.out] : p \in ex.ended}
              = {[kind |-> path.kind, cond |-> path.cond, taken |-> path.taken, out |-> path.out]}

=============================================================================
