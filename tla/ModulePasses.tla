---------------------------- MODULE ModulePasses ----------------------------
(***************************************************************************)
(* lib/Module: what KModule::prepare() does to the program before it is    *)
(* interpreted: checks are put in, intrinsics lowered, the intrinsic       *)
(* runtime linked, constructors and destructors called from main, switches *)
(* turned into branches if asked, and phis put in the order the            *)
(* interpreter needs.  The interpreter evaluates the phis of a block one   *)
(* after the other and looks its predecessor up once, in the first.        *)
(***************************************************************************)
EXTENDS Bitcode

\* f[block] for every block of every function that has a body.
OnBlocks(funcs, Pass(_)) ==
  [n \in DOMAIN funcs |-> [funcs[n] EXCEPT !.blocks = [b \in DOMAIN @ |-> Pass(@[b])]]]
\* Every instruction becomes the instructions Pass gives for it.
Expand(block, Pass(_)) == FlattenSeq([k \in DOMAIN block |-> Pass(block[k])])

-----------------------------------------------------------------------------
(* Checks in front of divisions and shifts.  Each calls a function of the  *)
(* runtime that reports an error.                                          *)

IntCast(ins) == Ins("ZExt", ins.dest \o ".i64", PtrW, <<ins.args[2]>>, <<>>, ins.w)

NeedsDivCheck(ins) == ins.op \in V!Divisions
DivCheck(ins) ==
  IF NeedsDivCheck(ins)
  THEN <<IntCast(ins), Ins("Call", "", 0, <<Fn("klee_div_zero_check"), Reg(IntCast(ins).dest)>>, <<>>, 0), ins>>
  ELSE <<ins>>
DivCheckPass(funcs) == OnBlocks(funcs, LAMBDA block : Expand(block, DivCheck))

OvershiftCheck(ins) ==
  IF ins.op \in Shifts
  THEN <<IntCast(ins),
         Ins("Call", "", 0, <<Fn("klee_overshift_check"), Const(ins.w), Reg(IntCast(ins).dest)>>, <<>>, 0), ins>>
  ELSE <<ins>>
OvershiftCheckPass(funcs) == OnBlocks(funcs, LAMBDA block : Expand(block, OvershiftCheck))

\* The runtime's two functions: report an error when the test holds.
Reports(test, message) ==
  << <<test, Ins("Br", "", 0, <<Reg(test.dest)>>, <<2, 3>>, 0)>>,
     <<Ins("Call", "", 0, <<Fn("klee_report_error"), Const(message)>>, <<>>, 0), Ins("Unreachable", "", 0, <<>>, <<>>, 0)>>,
     <<Ins("Ret", "", 0, <<>>, <<>>, 0)>> >>
klee_div_zero_check ==
  Fun(9001, <<"z">>, Reports(Ins("Eq", "t", 1, <<Reg("z"), Const(0)>>, <<>>, PtrW), "divide by zero"))
klee_overshift_check ==
  Fun(9002, <<"bitWidth", "shift">>,
      Reports(Ins("Uge", "t", 1, <<Reg("shift"), Reg("bitWidth")>>, <<>>, PtrW), "overshift error"))

\* Symbolic values of the runtime: a variable that is made symbolic, and
\* what is assumed of it.
NewSymbolic(name) ==
  <<Ins("Alloca", "p", PtrW, <<Const(1)>>, <<>>, 1),
    Ins("Call", "", 0, <<Fn("klee_make_symbolic"), Reg("p"), Const(1), name>>, <<>>, 0), Ins("Load", "v", PtrW, <<Reg("p")>>, <<>>, 0)>>
Assume(op, t, a, b) ==
  <<Ins(op, t, 1, <<a, b>>, <<>>, PtrW), Ins("Call", "", 0, <<Fn("klee_assume"), Reg(t)>>, <<>>, 0)>>
Give(v) == <<Ins("Ret", "", 0, <<v>>, <<>>, 0)>>
klee_int == Fun(9011, <<"name">>, <<NewSymbolic(Reg("name")) \o Give(Reg("v"))>>)
klee_choose ==
  Fun(9012, <<"n">>, <<
    NewSymbolic(Const("klee_choose")) \o <<Ins("Uge", "t", 1, <<Reg("v"), Reg("n")>>, <<>>, PtrW), Ins("Br", "", 0, <<Reg("t")>>, <<2, 3>>, 0)>>,
    <<Ins("Call", "", 0, <<Fn("klee_silent_exit"), Const(0)>>, <<>>, 0), Ins("Unreachable", "", 0, <<>>, <<>>, 0)>>,
    Give(Reg("v")) >>)
klee_range ==
  Fun(9013, <<"start", "end", "name">>, <<
    <<Ins("Sge", "t", 1, <<Reg("start"), Reg("end")>>, <<>>, PtrW), Ins("Br", "", 0, <<Reg("t")>>, <<2, 3>>, 0)>>,
    <<Ins("Call", "", 0, <<Fn("klee_report_error"), Const("invalid range")>>, <<>>, 0), Ins("Unreachable", "", 0, <<>>, <<>>, 0)>>,
    <<Ins("Add", "n", PtrW, <<Reg("start"), Const(1)>>, <<>>, PtrW), Ins("Eq", "t", 1, <<Reg("n"), Reg("end")>>, <<>>, PtrW),
      Ins("Br", "", 0, <<Reg("t")>>, <<4, 5>>, 0)>>,
    Give(Reg("start")),
    NewSymbolic(Reg("name")) \o <<Ins("Eq", "t", 1, <<Reg("start"), Const(0)>>, <<>>, PtrW), Ins("Br", "", 0, <<Reg("t")>>, <<6, 7>>, 0)>>,
    Assume("Ult", "t", Reg("v"), Reg("end")) \o Give(Reg("v")),
    Assume("Sle", "t", Reg("start"), Reg("v")) \o Assume("Slt", "t", Reg("v"), Reg("end")) \o Give(Reg("v")) >>)

Declarations ==
  ("klee_report_error" :> Declared(9003)) @@ ("abort" :> Declared(9004)) @@ ("klee_make_symbolic" :> Declared(9005))
  @@ ("klee_assume" :> Declared(9006)) @@ ("klee_silent_exit" :> Declared(9007))
LinkIntrinsicRuntime(funcs) ==
  ("klee_div_zero_check" :> klee_div_zero_check) @@ ("klee_overshift_check" :> klee_overshift_check) @@ ("klee_int" :> klee_int)
  @@ ("klee_choose" :> klee_choose) @@ ("klee_range" :> klee_range) @@ Declarations @@ funcs
\* Calls these make are not where an error is reported to be.
InternalFunctions == {"klee_div_zero_check", "klee_overshift_check"}

-----------------------------------------------------------------------------
(* The intrinsic cleaner.                                                  *)

\* Operate on twice the width, compare with the bounds, and make the pair.
WithOverflow(ins) ==
  LET wide == 2 * ins.w
      signed == ins.op \in SignedOverflows
      name == ins.dest
      Ext(j) == Ins(IF signed THEN "SExt" ELSE "ZExt", name \o ".ext" \o ToString(j), wide, <<ins.args[j]>>, <<>>, ins.w)
      max == IF signed THEN 2^(ins.w - 1) - 1 ELSE 2^ins.w - 1
      min == V!Wrap(-(2^(ins.w - 1)), wide)
      result == Ins(Overflows[ins.op], name \o ".res", wide, <<Reg(Ext(1).dest), Reg(Ext(2).dest)>>, <<>>, wide)
      Test(op, bound, r) == Ins(op, r, 1, <<Reg(result.dest), Const(bound)>>, <<>>, wide)
      tests == IF signed
               THEN <<Test("Sgt", max, name \o ".gt"), Test("Slt", min, name \o ".lt"),
                      Ins("Or", name \o ".of", 1, <<Reg(name \o ".gt"), Reg(name \o ".lt")>>, <<>>, 1)>>
               ELSE <<Test("Ugt", max, name \o ".of")>>
  IN  <<Ext(1), Ext(2), result>> \o tests
      \o <<Ins("Trunc", name \o ".tr", ins.w, <<Reg(result.dest)>>, <<>>, wide),
           Ins("InsertValue", name \o ".st", ins.w + V!Bool, <<Const(0), Reg(name \o ".tr")>>, <<ins.w>>, 0),
           Ins("InsertValue", name, ins.w + V!Bool, <<Reg(name \o ".st"), Reg(name \o ".of")>>, <<1>>, ins.w)>>

\* The step to the second word is commented out: the first is copied twice.
VaCopy(ins) ==
  LET name == ins.dest \o ".vacopy"
  IN  <<Ins("Load", name \o "1", PtrW, <<ins.args[2]>>, <<>>, 0), Ins("Store", "", 0, <<Reg(name \o "1"), ins.args[1]>>, <<>>, 0),
        Ins("Load", name \o "2", PtrW, <<ins.args[2]>>, <<>>, 0), Ins("Store", "", 0, <<Reg(name \o "2"), ins.args[1]>>, <<>>, 0)>>

CleanIntrinsic(ins) ==
  CASE ins.op \in DOMAIN Overflows -> WithOverflow(ins)
    [] ins.op = "vacopy" -> VaCopy(ins)
    [] ins.op = "dbg" -> <<>>
    [] ins.op = "trap" -> <<Ins("Call", "", 0, <<Fn("abort")>>, <<>>, 0), Ins("Unreachable", "", 0, <<>>, <<>>, 0)>>
    [] ins.op = "objectsize" -> <<Ins("BitCast", ins.dest, ins.w, <<Const(IF ins.args[2].val = 0 THEN 2^ins.w - 1 ELSE 0)>>, <<>>, ins.w)>>
    [] OTHER -> <<ins>>
IntrinsicCleanerPass(funcs) == OnBlocks(funcs, LAMBDA block : Expand(block, CleanIntrinsic))

-----------------------------------------------------------------------------
(* Constructors run when main starts, destructors before it returns: a     *)
(* stub is called that calls them all.                                     *)

CallOfStub(name) == Ins("Call", "", 0, <<Fn(name)>>, <<>>, 0)
GetStubFunctionForCtorList(addr, fns) ==
  Fun(addr, <<>>, << Append([j \in DOMAIN fns |-> Ins("Call", "", 0, <<Fn(fns[j])>>, <<>>, 0)], Ins("Ret", "", 0, <<>>, <<>>, 0)) >>)
InjectStaticConstructorsAndDestructors(p, funcs) ==
  LET AtReturn(ins) == IF ins.op = "Ret" /\ p.dtors # <<>> THEN <<CallOfStub("klee.dtor_stub"), ins>> ELSE <<ins>>
      body == [b \in DOMAIN funcs["main"].blocks |-> Expand(funcs["main"].blocks[b], AtReturn)]
      started == IF p.ctors = <<>> THEN body ELSE [body EXCEPT ![1] = <<CallOfStub("klee.ctor_stub")>> \o @]
      stubs == [n \in {"klee.ctor_stub", "klee.dtor_stub"} |->
                  IF n = "klee.ctor_stub" THEN GetStubFunctionForCtorList(9021, p.ctors) ELSE GetStubFunctionForCtorList(9022, p.dtors)]
      needed == {n \in DOMAIN stubs : (IF n = "klee.ctor_stub" THEN p.ctors ELSE p.dtors) # <<>>}
  IN  Restrict(stubs, needed) @@ [funcs EXCEPT !["main"].blocks = started]

-----------------------------------------------------------------------------
(* Switches.  LLVM's own simplification has dropped the cases that go      *)
(* where the default goes.                                                 *)

DropDefaultCases(ins) ==
  LET kept == SelectSeq([j \in 1..Len(ins.to) - 1 |-> j + 1], LAMBDA j : ins.to[j] # ins.to[1])
  IN  [ins EXCEPT !.args = <<@[1]>> \o [j \in DOMAIN kept |-> ins.args[kept[j]]],
                  !.to = <<@[1]>> \o [j \in DOMAIN kept |-> ins.to[kept[j]]]]
DropOneEntry(block, from, n) ==
  [k \in DOMAIN block |->
     IF ~IsPhi(block[k]) THEN block[k]
     ELSE LET gone == {j \in DOMAIN block[k].to : block[k].to[j] = from /\ Cardinality({i \in 1..j : block[k].to[i] = from}) <= n}
              kept == SelectSeq([j \in DOMAIN block[k].to |-> j], LAMBDA j : j \notin gone)
          IN  [block[k] EXCEPT !.args = [j \in DOMAIN kept |-> @[kept[j]]], !.to = [j \in DOMAIN kept |-> @[kept[j]]]]]
SimplifyBlock(blocks, b) ==
  LET ins == Last(blocks[b])
      simple == DropDefaultCases(ins)
      dropped == Len(ins.to) - Len(simple.to)
  IN  IF ins.op # "Switch" THEN blocks
      ELSE [c \in DOMAIN blocks |->
              LET block == IF c = b THEN Front(blocks[b]) \o <<simple>> ELSE blocks[c]
              IN  IF c = ins.to[1] THEN DropOneEntry(block, b, dropped) ELSE block]
CFGSimplificationPass(funcs) ==
  [n \in DOMAIN funcs |-> [funcs[n] EXCEPT !.blocks = FoldLeftDomain(SimplifyBlock, @, @)]]

\* One entry of each phi of block b now comes from `new` instead of `old`.
Redirect(blocks, b, old, new) ==
  [blocks EXCEPT ![b] = [k \in DOMAIN @ |->
     IF ~IsPhi(@[k]) THEN @[k]
     ELSE [@[k] EXCEPT !.to[SelectInSeq(@[k].to, LAMBDA c : c = old)] = new]]]

\* A new default block, then the cases from the last to the first, each
\* comparing and going on to the one made before it.
SwitchConvert(blocks, b) ==
  LET ins == Last(blocks[b])
      cases == Len(ins.to) - 1
      newDefault == Len(blocks) + 1
      NodeBlock(j) == newDefault + (cases - j) + 1
      Compare(j) == Ins("Eq", "case.cmp" \o ToString(NodeBlock(j)), 1, <<ins.args[1], ins.args[j + 1]>>, <<>>, ins.n)
      node == [j \in 1..cases |->
                 <<Compare(j), Ins("Br", "", 0, <<Reg(Compare(j).dest)>>,
                                   <<ins.to[j + 1], IF j = cases THEN newDefault ELSE NodeBlock(j + 1)>>, 0)>>]
      first == Redirect(blocks, ins.to[1], b, newDefault)
      redirected == FoldLeftDomain(LAMBDA bs, j : Redirect(bs, ins.to[(cases - j) + 2], b, NodeBlock((cases - j) + 1)), first, node)
      head == IF cases = 0 THEN newDefault ELSE NodeBlock(1)
  IN  [redirected EXCEPT ![b] = Front(@) \o <<Ins("Br", "", 0, <<>>, <<head>>, 0)>>]
      \o << <<Ins("Br", "", 0, <<>>, <<ins.to[1]>>, 0)>> >> \o Reverse(node)
LowerSwitchBlock(blocks, b) == IF Last(blocks[b]).op = "Switch" THEN SwitchConvert(blocks, b) ELSE blocks
LowerSwitchPass(funcs) ==
  [n \in DOMAIN funcs |-> [funcs[n] EXCEPT !.blocks = FoldLeftDomain(LowerSwitchBlock, @, @)]]

-----------------------------------------------------------------------------
(* Phis: all in the order of the block's first, and none that reads one    *)
(* before it: that value is copied at the end of the block it comes from.  *)

InOrderOf(reference, phi) ==
  [phi EXCEPT !.to = reference.to, !.args = [j \in DOMAIN @ |-> Incoming(phi, reference.to[j])]]
\* Mutant: not the one just before.
ReadsFarEarlier(block, k, j) == block[k].args[j].kind = "reg" /\ \E e \in 1..k - 2 : block[e].dest = block[k].args[j].name
ReadsEarlier(block, k, j) == block[k].args[j].kind = "reg" /\ \E e \in 1..k - 1 : block[e].dest = block[k].args[j].name
Moved(phi, j) == phi.dest \o ".phiclean" \o ToString(j)
BeforeTerminator(block, ins) == Front(block) \o <<ins, Last(block)>>

CleanPhi(blocks, b, k) ==
  LET ordered == [blocks EXCEPT ![b][k] = InOrderOf(blocks[b][1], @)]
      phi == ordered[b][k]
      Move(bs, j) ==
        IF ~ReadsEarlier(ordered[b], k, j) THEN bs
        ELSE LET copied == [bs EXCEPT ![phi.to[j]] = BeforeTerminator(@, Ins("BitCast", Moved(phi, j), phi.w, <<phi.args[j]>>, <<>>, phi.w))]
             IN  [copied EXCEPT ![b][k].args[j] = Reg(Moved(phi, j))]
  IN  FoldLeftDomain(Move, ordered, phi.to)
CleanPhis(blocks, b) ==
  FoldLeft(LAMBDA bs, k : CleanPhi(bs, b, k), blocks, [k \in 1..Cardinality(Phis(blocks[b])) - 1 |-> k + 1])
PhiCleanerPass(funcs) ==
  [n \in DOMAIN funcs |-> [funcs[n] EXCEPT !.blocks = FoldLeftDomain(CleanPhis, @, @)]]

-----------------------------------------------------------------------------
(* The whole preparation.                                                  *)

Prepare(p, switchType) ==
  LET checked == IntrinsicCleanerPass(OvershiftCheckPass(DivCheckPass(p.funcs)))
      linked == InjectStaticConstructorsAndDestructors(p, LinkIntrinsicRuntime(checked))
      simplified == CFGSimplificationPass(linked)
      lowered == IF switchType = "simple" THEN LowerSwitchPass(simplified) ELSE simplified
  IN  PhiCleanerPass(IntrinsicCleanerPass(lowered))

=============================================================================
