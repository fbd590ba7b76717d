--------------------------- MODULE MCInterpreter ---------------------------
(***************************************************************************)
(* Programs of a few blocks, each about one group of instructions, on the  *)
(* inputs 0..3.                                                            *)
(***************************************************************************)
EXTENDS Interpreter

W == 4    \* width of the input
P == 16   \* width of a pointer
X == Reg("x")

Op(op, d, a, b) == Ins(op, d, W, <<a, b>>, <<>>, W)
Cmp(op, d, a, b) == Ins(op, d, 1, <<a, b>>, <<>>, W)
Select(d, c, a, b) == Ins("Select", d, P, <<c, a, b>>, <<>>, 0)
Cast(op, d, a, from, to) == Ins(op, d, to, <<a>>, <<>>, from)
Jump(b) == Ins("Br", "", 0, <<>>, <<b>>, 0)
If(c, t, f) == Ins("Br", "", 0, <<c>>, <<t, f>>, 0)
Phi(d, args, from) == Ins("PHI", d, W, args, from, 0)
SwitchOn(v, cases, to) == Ins("Switch", "", 0, <<v>> \o cases, to, W)
Ret(v) == Ins("Ret", "", 0, <<v>>, <<>>, 0)
RetVoid == Ins("Ret", "", 0, <<>>, <<>>, 0)
CallOf(d, f, args) == Ins("Call", d, W, <<f>> \o args, <<>>, 0)
Invoke(d, f, args, normal) == Ins("Invoke", d, W, <<f>> \o args, <<normal>>, 0)
Say(v) == CallOf("", Fn("print"), <<v>>)
Alloca(d, size, count) == Ins("Alloca", d, P, <<count>>, <<>>, size)
Load(d, p) == Ins("Load", d, W, <<p>>, <<>>, 0)
Store(v, p) == Ins("Store", "", 0, <<v, p>>, <<>>, 0)
At(d, p, index, size, offset) == Ins("GEP", d, W, <<p, index>>, <<size>>, offset)
Word(d, p, k) == Ins("GEP", d, P, <<p, Const(k)>>, <<1>>, 0)
Gep(d, base, indices, t) == Ins("gep", d, W, <<base>> \o indices, <<t>>, 0)
Do(f, args) == CallOf("", Fn(f), args)
Unreachable == Ins("Unreachable", "", 0, <<>>, <<>>, 0)

Externals ==
  LET names == <<"print", "crash", "llvm.va_start", "llvm.va_end", "malloc", "calloc", "realloc", "free", "exit", "abort",
                 "__assert_fail", "__ubsan_handle_add_overflow", "__ubsan_handle_sub_overflow", "__ubsan_handle_mul_overflow",
                 "__ubsan_handle_divrem_overflow", "klee_get_value_i32", "klee_is_symbolic", "klee_get_obj_size", "klee_silent_exit",
                 "klee_assume", "klee_make_symbolic", "klee_mark_global", "klee_prefer_cex", "klee_set_forking", "klee_alias_function",
                 "klee_check_memory_access", "_Znwm", "_ZdlPv", "klee_warning", "klee_range", "klee_choose", "klee_int">>
  IN  [n \in Range(names) |-> Declared(8000 + SelectInSeq(names, LAMBDA x : x = n))]
Main(blocks) == "main" :> Fun(8100, <<"x">>, blocks)
Program(funcs) == [funcs |-> funcs @@ Externals, ctors |-> <<>>, dtors |-> <<>>, globals |-> <<>>, args |-> <<>>, envs |-> <<>>]

\* Phis that exchange two values while x counts down.
Exchange == Program(Main(<<
  <<Jump(2)>>,
  <<Phi("a", <<Const(1), Reg("b")>>, <<1, 2>>), Phi("b", <<Reg("a"), Const(2)>>, <<2, 1>>), Phi("i", <<X, Reg("j")>>, <<1, 2>>),
    Op("Sub", "j", Reg("i"), Const(1)), Cmp("Eq", "c", Reg("i"), Const(0)), If(Reg("c"), 3, 2)>>,
  <<Say(Reg("a")), Ret(Reg("b"))>> >>))

\* Two cases to one block, one case to the default's.
Switches == Program(Main(<<
  <<SwitchOn(X, <<Const(0), Const(1), Const(2), Const(9)>>, <<3, 2, 2, 3, 4>>)>>,
  <<Phi("a", <<Const(5), Const(5)>>, <<1, 1>>), Jump(4)>>,
  <<Phi("b", <<Const(6), Const(6)>>, <<1, 1>>), Say(Reg("b")), Jump(4)>>,
  <<Phi("r", <<Const(3), Reg("b"), Reg("a")>>, <<1, 3, 2>>), Ret(Reg("r"))>> >>))
\* What is switched on is known, once here and once there.
Known == Program(Main(<<
  <<Cmp("Ult", "c", X, Const(2)), If(Reg("c"), 2, 3)>>,
  <<Op("LShr", "y", X, Const(1)), SwitchOn(Reg("y"), <<Const(0), Const(1)>>, <<5, 4, 5>>)>>,
  <<Op("Or", "z", X, Const(1)), SwitchOn(Reg("z"), <<Const(1), Const(2)>>, <<5, 4, 4>>)>>,
  <<Ret(Const(1))>>, <<Ret(Const(2))>> >>))

\* A pointer to one of three functions, one of them outside; an invoke.
Pointers == Program(
  ("twice" :> Fun(7001, <<"a">>, << <<Op("Add", "b", Reg("a"), Reg("a")), Ret(Reg("b"))>> >>))
  @@ ("seven" :> Fun(7002, <<>>, << <<Ret(Const(7))>> >>))
  @@ Main(<<
  <<Cmp("Eq", "c", X, Const(0)), Cmp("Eq", "d", X, Const(1)), Select("p", Reg("c"), Fn("seven"), Fn("twice")),
    Select("q", Reg("d"), Fn("print"), Reg("p")), Invoke("r", Reg("q"), <<X>>, 3)>>,
  <<Ret(Const(0))>>, <<CallOf("s", Fn("twice"), <<Reg("r")>>), Ret(Reg("s"))>> >>))
\* One value of the pointer is no function.
BadPointer == Program(
  ("seven" :> Fun(7002, <<>>, << <<Ret(Const(7))>> >>))
  @@ Main(<< <<Cmp("Ult", "c", X, Const(2)), Select("p", Reg("c"), Fn("seven"), Const(99)), CallOf("", Reg("p"), <<>>), Ret(Const(1))>> >>))
\* Calls that cannot be made as they are written.
BadCalls == Program(
  ("two" :> Fun(7001, <<"a", "b">>, << <<Ret(Reg("a"))>> >>)) @@ ("none" :> Fun(7002, <<>>, << <<RetVoid>> >>))
  @@ Main(<<
  <<SwitchOn(X, <<Const(0), Const(1), Const(2)>>, <<2, 3, 4, 5>>)>>,
  <<CallOf("", Asm, <<>>), Ret(Const(0))>>, <<CallOf("r", Fn("two"), <<X>>), Ret(Reg("r"))>>,
  <<CallOf("r", Fn("none"), <<>>), Ret(Reg("r"))>>,
  <<CallOf("", Fn("none"), <<>>), CallOf("r", Fn("two"), <<X, Const(1), Const(2)>>), Ins("VAArg", "v", W, <<X>>, <<>>, 0), Ret(X)>> >>))

\* The second of the arguments that have no name.
Varargs == Program(
  ("second" :> [Fun(7001, <<"n">>, <<
     <<Alloca("list", 4, Const(1)), CallOf("", Fn("llvm.va_start"), <<Reg("list")>>), Word("w", Reg("list"), 2), Load("area", Reg("w")),
       Cast("SExt", "i", Reg("n"), W, W), At("q", Reg("area"), Reg("i"), 1, 0), Load("v", Reg("q")),
       CallOf("", Fn("llvm.va_end"), <<Reg("list")>>), Ret(Reg("v"))>> >>) EXCEPT !.vararg = TRUE])
  @@ Main(<<
  <<Cmp("Ult", "c", X, Const(3)), If(Reg("c"), 2, 3)>>,
  <<CallOf("r", Fn("second"), <<X, Const(5), Const(6)>>), Ret(Reg("r"))>>,
  <<CallOf("r", Fn("second"), <<Const(0), X>>), Ret(Reg("r"))>> >>))

\* An index into an array, then a pointer into one of two.
Arrays == Program(Main(<<
  <<Alloca("a", 2, Const(1)), Alloca("b", 1, Const(1)), Store(Const(5), Reg("a")), Word("a1", Reg("a"), 1), Store(Const(6), Reg("a1")),
    Store(X, Reg("b")), At("p", Reg("a"), X, 1, 0), Cmp("Eq", "c", X, Const(3)), Select("q", Reg("c"), Reg("b"), Reg("p")),
    Load("v", Reg("q")), Store(Const(9), Reg("q")), Load("u", Reg("a1")), Op("Add", "r", Reg("u"), Reg("v")), Ret(Reg("r"))>> >>))

\* Sizes and pointers malloc and free are given.
Heap == Program(Main(<<
  <<Op("And", "y", X, Const(1)), Op("Add", "n", Reg("y"), Const(1)), CallOf("p", Fn("malloc"), <<Reg("n")>>),
    Word("q", Reg("p"), 1), Store(X, Reg("q")), Alloca("l", 1, Const(1)), Cmp("Ult", "c", X, Const(2)),
    Select("f", Reg("c"), Reg("p"), Reg("l")), CallOf("", Fn("free"), <<Const(0)>>), CallOf("", Fn("free"), <<Reg("f")>>),
    CallOf("", Fn("free"), <<Reg("p")>>), Ret(Const(0))>> >>))
\* Memory that is given back on one path before it branches again.
Returned == Program(Main(<<
  <<Cmp("Ult", "c", X, Const(3)), If(Reg("c"), 2, 3)>>,
  <<CallOf("z", Fn("malloc"), <<Const(0)>>), Do("klee_check_memory_access", <<Reg("z"), Const(0)>>), Do("free", <<Reg("z")>>),
    CallOf("p", Fn("malloc"), <<Const(2)>>), Store(X, Reg("p")), Load("y", Reg("p")), CallOf("", Fn("free"), <<Reg("p")>>),
    Cmp("Ugt", "d", Reg("y"), Const(1)), If(Reg("d"), 3, 4)>>,
  <<Say(Const(3)), Ret(X)>>, <<Ret(Reg("y"))>> >>))
Sizes == Program(Main(<<
  <<Cast("ZExt", "y", X, W, P), Ins("Mul", "n", P, <<Reg("y"), Const(2)>>, <<>>, P), Ins("Eq", "c", 1, <<X, Const(3)>>, <<>>, W),
    Select("m", Reg("c"), Const(200), Reg("n")), CallOf("p", Fn("malloc"), <<Reg("m")>>), Ins("Eq", "z", 1, <<Reg("p"), Const(0)>>, <<>>, P),
    Cast("ZExt", "r", Reg("z"), 1, W), Ret(Reg("r"))>> >>))

\* Division, shifts and operations that report their overflow.
Divisions == Program(Main(<<
  <<Op("UDiv", "a", Const(6), X), Op("Mul", "s", X, Const(2)), Op("Shl", "b", Reg("a"), Reg("s")), Op("SRem", "d", Reg("b"), X), Ret(Reg("d"))>> >>))
Overflow == Program(Main(<<
  <<Ins("uadd", "u", W, <<X, Const(14)>>, <<>>, 0), Ins("smul", "m", W, <<X, Const(3)>>, <<>>, 0),
    Ins("ExtractValue", "uo", 1, <<Reg("u")>>, <<>>, W), Ins("ExtractValue", "mo", 1, <<Reg("m")>>, <<>>, W),
    Ins("ExtractValue", "mv", W, <<Reg("m")>>, <<>>, 0), Op("And", "both", Reg("uo"), Reg("mo")), If(Reg("both"), 2, 3)>>,
  <<Ins("trap", "", 0, <<>>, <<>>, 0), Ret(Const(0))>>, <<Ins("dbg", "", 0, <<>>, <<>>, 0), Ret(Reg("mv"))>> >>))
Vectors == Program(Main(<<
  <<Ins("InsertElement", "v", W, <<Const(0), X, Const(1)>>, <<2>>, 0), Ins("InsertElement", "w", W, <<Reg("v"), Const(3), Const(0)>>, <<2>>, 0),
    Ins("ExtractElement", "e", W, <<Reg("w"), Const(1)>>, <<2>>, 0), Ins("ExtractElement", "f", W, <<Reg("w"), Const(0)>>, <<2>>, 0),
    Op("Add", "r", Reg("e"), Reg("f")), SwitchOn(X, <<Const(0), Const(1), Const(2)>>, <<2, 3, 4, 5>>)>>,
  <<Ret(Reg("r"))>>, <<Ins("InsertElement", "o", W, <<Reg("w"), X, Const(2)>>, <<2>>, 0), Ret(X)>>,
  <<Ins("ExtractElement", "o", W, <<Reg("w"), Const(2)>>, <<2>>, 0), Ret(X)>>,
  <<Ins("ExtractElement", "o", W, <<Reg("w"), X>>, <<2>>, 0), Ret(X)>> >>))
Floats == Program(Main(<<
  <<Ins("Fence", "", 0, <<>>, <<>>, 0), Op("And", "y", X, Const(1)), Op("FAdd", "f", Reg("y"), X), Cmp("Ugt", "c", X, Const(1)),
    Select("n", Reg("c"), X, Const(15)), Op("FMul", "m", Reg("n"), Reg("f")), Ins("FCmp", "d", 1, <<Reg("m"), Reg("f")>>, <<"FCMP_ULE">>, W), If(Reg("d"), 2, 3)>>,
  <<Say(Reg("f")), Cast("FPExt", "l", Reg("m"), W, 2 * W), Cast("FPToUI", "i", Reg("l"), 2 * W, W), Ret(Reg("i"))>>, <<Ret(Reg("f"))>> >>))

\* What the interpreter does not follow.
GivenUp == Program(
  ("any" :> [Fun(7001, <<>>, << <<RetVoid>> >>) EXCEPT !.vararg = TRUE])
  @@ Main(<<
  <<SwitchOn(X, <<Const(0), Const(1), Const(3)>>, <<2, 3, 4, 5>>)>>,
  <<Say(X), Ret(X)>>, <<Ins("InsertElement", "v", W, <<Const(0), X, X>>, <<2>>, 0), Ret(X)>>,
  <<Ins("ShuffleVector", "v", W, <<X, X>>, <<>>, 0), Ret(X)>>,
  <<CallOf("", Fn("any"), [j \in 1..7 |-> X]), Ret(X)>> >>))

\* Constructors, destructors and the ways out.
Ways == [Program(
  ("ctor" :> Fun(7001, <<>>, << <<Say(Const(1)), RetVoid>> >>)) @@ ("dtor" :> Fun(7002, <<>>, << <<Say(Const(2)), RetVoid>> >>))
  @@ Main(<<
  <<Say(Const(4)), Ins("objectsize", "o", W, <<X, Const(0)>>, <<>>, 0), SwitchOn(X, <<Const(0), Const(1), Const(2)>>, <<2, 3, 4, 5>>)>>,
  <<Ret(Reg("o"))>>, <<CallOf("", Fn("exit"), <<Const(0)>>), Unreachable>>,
  <<CallOf("", Fn("crash"), <<Const(0)>>), RetVoid>>, <<CallOf("", Fn("abort"), <<>>), Unreachable>> >>)) EXCEPT !.ctors = <<"ctor">>, !.dtors = <<"dtor">>]

\* Branches only.
Bits == Program(Main(<<
  <<Op("And", "b", X, Const(1)), Cmp("Eq", "c", Reg("b"), Const(0)), If(Reg("c"), 2, 3)>>,
  <<Cmp("Eq", "d", X, Const(0)), If(Reg("d"), 4, 5)>>,
  <<Op("UDiv", "q", Const(6), X), Cmp("Ult", "d", X, Const(2)), If(Reg("d"), 5, 4)>>,
  <<Ret(Const(1))>>, <<Cmp("Eq", "d", X, Const(2)), If(Reg("d"), 4, 6)>>, <<Unreachable>> >>))

-----------------------------------------------------------------------------
(* Globals, main's arguments and the functions of klee.h.                  *)

Table == Struct(<<Cell, Cell, Cell, ArrayOf(2, Cell)>>, <<0, 1, 3, 4>>, 6)
Field(k) == Expr(Gep("", Global(1), <<Const(0), Const(k)>>, Table))
\* The third stands for a table of the C library.
AGlobal(size, init) == [size |-> size, init |-> init, isTable |-> FALSE]
Globals == [Program(
  ("twice" :> Fun(7001, <<"a">>, << <<Op("Add", "b", Reg("a"), Reg("a")), Ret(Reg("b"))>> >>))
  @@ Main(<<
  <<Gep("p", Global(1), <<Const(0), Const(3), X>>, Table), Load("w", Reg("p")), Load("f", Field(2)), CallOf("r", Reg("f"), <<Reg("w")>>),
    Load("q", Field(1)), Gep("e", Reg("q"), <<Const(1)>>, Cell), Gep("d", Reg("e"), <<Const(15)>>, Cell), Load("y", Reg("e")), Load("z", Reg("d")),
    Op("Add", "s", Reg("r"), Reg("y")), Op("Xor", "t", Reg("s"), Reg("z")), Cmp("Eq", "c", X, Const(0)), If(Reg("c"), 2, 3)>>,
  <<Store(X, Global(3)), Ret(X)>>,
  <<Ins("ExtractValue", "g", W, <<Packed(<<[v |-> Const(9), at |-> 0, end |-> 4], [v |-> Const(6), at |-> 8, end |-> 12]>>)>>, <<>>, 8),
    Op("Add", "u", Reg("t"), Reg("g")), Ret(Reg("u"))>> >>))
  EXCEPT !.globals = <<
    AGlobal(6, Fields(<<Const(3), Global(2), Fn("twice"), Elements(<<Const(4), Const(5)>>, 1)>>, <<0, 1, 3, 4>>, 6)),
    AGlobal(2, Elements(<<Const(7), Expr(Ins("Add", "", W, <<Const(8), Const(9)>>, <<>>, 0))>>, 1)),
    [AGlobal(1, Zero(1)) EXCEPT !.isTable = TRUE]>>]

Symbolic(d, p, name) == <<Alloca(p, 1, Const(1)), Do("klee_make_symbolic", <<Reg(p), Const(1), Const(name)>>), Load(d, Reg(p))>>
\* argv[1][c], argv[argc] and the environment.
WithArguments == [Program("main" :> Fun(8100, <<"argc", "argv", "envp">>, <<
  Symbolic("c", "p", "c") \o
  <<Word("a", Reg("argv"), 1), Load("s", Reg("a")), Gep("t", Reg("s"), <<Reg("c")>>, Cell), Load("v", Reg("t")),
    Gep("n", Reg("argv"), <<Reg("argc")>>, Cell), Load("null", Reg("n")), Say(Reg("null")),
    Load("e", Reg("envp")), Load("w", Reg("e")), Say(Reg("w")), Word("l", Reg("envp"), 1), Load("last", Reg("l")), Say(Reg("last")),
    Ret(Reg("v"))>> >>)) EXCEPT !.args = << <<9>>, <<1, 2>> >>, !.envs = << <<5>> >>]

\* Two arrays of one name, with a preference; what is assumed of them.
Symbols == Program(Main(<<
  Symbolic("u", "p", "a") \o Symbolic("v", "q", "a") \o
  <<Do("klee_prefer_cex", <<Reg("p"), Reg("u")>>), Cmp("Eq", "c", Reg("u"), Reg("v")), If(Reg("c"), 2, 3)>>,
  <<Op("Or", "w", Reg("u"), Reg("v")), Do("klee_assume", <<Reg("w")>>), Ret(Reg("w"))>>,
  <<Do("klee_make_symbolic", <<Reg("p"), Const(2), Const("b")>>), Ret(Reg("u"))>> >>))
Ranges == Program(Main(<<
  <<CallOf("a", Fn("klee_range"), <<Const(0), Const(2), Const("a")>>), CallOf("k", Fn("klee_choose"), <<Const(1)>>), Op("Add", "r", Reg("a"), Reg("k")),
    CallOf("b", Fn("klee_range"), <<Const(1), Const(3), Const("b")>>), CallOf("c", Fn("klee_int"), <<Const("c")>>), Op("Add", "s", Reg("b"), Reg("c")),
    Op("Add", "t", Reg("r"), Reg("s")), Ret(Reg("t"))>> >>))
\* A value is asked for, then assumed.
Values == Program(Main(<<
  <<CallOf("v", Fn("klee_get_value_i32"), <<X>>), Cmp("Eq", "c", X, Reg("v")), Do("klee_assume", <<Reg("c")>>), Say(Reg("v")),
    CallOf("s", Fn("klee_is_symbolic"), <<Reg("v")>>), Cast("ZExt", "r", Reg("s"), 1, W), Op("Add", "t", Reg("r"), X), Ret(Reg("t"))>> >>))
Forking == Program(Main(<<
  <<Alloca("p", 2, Const(1)), Cmp("Ult", "c", X, Const(2)), If(Reg("c"), 2, 3)>>,
  <<Do("klee_set_forking", <<Const(0)>>), Cmp("Eq", "d", X, Const(1)), If(Reg("d"), 4, 5)>>,
  <<Cmp("Eq", "d", X, Const(2)), If(Reg("d"), 6, 7)>>,
  <<Do("klee_check_memory_access", <<Reg("p"), Const(2)>>), Ret(X)>>, <<Do("klee_check_memory_access", <<Reg("p"), Const(3)>>), Ret(X)>>,
  <<Do("klee_set_forking", <<X>>), CallOf("q", Fn("malloc"), <<Const(3)>>), CallOf("n", Fn("klee_get_obj_size"), <<Reg("q")>>),
    Do("klee_mark_global", <<Reg("q")>>), Say(Reg("n")), Do("free", <<Reg("q")>>), Ret(X)>>,
  <<Do("klee_assume", <<Const(0)>>), Ret(X)>> >>))
Aliases == Program(
  ("f" :> Fun(7001, <<>>, << <<Ret(Const(1))>> >>)) @@ ("g" :> Fun(7002, <<>>, << <<Ret(Const(2))>> >>)) @@ ("h" :> Fun(7003, <<>>, << <<Ret(Const(3))>> >>))
  @@ Main(<<
  <<Cmp("Ult", "c", X, Const(2)), Do("klee_alias_function", <<Const("g"), Const("h")>>), If(Reg("c"), 2, 3)>>,
  <<Do("klee_alias_function", <<Const("f"), Const("g")>>), Jump(3)>>,
  <<CallOf("r", Fn("f"), <<>>), Say(Reg("r")), Do("klee_alias_function", <<Const("f"), Const("f")>>), CallOf("s", Fn("f"), <<>>), Say(Reg("s")),
    Cmp("Eq", "d", X, Const(3)), If(Reg("d"), 4, 5)>>,
  <<CallOf("w", Fn("free"), <<Const(0)>>), Ret(Reg("w"))>>, <<CallOf("t", Fn("g"), <<>>), Ret(Reg("t"))>> >>))
\* The object keeps what it held, and grows or shrinks or goes.
Resized == Program(Main(<<
  <<Op("And", "y", X, Const(1)), Cmp("Eq", "c", X, Const(3)), Ins("Select", "n", W, <<Reg("c"), Const(3), Reg("y")>>, <<>>, 0), CallOf("p", Fn("calloc"), <<Const(2), Const(1)>>),
    Store(X, Reg("p")), Cmp("Eq", "z", X, Const(2)), Select("q", Reg("z"), Const(0), Reg("p")), CallOf("r", Fn("realloc"), <<Reg("q"), Reg("n")>>),
    Ins("Eq", "e", 1, <<Reg("r"), Const(0)>>, <<>>, P), If(Reg("e"), 2, 3)>>,
  <<CallOf("o", Fn("realloc"), <<Const(0), Const(2)>>), Store(X, Reg("o")), Load("u", Reg("o")), CallOf("s", Fn("realloc"), <<Reg("o"), Const(7)>>),
    Load("w", Reg("o")), Ret(Reg("w"))>>,
  <<Load("v", Reg("r")), Word("r1", Reg("r"), 1), Load("w", Reg("r1")), Op("Add", "t", Reg("v"), Reg("w")), Word("i", Reg("r"), 1),
    CallOf("k", Fn("realloc"), <<Reg("i"), Const(2)>>), Ret(Reg("t"))>> >>))
Failures == Program(Main(<<
  <<SwitchOn(X, <<Const(0), Const(1), Const(2)>>, <<2, 3, 4, 5>>)>>,
  <<CallOf("p", Fn("_Znwm"), <<Const(1)>>), Store(X, Reg("p")), Do("klee_warning", <<Const(0)>>), Do("_ZdlPv", <<Reg("p")>>), Do("__assert_fail", <<>>), Ret(X)>>, <<Do("__ubsan_handle_mul_overflow", <<>>), Ret(X)>>,
  <<CallOf("r", Fn("klee_range"), <<Const(2), Const(2), Const("a")>>), Ret(X)>>, <<Do("klee_silent_exit", <<Const(0)>>), Ret(X)>> >>))

MCPrograms ==
  [phis |-> Exchange, switches |-> Switches, known |-> Known, pointers |-> Pointers, badpointer |-> BadPointer, badcalls |-> BadCalls,
   varargs |-> Varargs, arrays |-> Arrays, heap |-> Heap, returned |-> Returned, sizes |-> Sizes, arithmetic |-> Divisions, overflow |-> Overflow,
   vectors |-> Vectors, floats |-> Floats, givenup |-> GivenUp, ways |-> Ways, bits |-> Bits,
   globals |-> Globals, arguments |-> WithArguments, symbols |-> Symbols, ranges |-> Ranges, values |-> Values, forking |-> Forking,
   aliases |-> Aliases, resized |-> Resized, failures |-> Failures]

MCArrayInput ==
  [a \in {"a", "b_1", "klee_choose"} |-> [x \in Inputs |-> <<x % 2, (x + 1) % 2>>]]
  @@ [a \in {"a_1", "b"} |-> [x \in Inputs |-> <<x \div 2, 0>>]] @@ ("c" :> [x \in Inputs |-> <<x>>])
Plain(program, switchType) ==
  [program |-> program, switchType |-> switchType, writePaths |-> FALSE, stopAfter |-> 0, timeouts |-> 0, replays |-> FALSE,
   signals |-> 0, watchdog |-> FALSE]
MCJobs ==
  {Plain(p, "internal") : p \in DOMAIN MCPrograms} \cup {Plain(p, "simple") : p \in {"switches", "known", "vectors"}}
  \cup {[Plain(p, "internal") EXCEPT !.writePaths = TRUE, !.replays = TRUE] : p \in {"bits", "phis", "arithmetic", "floats", "switches", "returned"}}
  \cup {[Plain("arrays", "internal") EXCEPT !.timeouts = 1], [Plain("bits", "internal") EXCEPT !.timeouts = 1, !.stopAfter = 2]}
  \cup {[Plain("bits", "internal") EXCEPT !.signals = 2, !.writePaths = TRUE], [Plain("bits", "simple") EXCEPT !.signals = 1, !.watchdog = TRUE],
        [Plain("sizes", "internal") EXCEPT !.writePaths = TRUE, !.replays = TRUE]}
MCModule == LET prepared == SetModule IN prepared
=============================================================================
