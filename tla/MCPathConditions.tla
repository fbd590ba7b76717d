-------------------------- MODULE MCPathConditions --------------------------
EXTENDS PathConditions

\* Two symbolic arrays, of two bytes of two bits and of one, and a constant one.
MCArrays ==
  ("x" :> [size |-> 2, values |-> <<>>]) @@ ("y" :> [size |-> 1, values |-> <<>>])
    @@ ("t" :> [size |-> 4, values |-> <<3, 0, 2, 2>>])
MCContents == {("x" :> v) @@ ("y" :> <<u>>) : v \in [1..2 -> 0..3], u \in 0..3}

Byte(v) == Const(v, 2)
X(n) == AllocRead("x", <<>>, Byte(n))
Y == AllocRead("y", <<>>, Byte(0))
Both == AllocConcat(X(1), X(0))

\* A read of the first byte after an unknown one was written.
Through == AllocRead("x", <<<<Y, Byte(2)>>>>, Byte(0))

MCConditions ==
  LET conditions == {Created(e) : e \in
  {Alloc("Eq", X(0), Byte(1)),
   Alloc("Ult", X(0), X(1)),
   Alloc("Ule", Byte(2), X(1)),
   Alloc("Or", Alloc("Eq", X(0), Byte(0)), Alloc("Eq", Y, Byte(3))),
   Alloc("And", Alloc("Ugt", X(0), Byte(1)), Alloc("Ne", Y, X(1))),
   Alloc("Eq", Both, Const(6, 4)),
   Alloc("Ult", Alloc("Add", Byte(1), X(0)), Byte(3)),
   Alloc("Eq", Alloc("Add", X(0), X(1)), Byte(2)),
   Alloc("Eq", Through, Byte(2)),
   Alloc("And", Alloc("Ult", Y, Byte(2)), Alloc("Eq", AllocRead("x", <<>>, Y), Byte(3))),
   Alloc("Ne", AllocRead("t", <<>>, X(0)), Byte(2)),
   Alloc("Slt", AllocCast("SExt", X(0), 4), AllocCast("ZExt", Y, 4)),
   AllocNot(Alloc("Eq", X(1), Byte(3))),
   Alloc("Eq", AllocSelect(Alloc("Ult", Y, Byte(1)), X(0), X(1)), Byte(1))}}
  IN  conditions
=============================================================================
