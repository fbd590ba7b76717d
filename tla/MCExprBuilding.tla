--------------------------- MODULE MCExprBuilding ---------------------------
EXTENDS ExprBuilding

\* Two symbolic bytes of two bits each, and a constant array.
MCArrays == ("x" :> [size |-> 2, values |-> <<>>]) @@ ("t" :> [size |-> 4, values |-> <<3, 0, 2, 2>>])
MCContents == {"x" :> v : v \in [1..2 -> 0..3]}

X(n) == AllocRead("x", <<>>, Const(n, 2))
Byte(v) == Const(v, 2)
Both == AllocConcat(X(1), X(0))

MCLeaves == {X(0), Both}
MCOperands ==
  {X(1), Byte(0), Byte(1), Alloc("Add", Byte(1), X(1)), Alloc("Sub", Byte(2), X(1))}
  \cup {Alloc("Ult", X(0), X(1)), Alloc("Eq", Byte(1), X(1)), False}
  \cup {Const(v, 4) : v \in {0, 11}}

\* Reads of the table, of a symbolic array, and through updates at known and unknown indices.
MCReads ==
  {AllocRead("t", <<>>, Byte(0)),
   AllocRead("t", <<<<X(1), Byte(1)>>, <<Byte(2), X(0)>>>>, Byte(0)),
   AllocRead("x", <<<<Byte(1), Byte(2)>>, <<Byte(0), X(1)>>>>, Byte(0))}

MCWays == LET made == AllWays IN made
MCOperations == Arith \cup Compare
=============================================================================
