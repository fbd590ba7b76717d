------------------------------- MODULE Exprs -------------------------------
(***************************************************************************)
(* lib/Expr: bit vector expressions, what they mean, and the functions     *)
(* that create them: Expr.cpp's create(), which the interpreter uses, and  *)
(* the builders of ExprBuilder.cpp, which the query parser uses.  Both     *)
(* fold constants and rearrange what they are given.                       *)
(*                                                                         *)
(* An expression is a tree [k, w, n, kids, root, ul]: its kind, its width, *)
(* a constant's value or an extract's offset, its operands, and for a read *)
(* the array and the updates in front of it, the latest first.             *)
(***************************************************************************)
EXTENDS Integers, Sequences, FiniteSets, FiniteSetsExt, SequencesExt, Bitwise

CONSTANTS
  ByteW, IndexW,  \* widths of what is read and of where (8 and 32)
  Arrays          \* [name -> [size, values]]; no values: the array is symbolic

ASSUME WidthsAssumption == ByteW \in Nat \ {0} /\ IndexW \in Nat \ {0}

Bool == 1

-----------------------------------------------------------------------------
(* Constants: llvm's APInt; an arithmetic shift by too much fills with the *)
(* sign.                                                                   *)

Wrap(v, w) == v % 2^w
Signed(v, w) == IF v >= 2^(w-1) THEN v - 2^w ELSE v
AllOnes(w) == 2^w - 1
AbsVal(v) == IF v < 0 THEN -v ELSE v
Truth(b) == IF b THEN 1 ELSE 0

\* Division towards zero.
Quot(a, b) == IF (a < 0) = (b < 0) THEN AbsVal(a) \div AbsVal(b) ELSE -(AbsVal(a) \div AbsVal(b))
AShr(a, b, w) == Wrap(Signed(a, w) \div 2^(Min({b, w})), w)

Arith == {"Add", "Sub", "Mul", "UDiv", "SDiv", "URem", "SRem", "And", "Or", "Xor", "Shl", "LShr", "AShr"}
Compare == {"Eq", "Ne", "Ult", "Ule", "Ugt", "Uge", "Slt", "Sle", "Sgt", "Sge"}
Divisions == {"UDiv", "SDiv", "URem", "SRem"}

ArithValue(op, a, b, w) ==
  CASE op = "Add"  -> Wrap(a + b, w)
    [] op = "Sub"  -> Wrap(a - b, w)
    [] op = "Mul"  -> Wrap(a * b, w)
    [] op = "UDiv" -> a \div b
    [] op = "URem" -> a % b
    [] op = "SDiv" -> Wrap(Quot(Signed(a, w), Signed(b, w)), w)
    [] op = "SRem" -> Wrap(Signed(a, w) - Signed(b, w) * Quot(Signed(a, w), Signed(b, w)), w)
    [] op = "And"  -> a & b
    [] op = "Or"   -> a | b
    [] op = "Xor"  -> a ^^ b
    [] op = "Shl"  -> IF b >= w THEN 0 ELSE Wrap(a * 2^b, w)
    [] op = "LShr" -> IF b >= w THEN 0 ELSE a \div 2^b
    [] op = "AShr" -> AShr(a, b, w)

CompareValue(op, a, b, w) ==
  Truth(CASE op = "Eq"  -> a = b
          [] op = "Ne"  -> a # b
          [] op = "Ult" -> a < b
          [] op = "Ule" -> a <= b
          [] op = "Ugt" -> a > b
          [] op = "Uge" -> a >= b
          [] op = "Slt" -> Signed(a, w) < Signed(b, w)
          [] op = "Sle" -> Signed(a, w) <= Signed(b, w)
          [] op = "Sgt" -> Signed(a, w) > Signed(b, w)
          [] op = "Sge" -> Signed(a, w) >= Signed(b, w))

BinaryValue(op, a, b, w) == IF op \in Arith THEN ArithValue(op, a, b, w) ELSE CompareValue(op, a, b, w)
ExtractValue(v, off, w) == Wrap(v \div 2^off, w)
ConcatValue(a, b, wb) == a * 2^wb + b
SExtValue(v, from, w) == Wrap(Signed(v, from), w)

-----------------------------------------------------------------------------
(* Trees.                                                                  *)

Node(k, w, n, kids) == [k |-> k, w |-> w, n |-> n, kids |-> kids, root |-> "", ul |-> <<>>]
Const(v, w) == Node("Constant", w, v, <<>>)
Alloc(op, l, r) == Node(op, IF op \in Compare THEN Bool ELSE l.w, 0, <<l, r>>)
AllocConcat(l, r) == Node("Concat", l.w + r.w, 0, <<l, r>>)
AllocExtract(e, off, w) == Node("Extract", w, off, <<e>>)
AllocCast(k, e, w) == Node(k, w, 0, <<e>>)
AllocNot(e) == Node("Not", e.w, 0, <<e>>)
AllocSelect(c, t, f) == Node("Select", t.w, 0, <<c, t, f>>)
AllocRead(root, ul, index) ==
  [Node("Read", ByteW, 0, <<index>>) EXCEPT !.root = root, !.ul = ul]

IsConst(e) == e.k = "Constant"
IsZero(e) == IsConst(e) /\ e.n = 0
IsOne(e) == IsConst(e) /\ e.n = 1
IsAllOnes(e) == IsConst(e) /\ e.n = AllOnes(e.w)
False == Const(0, Bool)
True == Const(1, Bool)
Left(e) == e.kids[1]
Right(e) == e.kids[2]
IsConstArray(root) == Arrays[root].values # <<>>

\* ConstantExpr's own operations.
FoldBinary(op, l, r) == Const(BinaryValue(op, l.n, r.n, l.w), IF op \in Compare THEN Bool ELSE l.w)
FoldExtract(c, off, w) == Const(ExtractValue(c.n, off, w), w)
FoldConcat(l, r) == Const(ConcatValue(l.n, r.n, r.w), l.w + r.w)
FoldZExt(c, w) == Const(Wrap(c.n, w), w)
FoldSExt(c, w) == Const(SExtValue(c.n, c.w, w), w)
FoldNot(c) == Const(AllOnes(c.w) - c.n, c.w)

-----------------------------------------------------------------------------
(* What an expression means when the symbolic arrays hold `a`: a read      *)
(* sees the latest update of its index.                                    *)

RECURSIVE Eval(_, _), ReadThrough(_, _, _, _)
ReadThrough(root, ul, i, a) ==
  IF ul = <<>>
  THEN LET values == IF IsConstArray(root) THEN Arrays[root].values ELSE a[root]
       IN  IF i < Arrays[root].size THEN values[i + 1] ELSE 0
  ELSE IF Eval(ul[1][1], a) = i THEN Eval(ul[1][2], a) ELSE ReadThrough(root, Tail(ul), i, a)

Eval(e, a) ==
  CASE e.k = "Constant" -> e.n
    [] e.k = "Read"     -> ReadThrough(e.root, e.ul, Eval(e.kids[1], a), a)
    [] e.k = "Select"   -> IF Eval(e.kids[1], a) = 1 THEN Eval(e.kids[2], a) ELSE Eval(e.kids[3], a)
    [] e.k = "Concat"   -> ConcatValue(Eval(Left(e), a), Eval(Right(e), a), Right(e).w)
    [] e.k = "Extract"  -> ExtractValue(Eval(Left(e), a), e.n, e.w)
    [] e.k = "ZExt"     -> Wrap(Eval(Left(e), a), e.w)
    [] e.k = "SExt"     -> SExtValue(Eval(Left(e), a), Left(e).w, e.w)
    [] e.k = "Not"      -> AllOnes(e.w) - Eval(Left(e), a)
    [] OTHER            -> BinaryValue(e.k, Eval(Left(e), a), Eval(Right(e), a), Left(e).w)

\* Does an arithmetic shift in e shift by its width or more?
RECURSIVE Overshifts(_, _)
Overshifts(e, a) ==
  \/ e.k = "AShr" /\ Eval(Right(e), a) >= e.w
  \/ \E n \in DOMAIN e.kids : Overshifts(e.kids[n], a)
  \/ \E n \in DOMAIN e.ul : Overshifts(e.ul[n][1], a) \/ Overshifts(e.ul[n][2], a)

-----------------------------------------------------------------------------
(* Expr.cpp: create().  Constants end up on the left of additions,         *)
(* subtractions and comparisons, and on the right of and and or.           *)

RECURSIVE Create(_, _, _), EqPartialR(_, _), CreateExtract(_, _, _)

CreateIsZero(e) == Create("Eq", e, Const(0, e.w))
CreateNot(e) == IF IsConst(e) THEN FoldNot(e) ELSE AllocNot(e)

CreateConcat(l, r) ==
  IF IsConst(l) /\ IsConst(r) THEN FoldConcat(l, r)
  ELSE IF /\ l.k = "Extract" /\ r.k = "Extract"
          /\ Left(l) = Left(r) /\ r.n + r.w = l.n
       THEN CreateExtract(Left(l), r.n, l.w + r.w)
  ELSE AllocConcat(l, r)

CreateExtract(e, off, w) ==
  IF w = e.w THEN e
  ELSE IF IsConst(e) THEN FoldExtract(e, off, w)
  ELSE IF e.k # "Concat" THEN AllocExtract(e, off, w)
  ELSE LET rw == Right(e).w
       IN  IF off >= rw THEN CreateExtract(Left(e), off - rw, w)
           ELSE IF off + w <= rw THEN CreateExtract(Right(e), off, w)
           ELSE CreateConcat(CreateExtract(Left(e), 0, w - rw + off),
                             CreateExtract(Right(e), off, rw - off))

\* ConcatExpr::createN(), create4(), create8(): nested to the right.
CreateConcatN(kids) ==
  FoldRight(LAMBDA kid, r : CreateConcat(kid, r), Front(kids), Last(kids))

CreateCast(k, e, w) ==
  IF w = e.w THEN e
  ELSE IF w < e.w THEN CreateExtract(e, 0, w)
  ELSE IF IsConst(e) THEN (IF k = "ZExt" THEN FoldZExt(e, w) ELSE FoldSExt(e, w))
  ELSE AllocCast(k, e, w)

CreateSelect(c, t, f) ==
  IF IsConst(c) THEN (IF IsOne(c) THEN t ELSE f)
  ELSE IF t = f THEN t
  ELSE IF t.w = Bool /\ (IsConst(t) \/ IsConst(f))
       THEN LET one == IsOne(IF IsConst(t) THEN t ELSE f)
            IN  Create(IF one THEN "Or" ELSE "And", IF one = IsConst(t) THEN c ELSE CreateIsZero(c),
                       IF IsConst(t) THEN f ELSE t)
  ELSE AllocSelect(c, t, f)

\* How many of the updates the search for a constant index may skip over.
Skipped(conds) ==
  LET undecided == {n \in DOMAIN conds : ~IsZero(conds[n])}
  IN  IF undecided = {} THEN Len(conds) ELSE Min(undecided) - 1

ReadUnder(root, ul, index, conds) ==
  LET n == Skipped(conds)
  IN  IF n < Len(ul) /\ IsOne(conds[n + 1]) THEN ul[n + 1][2]
      ELSE IF n = Len(ul) /\ IsConstArray(root) /\ IsConst(index) /\ index.n < Arrays[root].size
           THEN Const(Arrays[root].values[index.n + 1], ByteW)
      ELSE AllocRead(root, ul, index)

CreateRead(root, ul, index) ==
  ReadUnder(root, ul, index, [n \in DOMAIN ul |-> Create("Eq", index, ul[n][1])])

HasConst(e, op) == e.k = op /\ IsConst(Left(e))

XorPartialR(c, r) ==
  IF IsZero(c) THEN r
  ELSE IF c.w = Bool THEN EqPartialR(False, r)
  ELSE Alloc("Xor", c, r)

AddPartialR(c, r) ==
  IF c.w = Bool THEN XorPartialR(c, r)
  ELSE IF IsZero(c) THEN r
  ELSE IF HasConst(r, "Add") THEN Create("Add", Create("Add", c, Left(r)), Right(r))
  ELSE IF HasConst(r, "Sub") THEN Create("Sub", Create("Add", c, Left(r)), Right(r))
  ELSE Alloc("Add", c, r)

AddCreate(l, r) ==
  IF l.w = Bool THEN Alloc("Xor", l, r)
  ELSE IF HasConst(l, "Add") THEN Create("Add", Left(l), Create("Add", Right(l), r))
  ELSE IF HasConst(l, "Sub") THEN Create("Add", Left(l), Create("Sub", r, Right(l)))
  ELSE IF HasConst(r, "Add") THEN Create("Add", Left(r), Create("Add", l, Right(r)))
  ELSE IF HasConst(r, "Sub") THEN Create("Add", Left(r), Create("Sub", l, Right(r)))
  ELSE Alloc("Add", l, r)

SubPartialR(c, r) ==
  IF c.w = Bool THEN XorPartialR(c, r)
  ELSE IF HasConst(r, "Add") THEN Create("Sub", Create("Sub", c, Left(r)), Right(r))
  ELSE IF HasConst(r, "Sub") THEN Create("Add", Create("Sub", c, Left(r)), Right(r))
  ELSE Alloc("Sub", c, r)

\* Mutant: an inner subtraction is taken for an addition.
SubCreateWrong(l, r) ==
  IF HasConst(l, "Sub") THEN Create("Sub", Left(l), Create("Sub", Right(l), r)) ELSE Alloc("Sub", l, r)

SubCreate(l, r) ==
  IF l.w = Bool THEN Alloc("Xor", l, r)
  ELSE IF l = r THEN Const(0, l.w)
  ELSE IF HasConst(l, "Add") THEN Create("Add", Left(l), Create("Sub", Right(l), r))
  ELSE IF HasConst(l, "Sub") THEN Create("Sub", Left(l), Create("Add", Right(l), r))
  ELSE IF HasConst(r, "Add") THEN Create("Sub", Create("Sub", l, Right(r)), Left(r))
  ELSE IF HasConst(r, "Sub") THEN Create("Sub", Create("Add", l, Right(r)), Left(r))
  ELSE Alloc("Sub", l, r)

AndPartial(l, c) == IF IsAllOnes(c) THEN l ELSE IF IsZero(c) THEN c ELSE Alloc("And", l, c)
OrPartial(l, c) == IF IsAllOnes(c) THEN c ELSE IF IsZero(c) THEN l ELSE Alloc("Or", l, c)
MulPartialR(c, r) ==
  IF c.w = Bool THEN AndPartial(r, c)
  ELSE IF IsOne(c) THEN r
  ELSE IF IsZero(c) THEN c
  ELSE Alloc("Mul", c, r)

\* One operand, c, is a constant; it was on the left if `left`.
CreatePartial(op, c, e, left) ==
  CASE op = "Add" -> AddPartialR(c, e)
    [] op = "Sub" -> IF left THEN SubPartialR(c, e) ELSE AddPartialR(FoldBinary("Sub", Const(0, c.w), c), e)
    [] op = "Mul" -> MulPartialR(c, e)
    [] op = "And" -> AndPartial(e, c)
    [] op = "Or"  -> OrPartial(e, c)
    [] op = "Xor" -> XorPartialR(c, e)
    [] op = "Eq"  -> EqPartialR(c, e)

\* Neither operand is a constant, or the operation does not care.
CreateBoolean(op, l, r) ==
  CASE op \in {"UDiv", "SDiv", "AShr"} -> l
    [] op \in {"URem", "SRem"}         -> False
    [] op \in {"Shl", "LShr", "Slt"}   -> Create("And", l, CreateIsZero(r))
    [] op = "Ult"                      -> Create("And", CreateIsZero(l), r)
    [] op = "Ule"                      -> Create("Or", CreateIsZero(l), r)
    [] op = "Sle"                      -> Create("Or", l, CreateIsZero(r))
    [] op = "Mul"                      -> Alloc("And", l, r)
    [] OTHER                           -> Alloc(op, l, r)

CreateGeneral(op, l, r) ==
  CASE op = "Add"                        -> AddCreate(l, r)
    [] op = "Sub"                        -> SubCreate(l, r)
    [] op = "Eq"                         -> IF l = r THEN True ELSE Alloc("Eq", l, r)
    [] op \notin {"Add", "Sub", "Eq"}    -> IF l.w = Bool THEN CreateBoolean(op, l, r) ELSE Alloc(op, l, r)

EqPartialR(c, r) ==
  LET Undone(k) == IF k = "SExt" THEN FoldSExt(FoldZExt(c, Left(r).w), c.w)
                   ELSE FoldZExt(FoldZExt(c, Left(r).w), c.w)
  IN  CASE c.w = Bool /\ IsOne(c) -> r
        [] c.w = Bool /\ IsZero(c) /\ r.k = "Eq" /\ Left(r) = False -> Right(r)
        [] c.w = Bool /\ IsZero(c) /\ r.k = "Or" -> Create("And", CreateIsZero(Left(r)), CreateIsZero(Right(r)))
        [] c.w # Bool /\ r.k \in {"SExt", "ZExt"} ->
             IF Undone(r.k) = c THEN Create("Eq", Left(r), FoldZExt(c, Left(r).w)) ELSE False
        [] c.w # Bool /\ HasConst(r, "Add") -> EqPartialR(Create("Sub", c, Left(r)), Right(r))
        [] c.w # Bool /\ HasConst(r, "Sub") -> EqPartialR(Create("Sub", Left(r), c), Right(r))
        [] OTHER -> IF c = r THEN True ELSE Alloc("Eq", c, r)

Create(op, l, r) ==
  CASE op = "Ne"                   -> Create("Eq", False, Create("Eq", l, r))
    [] op \in {"Ugt", "Uge", "Sgt", "Sge"} ->
         Create(CASE op = "Ugt" -> "Ult" [] op = "Uge" -> "Ule" [] op = "Sgt" -> "Slt" [] op = "Sge" -> "Sle", r, l)
    [] op \notin {"Ne", "Ugt", "Uge", "Sgt", "Sge"} ->
         IF IsConst(l) /\ IsConst(r) THEN FoldBinary(op, l, r)
         ELSE IF op \in {"Add", "Sub", "Mul", "And", "Or", "Xor", "Eq"} /\ (IsConst(l) \/ IsConst(r))
              THEN CreatePartial(op, IF IsConst(l) THEN l ELSE r, IF IsConst(l) THEN r ELSE l, IsConst(l))
         ELSE CreateGeneral(op, l, r)

\* rebuild(): a node like e over other operands.
Rebuild(e, kids) ==
  CASE e.k = "Read"    -> CreateRead(e.root, e.ul, kids[1])
    [] e.k = "Select"  -> CreateSelect(kids[1], kids[2], kids[3])
    [] e.k = "Concat"  -> CreateConcat(kids[1], kids[2])
    [] e.k = "Extract" -> CreateExtract(kids[1], e.n, e.w)
    [] e.k \in {"ZExt", "SExt"} -> CreateCast(e.k, kids[1], e.w)
    [] e.k = "Not"     -> CreateNot(kids[1])
    [] OTHER           -> Create(e.k, kids[1], kids[2])

\* An expression created from the leaves up.
RECURSIVE Created(_)
Created(e) ==
  LET kids == [n \in DOMAIN e.kids |-> Created(e.kids[n])]
      ul == [n \in DOMAIN e.ul |-> <<Created(e.ul[n][1]), Created(e.ul[n][2])>>]
  IN  IF IsConst(e) THEN e ELSE Rebuild([e EXCEPT !.ul = ul], kids)
=============================================================================
