--------------------------- MODULE ExprBuilders ---------------------------
(***************************************************************************)
(* lib/Expr/ExprBuilder.cpp: the builders the query parser chains: one     *)
(* that takes everything as it is ("default"), one on top of it that folds *)
(* constants ("folding"), one on top of that that simplifies comparisons   *)
(* ("simplifying").                                                        *)
(***************************************************************************)
EXTENDS Exprs

RECURSIVE Build(_, _, _, _), BuildNot(_, _)

\* ChainedBuilder: what a builder does not handle goes to the one below.
Base(level) == IF level = "simplifying" THEN "folding" ELSE "default"

FBuild(op, l, r) == Build("folding", op, l, r)
FNeg(c) == Const(Wrap(-c.n, c.w), c.w)
HasRightConst(e, op) == e.k = op /\ IsConst(Right(e))

\* ConstantFoldingBuilder, a constant on the left.
FoldAddConst(c, x) ==
  CASE IsZero(c)               -> x
    [] HasConst(x, "Add")      -> FBuild("Add", FoldBinary("Add", c, Left(x)), Right(x))
    [] HasRightConst(x, "Add") -> FBuild("Add", FoldBinary("Add", c, Right(x)), Left(x))
    [] HasConst(x, "Sub")      -> FBuild("Sub", FoldBinary("Add", c, Left(x)), Right(x))
    [] HasRightConst(x, "Sub") -> FBuild("Add", FoldBinary("Sub", c, Right(x)), Left(x))
    [] OTHER                   -> Alloc("Add", c, x)

\* Mutant: an inner difference is taken for a sum.
FoldSubConstWrong(c, x) ==
  IF HasConst(x, "Sub") THEN FBuild("Sub", FoldBinary("Sub", c, Left(x)), Right(x)) ELSE Alloc("Sub", c, x)

FoldSubConst(c, x) ==
  CASE HasConst(x, "Add")      -> FBuild("Sub", FoldBinary("Sub", c, Left(x)), Right(x))
    [] HasRightConst(x, "Add") -> FBuild("Sub", FoldBinary("Sub", c, Right(x)), Left(x))
    [] HasConst(x, "Sub")      -> FBuild("Add", FoldBinary("Sub", c, Left(x)), Right(x))
    [] HasRightConst(x, "Sub") -> FBuild("Sub", FoldBinary("Add", c, Right(x)), Left(x))
    [] OTHER                   -> Alloc("Sub", c, x)

\* No constants: nested sums and differences lean to the right, constants to the left.
FoldAdd(l, r) ==
  CASE l.k = "Add"             -> FBuild("Add", Left(l), FBuild("Add", Right(l), r))
    [] l.k = "Sub"             -> FBuild("Add", Left(l), FBuild("Sub", r, Right(l)))
    [] l.k \notin {"Add", "Sub"} ->
         CASE HasConst(r, "Add")      -> FBuild("Add", Left(r), FBuild("Add", l, Right(r)))
           [] HasRightConst(r, "Add") -> FBuild("Add", Right(r), FBuild("Add", l, Left(r)))
           [] HasConst(r, "Sub")      -> FBuild("Add", Left(r), FBuild("Sub", l, Right(r)))
           [] HasRightConst(r, "Sub") -> FBuild("Add", FNeg(Right(r)), FBuild("Add", l, Left(r)))
           [] OTHER                   -> Alloc("Add", l, r)

FoldSub(l, r) ==
  CASE l.k = "Add"             -> FBuild("Add", Left(l), FBuild("Sub", Right(l), r))
    [] l.k = "Sub"             -> FBuild("Sub", Left(l), FBuild("Add", Right(l), r))
    [] l.k \notin {"Add", "Sub"} ->
         CASE HasConst(r, "Add")      -> FBuild("Add", FNeg(Left(r)), FBuild("Sub", l, Right(r)))
           [] HasRightConst(r, "Add") -> FBuild("Add", FNeg(Right(r)), FBuild("Sub", l, Left(r)))
           [] HasConst(r, "Sub")      -> FBuild("Add", FNeg(Left(r)), FBuild("Add", l, Right(r)))
           [] HasRightConst(r, "Sub") -> FBuild("Add", Right(r), FBuild("Sub", l, Left(r)))
           [] OTHER                   -> Alloc("Sub", l, r)

\* A constant and something else, for the operations with which the order does not matter.
FoldWithConst(op, c, x) ==
  CASE op = "Add" -> FoldAddConst(c, x)
    [] op = "Mul" -> IF IsZero(c) THEN c ELSE IF IsOne(c) THEN x ELSE Alloc("Mul", c, x)
    [] op = "And" -> IF IsZero(c) THEN c ELSE IF IsAllOnes(c) THEN x ELSE Alloc("And", c, x)
    [] op = "Or"  -> IF IsZero(c) THEN x ELSE IF IsAllOnes(c) THEN c ELSE Alloc("Or", c, x)
    [] op = "Xor" -> IF IsZero(c) THEN x ELSE Alloc("Xor", c, x)
    [] op = "Eq"  -> IF c.w # Bool THEN Alloc("Eq", c, x) ELSE IF IsOne(c) THEN x ELSE AllocNot(x)

FoldingBuilder(op, l, r) ==
  CASE op = "Sub" -> IF IsConst(l) THEN FoldSubConst(l, r)
                     ELSE IF IsConst(r) THEN FoldAddConst(FNeg(r), l) ELSE FoldSub(l, r)
    [] op = "Add" /\ ~IsConst(l) /\ ~IsConst(r) -> FoldAdd(l, r)
    [] op \in {"Add", "Mul", "And", "Or", "Xor", "Eq"} /\ (IsConst(l) \/ IsConst(r)) ->
         IF IsConst(l) THEN FoldWithConst(op, l, r) ELSE FoldWithConst(op, r, l)
    [] OTHER -> Alloc(op, l, r)

\* SimplifyingBuilder
SimplifyingBuilder(op, l, r) ==
  CASE op = "Ne"  -> BuildNot("simplifying", Build("simplifying", "Eq", l, r))
    [] op = "Ugt" -> Build("simplifying", "Ult", r, l)
    [] op = "Uge" -> Build("simplifying", "Ule", r, l)
    [] op = "Sgt" -> Build("simplifying", "Slt", r, l)
    [] op = "Sge" -> Build("simplifying", "Sle", r, l)
    [] op = "Eq" /\ l.w = Bool /\ IsConst(l) -> IF IsOne(l) THEN r ELSE BuildNot("folding", r)
    [] op = "Eq" /\ l.w = Bool /\ IsConst(r) -> IF IsOne(r) THEN l ELSE BuildNot("folding", l)
    [] op = "Eq" /\ IsConst(r) -> FBuild("Eq", r, l)
    [] op = "Eq" /\ ~IsConst(l) /\ l = r -> True
    [] OTHER -> FBuild(op, l, r)

\* ConstantSpecializedExprBuilder: two constants are folded, whoever builds.
Build(level, op, l, r) ==
  IF level = "default" THEN Alloc(op, l, r)
  ELSE IF IsConst(l) /\ IsConst(r) THEN FoldBinary(op, l, r)
  ELSE IF level = "folding" THEN FoldingBuilder(op, l, r)
  ELSE SimplifyingBuilder(op, l, r)

BuildNot(level, e) ==
  IF level = "default" THEN AllocNot(e)
  ELSE IF e.k = "Not" THEN Left(e)
  ELSE IF IsConst(e) THEN FoldNot(e)
  ELSE IF level = "simplifying" /\ e.k = "Or"
       THEN Build(level, "And", BuildNot(level, Left(e)), BuildNot(level, Right(e)))
  ELSE BuildNot(Base(level), e)

BuildSelect(level, c, t, f) ==
  IF level # "default" /\ IsConst(c) THEN (IF IsOne(c) THEN t ELSE f) ELSE AllocSelect(c, t, f)

BuildConcat(level, l, r) ==
  IF level # "default" /\ IsConst(l) /\ IsConst(r) THEN FoldConcat(l, r) ELSE AllocConcat(l, r)

BuildExtract(level, e, off, w) ==
  IF level # "default" /\ IsConst(e) THEN FoldExtract(e, off, w) ELSE AllocExtract(e, off, w)

BuildCast(level, k, e, w) ==
  IF level # "default" /\ IsConst(e)
  THEN (IF k = "ZExt" THEN FoldZExt(e, w) ELSE FoldSExt(e, w)) ELSE AllocCast(k, e, w)

\* Updates of other indices are skipped, at each level as far as that level sees it.
RECURSIVE BuildRead(_, _, _, _)
BuildRead(level, root, ul, index) ==
  IF level = "default" THEN AllocRead(root, ul, index)
  ELSE IF ul # <<>> /\ IsZero(Build(level, "Eq", index, ul[1][1]))
       THEN BuildRead(level, root, Tail(ul), index)
  ELSE BuildRead(Base(level), root, ul, index)

RebuildAt(level, e, kids) ==
  CASE e.k = "Read"    -> BuildRead(level, e.root, e.ul, kids[1])
    [] e.k = "Select"  -> BuildSelect(level, kids[1], kids[2], kids[3])
    [] e.k = "Concat"  -> BuildConcat(level, kids[1], kids[2])
    [] e.k = "Extract" -> BuildExtract(level, kids[1], e.n, e.w)
    [] e.k \in {"ZExt", "SExt"} -> BuildCast(level, e.k, kids[1], e.w)
    [] e.k = "Not"     -> BuildNot(level, kids[1])
    [] OTHER           -> Build(level, e.k, kids[1], kids[2])

RECURSIVE Built(_, _)
Built(level, e) ==
  LET kids == [n \in DOMAIN e.kids |-> Built(level, e.kids[n])]
      ul == [n \in DOMAIN e.ul |-> <<Built(level, e.ul[n][1]), Built(level, e.ul[n][2])>>]
  IN  IF IsConst(e) THEN e ELSE RebuildAt(level, [e EXCEPT !.ul = ul], kids)
=============================================================================
