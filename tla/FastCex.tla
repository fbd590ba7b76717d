------------------------------ MODULE FastCex ------------------------------
(***************************************************************************)
(* FastCexSolver: from the constraints and the negated query it works out, *)
(* byte by byte, values that may satisfy them and values they force.  What *)
(* it keeps, CexData, is [possible, exact, ok]: a range for each byte of   *)
(* each array, twice, and whether no assertion failed on the way.          *)
(***************************************************************************)
EXTENDS ExprRanges

-----------------------------------------------------------------------------
(* ExprEvaluator: an expression with what is known of the arrays put in;   *)
(* known[root][i] is a set that holds the byte's value, if it is known.    *)

RECURSIVE Evaluate(_, _), EvalRead(_, _, _, _), EvalUpdate(_, _, _, _, _)

\* What an array's byte i can be told to hold when no update was written to it.
Held(root, i, known) ==
  IF i >= Arrays[root].size THEN {}
  ELSE IF IsConstArray(root) THEN {Arrays[root].values[i + 1]} ELSE known[root][i + 1]

NoUpdate(root, i, held) ==
  IF held = {} THEN AllocRead(root, <<>>, Const(i, IndexW)) ELSE Const(CHOOSE v \in held : TRUE, ByteW)

\* The update seen; one at an unknown index is where the search ends.
EvalUpdate(root, ul, i, known, at) ==
  IF ~IsConst(at) THEN CreateRead(root, ul, Const(i, IndexW))
  ELSE IF at.n = i THEN Evaluate(ul[1][2], known) ELSE EvalRead(root, Tail(ul), i, known)

EvalRead(root, ul, i, known) ==
  IF ul = <<>> THEN NoUpdate(root, i, Held(root, i, known))
  ELSE EvalUpdate(root, ul, i, known, Evaluate(ul[1][1], known))

EvaluateNode(e, kids, known) ==
  IF e.k = "Read" /\ IsConst(kids[1]) THEN EvalRead(e.root, e.ul, kids[1].n, known)
  ELSE IF kids = e.kids /\ \E n \in DOMAIN kids : ~IsConst(kids[n]) THEN e ELSE Rebuild(e, kids)

Evaluate(e, known) ==
  IF IsConst(e) THEN e ELSE EvaluateNode(e, [n \in DOMAIN e.kids |-> Evaluate(e.kids[n], known)], known)

-----------------------------------------------------------------------------

NoData == LET all == [root \in DOMAIN Arrays |-> [n \in 1..Arrays[root].size |-> FullRange(ByteW)]]
          IN  [possible |-> all, exact |-> all, ok |-> TRUE]

Abort(cd) == [cd EXCEPT !.ok = FALSE]
SetPossible(cd, root, n, r) == [cd EXCEPT !.possible[root][n] = r]

\* A fixed value replaces what was possible, even if it contradicts it.
NarrowPossible(cd, root, n, r) ==
  LET both == SetIntersection(cd.possible[root][n], r)
  IN  CASE IsFixed(r) -> SetPossible(cd, root, n, Fixed(Wrap(r.min, ByteW)))
        [] ~IsFixed(r) /\ ~IsEmptyRange(both) -> SetPossible(cd, root, n, both)
        [] OTHER -> cd

\* Outputs of a sign extension that no input has.  (The code's 1 << (inBits - 1) is an int,
\* negative for an input of 32 bits; the conditions here have none so wide.)
Unreachable(inW, outW) == Range2(2^(inW-1), AllOnes(outW) - AllOnes(inW-1) - 1)

LessThan(v) == Range2(0, Wrap(v - 1, RangeW))
UpFrom(v, w) == Range2(v, AllOnes(w))

\* What a comparison that is to be `holds` asks of its right side, the left being v, and the
\* other way round.
RightOf(op, v, w, holds) ==
  CASE op = "Ult" /\ holds  -> UpFrom(v + 1, w)
    [] op = "Ult" /\ ~holds -> Range2(0, v)
    [] op = "Ule" /\ holds  -> UpFrom(v, w)
    [] op = "Ule" /\ ~holds -> LessThan(v)
LeftOf(op, v, w, holds) ==
  CASE op = "Ult" /\ holds  -> LessThan(v)
    [] op = "Ult" /\ ~holds -> UpFrom(v, w)
    [] op = "Ule" /\ holds  -> Range2(0, v)
    [] op = "Ule" /\ ~holds -> UpFrom(v + 1, w)

RECURSIVE PropagatePossible(_, _, _)

IsAlready(kid, value) == MustEqual(RangeOf(kid), Fixed(value))
PropagateUnless(already, cd, kid, value) == IF already THEN cd ELSE PropagatePossible(cd, kid, Fixed(value))

\* An and that is to be 1 and an or that is to be 0: both sides are.
PropagateBoth(cd, e, value) ==
  PropagateUnless(IsAlready(Right(e), value),
                  PropagateUnless(IsAlready(Left(e), value), cd, Left(e), value), Right(e), value)

\* Otherwise one side is.  The check whether the left side complied is always against 1.
PropagateOne(cd, e, value) ==
  IF IsAlready(Left(e), value) \/ IsAlready(Right(e), value) THEN cd
  ELSE PropagateUnless(IsAlready(Left(e), 1), PropagatePossible(cd, Left(e), Fixed(value)), Right(e), value)

PropagateCompare(cd, e, l, r, holds) ==
  CASE IsFixed(l) -> PropagatePossible(cd, Right(e), RightOf(e.k, l.min, Right(e).w, holds))
    [] ~IsFixed(l) /\ IsFixed(r) -> PropagatePossible(cd, Left(e), LeftOf(e.k, r.min, Right(e).w, holds))
    [] OTHER -> cd

PropagateSelect(cd, e, c, r) ==
  IF IsFixed(c) THEN PropagatePossible(cd, e.kids[IF c.min = 1 THEN 2 ELSE 3], r)
  ELSE PropagatePossible(PropagatePossible(cd, e.kids[2], r), e.kids[3], r)

\* The parts of a concat take their ranges, both of the right one's width; extract() asserts
\* that there is a range.
PropagateConcat(cd, e, r) ==
  IF IsEmptyRange(r) THEN Abort(cd)
  ELSE PropagatePossible(PropagatePossible(cd, Left(e), RangeExtract(r, Right(e).w, 2 * Right(e).w)),
                         Right(e), RangeExtract(r, 0, Right(e).w))

PropagateSExt(cd, e, r) ==
  IF IsEmptyRange(r) THEN Abort(cd) ELSE PropagatePossible(cd, Left(e), RangeAnd(r, Fixed(AllOnes(Left(e).w))))

PropagateUnlessEmpty(cd, e, r) == IF IsEmptyRange(r) THEN cd ELSE PropagatePossible(cd, e, r)
MovedDown(v, c, w) == Wrap(v - c, w)

\* The values an equality with c leaves the right side: for an inequality, one side of c.
EqRange(c, holds) == IF holds THEN Fixed(c.n) ELSE IF c.n = 0 THEN UpFrom(1, c.w) ELSE Range2(0, c.n - 1)

PropagatePossible(cd, e, r) ==
  CASE e.k = "Read" ->
         IF IsConst(Left(e)) /\ Left(e).n < Arrays[e.root].size
         THEN NarrowPossible(cd, e.root, Left(e).n + 1, r) ELSE cd
    [] e.k = "Select" -> PropagateSelect(cd, e, RangeOf(Left(e)), r)
    [] e.k = "Concat" -> PropagateConcat(cd, e, r)
    [] e.k = "ZExt" -> PropagatePossible(cd, Left(e), SetIntersection(r, FullRange(Left(e).w)))
    [] e.k = "SExt" -> PropagateSExt(cd, e, SetDifference(r, Unreachable(Left(e).w, e.w)))
    [] e.k = "Add" /\ IsConst(Left(e)) /\ ~IsEmptyRange(r) ->
         PropagateUnlessEmpty(cd, Right(e), Range2(MovedDown(r.min, Left(e).n, e.w), MovedDown(r.max, Left(e).n, e.w)))
    [] e.k \in {"And", "Or"} /\ e.w = Bool /\ IsFixed(r) ->
         IF (r.min = 1) = (e.k = "And") THEN PropagateBoth(cd, e, r.min) ELSE PropagateOne(cd, e, r.min)
    [] e.k = "Eq" /\ IsFixed(r) /\ IsConst(Left(e)) ->
         PropagatePossible(cd, Right(e), EqRange(Left(e), r.min # 0))
    [] e.k = "Not" /\ e.w = Bool /\ IsFixed(r) -> PropagatePossible(cd, Left(e), Fixed(Truth(r.min = 0)))
    [] e.k \in {"Ult", "Ule"} /\ IsFixed(r) ->
         PropagateCompare(cd, e, RangeOf(Left(e)), RangeOf(Right(e)), r.min # 0)
    [] OTHER -> cd

-----------------------------------------------------------------------------
(* What is forced.                                                         *)

RECURSIVE PropagateExact(_, _, _), ExactRead(_, _, _, _)

\* The bound asserted: the new value is within what was known.
NarrowExact(cd, root, n, v) ==
  IF v \in cd.exact[root][n].min..cd.exact[root][n].max
  THEN [cd EXCEPT !.exact[root][n] = Fixed(v)] ELSE Abort(cd)

ExactByte(cd, root, index, v) ==
  IF IsFixed(index) /\ ~IsConstArray(root) THEN NarrowExact(cd, root, index.min + 1, v) ELSE cd

\* Mutant: an update that may be the one read does not end the search.
ExactReadWrong(cd, e, ul, v) ==
  IF ul = <<>> THEN ExactByte(cd, e.root, RangeOf(Left(e)), v)
  ELSE IF MustEqual(RangeOf(ul[1][1]), RangeOf(Left(e))) THEN PropagateExact(cd, ul[1][2], v)
  ELSE ExactRead(cd, e, Tail(ul), v)

ExactRead(cd, e, ul, v) ==
  CASE ul = <<>> -> ExactByte(cd, e.root, RangeOf(Left(e)), v)
    [] ul # <<>> /\ ~MayEqual(RangeOf(ul[1][1]), RangeOf(Left(e))) -> ExactRead(cd, e, Tail(ul), v)
    [] OTHER -> IF MustEqual(RangeOf(ul[1][1]), RangeOf(Left(e))) \/ Left(e) = ul[1][1]
                THEN PropagateExact(cd, ul[1][2], v) ELSE cd

PropagateExact(cd, e, v) ==
  CASE e.k = "Read" -> ExactRead(cd, e, e.ul, v)
    [] HasConst(e, "Eq") /\ v # 0 -> PropagateExact(cd, Right(e), Left(e).n)
    [] HasConst(e, "Eq") /\ v = 0 /\ Right(e).w = Bool -> PropagateExact(cd, Right(e), 1 - Left(e).n)
    [] e.k = "Not" /\ e.w = Bool -> PropagateExact(cd, Left(e), Truth(v = 0))
    [] OTHER -> cd

-----------------------------------------------------------------------------
(* FastCexSolver                                                           *)

Middle(r) == Wrap(r.min + (r.max - r.min) \div 2, ByteW)
PossibleValues(cd) == [root \in DOMAIN Arrays |-> [n \in DOMAIN cd.possible[root] |-> {Middle(cd.possible[root][n])}]]
ExactValues(cd) ==
  [root \in DOMAIN Arrays |-> [n \in DOMAIN cd.exact[root] |->
     IF IsFixed(cd.exact[root][n]) THEN {cd.exact[root][n].min} ELSE {}]]

Propagate(cd, e, v) == PropagateExact(PropagatePossible(cd, e, Fixed(v)), e, v)

RECURSIVE PropagateAll(_, _)
PropagateAll(cd, cs) == IF cs = <<>> THEN cd ELSE PropagateAll(Propagate(cd, Head(cs), 1), Tail(cs))

\* propogateValues(): the constraints hold; with checkExpr the query does not.
Propagated(cs, query, checkExpr) ==
  IF checkExpr THEN Propagate(PropagateAll(NoData, cs), query, 0) ELSE PropagateAll(NoData, cs)

Values(es, known) == {Evaluate(es[n], known) : n \in DOMAIN es}

\* Its answer: "valid", "invalid" if the values found satisfy everything, or "unknown".
\* `now` has the query's value under the possible and the exact values if checkExpr.
Decide(cs, cd, now) ==
  CASE True \in now.exact \/ False \in Values(cs, ExactValues(cd)) -> "valid"
    [] now.possible \subseteq {False} /\ Values(cs, PossibleValues(cd)) \subseteq {True} -> "invalid"
    [] OTHER -> "unknown"

\* computeTruth(), cd having been propagated with checkExpr.
FastTruth(cs, query, cd) ==
  IF cd.ok THEN Decide(cs, cd, [possible |-> {Evaluate(query, PossibleValues(cd))},
                                exact |-> {Evaluate(query, ExactValues(cd))}])
  ELSE "aborts"

\* The values it gives the bytes of an array when the query can be false.
FastValues(cd, root) == [n \in 1..Arrays[root].size |-> Middle(cd.possible[root][n])]

\* computeValue(), cd without checkExpr: a value of e, or none.
FastValue(cs, e, cd) ==
  IF cd.ok /\ Decide(cs, cd, [possible |-> {}, exact |-> {}]) = "invalid"
  THEN {v.n : v \in {u \in {Evaluate(e, PossibleValues(cd))} : IsConst(u)}} ELSE {}
=============================================================================
