---------------------------- MODULE Constraints ----------------------------
(***************************************************************************)
(* What a path has been found to require, ConstraintManager, with the      *)
(* visitors it rewrites expressions by, and IndependentSolver, which cuts  *)
(* what it requires into parts that share no byte.                         *)
(***************************************************************************)
EXTENDS Exprs

-----------------------------------------------------------------------------
(* ExprVisitor: operands first, the node is made again if one changed.     *)

RECURSIVE Replace(_, _, _), Simplified(_, _)

Remade(e, kids) == IF kids = e.kids THEN e ELSE Rebuild(e, kids)

\* ExprReplaceVisitor: src becomes dst, before and after its operands are visited.
Instead(e, src, dst) == IF e = src THEN dst ELSE e
Replace(e, src, dst) ==
  IF IsConst(e) THEN e ELSE IF e = src THEN dst
  ELSE Instead(Remade(e, [n \in DOMAIN e.kids |-> Replace(e.kids[n], src, dst)]), src, dst)

\* ExprReplaceVisitor2: what was made again is visited again; then what is known replaces it.
FirstOf(e, hits, known) == IF hits = {} THEN e ELSE known[Min(hits)][2]
KnownAs(e, known) == IF IsConst(e) THEN e ELSE FirstOf(e, {n \in DOMAIN known : known[n][1] = e}, known)
Revisited(e, kids, known) == IF kids = e.kids THEN e ELSE Simplified(Rebuild(e, kids), known)
Simplified(e, known) ==
  IF IsConst(e) THEN e
  ELSE KnownAs(Revisited(e, [n \in DOMAIN e.kids |-> Simplified(e.kids[n], known)], known), known)

-----------------------------------------------------------------------------
(* ConstraintManager                                                       *)

\* simplifyExpr(): an equality with a constant gives its right side that value, anything
\* else is known to be true.
Known(cs) ==
  [n \in DOMAIN cs |-> IF cs[n].k = "Eq" /\ IsConst(Left(cs[n])) THEN <<Right(cs[n]), Left(cs[n])>>
                       ELSE <<cs[n], True>>]
SimplifyExpr(cs, e) == Simplified(e, Known(cs))

RECURSIVE AddInternal(_, _), RewriteConstraints(_, _, _, _)

\* rewriteConstraints(): those that change are added again, to the ones seen so far.
AddAgain(seen, c, e) == IF e = c THEN Append(seen, c) ELSE AddInternal(seen, e)
RewriteConstraints(seen, cs, src, dst) ==
  IF cs = <<>> THEN seen
  ELSE RewriteConstraints(AddAgain(seen, Head(cs), Replace(Head(cs), src, dst)), Tail(cs), src, dst)

\* A false constraint is refused by an assertion; here it stays in the list.
AddInternal(cs, e) ==
  CASE e.k = "Constant" -> IF IsOne(e) THEN cs ELSE Append(cs, e)
    [] e.k = "And"      -> AddInternal(AddInternal(cs, Left(e)), Right(e))
    [] HasConst(e, "Eq") -> Append(RewriteConstraints(<<>>, cs, Right(e), Left(e)), e)
    [] OTHER            -> Append(cs, e)

\* Mutant: the condition is already among what is known when it is simplified.
AddConstraintWrong(cs, e) == AddInternal(cs, SimplifyExpr(Append(cs, e), e))

AddConstraint(cs, e) == AddInternal(cs, SimplifyExpr(cs, e))

-----------------------------------------------------------------------------
(* IndependentElementSet: bytes an expression depends on.                  *)

\* findReads(), with the indices and values of updates.
RECURSIVE ReadsIn(_)
ReadsIn(e) ==
  (IF e.k = "Read" THEN {e} ELSE {})
    \cup UNION {ReadsIn(e.kids[n]) : n \in DOMAIN e.kids}
    \cup UNION {ReadsIn(e.ul[n][1]) \cup ReadsIn(e.ul[n][2]) : n \in DOMAIN e.ul}

\* An array read at an index that is not a constant counts as a whole.
ElementsOf(e) ==
  LET reads == {r \in ReadsIn(e) : ~(IsConstArray(r.root) /\ r.ul = <<>>)}
      whole == {r.root : r \in {s \in reads : ~IsConst(Left(s))}}
  IN  [whole |-> whole, bytes |-> {<<r.root, Left(r).n>> : r \in {s \in reads : s.root \notin whole}}]

ArraysOf(el) == el.whole \cup {b[1] : b \in el.bytes}

\* Mutant: an array read as a whole does not meet single bytes of it.
IntersectsWrong(el, el2) == el.whole \cap el2.whole # {} \/ el.bytes \cap el2.bytes # {}

Intersects(el, el2) ==
  \/ el.whole \cap ArraysOf(el2) # {}
  \/ ArraysOf(el) \cap el2.whole # {}
  \/ el.bytes \cap el2.bytes # {}

Joined(el, el2) ==
  LET whole == el.whole \cup el2.whole
  IN  [whole |-> whole, bytes |-> {b \in el.bytes \cup el2.bytes : b[1] \notin whole}]

-----------------------------------------------------------------------------
(* IndependentSolver                                                       *)

\* getIndependentConstraints(): rounds over the rest, until one adds nothing.
RECURSIVE Required(_, _), Round(_, _)
Round(acc, rest) ==
  IF rest = <<>> THEN acc
  ELSE Round(IF Intersects(ElementsOf(Head(rest)), acc.el)
             THEN [acc EXCEPT !.el = Joined(acc.el, ElementsOf(Head(rest))), !.found = Append(@, Head(rest))]
             ELSE [acc EXCEPT !.rest = Append(@, Head(rest))],
             Tail(rest))

\* `was` has the elements and the rest before the last round.
Required(was, now) ==
  IF was.el = now.el THEN now.found ELSE Required(now, Round([now EXCEPT !.rest = <<>>], now.rest))

IndependentConstraints(cs, query) ==
  LET start == [el |-> ElementsOf(query), found |-> <<>>, rest |-> <<>>]
  IN  Required(start, Round(start, cs))

\* getAllIndependentConstraintsSets(): the first factor takes what it meets, then the next.
RECURSIVE Separate(_, _), Factors(_, _), Meet(_, _, _)

\* <<the first factor, with those of the rest that it met, the others>>.
Meet(now, rest, others) ==
  IF rest = <<>> THEN <<now, others>>
  ELSE IF Intersects(now.el, Head(rest).el)
       THEN Meet([el |-> Joined(now.el, Head(rest).el), exprs |-> now.exprs \o Head(rest).exprs], Tail(rest), others)
       ELSE Meet(now, Tail(rest), Append(others, Head(rest)))

\* done: the factors that took what they meet; met: the next one and what is left.
Separate(done, met) ==
  IF met[2] = <<>> THEN Append(done, met[1])
  ELSE Separate(Append(done, met[1]), Meet(Head(met[2]), Tail(met[2]), <<>>))
SeparateAll(factors) == IF factors = <<>> THEN <<>> ELSE Separate(<<>>, Meet(Head(factors), Tail(factors), <<>>))

Factors(was, now) == IF Len(now) = Len(was) THEN now ELSE Factors(now, SeparateAll(now))

Singly(exprs) == [n \in DOMAIN exprs |-> [el |-> ElementsOf(exprs[n]), exprs |-> <<exprs[n]>>]]
FactorsOf(cs, query) ==
  LET single == Singly((IF IsConst(query) THEN <<>> ELSE <<CreateIsZero(query)>>) \o cs)
  IN  Factors(single, SeparateAll(single))

\* computeInitialValues(): each factor's answer puts its bytes into what earlier ones gave;
\* answers[n] is the solver's for the n-th, an array none asks for is zero.
Zeros(root) == [n \in 1..Arrays[root].size |-> 0]
\* Mutant: a factor's answer replaces all of an array.
InsertAnswerWrong(values, f, answer) ==
  [root \in DOMAIN values \cup ArraysOf(f.el) |-> IF root \in ArraysOf(f.el) THEN answer[root] ELSE values[root]]

WithBytes(old, root, bytes, answer) ==
  [n \in DOMAIN old |-> IF <<root, n - 1>> \in bytes THEN answer[n] ELSE old[n]]

InsertAnswer(values, f, answer) ==
  [root \in DOMAIN values \cup ArraysOf(f.el) |->
     IF root \notin ArraysOf(f.el) THEN values[root]
     ELSE IF root \notin DOMAIN values THEN answer[root]
     ELSE WithBytes(values[root], root, f.el.bytes, answer[root])]

RECURSIVE InsertAll(_, _, _)
InsertAll(values, factors, answers) ==
  IF factors = <<>> THEN values
  ELSE InsertAll(IF ArraysOf(Head(factors).el) = {} THEN values
                 ELSE InsertAnswer(values, Head(factors), Head(answers)), Tail(factors), Tail(answers))

OrZeros(got, roots) == [root \in roots |-> IF root \in DOMAIN got THEN got[root] ELSE Zeros(root)]
InitialValues(factors, answers, roots) == OrZeros(InsertAll(<<>>, factors, answers), roots)
=============================================================================
