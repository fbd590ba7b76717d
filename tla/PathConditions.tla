-------------------------- MODULE PathConditions --------------------------
(***************************************************************************)
(* A path takes on one condition after another, and asks whether others    *)
(* hold.  The constraint manager keeps what it required in another form;   *)
(* the solvers in front of the core solver answer from a part of it, or    *)
(* without the core solver.                                                *)
(***************************************************************************)
EXTENDS Constraints, FastCex

CONSTANTS
  Contents,        \* contents of the symbolic arrays
  Conditions,      \* truth values the program may branch on
  MaxConditions    \* conditions a path takes on (a bound of the model)

VARIABLES
  assumed,         \* the conditions taken on
  constraints      \* ConstraintManager::constraints
vars == <<assumed, constraints>>

Models(es) == {a \in Contents : \A e \in es : Eval(e, a) = 1}
SymbolicArrays == {root \in DOMAIN Arrays : ~IsConstArray(root)}

-----------------------------------------------------------------------------

Init == assumed = {} /\ constraints = <<>>

\* Executor::addConstraint(), of a condition that can hold.
Assume(c) ==
  /\ Cardinality(assumed) < MaxConditions
  /\ Models(assumed \cup {c}) # {}
  /\ assumed' = assumed \cup {c}
  /\ constraints' = AddConstraint(constraints, c)

Next == \E c \in Conditions \ assumed : Assume(c)
Spec == Init /\ [][Next]_vars

-----------------------------------------------------------------------------
(* Properties                                                              *)

SameOn(models, e, e2) == \A a \in models : Eval(e, a) = Eval(e2, a)

\* However often constraints were rewritten by equalities that came later, what the path
\* requires is what it took on: nothing is lost, nothing false is kept, and a query
\* simplified by them has the value it had wherever they hold.
KeptMeaning(models) ==
  /\ Models(Range(constraints)) = models
  /\ \A n \in DOMAIN constraints : ~IsConst(constraints[n])
  /\ \A q \in Conditions : SameOn(models, SimplifyExpr(constraints, q), q)
ConstraintsKeepMeaning == KeptMeaning(Models(assumed))

\* The constraints that share bytes with a query, directly or through others, decide it as
\* all of them do.
ValuesOn(q, models) == {Eval(q, a) : a \in models}
DecidedBy(required, q, models) ==
  required = Range(constraints) \/ ValuesOn(q, Models(required)) = ValuesOn(q, models)
RequiredAreEnough(models) ==
  \A q \in Conditions : DecidedBy(Range(IndependentConstraints(constraints, q)), q, models)
RequiredDecide == RequiredAreEnough(Models(assumed))

\* The contents whose bytes, read as one number, are least and greatest.
BytesRank(bytes) == FoldFunction(LAMBDA v, r : r * 2^ByteW + v, 0, bytes)
RECURSIVE RankOf(_, _)
RankOf(a, roots) ==
  IF roots = {} THEN 0
  ELSE LET root == CHOOSE r \in roots : TRUE
       IN  BytesRank(a[root]) + 2^(ByteW * Len(a[root])) * RankOf(a, roots \ {root})
WithRanks(models, ranks) == {a \in models : RankOf(a, SymbolicArrays) \in {Min(ranks), Max(ranks)}}
Extremes(models) ==
  IF models = {} THEN {} ELSE WithRanks(models, {RankOf(a, SymbolicArrays) : a \in models})

\* Whichever answer the solver gives for each factor, the least or the greatest, the bytes
\* put together satisfy the constraints and refute the query; and each factor has an
\* answer just if the query can be refuted.
Combinations(picks) ==
  {f \in [DOMAIN picks -> UNION Range(picks)] : \A n \in DOMAIN picks : f[n] \in picks[n]}
Combine(factors, picks, refuting) ==
  /\ ({} \notin Range(picks)) <=> refuting # {}
  /\ refuting # {} => \A answers \in Combinations(picks) : InitialValues(factors, answers, SymbolicArrays) \in refuting
CombineToRefute(factors, refuting) ==
  Combine(factors, [n \in DOMAIN factors |-> Extremes(Models(Range(factors[n].exprs)))], refuting)
FactorsCombineOn(models) ==
  \A q \in Conditions : CombineToRefute(FactorsOf(constraints, q), {a \in models : Eval(q, a) = 0})
FactorsCombine == FactorsCombineOn(Models(assumed))

\* Where the fast solver answers without the core solver it is right: what it proves holds
\* on the path, the bytes it gives refute the query, a value it gives can be had.  Left
\* aside are answers it would have given had no assertion of its own failed.
Refuted(q, models, values) == values \in models /\ Eval(q, values) = 0
TruthIsRight(q, models, truth, cd) ==
  /\ truth = "valid" => \A a \in models : Eval(q, a) = 1
  /\ truth = "invalid" => Refuted(q, models, [root \in SymbolicArrays |-> FastValues(cd, root)])
ValueIsRight(s, q, models, cd) == FastValue(constraints, s, cd) \subseteq ValuesOn(q, models)
TruthFrom(s, q, models, cd) == TruthIsRight(q, models, FastTruth(constraints, s, cd), cd)
FastIsRight(s, q, models) ==
  IsConst(s) \/ /\ TruthFrom(s, q, models, Propagated(constraints, s, TRUE))
                /\ ValueIsRight(s, q, models, Propagated(constraints, s, FALSE))
FastIsRightOn(models) == \A q \in Conditions : FastIsRight(SimplifyExpr(constraints, q), q, models)
FastAnswersRight == FastIsRightOn(Models(assumed))
=============================================================================
