--------------------------- MODULE ExprBuilding ---------------------------
(***************************************************************************)
(* An expression grows from a leaf, one operation at a time, in every way  *)
(* the system has of making it: as the interpreter creates it, as each     *)
(* builder of the query parser builds it, and as it was asked for.  All of *)
(* them have to mean the same, for each content of the symbolic arrays,    *)
(* and so have the terms the core solvers are given.                       *)
(***************************************************************************)
EXTENDS ExprBuilders, SolverTerms, ExprRanges

CONSTANTS
  Contents,    \* contents of the symbolic arrays
  Leaves,      \* expressions to start from
  Operands,    \* expressions to combine with, as they are asked for
  Reads,       \* reads, of which the index is filled in
  Ways,        \* [what a step starts from or adds -> how each way makes it]: AllWays
  Operations,  \* the binary operations used
  MaxSteps,    \* operations applied to a leaf (a bound of the model)
  MaxWidth     \* widest value made (a bound of the model)

VARIABLES
  asked,       \* the expression as it was asked for
  created,     \* as Expr.cpp creates it
  folded,      \* as the constant folding builder builds it
  simplified,  \* as the simplifying builder builds it
  steps
vars == <<asked, created, folded, simplified, steps>>

Made(e) == [created |-> Created(e), folded |-> Built("folding", e), simplified |-> Built("simplifying", e)]
Updated == UNION {UNION {{rd.ul[n][1], rd.ul[n][2]} : n \in DOMAIN rd.ul} : rd \in Reads}
AllWays == [e \in Leaves \cup Operands \cup Updated |-> Made(e)]
ASSUME WaysAssumption == Ways = AllWays

-----------------------------------------------------------------------------

Init ==
  /\ asked \in Leaves
  /\ created = Ways[asked].created
  /\ folded = Ways[asked].folded
  /\ simplified = Ways[asked].simplified
  /\ steps = 0

\* A step makes a new node over what was made so far and operands.
Make(node, newCreated, newFolded, newSimplified) ==
  /\ steps < MaxSteps /\ node.w <= MaxWidth
  /\ steps' = steps + 1
  /\ asked' = node
  /\ created' = newCreated
  /\ folded' = newFolded
  /\ simplified' = newSimplified

\* A division by zero, and shifts and quotients of truth values, are not asked for.
Allowed(op, l, r) ==
  /\ l.w = r.w
  /\ op \in Divisions => l.w # Bool /\ IsConst(r) /\ ~IsZero(r)

MakeBinary(op, o) ==
  \/ /\ Allowed(op, asked, o)
     /\ Make(Alloc(op, asked, o), Create(op, created, Ways[o].created),
             Build("folding", op, folded, Ways[o].folded),
             Build("simplifying", op, simplified, Ways[o].simplified))
  \/ /\ Allowed(op, o, asked)
     /\ Make(Alloc(op, o, asked), Create(op, Ways[o].created, created),
             Build("folding", op, Ways[o].folded, folded),
             Build("simplifying", op, Ways[o].simplified, simplified))

MakeNot ==
  Make(AllocNot(asked), CreateNot(created), BuildNot("folding", folded), BuildNot("simplifying", simplified))

\* A cast that does not widen is not asked of the builders.
MakeCast(k, w) ==
  /\ asked.w < w
  /\ Make(AllocCast(k, asked, w), CreateCast(k, created, w),
          BuildCast("folding", k, folded, w), BuildCast("simplifying", k, simplified, w))

MakeExtract(off, w) ==
  /\ off + w <= asked.w
  /\ Make(AllocExtract(asked, off, w), CreateExtract(created, off, w),
          BuildExtract("folding", folded, off, w), BuildExtract("simplifying", simplified, off, w))

MakeConcat(o) ==
  \/ Make(AllocConcat(asked, o), CreateConcat(created, Ways[o].created),
          BuildConcat("folding", folded, Ways[o].folded),
          BuildConcat("simplifying", simplified, Ways[o].simplified))
  \/ Make(AllocConcat(o, asked), CreateConcat(Ways[o].created, created),
          BuildConcat("folding", Ways[o].folded, folded),
          BuildConcat("simplifying", Ways[o].simplified, simplified))

\* What was made is the condition of a choice, or one of its branches.
MakeSelectOn(t, f) ==
  /\ asked.w = Bool /\ t.w = f.w
  /\ Make(AllocSelect(asked, t, f), CreateSelect(created, Ways[t].created, Ways[f].created),
          BuildSelect("folding", folded, Ways[t].folded, Ways[f].folded),
          BuildSelect("simplifying", simplified, Ways[t].simplified, Ways[f].simplified))

MakeBranch(c, o) ==
  /\ c.w = Bool /\ asked.w = o.w
  /\ \/ Make(AllocSelect(c, asked, o), CreateSelect(Ways[c].created, created, Ways[o].created),
             BuildSelect("folding", Ways[c].folded, folded, Ways[o].folded),
             BuildSelect("simplifying", Ways[c].simplified, simplified, Ways[o].simplified))
     \/ Make(AllocSelect(c, o, asked), CreateSelect(Ways[c].created, Ways[o].created, created),
             BuildSelect("folding", Ways[c].folded, Ways[o].folded, folded),
             BuildSelect("simplifying", Ways[c].simplified, Ways[o].simplified, simplified))

\* What was made is the index of a read, or the value of its latest update.
MakeRead(rd) ==
  LET Ul(way) == [n \in DOMAIN rd.ul |-> <<Ways[rd.ul[n][1]][way], Ways[rd.ul[n][2]][way]>>]
  IN  /\ asked.w = IndexW
      /\ Make(AllocRead(rd.root, rd.ul, asked), CreateRead(rd.root, Ul("created"), created),
              BuildRead("folding", rd.root, Ul("folded"), folded),
              BuildRead("simplifying", rd.root, Ul("simplified"), simplified))

Next ==
  \/ \E op \in Operations, o \in Operands : MakeBinary(op, o)
  \/ MakeNot
  \/ \E k \in {"ZExt", "SExt"}, w \in 1..MaxWidth : MakeCast(k, w)
  \/ \E off \in 0..(MaxWidth-1), w \in 1..MaxWidth : MakeExtract(off, w)
  \/ \E o \in Operands : MakeConcat(o)
  \/ \E t, f \in Operands : MakeSelectOn(t, f)
  \/ \E c, o \in Operands : MakeBranch(c, o)
  \/ \E rd \in Reads : MakeRead(rd)

Spec == Init /\ [][Next]_vars

-----------------------------------------------------------------------------
(* Properties                                                              *)

Same(e, f) == e.w = f.w /\ \A a \in Contents : Eval(e, a) = Eval(f, a)

\* What the interpreter creates means what it was asked to create: folding, moving
\* constants about, taking extracts of concats apart, skipping updates and replacing
\* choices of truth values lose nothing.
CreateKeepsMeaning == Same(created, asked)

\* So does what the query parser's builders build, and the simpler one built on it.
BuildersKeepMeaning == Same(folded, asked) /\ Same(simplified, asked)

\* What the core solvers are given means what the expression means, and neither is given
\* a comparison or an operation on truth values that it refuses.  An arithmetic shift by
\* more than the width is left aside: constants fill with the sign, the solvers' terms
\* with zeros, and the module is instrumented against such shifts.
SolversAgree ==
  \A solver \in {"STP", "Z3"}, a \in Contents :
    ~Overshifts(created, a) => Term(solver, created, a) = Eval(created, a)

\* The range the fast counterexample solver computes for an expression holds every value
\* it can have, as long as concats put together single bytes.
RangesHoldTheValues ==
  ConcatsAreOfBytes(created) =>
    LET r == RangeOf(created) IN \A a \in Contents : Eval(created, a) \in r.min..r.max
=============================================================================
