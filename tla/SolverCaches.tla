---------------------------- MODULE SolverCaches ----------------------------
(***************************************************************************)
(* The two caches between the executor and the SMT solver: CachingSolver   *)
(* (lib/klee/Solver/CachingSolver.cpp) remembers whether a condition must  *)
(* or may hold under some constraints, CexCachingSolver (CexCachingSolver. *)
(* cpp) a satisfying assignment for a set of expressions, or that there is *)
(* none.  Both infer: a condition's answer from its negation's, a set's    *)
(* from those of its subsets and supersets.                                *)
(*                                                                         *)
(* An expression is the set of assignments it holds for: two expressions   *)
(* that mean the same are one here and hit the same entries.  Constraints  *)
(* are satisfiable, as those of an execution state are.  The core solver   *)
(* may find any model and may fail; FastCexSolver, the logging solvers and *)
(* --cex-cache-exp are left out.                                           *)
(***************************************************************************)
EXTENDS Integers, FiniteSets

CONSTANTS
  Assignments, \* values of all symbolic bytes
  Exprs,       \* the boolean expressions of the program
  Canonical,   \* those that compare() puts before their negation
  None,        \* no assignment: unsatisfiable
  MaxEntries   \* bound: entries of both caches together

Neg(e) == Assignments \ e

ASSUME ExprsAssumption ==
  /\ Exprs \subseteq SUBSET Assignments
  /\ \A e \in Exprs : Neg(e) \in Exprs /\ (e \in Canonical <=> Neg(e) \notin Canonical)
  /\ None \notin Assignments
ASSUME BoundAssumption == MaxEntries \in Nat

VARIABLES
  options, \* --cex-cache-try-all, --cex-cache-superset
  cache,   \* CachingSolver::cache
  cex      \* CexCachingSolver: its cache and its assignmentsTable

vars == <<options, cache, cex>>

Models(key) == {a \in Assignments : \A e \in key : a \in e}
Constraints == {C \in SUBSET Exprs : Models(C) # {}}
Validity == {"True", "False", "Unknown"}
PartialValidity == {"MustBeTrue", "MustBeFalse", "MayBeTrue", "MayBeFalse", "TrueOrFalse"}

Init ==
  /\ options \in [tryAll : BOOLEAN, superset : BOOLEAN]
  /\ cache = {}
  /\ cex = [entries |-> {}, table |-> {}]

----------------------------------------------------------------------------
(* CexCachingSolver.                                                       *)
Results(entries) == {e.result : e \in entries}

(* Mutant: an unsatisfiable superset counts as an answer as well.          *)
FromSupersetOrNone(cx, key) ==
  IF options.superset THEN Results({e \in cx.entries : key \subseteq e.key}) ELSE {}

(* findSuperset(key, NonNullAssignment()).                                 *)
FromSuperset(cx, key) ==
  IF options.superset
  THEN Results({e \in cx.entries : key \subseteq e.key}) \ {None}
  ELSE {}

(* findSubset(key, NullAssignment()) or (NullOrSatisfyingAssignment(key)): *)
(* with --cex-cache-try-all the whole table is searched for an assignment. *)
FromSubset(cx, key) ==
  Results({e \in cx.entries : e.key \subseteq key})
    \cap (IF options.tryAll THEN {None} ELSE {None} \cup Models(key))
FromTable(cx, key) == IF options.tryAll THEN cx.table \cap Models(key) ELSE {}

(* searchForAssignment(): what it may find, nothing if it finds nothing.   *)
Search(cx, key) ==
  LET exact == Results({e \in cx.entries : e.key = key})
  IN  CASE exact # {} -> exact
        [] exact = {} /\ FromSuperset(cx, key) # {} -> FromSuperset(cx, key)
        [] exact = {} /\ FromSuperset(cx, key) = {} /\ FromSubset(cx, key) # {} ->
             FromSubset(cx, key)
        [] OTHER -> FromTable(cx, key)

(* The core solver's answer to computeInitialValues(), if it succeeds.     *)
CoreAnswers(key) == IF Models(key) = {} THEN {None} ELSE Models(key)

Remember(cx, key, a) ==
  [entries |-> cx.entries \cup {[key |-> key, result |-> a]},
   table |-> cx.table \cup ({a} \ {None})]

(* getAssignment(): its outcomes.  What the solver fails to answer is not  *)
(* remembered.                                                             *)
GetAssignment(cx, key) ==
  IF Search(cx, key) # {}
  THEN {[ok |-> TRUE, a |-> a, cex |-> cx] : a \in Search(cx, key)}
  ELSE {[ok |-> FALSE, a |-> None, cex |-> cx]}
       \cup {[ok |-> TRUE, a |-> a, cex |-> Remember(cx, key, a)] : a \in CoreAnswers(key)}

(* CexCachingSolver::computeTruth(): is there a model of the negation?     *)
CexTruth(cx, C, q) ==
  {[ok |-> o.ok, isValid |-> o.a = None, cex |-> o.cex] :
     o \in GetAssignment(cx, C \cup {Neg(q)})}

(* CexCachingSolver::computeValidity(): a model of the constraints decides *)
(* one half, a second call the other.                                      *)
SecondHalf(cx, C, q, holds) ==
  {[ok |-> o.ok,
    result |-> IF o.a # None THEN "Unknown" ELSE IF holds THEN "True" ELSE "False",
    cex |-> o.cex] : o \in GetAssignment(cx, C \cup {IF holds THEN Neg(q) ELSE q})}

CexValidity(cx, C, q) ==
  UNION {IF o.ok THEN SecondHalf(o.cex, C, q, o.a \in q)
         ELSE {[ok |-> FALSE, result |-> "Unknown", cex |-> o.cex]} :
           o \in GetAssignment(cx, C)}

----------------------------------------------------------------------------
(* CachingSolver.                                                          *)

Negate(pv) ==
  CASE pv = "MustBeTrue" -> "MustBeFalse"
    [] pv = "MustBeFalse" -> "MustBeTrue"
    [] pv = "MayBeTrue" -> "MayBeFalse"
    [] pv = "MayBeFalse" -> "MayBeTrue"
    [] OTHER -> pv

(* canonicalizeQuery(): the query or its negation.                         *)
CanonicalQuery(q) == IF q \in Canonical THEN q ELSE Neg(q)
Oriented(q, pv) == IF q \in Canonical THEN pv ELSE Negate(pv)

Entries(C, q) == {e \in cache : e.constraints = C /\ e.query = CanonicalQuery(q)}
CacheLookup(C, q) == {Oriented(q, e.result) : e \in Entries(C, q)}

(* Mutant: the answer is stored as if the query were canonical.            *)
CacheInsertAsIs(C, q, pv) ==
  IF Entries(C, q) # {} THEN cache
  ELSE cache \cup {[constraints |-> C, query |-> CanonicalQuery(q), result |-> pv]}

(* cacheInsert(): unordered_map::insert() keeps an entry that is there.    *)
CacheInsert(C, q, pv) ==
  IF Entries(C, q) # {} THEN cache
  ELSE cache \cup {[constraints |-> C, query |-> CanonicalQuery(q),
                    result |-> Oriented(q, pv)]}

(* A solver that failed leaves the cache alone.                            *)
AfterTruth(o, C, q, ifValid, ifNot, pvValid, pvNot) ==
  [ok |-> o.ok,
   result |-> IF o.isValid THEN ifValid ELSE ifNot,
   cache |-> IF o.ok THEN CacheInsert(C, q, IF o.isValid THEN pvValid ELSE pvNot) ELSE cache,
   cex |-> o.cex]

AfterValidity(o, C, q) ==
  [ok |-> o.ok, result |-> o.result,
   cache |-> IF o.ok
             THEN CacheInsert(C, q, CASE o.result = "True" -> "MustBeTrue"
                                      [] o.result = "False" -> "MustBeFalse"
                                      [] OTHER -> "TrueOrFalse")
             ELSE cache,
   cex |-> o.cex]

Answered(r) == {[ok |-> TRUE, result |-> r, cache |-> cache, cex |-> cex]}

(* computeValidity(): half an answer in the cache saves half the work.     *)
ComputeValidity(C, q) ==
  LET hit == CacheLookup(C, q)
  IN  CASE "MustBeTrue" \in hit -> Answered("True")
        [] "MustBeFalse" \in hit -> Answered("False")
        [] "TrueOrFalse" \in hit -> Answered("Unknown")
        [] "MayBeTrue" \in hit ->
             {AfterTruth(o, C, q, "True", "Unknown", "MustBeTrue", "TrueOrFalse") :
                o \in CexTruth(cex, C, q)}
        [] "MayBeFalse" \in hit ->
             {AfterTruth(o, C, q, "False", "Unknown", "MustBeFalse", "TrueOrFalse") :
                o \in CexTruth(cex, C, Neg(q))}
        [] OTHER -> {AfterValidity(o, C, q) : o \in CexValidity(cex, C, q)}

(* computeTruth(): MayBeTrue alone does not tell whether the query must    *)
(* hold.                                                                   *)
ComputeTruth(C, q) ==
  LET hit == CacheLookup(C, q)
  IN  IF hit \ {"MayBeTrue"} # {}
      THEN Answered("MustBeTrue" \in hit)
      ELSE {AfterTruth(o, C, q, TRUE, FALSE, "MustBeTrue",
                       IF hit = {} THEN "MayBeFalse" ELSE "TrueOrFalse") :
              o \in CexTruth(cex, C, q)}

----------------------------------------------------------------------------
(* One query of the executor at a time.                                    *)
HasRoom == Cardinality(cache) + Cardinality(cex.entries) < MaxEntries

AskValidity(C, q) ==
  /\ \E o \in ComputeValidity(C, q) : cache' = o.cache /\ cex' = o.cex
  /\ UNCHANGED options

AskTruth(C, q) ==
  /\ \E o \in ComputeTruth(C, q) : cache' = o.cache /\ cex' = o.cex
  /\ UNCHANGED options

(* computeValue() and computeInitialValues() go past CachingSolver and ask *)
(* for a model of the constraints.                                         *)
AskValues(C) ==
  /\ \E o \in GetAssignment(cex, C) : cex' = o.cex
  /\ UNCHANGED <<options, cache>>

Next ==
  /\ HasRoom
  /\ \E C \in Constraints :
       \/ \E q \in Exprs : AskValidity(C, q) \/ AskTruth(C, q)
       \/ AskValues(C)

Spec == Init /\ [][Next]_vars

----------------------------------------------------------------------------
(* Types of the variables.                                                 *)
TypeOK ==
  /\ options \in [tryAll : BOOLEAN, superset : BOOLEAN]
  /\ cache \subseteq [constraints : Constraints, query : Exprs, result : PartialValidity]
  /\ cex.entries \subseteq [key : SUBSET Exprs, result : Assignments \cup {None}]
  /\ cex.table \subseteq Assignments

(* What a partial validity says of a query, and an assignment of a key.    *)
Says(pv, C, q) ==
  /\ pv \in {"MustBeTrue"} => Models(C) \subseteq q
  /\ pv \in {"MustBeFalse"} => Models(C) \cap q = {}
  /\ pv \in {"MayBeTrue", "TrueOrFalse"} => Models(C) \cap q # {}
  /\ pv \in {"MayBeFalse", "TrueOrFalse"} => ~(Models(C) \subseteq q)
Answers(a, key) == IF a = None THEN Models(key) = {} ELSE a \in Models(key)

(* Whatever was asked and inferred before, what the caches hold is true,   *)
(* one entry per query, and cached assignments are those of the table,     *)
(* which owns them (CexCachingSolver.cpp:260).                             *)
CexSound(cx) ==
  /\ \A e \in cx.entries : Answers(e.result, e.key)
  /\ \A e, f \in cx.entries : e.key = f.key => e = f
  /\ Results(cx.entries) \subseteq cx.table \cup {None}
CacheSound(ch) ==
  /\ \A e \in ch : Says(e.result, e.constraints, e.query)
  /\ \A e, f \in ch : e.constraints = f.constraints /\ e.query = f.query => e = f
CachesSound == CexSound(cex) /\ CacheSound(cache)

(* Whatever the caches hold, the next answer is the one that SolverImpl    *)
(* promises (SolverImpl.h:50-77): a cached answer to another query never   *)
(* makes a different one of it.                                            *)
ValidityOf(C, q) ==
  CASE Models(C) \subseteq q -> "True"
    [] Models(C) \cap q = {} -> "False"
    [] OTHER -> "Unknown"
AnswersRight ==
  \A C \in Constraints :
    /\ \A q \in Exprs :
         /\ \A o \in ComputeValidity(C, q) : o.ok => o.result = ValidityOf(C, q)
         /\ \A o \in ComputeTruth(C, q) : o.ok => o.result = (Models(C) \subseteq q)
    /\ \A o \in GetAssignment(cex, C) : o.ok => o.a \in Models(C)
=============================================================================
