------------------------- MODULE SolverCachesProofs -------------------------
(***************************************************************************)
(* Proofs about SolverCaches, for any set of assignments and expressions:  *)
(* what the caches hold is true, and every answer they give is right.      *)
(***************************************************************************)
EXTENDS SolverCaches, TLAPS

(* The cached assignments by themselves.                                   *)
CexType(cx) ==
  /\ cx.entries \subseteq [key : SUBSET Exprs, result : Assignments \cup {None}]
  /\ cx.table \subseteq Assignments
CexOK(cx) == CexType(cx) /\ CexSound(cx)

(* Negation is an involution on expressions.                               *)
LEMMA NegNeg == \A e \in Exprs : Neg(e) \in Exprs /\ Neg(Neg(e)) = e
  BY ExprsAssumption DEF Neg

(* More constraints have fewer models.                                     *)
LEMMA ModelsShrink ==
  ASSUME NEW K, NEW L, K \subseteq L
  PROVE  Models(L) \subseteq Models(K)
  BY DEF Models

(* The models of C and q, and of C and the negation of q.                  *)
LEMMA ModelsOfBoth ==
  ASSUME NEW C \in SUBSET Exprs, NEW q \in Exprs
  PROVE  /\ Models(C \cup {q}) = Models(C) \cap q
         /\ Models(C \cup {Neg(q)}) = Models(C) \ q
<1>1. \A p : Models(C \cup {p}) = Models(C) \cap p
  BY DEF Models
<1>2. Models(C) \subseteq Assignments
  BY DEF Models
<1>3. Models(C) \cap Neg(q) = Models(C) \ q
  BY <1>2 DEF Neg
<1> QED
  BY <1>1, <1>3

(* What searchForAssignment() finds answers the key it looks for.          *)
LEMMA SearchAnswers ==
  ASSUME NEW cx, CexOK(cx), NEW key \in SUBSET Exprs, NEW a \in Search(cx, key)
  PROVE  Answers(a, key) /\ a \in Assignments \cup {None}
<1>1. ASSUME NEW e \in cx.entries, e.key = key, a = e.result
      PROVE  Answers(a, key) /\ a \in Assignments \cup {None}
  BY <1>1 DEF CexOK, CexSound, CexType
<1>2. ASSUME NEW e \in cx.entries, key \subseteq e.key, a = e.result, a # None
      PROVE  Answers(a, key) /\ a \in Assignments \cup {None}
  <2>1. Answers(a, e.key) /\ a \in Assignments
    BY <1>2 DEF CexOK, CexSound, CexType
  <2> QED
    BY <2>1, <1>2, ModelsShrink DEF Answers
<1>3. ASSUME NEW e \in cx.entries, e.key \subseteq key, a = e.result,
             a \in {None} \cup Models(key)
      PROVE  Answers(a, key) /\ a \in Assignments \cup {None}
  <2>1. a # None => a \in Models(key)
    BY <1>3
  <2>2. a = None => Models(e.key) = {}
    BY <1>3 DEF CexOK, CexSound, Answers
  <2>3. Models(key) \subseteq Models(e.key)
    BY <1>3, ModelsShrink
  <2> QED
    BY <2>1, <2>2, <2>3, <1>3 DEF Answers, Models
<1>4. ASSUME a \in cx.table \cap Models(key)
      PROVE  Answers(a, key) /\ a \in Assignments \cup {None}
  BY <1>4, ExprsAssumption DEF Answers, Models
<1> DEFINE exact == Results({e \in cx.entries : e.key = key})
<1>5. \/ a \in exact
      \/ a \in FromSuperset(cx, key)
      \/ a \in FromSubset(cx, key)
      \/ a \in FromTable(cx, key)
  BY DEF Search
<1>6. a \in exact => \E e \in cx.entries : e.key = key /\ a = e.result
  BY DEF Results
<1>7. a \in FromSuperset(cx, key) =>
        \E e \in cx.entries : key \subseteq e.key /\ a = e.result /\ a # None
  BY DEF FromSuperset, Results
<1>8. a \in FromSubset(cx, key) =>
        \E e \in cx.entries : e.key \subseteq key /\ a = e.result
                              /\ a \in {None} \cup Models(key)
  BY DEF FromSubset, Results
<1>9. a \in FromTable(cx, key) => a \in cx.table \cap Models(key)
  BY DEF FromTable
<1> HIDE DEF exact
<1> QED
  BY <1>1, <1>2, <1>3, <1>4, <1>5, <1>6, <1>7, <1>8, <1>9

(* A key that the search does not find has no entry yet.                   *)
LEMMA SearchMisses ==
  ASSUME NEW cx, NEW key, Search(cx, key) = {}
  PROVE  \A e \in cx.entries : e.key # key
<1> SUFFICES ASSUME NEW e \in cx.entries, e.key = key PROVE FALSE
  OBVIOUS
<1>1. e.result \in Results({f \in cx.entries : f.key = key})
  BY DEF Results
<1>2. Results({f \in cx.entries : f.key = key}) # {}
  BY <1>1
<1> QED
  BY <1>2 DEF Search

(* getAssignment() keeps the cache sound, and answers its key.             *)
LEMMA GetAssignmentAnswers ==
  ASSUME NEW cx, CexOK(cx), NEW key \in SUBSET Exprs, NEW o \in GetAssignment(cx, key)
  PROVE  /\ CexOK(o.cex)
         /\ o.ok => Answers(o.a, key)
         /\ o.a \in Assignments \cup {None}
<1>1. CASE Search(cx, key) # {}
  <2>1. PICK a \in Search(cx, key) : o = [ok |-> TRUE, a |-> a, cex |-> cx]
    BY <1>1 DEF GetAssignment
  <2> QED
    BY <2>1, SearchAnswers
<1>2. CASE Search(cx, key) = {} /\ o = [ok |-> FALSE, a |-> None, cex |-> cx]
  BY <1>2
<1>3. ASSUME Search(cx, key) = {}, NEW a \in CoreAnswers(key),
             o = [ok |-> TRUE, a |-> a, cex |-> Remember(cx, key, a)]
      PROVE  /\ CexOK(o.cex)
             /\ o.ok => Answers(o.a, key)
             /\ o.a \in Assignments \cup {None}
  <2>1. Answers(a, key) /\ a \in Assignments \cup {None}
    BY ExprsAssumption DEF CoreAnswers, Answers, Models
  <2> DEFINE new == [key |-> key, result |-> a]
             cy == Remember(cx, key, a)
  <2>2. cy.entries = cx.entries \cup {new} /\ cy.table = cx.table \cup ({a} \ {None})
    BY DEF Remember
  <2>3. new \in [key : SUBSET Exprs, result : Assignments \cup {None}]
    BY <2>1
  <2>4. CexType(cy)
    BY <2>1, <2>2, <2>3 DEF CexOK, CexType
  <2>5. \A e \in cx.entries : e.key # key
    BY <1>3, SearchMisses
  <2>6. CexSound(cx)
    BY DEF CexOK
  <2>7. new.key = key /\ new.result = a
    OBVIOUS
  <2> HIDE DEF new, cy
  <2>8. \A e \in cy.entries : Answers(e.result, e.key)
    BY <2>1, <2>2, <2>6, <2>7 DEF CexSound
  <2>9. \A e, f \in cy.entries : e.key = f.key => e = f
    BY <2>2, <2>5, <2>6, <2>7 DEF CexSound
  <2>10. Results(cy.entries) \subseteq cy.table \cup {None}
    BY <2>2, <2>6, <2>7 DEF CexSound, Results
  <2>11. CexOK(cy)
    BY <2>4, <2>8, <2>9, <2>10 DEF CexOK, CexSound
  <2> QED
    BY <1>3, <2>1, <2>11 DEF cy
<1> QED
  BY <1>1, <1>2, <1>3 DEF GetAssignment

(* CexCachingSolver::computeTruth() keeps the cache sound and is right.    *)
LEMMA CexTruthRight ==
  ASSUME NEW cx, CexOK(cx), NEW C \in SUBSET Exprs, NEW q \in Exprs,
         NEW o \in CexTruth(cx, C, q)
  PROVE  /\ CexOK(o.cex)
         /\ o.ok => o.isValid = (Models(C) \subseteq q)
         /\ o.isValid \in BOOLEAN
<1> DEFINE key == C \cup {Neg(q)}
<1>1. PICK p \in GetAssignment(cx, key) :
        o = [ok |-> p.ok, isValid |-> p.a = None, cex |-> p.cex]
  BY DEF CexTruth
<1>2. key \in SUBSET Exprs
  BY NegNeg
<1>3. Models(key) = Models(C) \ q
  BY ModelsOfBoth
<1> HIDE DEF key
<1>4. CexOK(p.cex) /\ (p.ok => Answers(p.a, key))
  BY <1>2, GetAssignmentAnswers
<1>5. p.ok => (p.a = None) = (Models(key) = {})
  BY <1>4 DEF Answers
<1> QED
  BY <1>1, <1>3, <1>4, <1>5

(* Both halves of CexCachingSolver::computeValidity().                     *)
LEMMA CexValidityRight ==
  ASSUME NEW cx, CexOK(cx), NEW C \in Constraints, NEW q \in Exprs,
         NEW o \in CexValidity(cx, C, q)
  PROVE  /\ CexOK(o.cex)
         /\ o.ok => o.result = ValidityOf(C, q)
         /\ o.result \in Validity
<1>1. C \in SUBSET Exprs /\ Models(C) # {}
  BY DEF Constraints
<1>2. PICK p \in GetAssignment(cx, C) :
        o \in (IF p.ok THEN SecondHalf(p.cex, C, q, p.a \in q)
              ELSE {[ok |-> FALSE, result |-> "Unknown", cex |-> p.cex]})
  BY DEF CexValidity
<1>3. CexOK(p.cex) /\ (p.ok => Answers(p.a, C))
  BY <1>1, <1>2, GetAssignmentAnswers
<1>4. CASE ~p.ok
  BY <1>2, <1>3, <1>4 DEF Validity
<1>5. CASE p.ok
  <2>1. p.a \in Models(C)
    BY <1>1, <1>3, <1>5 DEF Answers
  <2> DEFINE holds == p.a \in q
             key == C \cup {IF holds THEN Neg(q) ELSE q}
  <2>2. PICK r \in GetAssignment(p.cex, key) :
          o = [ok |-> r.ok,
               result |-> IF r.a # None THEN "Unknown"
                          ELSE IF holds THEN "True" ELSE "False",
               cex |-> r.cex]
    BY <1>2, <1>5 DEF SecondHalf
  <2>3. key \in SUBSET Exprs
    BY <1>1, NegNeg
  <2>4. Models(key) = IF holds THEN Models(C) \ q ELSE Models(C) \cap q
    BY <1>1, ModelsOfBoth
  <2>5. holds <=> p.a \in q
    OBVIOUS
  <2> HIDE DEF key, holds
  <2>6. CexOK(r.cex) /\ (r.ok => Answers(r.a, key))
    BY <1>3, <2>2, <2>3, GetAssignmentAnswers
  <2>7. r.ok => (r.a = None <=> Models(key) = {})
    BY <2>6 DEF Answers
  <2>8. CASE holds
    BY <2>1, <2>2, <2>4, <2>5, <2>6, <2>7, <2>8 DEF ValidityOf, Validity
  <2>9. CASE ~holds
    BY <2>1, <2>2, <2>4, <2>5, <2>6, <2>7, <2>9 DEF ValidityOf, Validity
  <2> QED
    BY <2>8, <2>9
<1> QED
  BY <1>4, <1>5

----------------------------------------------------------------------------
(* The validity cache by itself.                                           *)
CacheType(ch) ==
  ch \subseteq [constraints : Constraints, query : Exprs, result : PartialValidity]
CacheOK(ch) == CacheType(ch) /\ CacheSound(ch)

(* Turning a partial validity around says the same of the negation.        *)
LEMMA NegateSays ==
  ASSUME NEW C \in SUBSET Exprs, NEW q \in Exprs, NEW pv \in PartialValidity
  PROVE  /\ Negate(pv) \in PartialValidity
         /\ Says(Negate(pv), C, Neg(q)) <=> Says(pv, C, q)
<1>1. Models(C) \subseteq Assignments
  BY DEF Models
<1>2. Models(C) \subseteq Neg(q) <=> Models(C) \cap q = {}
  BY <1>1 DEF Neg
<1>3. Models(C) \cap Neg(q) = {} <=> Models(C) \subseteq q
  BY <1>1 DEF Neg
<1> QED
  BY <1>2, <1>3 DEF Negate, Says, PartialValidity

(* The stored answer of a query's canonical form is the query's own one.   *)
LEMMA OrientedSays ==
  ASSUME NEW C \in SUBSET Exprs, NEW q \in Exprs, NEW pv \in PartialValidity
  PROVE  /\ CanonicalQuery(q) \in Exprs
         /\ Oriented(q, pv) \in PartialValidity
         /\ Says(Oriented(q, pv), C, CanonicalQuery(q)) <=> Says(pv, C, q)
         /\ Says(pv, C, CanonicalQuery(q)) <=> Says(Oriented(q, pv), C, q)
<1>1. Neg(q) \in Exprs /\ Neg(Neg(q)) = q
  BY NegNeg
<1>2. /\ Negate(pv) \in PartialValidity
      /\ Says(Negate(pv), C, Neg(q)) <=> Says(pv, C, q)
  BY NegateSays
<1>3. Says(Negate(pv), C, Neg(Neg(q))) <=> Says(pv, C, Neg(q))
  BY <1>1, NegateSays
<1> QED
  BY <1>1, <1>2, <1>3 DEF CanonicalQuery, Oriented

(* A hit says something true of the query, and is the only one.            *)
LEMMA LookupSays ==
  ASSUME CacheOK(cache), NEW C \in Constraints, NEW q \in Exprs,
         NEW pv \in CacheLookup(C, q)
  PROVE  /\ pv \in PartialValidity
         /\ Says(pv, C, q)
         /\ CacheLookup(C, q) = {pv}
         /\ Entries(C, q) # {}
<1>1. PICK e \in Entries(C, q) : pv = Oriented(q, e.result)
  BY DEF CacheLookup
<1>2. /\ e \in cache /\ e.constraints = C /\ e.query = CanonicalQuery(q)
      /\ e.result \in PartialValidity
  BY DEF Entries, CacheOK, CacheType
<1>3. Says(e.result, C, CanonicalQuery(q))
  BY <1>2 DEF CacheOK, CacheSound
<1>4. C \in SUBSET Exprs
  BY DEF Constraints
<1>5. pv \in PartialValidity /\ Says(pv, C, q)
  BY <1>1, <1>2, <1>3, <1>4, OrientedSays
<1>6. \A f \in Entries(C, q) : f = e
  BY <1>2 DEF Entries, CacheOK, CacheSound
<1>7. CacheLookup(C, q) = {pv}
  BY <1>1, <1>6 DEF CacheLookup
<1> QED
  BY <1>5, <1>7, <1>1

(* Inserting what is true keeps the cache sound.                           *)
LEMMA InsertKeepsCacheOK ==
  ASSUME CacheOK(cache), NEW C \in Constraints, NEW q \in Exprs,
         NEW pv \in PartialValidity, Says(pv, C, q)
  PROVE  CacheOK(CacheInsert(C, q, pv))
<1> DEFINE new == [constraints |-> C, query |-> CanonicalQuery(q), result |-> Oriented(q, pv)]
<1>1. C \in SUBSET Exprs
  BY DEF Constraints
<1>2. /\ CanonicalQuery(q) \in Exprs /\ Oriented(q, pv) \in PartialValidity
      /\ Says(Oriented(q, pv), C, CanonicalQuery(q))
  BY <1>1, OrientedSays
<1>3. CASE Entries(C, q) # {}
  BY <1>3 DEF CacheInsert
<1>4. CASE Entries(C, q) = {}
  <2>1. CacheInsert(C, q, pv) = cache \cup {new}
    BY <1>4 DEF CacheInsert
  <2>2. \A e \in cache : ~(e.constraints = C /\ e.query = CanonicalQuery(q))
    BY <1>4 DEF Entries
  <2>3. new \in [constraints : Constraints, query : Exprs, result : PartialValidity]
    BY <1>2
  <2>4. /\ new.constraints = C /\ new.query = CanonicalQuery(q)
        /\ Says(new.result, new.constraints, new.query)
    BY <1>2
  <2> HIDE DEF new
  <2>5. CacheType(cache \cup {new})
    BY <2>3 DEF CacheOK, CacheType
  <2>6. CacheSound(cache)
    BY DEF CacheOK
  <2>7. \A e \in cache \cup {new} : Says(e.result, e.constraints, e.query)
    BY <2>4, <2>6 DEF CacheSound
  <2>8. \A e, f \in cache \cup {new} :
          e.constraints = f.constraints /\ e.query = f.query => e = f
    BY <2>2, <2>4, <2>6 DEF CacheSound
  <2> QED
    BY <2>1, <2>5, <2>7, <2>8 DEF CacheOK, CacheSound
<1> QED
  BY <1>3, <1>4

----------------------------------------------------------------------------
(* Everything the induction carries from step to step.                     *)
IInv == options \in [tryAll : BOOLEAN, superset : BOOLEAN] /\ CacheOK(cache) /\ CexOK(cex)

(* The answer to a query is right, and the caches stay sound.              *)
Right(o, answer) == CacheOK(o.cache) /\ CexOK(o.cex) /\ (o.ok => o.result = answer)

(* An answer that rests on computeTruth() of the query or its negation.    *)
LEMMA AfterTruthRight ==
  ASSUME IInv, NEW C \in Constraints, NEW q \in Exprs, NEW p \in Exprs,
         NEW o \in CexTruth(cex, C, p), NEW ifValid, NEW ifNot,
         NEW pvValid \in PartialValidity, NEW pvNot \in PartialValidity, NEW answer,
         Models(C) \subseteq p => Says(pvValid, C, q) /\ ifValid = answer,
         ~(Models(C) \subseteq p) => Says(pvNot, C, q) /\ ifNot = answer
  PROVE  Right(AfterTruth(o, C, q, ifValid, ifNot, pvValid, pvNot), answer)
<1>1. C \in SUBSET Exprs
  BY DEF Constraints
<1>2. /\ CexOK(o.cex) /\ o.isValid \in BOOLEAN
      /\ o.ok => o.isValid = (Models(C) \subseteq p)
  BY <1>1, CexTruthRight DEF IInv
<1> DEFINE pv == IF o.isValid THEN pvValid ELSE pvNot
           r == AfterTruth(o, C, q, ifValid, ifNot, pvValid, pvNot)
<1>3. /\ r.ok = o.ok /\ r.cex = o.cex
      /\ r.result = IF o.isValid THEN ifValid ELSE ifNot
      /\ r.cache = IF o.ok THEN CacheInsert(C, q, pv) ELSE cache
  BY DEF AfterTruth
<1>4. o.ok => pv \in PartialValidity /\ Says(pv, C, q) /\ r.result = answer
  BY <1>2, <1>3
<1> HIDE DEF pv, r
<1>5. CacheOK(r.cache)
  BY <1>3, <1>4, InsertKeepsCacheOK DEF IInv
<1> QED
  BY <1>2, <1>3, <1>4, <1>5 DEF Right, r

(* An answer that rests on computeValidity() of the query.                 *)
LEMMA AfterValidityRight ==
  ASSUME IInv, NEW C \in Constraints, NEW q \in Exprs, NEW o \in CexValidity(cex, C, q)
  PROVE  Right(AfterValidity(o, C, q), ValidityOf(C, q))
<1>1. /\ CexOK(o.cex) /\ o.result \in Validity
      /\ o.ok => o.result = ValidityOf(C, q)
  BY CexValidityRight DEF IInv
<1> DEFINE pv == CASE o.result = "True" -> "MustBeTrue"
                   [] o.result = "False" -> "MustBeFalse"
                   [] OTHER -> "TrueOrFalse"
           r == AfterValidity(o, C, q)
<1>2. /\ r.ok = o.ok /\ r.cex = o.cex /\ r.result = o.result
      /\ r.cache = IF o.ok THEN CacheInsert(C, q, pv) ELSE cache
  BY DEF AfterValidity
<1>3. pv \in PartialValidity
  BY DEF PartialValidity
<1>4. o.ok => Says(pv, C, q)
  BY <1>1 DEF ValidityOf, Says, Validity
<1> HIDE DEF pv, r
<1>5. CacheOK(r.cache)
  BY <1>2, <1>3, <1>4, InsertKeepsCacheOK DEF IInv
<1> QED
  BY <1>1, <1>2, <1>5 DEF Right, r

(* CachingSolver::computeValidity().                                       *)
LEMMA ComputeValidityRight ==
  ASSUME IInv, NEW C \in Constraints, NEW q \in Exprs, NEW o \in ComputeValidity(C, q)
  PROVE  Right(o, ValidityOf(C, q))
<1> DEFINE hit == CacheLookup(C, q)
<1>1. Models(C) # {} /\ Models(C) \subseteq Assignments
  BY DEF Constraints, Models
<1>2. Neg(q) \in Exprs /\ (Models(C) \subseteq Neg(q) <=> Models(C) \cap q = {})
  BY <1>1, NegNeg DEF Neg
<1>3. \A pv \in hit : Says(pv, C, q)
  BY LookupSays DEF IInv
<1>4. \A r : \A u \in Answered(r) : r = ValidityOf(C, q) => Right(u, ValidityOf(C, q))
  BY DEF Answered, Right, IInv
<1>5. \/ "MustBeTrue" \in hit /\ o \in Answered("True")
      \/ "MustBeFalse" \in hit /\ o \in Answered("False")
      \/ "TrueOrFalse" \in hit /\ o \in Answered("Unknown")
      \/ "MayBeTrue" \in hit
         /\ \E p \in CexTruth(cex, C, q) :
              o = AfterTruth(p, C, q, "True", "Unknown", "MustBeTrue", "TrueOrFalse")
      \/ "MayBeFalse" \in hit
         /\ \E p \in CexTruth(cex, C, Neg(q)) :
              o = AfterTruth(p, C, q, "False", "Unknown", "MustBeFalse", "TrueOrFalse")
      \/ \E p \in CexValidity(cex, C, q) : o = AfterValidity(p, C, q)
  BY DEF ComputeValidity
<1> HIDE DEF hit
<1>6. CASE "MustBeTrue" \in hit /\ o \in Answered("True")
  <2>1. ValidityOf(C, q) = "True"
    BY <1>1, <1>3, <1>6 DEF Says, ValidityOf
  <2> QED
    BY <2>1, <1>4, <1>6
<1>7. CASE "MustBeFalse" \in hit /\ o \in Answered("False")
  <2>1. ValidityOf(C, q) = "False"
    BY <1>1, <1>3, <1>7 DEF Says, ValidityOf
  <2> QED
    BY <2>1, <1>4, <1>7
<1>8. CASE "TrueOrFalse" \in hit /\ o \in Answered("Unknown")
  <2>1. ValidityOf(C, q) = "Unknown"
    BY <1>3, <1>8 DEF Says, ValidityOf
  <2> QED
    BY <2>1, <1>4, <1>8
<1>9. ASSUME "MayBeTrue" \in hit, NEW p \in CexTruth(cex, C, q),
             o = AfterTruth(p, C, q, "True", "Unknown", "MustBeTrue", "TrueOrFalse")
      PROVE  Right(o, ValidityOf(C, q))
  <2>1. Models(C) \cap q # {}
    BY <1>3, <1>9 DEF Says
  <2>2. Models(C) \subseteq q => Says("MustBeTrue", C, q) /\ "True" = ValidityOf(C, q)
    BY <1>1 DEF Says, ValidityOf
  <2>3. ~(Models(C) \subseteq q)
          => Says("TrueOrFalse", C, q) /\ "Unknown" = ValidityOf(C, q)
    BY <2>1 DEF Says, ValidityOf
  <2>4. "MustBeTrue" \in PartialValidity /\ "TrueOrFalse" \in PartialValidity
    BY DEF PartialValidity
  <2> QED
    BY <1>9, <2>2, <2>3, <2>4, AfterTruthRight
<1>10. ASSUME "MayBeFalse" \in hit, NEW p \in CexTruth(cex, C, Neg(q)),
              o = AfterTruth(p, C, q, "False", "Unknown", "MustBeFalse", "TrueOrFalse")
       PROVE  Right(o, ValidityOf(C, q))
  <2>1. ~(Models(C) \subseteq q)
    BY <1>3, <1>10 DEF Says
  <2>2. Models(C) \subseteq Neg(q)
          => Says("MustBeFalse", C, q) /\ "False" = ValidityOf(C, q)
    BY <1>2, <2>1 DEF Says, ValidityOf
  <2>3. ~(Models(C) \subseteq Neg(q))
          => Says("TrueOrFalse", C, q) /\ "Unknown" = ValidityOf(C, q)
    BY <1>2, <2>1 DEF Says, ValidityOf
  <2>4. "MustBeFalse" \in PartialValidity /\ "TrueOrFalse" \in PartialValidity
    BY DEF PartialValidity
  <2> QED
    BY <1>2, <1>10, <2>2, <2>3, <2>4, AfterTruthRight
<1>11. CASE \E p \in CexValidity(cex, C, q) : o = AfterValidity(p, C, q)
  BY <1>11, AfterValidityRight
<1> QED
  BY <1>5, <1>6, <1>7, <1>8, <1>9, <1>10, <1>11

(* CachingSolver::computeTruth().                                          *)
LEMMA ComputeTruthRight ==
  ASSUME IInv, NEW C \in Constraints, NEW q \in Exprs, NEW o \in ComputeTruth(C, q)
  PROVE  Right(o, Models(C) \subseteq q)
<1> DEFINE hit == CacheLookup(C, q)
           pvNot == IF hit = {} THEN "MayBeFalse" ELSE "TrueOrFalse"
<1>1. Models(C) # {}
  BY DEF Constraints
<1>2. \A pv \in hit : pv \in PartialValidity /\ Says(pv, C, q) /\ hit = {pv}
  BY LookupSays DEF IInv
<1>3. \/ hit \ {"MayBeTrue"} # {} /\ o \in Answered("MustBeTrue" \in hit)
      \/ /\ hit \ {"MayBeTrue"} = {}
         /\ \E p \in CexTruth(cex, C, q) :
              o = AfterTruth(p, C, q, TRUE, FALSE, "MustBeTrue", pvNot)
  BY DEF ComputeTruth
<1>4. pvNot \in PartialValidity /\ "MustBeTrue" \in PartialValidity
  BY DEF PartialValidity
<1>5. pvNot = IF hit = {} THEN "MayBeFalse" ELSE "TrueOrFalse"
  OBVIOUS
<1> HIDE DEF hit, pvNot
<1>6. CASE hit \ {"MayBeTrue"} # {} /\ o \in Answered("MustBeTrue" \in hit)
  <2>1. PICK pv \in hit : pv # "MayBeTrue"
    BY <1>6
  <2>2. hit = {pv} /\ Says(pv, C, q) /\ pv \in PartialValidity
    BY <1>2, <2>1
  <2>3. ("MustBeTrue" \in hit) = (Models(C) \subseteq q)
    BY <1>1, <2>1, <2>2 DEF Says, PartialValidity
  <2>4. Right(o, "MustBeTrue" \in hit)
    BY <1>6 DEF Answered, Right, IInv
  <2> QED
    BY <2>3, <2>4
<1>7. ASSUME hit \ {"MayBeTrue"} = {}, NEW p \in CexTruth(cex, C, q),
             o = AfterTruth(p, C, q, TRUE, FALSE, "MustBeTrue", pvNot)
      PROVE  Right(o, Models(C) \subseteq q)
  <2>1. hit # {} => Says("MayBeTrue", C, q)
    BY <1>2, <1>7
  <2>2. Models(C) \subseteq q => Says("MustBeTrue", C, q) /\ TRUE = (Models(C) \subseteq q)
    BY DEF Says
  <2>3. ~(Models(C) \subseteq q)
          => Says(pvNot, C, q) /\ FALSE = (Models(C) \subseteq q)
    BY <1>5, <2>1 DEF Says
  <2> QED
    BY <1>4, <1>7, <2>2, <2>3, AfterTruthRight
<1> QED
  BY <1>3, <1>6, <1>7

----------------------------------------------------------------------------
(* IInv is an inductive invariant.                                         *)
LEMMA IInvHolds == Spec => []IInv
<1>1. Init => IInv
  <2> SUFFICES ASSUME Init PROVE IInv
    OBVIOUS
  <2>1. CacheOK(cache)
    BY DEF Init, CacheOK, CacheType, CacheSound
  <2>2. cex.entries = {} /\ cex.table = {}
    BY DEF Init
  <2>3. CexOK(cex)
    BY <2>2 DEF CexOK, CexType, CexSound, Results
  <2> QED
    BY <2>1, <2>3 DEF Init, IInv
<1>2. IInv /\ [Next]_vars => IInv'
  <2> SUFFICES ASSUME IInv, [Next]_vars PROVE IInv'
    OBVIOUS
  <2>1. ASSUME NEW C \in Constraints, NEW q \in Exprs, AskValidity(C, q)
        PROVE  IInv'
    BY <2>1, ComputeValidityRight DEF AskValidity, IInv, Right, CacheOK, CacheType,
       CacheSound, CexOK, CexType, CexSound
  <2>2. ASSUME NEW C \in Constraints, NEW q \in Exprs, AskTruth(C, q)
        PROVE  IInv'
    BY <2>2, ComputeTruthRight DEF AskTruth, IInv, Right, CacheOK, CacheType,
       CacheSound, CexOK, CexType, CexSound
  <2>3. ASSUME NEW C \in Constraints, AskValues(C)
        PROVE  IInv'
    <3>1. C \in SUBSET Exprs
      BY DEF Constraints
    <3>2. PICK o \in GetAssignment(cex, C) : cex' = o.cex
      BY <2>3 DEF AskValues
    <3>3. CexOK(o.cex)
      BY <3>1, GetAssignmentAnswers DEF IInv
    <3> QED
      BY <2>3, <3>2, <3>3 DEF AskValues, IInv, CacheOK, CacheType, CacheSound, CexOK,
         CexType, CexSound
  <2>4. CASE UNCHANGED vars
    BY <2>4 DEF vars, IInv, CacheOK, CacheType, CacheSound, CexOK, CexType, CexSound
  <2> QED
    BY <2>1, <2>2, <2>3, <2>4 DEF Next
<1> QED
  BY <1>1, <1>2, PTL DEF Spec

(* The caches hold only what is true, one entry per query, whatever the    *)
(* core solver found or failed to find: CachingSolver.cpp, CexCachingSolver*)
(* .cpp.                                                                   *)
THEOREM CachesStaySound == Spec => [](TypeOK /\ CachesSound)
<1>1. IInv => TypeOK /\ CachesSound
  BY DEF IInv, CacheOK, CacheType, CexOK, CexType, TypeOK, CachesSound
<1> QED
  BY <1>1, IInvHolds, PTL

(* No answer differs from what the constraints say: computeValidity() and  *)
(* computeTruth() of CachingSolver and the models of CexCachingSolver.     *)
THEOREM EveryAnswerIsRight == Spec => []AnswersRight
<1>1. IInv => AnswersRight
  <2> SUFFICES ASSUME IInv, NEW C \in Constraints
               PROVE  /\ \A q \in Exprs :
                           /\ \A o \in ComputeValidity(C, q) :
                                o.ok => o.result = ValidityOf(C, q)
                           /\ \A o \in ComputeTruth(C, q) :
                                o.ok => o.result = (Models(C) \subseteq q)
                      /\ \A o \in GetAssignment(cex, C) : o.ok => o.a \in Models(C)
    BY DEF AnswersRight
  <2>1. ASSUME NEW q \in Exprs, NEW o \in ComputeValidity(C, q), o.ok
        PROVE  o.result = ValidityOf(C, q)
    BY <2>1, ComputeValidityRight DEF Right
  <2>2. ASSUME NEW q \in Exprs, NEW o \in ComputeTruth(C, q), o.ok
        PROVE  o.result = (Models(C) \subseteq q)
    BY <2>2, ComputeTruthRight DEF Right
  <2>3. ASSUME NEW o \in GetAssignment(cex, C), o.ok
        PROVE  o.a \in Models(C)
    BY <2>3, GetAssignmentAnswers DEF IInv, Constraints, Answers
  <2> QED
    BY <2>1, <2>2, <2>3
<1> QED
  BY <1>1, IInvHolds, PTL
=============================================================================
