--------------------------- MODULE PosixFdProofs ---------------------------
(***************************************************************************)
(* Proofs about the file system a program under test runs on, for all      *)
(* programs, any number of descriptors and any directory.                  *)
(***************************************************************************)
EXTENDS PosixFd, FiniteSetTheorems, TLAPS

-----------------------------------------------------------------------------
(* Sets of numbers in order. *)

Rank(S, x) == Cardinality({y \in S : y <= x})

LEMMA Ranks ==
  ASSUME NEW S \in SUBSET Nat, IsFiniteSet(S), NEW x \in S
  PROVE  /\ Rank(S, x) \in 1..Cardinality(S)
         /\ \A y \in S : x < y => Rank(S, x) < Rank(S, y)
<1> DEFINE upTo(y) == {z \in S : z <= y}
<1>1. /\ Cardinality(S) \in Nat
      /\ \A y \in S : IsFiniteSet(upTo(y)) /\ Cardinality(upTo(y)) \in Nat
                      /\ Cardinality(upTo(y)) <= Cardinality(S)
  <2>1. \A y \in S : upTo(y) \subseteq S
    OBVIOUS
  <2> HIDE DEF upTo
  <2> QED
    BY <2>1, FS_Subset, FS_CardinalityType
<1>2. Cardinality(upTo(x)) # 0
  <2>1. x \in upTo(x)
    OBVIOUS
  <2> HIDE DEF upTo
  <2> QED
    BY <1>1, <2>1, FS_EmptySet
<1>3. ASSUME NEW y \in S, x < y PROVE Cardinality(upTo(x)) < Cardinality(upTo(y))
  <2>1. x \in Nat /\ y \in Nat /\ (\A z \in S : z \in Nat)
    OBVIOUS
  <2>2. upTo(x) \in SUBSET upTo(y) /\ y \in upTo(y) /\ y \notin upTo(x)
    <3>1. y <= y /\ ~(y <= x)
      BY <1>3, <2>1
    <3>2. \A z \in S : z <= x => z <= y
      BY <1>3, <2>1
    <3> QED
      BY <3>1, <3>2
  <2> HIDE DEF upTo
  <2>3. Cardinality(upTo(x)) <= Cardinality(upTo(y)) /\ Cardinality(upTo(x)) # Cardinality(upTo(y))
    BY <1>1, <2>2, FS_Subset
  <2> QED
    BY <1>1, <2>3
<1> QED
  BY <1>1, <1>2, <1>3 DEF Rank

(* Ascending enumerates a set, each element once, from the least. *)
LEMMA AscendingOrder ==
  ASSUME NEW S \in SUBSET Nat, IsFiniteSet(S)
  PROVE  /\ Ascending(S) \in [1..Cardinality(S) -> S] /\ Cardinality(S) \in Nat
         /\ \A i, j \in 1..Cardinality(S) : i < j => Ascending(S)[i] < Ascending(S)[j]
         /\ \A x \in S : \E k \in 1..Cardinality(S) : Ascending(S)[k] = x
<1> DEFINE n == Cardinality(S)
           rank == [x \in S |-> Rank(S, x)]
<1>1. n \in Nat
  BY FS_CardinalityType
<1>2. \A x, y \in S : x # y => Rank(S, x) # Rank(S, y)
  <2> SUFFICES ASSUME NEW x \in S, NEW y \in S, x # y PROVE Rank(S, x) # Rank(S, y)
    OBVIOUS
  <2>1. Rank(S, x) \in Nat /\ Rank(S, y) \in Nat
    BY <1>1, Ranks
  <2>2. x < y \/ y < x
    OBVIOUS
  <2> QED
    BY <2>1, <2>2, Ranks
<1>3. rank \in Surjection(S, 1..n)
  <2>1. rank \in Injection(S, 1..n)
    BY <1>2, Ranks DEF Injection, IsInjective
  <2>2. IsFiniteSet(1..n) /\ Cardinality(1..n) = n
    BY <1>1, FS_Interval
  <2> HIDE DEF rank
  <2> QED
    BY <2>1, <2>2, FS_Injection
<1>4. \A k \in 1..n : \E x \in S : Rank(S, x) = k
  BY <1>3 DEF Surjection
<1>5. \A k \in 1..n : Ascending(S)[k] \in S /\ Rank(S, Ascending(S)[k]) = k
  BY <1>4 DEF Ascending, Rank
<1>6. ASSUME NEW i \in 1..n, NEW j \in 1..n, i < j
      PROVE  Ascending(S)[i] < Ascending(S)[j]
  <2> DEFINE x == Ascending(S)[i]
             y == Ascending(S)[j]
  <2>1. x \in S /\ y \in S /\ Rank(S, x) = i /\ Rank(S, y) = j /\ i \in Nat /\ j \in Nat
    BY <1>5
  <2> HIDE DEF x, y
  <2>2. x # y /\ ~(y < x)
    BY <1>6, <2>1, Ranks
  <2>3. x \in Nat /\ y \in Nat
    BY <2>1
  <2>4. x < y
    BY <2>2, <2>3
  <2> QED
    BY <2>4 DEF x, y
<1>7. ASSUME NEW x \in S PROVE \E k \in 1..n : Ascending(S)[k] = x
  <2>1. Rank(S, x) \in 1..n
    BY Ranks
  <2> QED
    BY <1>2, <1>5, <2>1
<1>8. Ascending(S) \in [1..n -> S]
  BY <1>5 DEF Ascending
<1> QED
  BY <1>1, <1>6, <1>7, <1>8

(* A finite set of numbers has a least and a greatest. *)
LEMMA Extremes ==
  ASSUME NEW S \in SUBSET Nat, IsFiniteSet(S), S # {}
  PROVE  /\ Min(S) \in S /\ (\A y \in S : Min(S) <= y)
         /\ Max(S) \in S /\ (\A y \in S : Max(S) >= y)
<1>1. PICK n \in Nat : /\ Ascending(S) \in [1..n -> S]
                       /\ \A i, j \in 1..n : i < j => Ascending(S)[i] < Ascending(S)[j]
                       /\ \A x \in S : \E k \in 1..n : Ascending(S)[k] = x
  BY AscendingOrder
<1> DEFINE low == Ascending(S)[1]
           high == Ascending(S)[n]
<1>2. n >= 1 /\ low \in S /\ high \in S
  <2>1. PICK x \in S : TRUE
    OBVIOUS
  <2>2. PICK k \in 1..n : Ascending(S)[k] = x
    BY <1>1
  <2>3. 1 \in 1..n /\ n \in 1..n
    BY <2>2
  <2> QED
    BY <1>1, <2>3
<1>3. ASSUME NEW y \in S PROVE low <= y /\ high >= y
  <2>1. PICK k \in 1..n : Ascending(S)[k] = y
    BY <1>1
  <2>2. (k = 1 \/ 1 < k) /\ (k = n \/ k < n)
    BY <2>1
  <2>3. low \in Nat /\ high \in Nat /\ y \in Nat
    BY <1>2
  <2>4. low = y \/ low < y
    BY <1>1, <1>2, <2>1, <2>2
  <2>5. high = y \/ y < high
    BY <1>1, <1>2, <2>1, <2>2
  <2> QED
    BY <2>3, <2>4, <2>5
<1>4. \A y \in S : low <= y
  BY <1>3
<1>5. \A y \in S : high >= y
  BY <1>3
<1> HIDE DEF low, high
<1> QED
  BY <1>2, <1>4, <1>5 DEF Min, Max

LEMMA LesserOfTwo ==
  ASSUME NEW a \in Int, NEW b \in Int
  PROVE  Min({a, b}) = IF a <= b THEN a ELSE b
<1> DEFINE low == IF a <= b THEN a ELSE b
<1>1. low \in {a, b} /\ \A y \in {a, b} : low <= y
  OBVIOUS
<1>2. \A x \in {a, b} : (\A y \in {a, b} : x <= y) => x = low
  OBVIOUS
<1> HIDE DEF low
<1>3. Min({a, b}) = low
  BY <1>1, <1>2 DEF Min
<1> QED
  BY <1>3 DEF low

LEMMA FreeFd ==
  ASSUME FreeFds # {}
  PROVE  Min(FreeFds) \in Fds
<1>1. Fds \in SUBSET Nat /\ IsFiniteSet(Fds)
  BY FdsAssumption, FS_Interval DEF Fds
<1>2. FreeFds \in SUBSET Fds
  BY DEF FreeFds
<1> QED
  BY <1>1, <1>2, FS_Subset, Extremes

-----------------------------------------------------------------------------
(* The command line. *)

(* What klee_init_env() makes of the options: numbers, and as many symbolic files at most as *)
(* there are names. *)
LEMMA InitEnvTypes ==
  ASSUME NEW p \in Programs
  PROVE  /\ InitEnv(p.line).symFiles \in 0..Len(Names)
         /\ InitEnv(p.line).fileLen \in Nat /\ InitEnv(p.line).stdinLen \in Nat
         /\ InitEnv(p.line).maxFail \in Nat
<1> DEFINE line == p.line
<1>1. /\ line \in Seq(ToSet(line))
      /\ \A o \in ToSet(line) :
           /\ o.opt \in {"max-fail", "sym-stdin"} => o.n \in Nat
           /\ o.opt = "sym-files" => o.n \in 0..Len(Names) /\ o.len \in Nat
  BY ProgramsAssumption
<1> HIDE DEF line
<1>2. ASSUME NEW names
      PROVE  \/ LastGiven(line, names) = Defaults
             \/ LastGiven(line, names) \in ToSet(line) /\ LastGiven(line, names).opt \in names
  <2>1. CASE Given(line, names) = {}
    BY <2>1 DEF LastGiven
  <2>2. CASE Given(line, names) # {}
    <3>1. DOMAIN line = 1..Len(line) /\ Len(line) \in Nat
      BY <1>1
    <3>2. DOMAIN line \in SUBSET Nat /\ IsFiniteSet(DOMAIN line)
      BY <3>1, FS_Interval
    <3>3. Given(line, names) \in SUBSET DOMAIN line
      BY DEF Given
    <3>4. Max(Given(line, names)) \in Given(line, names)
      BY <2>2, <3>2, <3>3, FS_Subset, Extremes
    <3> QED
      BY <2>2, <3>4 DEF LastGiven, Given, ToSet
  <2> QED
    BY <2>1, <2>2
<1>3. Defaults.n = 0 /\ Defaults.len = 0 /\ Defaults.opt = "none" /\ Len(Names) \in Nat
  BY DEF Defaults, Names
<1>4. LastGiven(line, {"sym-files"}).n \in 0..Len(Names) /\ LastGiven(line, {"sym-files"}).len \in Nat
  BY <1>1, <1>2, <1>3
<1>5. LastGiven(line, {"sym-stdin"}).n \in Nat
  BY <1>1, <1>2, <1>3
<1>6. LET o == LastGiven(line, {"fd-fail", "max-fail"}) IN o.opt = "fd-fail" \/ o.n \in Nat
  BY <1>1, <1>2, <1>3
<1> QED
  BY <1>4, <1>5, <1>6 DEF InitEnv, line

-----------------------------------------------------------------------------
(* Failures. *)

Balanced ==
  /\ maxFailures \in Nat /\ budget \in [allowed : Nat, injected : Nat]
  /\ budget.injected + maxFailures = budget.allowed

Spends ==
  /\ maxFailures > 0 /\ maxFailures' = maxFailures - 1
  /\ budget' = [budget EXCEPT !.injected = @ + 1]

LEMMA CallSpends ==
  ASSUME Call
  PROVE  Spends \/ UNCHANGED <<maxFailures, budget>>
<1>1. ASSUME NEW fd \in Fds, Close(fd) \/ Dup(fd) \/ FTruncate(fd)
      PROVE  Spends \/ UNCHANGED <<maxFailures, budget>>
  BY <1>1 DEF Close, Dup, FTruncate, MayFail, Fails, Inject, Abort, NoFailure, Spends
<1>2. ASSUME NEW fd \in Fds, NEW new \in Fds, Dup2(fd, new)
      PROVE  Spends \/ UNCHANGED <<maxFailures, budget>>
  BY <1>2 DEF Dup2, Fails, NoFailure, Spends
<1>3. ASSUME NEW fd \in Fds, NEW count, NEW null, Read(fd, count, null) \/ Write(fd, count)
      PROVE  Spends \/ UNCHANGED <<maxFailures, budget>>
  BY <1>3 DEF Read, Write, MayFail, Fails, Inject, Abort, NoFailure, Spends
<1>4. ASSUME NEW x, NEW mode, ChMod(x, mode) \/ FChMod(x, mode) \/ GetCwd
      PROVE  Spends \/ UNCHANGED <<maxFailures, budget>>
  BY <1>4 DEF ChMod, FChMod, GetCwd, MayFail, Fails, Inject, Abort, NoFailure, Spends
<1>5. ASSUME NEW fd, NEW a, NEW b, LSeek(fd, a, b) \/ GetDents(fd, a) \/ SetFd(fd, a) \/ Select(a)
                                   \/ AskFd(a, fd) \/ IoCtl(fd, a)
      PROVE  UNCHANGED <<maxFailures, budget>>
  BY <1>5 DEF LSeek, GetDents, SetFd, Select, AskFd, IoCtl, NoFailure
<1>6. ASSUME NEW path, NEW a, NEW b, NEW c, NEW d,
             \/ Open(path, a, b, c) \/ OpenAt(d, path, a, b, c) \/ UMask(a)
             \/ RmDir(path) \/ Unlink(path) \/ ReadLink(path) \/ AskPath(a, path) \/ AskAt(d, path)
             \/ Stub(a, b)
      PROVE  UNCHANGED <<maxFailures, budget>>
  BY <1>6 DEF Open, OpenAt, UMask, RmDir, Unlink, ReadLink, AskPath, AskAt, Stub, NoFailure
<1> QED
  BY <1>1, <1>2, <1>3, <1>4, <1>5, <1>6 DEF Call

(* No more calls are made to fail than the user allows, and none is forgotten. *)
THEOREM FailuresStayInBudget == Spec => []FailuresAreBudgeted
<1>1. Init => Balanced
  <2> SUFFICES ASSUME Init PROVE Balanced
    OBVIOUS
  <2>1. program \in Programs /\ InitFds(InitEnv(program.line))
    BY DEF Init
  <2>2. PICK p \in Programs : p = program
    BY <2>1
  <2>3. InitEnv(p.line).maxFail \in Nat
    BY InitEnvTypes
  <2> QED
    BY <2>1, <2>2, <2>3 DEF InitFds, Balanced
<1>2. Balanced /\ [Next]_vars => Balanced'
  <2> SUFFICES ASSUME Balanced, [Next]_vars PROVE Balanced'
    OBVIOUS
  <2>1. Spends \/ UNCHANGED <<maxFailures, budget>>
    BY CallSpends DEF Next, vars
  <2> QED
    BY <2>1 DEF Balanced, Spends
<1>3. Balanced => FailuresAreBudgeted
  BY DEF Balanced, FailuresAreBudgeted
<1> QED
  BY <1>1, <1>2, <1>3, PTL DEF Spec

-----------------------------------------------------------------------------
(* select(). *)

AnswersPlainly == "got" \notin DOMAIN last'

LEMMA PlainAnswers ==
  /\ \A e : Answer(Errno(e)) => AnswersPlainly
  /\ \A n : Answer(Ret(n)) => AnswersPlainly
<1>1. \A e, n : "got" \notin DOMAIN Errno(e) /\ "got" \notin DOMAIN Ret(n)
  BY DEF Errno, Ret
<1> HIDE DEF Errno, Ret
<1> QED
  BY <1>1 DEF Answer, AnswersPlainly

(* Only select() answers with descriptors. *)
LEMMA OthersArePlain ==
  ASSUME Call
  PROVE  AnswersPlainly \/ \E asked \in Sets : Select(asked)
<1> USE PlainAnswers
<1>1. ASSUME NEW e, Inject(e) \/ Abort(e) PROVE AnswersPlainly
  BY <1>1 DEF Inject, Abort
<1>2. PassedOn => AnswersPlainly
  BY DEF PassedOn
<1>3. ASSUME NEW e, Told(e) PROVE AnswersPlainly
  BY <1>3 DEF Told
<1>4. ASSUME NEW path, NEW acc, NEW opts, NEW mode, FdOpen(path, acc, opts, mode) PROVE AnswersPlainly
  BY <1>4 DEF FdOpen, OpenOs, OpenSym
<1>5. ASSUME NEW old, NEW new, Duplicated(old, new) PROVE AnswersPlainly
  BY <1>5 DEF Duplicated
<1>6. ASSUME NEW fd, NEW a, NEW b, Close(fd) \/ Dup(fd) \/ Dup2(fd, a) \/ FTruncate(fd) \/ GetCwd PROVE AnswersPlainly
  BY <1>1, <1>2, <1>5, <1>6 DEF Close, Dup, Dup2, FTruncate, GetCwd, MayFail
<1>7. ASSUME NEW fd, NEW count, NEW null, Read(fd, count, null) \/ Write(fd, count) PROVE AnswersPlainly
  BY <1>1, <1>7 DEF Read, ReadSym, ReadOs, Write, WriteSym, WriteOs, MayFail
<1>8. ASSUME NEW x, NEW mode, ChMod(x, mode) \/ FChMod(x, mode) PROVE AnswersPlainly
  BY <1>1, <1>2, <1>8 DEF ChMod, FChMod, MayFail, DfChMod
<1>9. ASSUME NEW fd, NEW a, NEW b, LSeek(fd, a, b) \/ GetDents(fd, a) \/ SetFd(fd, a) \/ AskFd(a, fd) PROVE AnswersPlainly
  BY <1>2, <1>3, <1>9 DEF LSeek, GetDents, GetDentsOwn, GetDentsOs, SetFd, AskFd
<1>10. ASSUME NEW fd, NEW a, IoCtl(fd, a) PROVE AnswersPlainly
  <2>1. \/ \E e : IoCtlAnswer(fd, a) = Errno(e)
        \/ \E n : IoCtlAnswer(fd, a) = Ret(n)
    BY DEF IoCtlAnswer
  <2> QED
    BY <1>2, <1>3, <1>10, <2>1 DEF IoCtl
<1>11. ASSUME NEW path, NEW a, NEW b, NEW c, NEW d, Open(path, a, b, c) \/ OpenAt(d, path, a, b, c)
      PROVE  AnswersPlainly
  BY <1>4, <1>11 DEF Open, OpenAt
<1>12. ASSUME NEW path, NEW a, NEW b, NEW d, RmDir(path) \/ Unlink(path)
      PROVE  AnswersPlainly
  BY <1>12 DEF RmDir, Unlink, Deleted
<1>13. ASSUME NEW path, NEW a, NEW b, NEW d,
             \/ ReadLink(path) \/ AskPath(a, path) \/ AskAt(d, path) \/ Stub(a, b)
      PROVE  AnswersPlainly
  BY <1>2, <1>3, <1>13 DEF ReadLink, AskPath, AskAt, Stub
<1>14. ASSUME NEW mask, UMask(mask) PROVE AnswersPlainly
  BY <1>14 DEF UMask, Answer, AnswersPlainly
<1> QED
  BY <1>6, <1>7, <1>8, <1>9, <1>10, <1>11, <1>12, <1>13, <1>14 DEF Call

(* What an answer that names descriptors has to be, said of any table t of them. *)
RightAnswer(t, asked, got, count) ==
  \A kind \in {"read", "write"} :
    /\ {i \in asked[kind] : t[i].open /\ t[i].dfile # NoFile} \subseteq got[kind]
    /\ \A i \in got[kind] :
         \/ i \in asked[kind]
         \/ t[i].fd \in {t[j].fd : j \in {j \in asked[kind] : t[j].open /\ t[j].dfile = NoFile}}
    /\ (count = 0) <=> (got.read \cup got.write = {})

LEMMA SelectIsRight ==
  SelectAnswersWhatWasAsked <=>
    ("got" \in DOMAIN last => RightAnswer(fds, last.asked, last.got, last.ret))
BY DEF SelectAnswersWhatWasAsked, RightAnswer, SymOf, OsOf, Symbolic

LEMMA FdsFinite == Fds \in SUBSET Nat /\ IsFiniteSet(Fds)
BY FdsAssumption, FS_Interval DEF Fds

(* A descriptor that the operating system finds ready is translated back to something. *)
LEMMA BackFound ==
  ASSUME NEW asked \in Sets, NEW S \in {asked.read, asked.write}, NEW r \in SUBSET OsOf(S), r # {}
  PROVE  Back(asked, r) # {}
<1>1. asked.read \in SUBSET Fds /\ asked.write \in SUBSET Fds
  BY DEF Sets
<1>2. PICK j \in S : fds[j].open /\ ~Symbolic(fds[j]) /\ fds[j].fd \in r
  BY DEF OsOf
<1>3. j \in AskedFor(asked) /\ AskedFor(asked) \in SUBSET Fds
  BY <1>1 DEF AskedFor
<1>4. /\ Max(AskedFor(asked)) \in AskedFor(asked)
      /\ \A y \in AskedFor(asked) : Max(AskedFor(asked)) >= y
  <2>1. IsFiniteSet(AskedFor(asked)) /\ AskedFor(asked) # {} /\ AskedFor(asked) \in SUBSET Nat
    BY <1>3, FdsFinite, FS_Subset
  <2>2. PICK S1 : S1 = AskedFor(asked)
    OBVIOUS
  <2>3. /\ Max(S1) \in S1
        /\ \A y \in S1 : Max(S1) >= y
    BY <2>1, <2>2, Extremes
  <2> QED
    BY <2>2, <2>3
<1>5. j \in 0 .. Max(AskedFor(asked))
  <2>1. j \in Nat /\ Max(AskedFor(asked)) \in Nat /\ Max(AskedFor(asked)) >= j
    BY <1>3, <1>4, FdsFinite
  <2> QED
    BY <2>1
<1> QED
  BY <1>2, <1>5 DEF Back

LEMMA CardinalityZero ==
  ASSUME NEW S, IsFiniteSet(S)
  PROVE  Cardinality(S) \in Nat /\ (Cardinality(S) = 0 <=> S = {})
BY FS_CardinalityType, FS_EmptySet

LEMMA OsOfFinite ==
  ASSUME NEW S \in SUBSET Fds
  PROVE  IsFiniteSet(OsOf(S)) /\ IsFiniteSet(SymOf(S))
<1> DEFINE open == {j \in S : fds[j].open /\ ~Symbolic(fds[j])}
<1>1. IsFiniteSet(S) /\ open \subseteq S /\ SymOf(S) \subseteq S
  BY FdsFinite, FS_Subset DEF SymOf
<1>2. IsFiniteSet(open) /\ IsFiniteSet(SymOf(S))
  BY <1>1, FS_Subset
<1>3. IsFiniteSet({fds[i].fd : i \in open})
  <2> DEFINE T == {fds[i].fd : i \in open}
             f == [i \in open |-> fds[i].fd]
  <2>1. f \in Surjection(open, T)
    BY DEF Surjection
  <2> HIDE DEF open, T, f
  <2>2. IsFiniteSet(T)
    BY <1>2, <2>1, FS_Surjection
  <2> QED
    BY <2>2 DEF T
<1> QED
  BY <1>2, <1>3 DEF OsOf

(* Select answers with what was asked for, its own files among it, and is 0 for nothing only. *)
LEMMA SelectStep ==
  ASSUME NEW asked \in Sets, Select(asked)
  PROVE  SelectAnswersWhatWasAsked'
<1> DEFINE own == [read |-> SymOf(asked.read), write |-> SymOf(asked.write)]
           count == Cardinality(own.read \cup own.write)
<1>1. asked.read \in SUBSET Fds /\ asked.write \in SUBSET Fds
  BY DEF Sets
<1>2. /\ count \in Nat
      /\ count = 0 <=> own.read \cup own.write = {}
  <2>1. IsFiniteSet(own.read \cup own.write)
    BY <1>1, OsOfFinite, FS_Union
  <2> QED
    BY <2>1, CardinalityZero
<1>3. ASSUME NEW got, NEW n, Selected(asked, got, n), RightAnswer(fds, asked, got, n)
      PROVE  SelectAnswersWhatWasAsked'
  <2>1. /\ last' = [ret |-> n, errno |-> "0", asked |-> asked, got |-> got] /\ fds' = fds
    BY <1>3 DEF Selected, Answer, Keep
  <2>2. last'.asked = asked /\ last'.got = got /\ last'.ret = n
    BY <2>1
  <2>3. ("got" \in DOMAIN last => RightAnswer(fds, last.asked, last.got, last.ret))'
    BY <1>3, <2>1, <2>2 DEF RightAnswer
  <2> QED
    BY <2>3, SelectIsRight, PTL
<1>4. RightAnswer(fds, asked, own, count)
  BY <1>2 DEF RightAnswer, SymOf, Symbolic
<1>5. ASSUME NEW r \in SUBSET OsOf(asked.read), NEW w \in SUBSET OsOf(asked.write)
      PROVE  RightAnswer(fds, asked,
               [read  |-> own.read \cup (IF asked.read = {} THEN {} ELSE Back(asked, r)),
                write |-> own.write \cup (IF asked.write = {} THEN {} ELSE Back(asked, w))],
               count + Cardinality(r) + Cardinality(w))
  <2> DEFINE gotR == own.read \cup (IF asked.read = {} THEN {} ELSE Back(asked, r))
             gotW == own.write \cup (IF asked.write = {} THEN {} ELSE Back(asked, w))
             n == count + Cardinality(r) + Cardinality(w)
  <2>1. /\ Cardinality(r) \in Nat /\ (Cardinality(r) = 0 <=> r = {})
        /\ Cardinality(w) \in Nat /\ (Cardinality(w) = 0 <=> w = {})
    BY <1>1, OsOfFinite, FS_Subset, CardinalityZero
  <2>2. n = 0 <=> (own.read \cup own.write = {} /\ r = {} /\ w = {})
    BY <1>2, <2>1
  <2>3. /\ asked.read = {} => r = {}
        /\ asked.write = {} => w = {}
    BY DEF OsOf
  <2>4. Back(asked, {}) = {}
    BY DEF Back
  <2>5. /\ r # {} => Back(asked, r) # {}
        /\ w # {} => Back(asked, w) # {}
    BY BackFound
  <2>6. n = 0 <=> gotR \cup gotW = {}
    BY <2>2, <2>3, <2>4, <2>5
  <2>7. /\ SymOf(asked.read) \subseteq gotR /\ SymOf(asked.write) \subseteq gotW
        /\ \A i \in gotR : i \in asked.read \/ fds[i].fd \in OsOf(asked.read)
        /\ \A i \in gotW : i \in asked.write \/ fds[i].fd \in OsOf(asked.write)
    BY DEF Back, SymOf
  <2> HIDE DEF n, own
  <2>8. RightAnswer(fds, asked, [read |-> gotR, write |-> gotW], n)
    <3> HIDE DEF gotR, gotW
    <3> QED
      BY <2>6, <2>7 DEF RightAnswer, SymOf, OsOf, Symbolic
  <2> QED
    BY <2>8 DEF n, own
<1>6. ASSUME NEW e, Answer(Errno(e)) PROVE SelectAnswersWhatWasAsked'
  BY <1>6, PlainAnswers DEF AnswersPlainly, SelectAnswersWhatWasAsked
<1> HIDE DEF count
<1> QED
  BY <1>3, <1>4, <1>5, <1>6 DEF Select, count

(* What select() reports was asked for, itself or under another number, and every *)
(* symbolic file asked for is ready. *)
THEOREM SelectAnswersRight == Spec => []SelectAnswersWhatWasAsked
<1>1. Init => SelectAnswersWhatWasAsked
  BY DEF Init, Ret, SelectAnswersWhatWasAsked
<1>2. SelectAnswersWhatWasAsked /\ [Next]_vars => SelectAnswersWhatWasAsked'
  <2> SUFFICES ASSUME SelectAnswersWhatWasAsked, [Next]_vars PROVE SelectAnswersWhatWasAsked'
    OBVIOUS
  <2>1. CASE UNCHANGED vars
    BY <2>1 DEF vars, SelectAnswersWhatWasAsked, SymOf, OsOf, Symbolic
  <2>2. CASE AnswersPlainly
    BY <2>2 DEF AnswersPlainly, SelectAnswersWhatWasAsked
  <2>3. CASE \E asked \in Sets : Select(asked)
    BY <2>3, SelectStep
  <2> QED
    BY <2>1, <2>2, <2>3, OthersArePlain DEF Next
<1> QED
  BY <1>1, <1>2, PTL DEF Spec

-----------------------------------------------------------------------------
(* Directory listings: what a listing s says when there are n symbolic files, of which fs *)
(* tells which exist, and what it says of a descriptor f that it belongs to. *)

OsEntry(k) == [name |-> OsEntries[k], off |-> Pad + k]
Entries(n) == {Listed(i) : i \in 1..n} \cup {OsEntry(k) : k \in DOMAIN OsEntries}
Scans(n, D) == [seen : Seq(Entries(n)), gone : SUBSET D, ended : BOOLEAN, whole : BOOLEAN]

IsListed(s, name) == \E k \in DOMAIN s.seen : s.seen[k].name = name

InOffsetOrder(s) == \A i, j \in DOMAIN s.seen : i < j => s.seen[i].off < s.seen[j].off

GoodScan(n, s, fs) ==
  s.whole =>
    /\ InOffsetOrder(s)
    /\ s.ended => /\ \A k \in DOMAIN OsEntries : IsListed(s, OsEntries[k])
                  /\ \A i \in 1..n : fs[Names[i]].exists => IsListed(s, Names[i])
    /\ \A k \in DOMAIN s.seen :
         s.seen[k].name \in DOMAIN fs /\ ~fs[s.seen[k].name].exists => s.seen[k].name \in s.gone

\* What lies in front of the descriptor's offset, and exists, has been listed; what lies
\* behind it has not.
UpToDate(n, f, s, fs) ==
  f.open /\ f.dfile = NoFile /\ s.whole =>
    /\ \A k \in DOMAIN s.seen : s.seen[k].off <= f.off
    /\ f.fd = OsFd("dir") =>
         /\ \A i \in 1..n : i <= f.off /\ fs[Names[i]].exists => IsListed(s, Names[i])
         /\ \A k \in DOMAIN OsEntries : Pad + k <= f.off => IsListed(s, OsEntries[k])

LEMMA Sizes ==
  /\ Len(Names) = 3 /\ DOMAIN Names = 1..3 /\ Pad \in Nat /\ Pad >= 3
  /\ \A i, j \in 1..3 : Names[i] = Names[j] => i = j
  /\ Len(OsEntries) \in Nat /\ DOMAIN OsEntries = 1..Len(OsEntries)
  /\ \A k, l \in DOMAIN OsEntries : OsEntries[k] = OsEntries[l] => k = l
  /\ \A k \in DOMAIN OsEntries : /\ OsEntries[k] \notin {"stdin", "stdout"}
                                 /\ \A i \in 1..3 : OsEntries[k] # Names[i]
<1>1. Len(Names) = 3 /\ DOMAIN Names = 1..3
  BY DEF Names
<1>2. \A i, j \in 1..3 : Names[i] = Names[j] => i = j
  BY DEF Names
<1>3. \A k, l \in DOMAIN OsEntries : OsEntries[k] = OsEntries[l] => k = l
  BY DirectoryAssumption DEF IsInjective
<1>4. ASSUME NEW k \in DOMAIN OsEntries
      PROVE  OsEntries[k] \notin {"stdin", "stdout"} /\ \A i \in 1..3 : OsEntries[k] # Names[i]
  BY <1>1, DirectoryAssumption DEF ToSet
<1>5. Len(OsEntries) \in Nat /\ DOMAIN OsEntries = 1..Len(OsEntries)
  BY DirectoryAssumption
<1> QED
  BY <1>1, <1>2, <1>3, <1>4, <1>5, DirectoryAssumption

LEMMA Places ==
  /\ Len(Names) = 3 /\ Pad \in Nat /\ Pad >= 3
  /\ Len(OsEntries) \in Nat /\ DOMAIN OsEntries = 1..Len(OsEntries)
  /\ \A k \in DOMAIN OsEntries : k \in Nat /\ k >= 1 /\ k <= Len(OsEntries)
  /\ \A n \in 0..Len(Names) : n \in Nat /\ n <= 3 /\ n <= Pad
<1>1. /\ Len(Names) = 3 /\ Pad \in Nat /\ Pad >= 3
      /\ Len(OsEntries) \in Nat /\ DOMAIN OsEntries = 1..Len(OsEntries)
  BY Sizes
<1>2. \A k \in 1..Len(OsEntries) : k \in Nat /\ k >= 1 /\ k <= Len(OsEntries)
  BY <1>1
<1>3. \A n \in 0..Len(Names) : n \in Nat /\ n <= 3 /\ n <= Pad
  BY <1>1
<1> QED
  BY <1>1, <1>2, <1>3

(* An entry's offset tells its name, and its name its offset. *)
LEMMA EntriesOneToOne ==
  ASSUME NEW n \in 0..Len(Names), NEW d \in Entries(n), NEW e \in Entries(n)
  PROVE  d.off \in Nat \ {0} /\ (d.name = e.name <=> d.off = e.off)
<1>1. \A x \in Entries(n) :
        \/ \E i \in 1..n : i \in 1..3 /\ x.name = Names[i] /\ x.off = i
        \/ \E k \in DOMAIN OsEntries : x.name = OsEntries[k] /\ x.off = Pad + k
  BY Sizes DEF Entries, Listed, OsEntry
<1>2. CASE \E i \in 1..n : i \in 1..3 /\ d.name = Names[i] /\ d.off = i
  <2>1. CASE \E i \in 1..n : i \in 1..3 /\ e.name = Names[i] /\ e.off = i
    BY <1>2, <2>1, Sizes
  <2>2. CASE \E k \in DOMAIN OsEntries : e.name = OsEntries[k] /\ e.off = Pad + k
    BY <1>2, <2>2, Sizes
  <2> QED
    BY <1>1, <2>1, <2>2
<1>3. CASE \E k \in DOMAIN OsEntries : d.name = OsEntries[k] /\ d.off = Pad + k
  <2>1. CASE \E i \in 1..n : i \in 1..3 /\ e.name = Names[i] /\ e.off = i
    BY <1>3, <2>1, Sizes
  <2>2. CASE \E k \in DOMAIN OsEntries : e.name = OsEntries[k] /\ e.off = Pad + k
    BY <1>3, <2>2, Sizes
  <2> QED
    BY <1>1, <2>1, <2>2
<1> QED
  BY <1>1, <1>2, <1>3

(* A good listing has what ScanIsComplete asks for. *)
LEMMA GoodScanIsComplete ==
  ASSUME NEW n \in 0..Len(Names), NEW D, NEW s \in Scans(n, D), NEW fs,
         GoodScan(n, s, fs), s.whole
  PROVE  LET names == {s.seen[k].name : k \in DOMAIN s.seen}
         IN  /\ Len(s.seen) = Cardinality(names)
             /\ s.ended => /\ ToSet(OsEntries) \subseteq names
                           /\ {f \in {Names[i] : i \in 1..n} : fs[f].exists} \subseteq names
             /\ \A f \in names : f \in DOMAIN fs /\ ~fs[f].exists => f \in s.gone
<1> DEFINE names == {s.seen[k].name : k \in DOMAIN s.seen}
           name == [k \in 1..Len(s.seen) |-> s.seen[k].name]
<1>1. /\ s.seen \in Seq(Entries(n)) /\ Len(s.seen) \in Nat /\ DOMAIN s.seen = 1..Len(s.seen)
      /\ \A k \in DOMAIN s.seen : s.seen[k] \in Entries(n)
  BY DEF Scans
<1>2. Len(s.seen) = Cardinality(names)
  <2>1. ASSUME NEW i \in 1..Len(s.seen), NEW j \in 1..Len(s.seen), s.seen[i].name = s.seen[j].name
        PROVE  i = j
    <3>1. s.seen[i].off \in Nat /\ s.seen[i].off = s.seen[j].off
      BY <1>1, <2>1, EntriesOneToOne
    <3>2. ~(i < j) /\ ~(j < i)
      BY <1>1, <3>1 DEF GoodScan, InOffsetOrder
    <3> QED
      BY <3>2
  <2>2. PICK N \in Nat : N = Len(s.seen)
    BY <1>1
  <2>3. /\ name \in [1..N -> names]
        /\ \A i, j \in 1..N : name[i] = name[j] => i = j
        /\ \A x \in names : \E k \in 1..N : name[k] = x
    BY <1>1, <2>1, <2>2
  <2>4. IsFiniteSet(1..N) /\ Cardinality(1..N) = N
    BY FS_Interval
  <2> HIDE DEF name, names
  <2>5. name \in Bijection(1..N, names)
    BY <2>3 DEF Bijection, Injection, Surjection, IsInjective
  <2>6. Cardinality(names) = N
    BY <2>4, <2>5, FS_Bijection DEF ExistsBijection
  <2> QED
    BY <2>2, <2>6
<1>3. s.ended => /\ ToSet(OsEntries) \subseteq names
                 /\ {f \in {Names[i] : i \in 1..n} : fs[f].exists} \subseteq names
  BY DEF GoodScan, IsListed, ToSet
<1>4. \A f \in names : f \in DOMAIN fs /\ ~fs[f].exists => f \in s.gone
  BY DEF GoodScan
<1> QED
  BY <1>2, <1>3, <1>4

(* A listing that has just begun. *)
LEMMA FreshIsGood ==
  ASSUME NEW n \in 0..Len(Names), NEW D, NEW fs
  PROVE  /\ FreshScan \in Scans(n, D) /\ GoodScan(n, FreshScan, fs)
         /\ \A f : f.off = 0 => UpToDate(n, f, FreshScan, fs)
<1>1. FreshScan.seen = <<>> /\ FreshScan.gone = {} /\ ~FreshScan.ended
  BY DEF FreshScan
<1>2. FreshScan \in Scans(n, D)
  BY DEF FreshScan, Scans
<1>3. GoodScan(n, FreshScan, fs)
  BY <1>1 DEF GoodScan, InOffsetOrder
<1>4. ASSUME NEW f, f.off = 0 PROVE UpToDate(n, f, FreshScan, fs)
  BY <1>1, <1>4, Sizes DEF UpToDate
<1> QED
  BY <1>2, <1>3, <1>4

(* Files change, but none comes into being or goes. *)
LEMMA GoodScanKept ==
  ASSUME NEW n \in 0..Len(Names), NEW f, NEW s, NEW fs, NEW gs, DOMAIN gs = DOMAIN fs,
         \A x \in DOMAIN fs : gs[x].exists = fs[x].exists,
         {Names[i] : i \in 1..n} \subseteq DOMAIN fs
  PROVE  /\ GoodScan(n, s, fs) => GoodScan(n, s, gs)
         /\ UpToDate(n, f, s, fs) => UpToDate(n, f, s, gs)
<1>1. \A i \in 1..n : gs[Names[i]].exists = fs[Names[i]].exists
  OBVIOUS
<1> QED
  BY <1>1 DEF GoodScan, UpToDate

(* A file goes. *)
LEMMA GoodScanDeleted ==
  ASSUME NEW n \in 0..Len(Names), NEW D, NEW f, NEW s \in Scans(n, D), NEW fs, NEW gs, DOMAIN gs = DOMAIN fs,
         NEW df \in D,
         \A x \in DOMAIN fs : x # df => gs[x].exists = fs[x].exists,
         {Names[i] : i \in 1..n} \subseteq DOMAIN fs,
         ~gs[df].exists
  PROVE  LET r == [s EXCEPT !.gone = @ \cup {df}]
         IN  /\ r \in Scans(n, D)
             /\ GoodScan(n, s, fs) => GoodScan(n, r, gs)
             /\ UpToDate(n, f, s, fs) => UpToDate(n, f, r, gs)
<1> DEFINE r == [s EXCEPT !.gone = @ \cup {df}]
<1>1. /\ r.seen = s.seen /\ r.gone = s.gone \cup {df} /\ r.ended = s.ended /\ r.whole = s.whole
      /\ r \in Scans(n, D)
  BY DEF Scans
<1>2. \A i \in 1..n : gs[Names[i]].exists => fs[Names[i]].exists
  OBVIOUS
<1> HIDE DEF r
<1>3. GoodScan(n, s, fs) => GoodScan(n, r, gs)
  BY <1>1, <1>2 DEF GoodScan, IsListed, InOffsetOrder
<1>4. UpToDate(n, f, s, fs) => UpToDate(n, f, r, gs)
  BY <1>1, <1>2 DEF UpToDate, IsListed
<1> QED
  BY <1>1, <1>3, <1>4 DEF r

(* A seek back to where the listing has been, or to the beginning; from anywhere else the *)
(* listing is no longer whole. *)
LEMMA GoodScanRewound ==
  ASSUME NEW n \in 0..Len(Names), NEW D, NEW s \in Scans(n, D), NEW fs, NEW off \in Nat,
         GoodScan(n, s, fs)
  PROVE  /\ Rewound(s, off) \in Scans(n, D) /\ GoodScan(n, Rewound(s, off), fs)
         /\ \A f, g : /\ f.open = g.open /\ f.dfile = g.dfile /\ f.fd = g.fd
                     /\ g.off = off /\ f.off \in Nat
                     /\ UpToDate(n, f, s, fs)
                     => UpToDate(n, g, Rewound(s, off), fs)
<1> DEFINE r == Rewound(s, off)
           kept == {k \in 0..Len(s.seen) : k = 0 \/ s.seen[k].off <= off}
           m == IF off = 0 THEN 0 ELSE Max(kept)
<1>1. /\ s.seen \in Seq(Entries(n)) /\ Len(s.seen) \in Nat /\ DOMAIN s.seen = 1..Len(s.seen)
      /\ \A k \in DOMAIN s.seen : s.seen[k] \in Entries(n) /\ s.seen[k].off \in Nat
  BY EntriesOneToOne DEF Scans
<1>2. m \in 0..Len(s.seen) /\ (off # 0 => m \in kept /\ \A k \in kept : m >= k)
  <2>1. kept \in SUBSET (0..Len(s.seen)) /\ 0 \in kept
    BY <1>1
  <2>2. kept \in SUBSET Nat /\ IsFiniteSet(kept)
    <3>1. PICK N \in Nat : N = Len(s.seen)
      BY <1>1
    <3>2. IsFiniteSet(0..N)
      BY FS_Interval
    <3>3. kept \in SUBSET (0..N) /\ kept \in SUBSET Nat
      BY <2>1, <3>1
    <3> HIDE DEF kept
    <3> QED
      BY <3>2, <3>3, FS_Subset
  <2> HIDE DEF kept
  <2>3. Max(kept) \in kept /\ \A k \in kept : Max(kept) >= k
    BY <2>1, <2>2, Extremes
  <2> QED
    BY <1>1, <2>1, <2>3
<1>3. /\ r.seen = SubSeq(s.seen, 1, m) /\ r.ended = FALSE
      /\ r.gone = IF off = 0 THEN {} ELSE s.gone
      /\ r.whole = ((s.whole \/ off = 0) /\ ((off = 0) \/ \E k \in DOMAIN s.seen : s.seen[k].off = off))
      /\ r = [s EXCEPT !.seen = r.seen, !.ended = r.ended, !.gone = r.gone, !.whole = r.whole]
  BY DEF Rewound, Scans
<1>4. /\ r.seen \in Seq(Entries(n)) /\ DOMAIN r.seen = 1..m
      /\ \A k \in 1..m : r.seen[k] = s.seen[k] /\ k \in DOMAIN s.seen
  <2> HIDE DEF m, r
  <2> QED
    BY <1>1, <1>2, <1>3
<1>5. off = 0 => \A k \in 1..m : FALSE
  OBVIOUS
<1> HIDE DEF r, kept, m
<1>6. s.whole \/ off = 0 \/ ~r.whole
  BY <1>3
<1>7. r \in Scans(n, D)
  <2>1. s.gone \in SUBSET D
    BY DEF Scans
  <2>2. r.gone \in SUBSET D /\ r.whole \in BOOLEAN /\ r.ended \in BOOLEAN
    BY <1>3, <2>1
  <2>3. PICK a, b, c, d : a = r.seen /\ b = r.gone /\ c = r.ended /\ d = r.whole
    OBVIOUS
  <2>4. r = [s EXCEPT !.seen = a, !.ended = c, !.gone = b, !.whole = d]
    BY <1>3, <2>3
  <2> QED
    BY <1>4, <2>2, <2>3, <2>4 DEF Scans
<1>8. GoodScan(n, r, fs)
  <2>1. InOffsetOrder(r) \/ ~r.whole
    BY <1>1, <1>4, <1>5, <1>6 DEF GoodScan, InOffsetOrder
  <2>2. ASSUME r.whole, NEW k \in DOMAIN r.seen, r.seen[k].name \in DOMAIN fs, ~fs[r.seen[k].name].exists
        PROVE  r.seen[k].name \in r.gone
    BY <1>3, <1>4, <1>5, <1>6, <2>2 DEF GoodScan
  <2> QED
    BY <1>3, <2>1, <2>2 DEF GoodScan
<1>9. ASSUME off # 0, r.whole
      PROVE  /\ s.whole /\ \A k \in 1..m : s.seen[k].off <= off
             /\ \E k \in DOMAIN s.seen : s.seen[k].off = off
             /\ \A k \in DOMAIN s.seen : s.seen[k].off <= off => k \in 1..m
  <2>1. s.whole /\ \E k \in DOMAIN s.seen : s.seen[k].off = off
    BY <1>3, <1>9
  <2>2. ASSUME NEW k \in 1..m PROVE s.seen[k].off <= off
    <3>1. m \in DOMAIN s.seen /\ k \in DOMAIN s.seen /\ s.seen[m].off <= off
      BY <1>1, <1>2, <1>9 DEF kept
    <3>2. k = m \/ s.seen[k].off < s.seen[m].off
      BY <2>1, <3>1, <1>1 DEF GoodScan, InOffsetOrder
    <3> QED
      BY <1>1, <3>1, <3>2
  <2>3. ASSUME NEW k \in DOMAIN s.seen, s.seen[k].off <= off PROVE k \in 1..m
    <3>1. k \in kept
      BY <1>1, <2>3 DEF kept
    <3> QED
      BY <1>1, <1>2, <1>9, <3>1
  <2> QED
    BY <2>1, <2>2, <2>3
<1>10. ASSUME NEW f, NEW g, f.open = g.open, f.dfile = g.dfile, f.fd = g.fd,
             g.off = off, f.off \in Nat, UpToDate(n, f, s, fs)
      PROVE  UpToDate(n, g, r, fs)
  <2>1. CASE off = 0
    <3>1. \A k \in DOMAIN r.seen : FALSE
      BY <1>4, <2>1 DEF m
    <3> QED
      BY <1>10, <2>1, <3>1, Sizes DEF UpToDate
  <2>2. CASE off # 0 /\ g.open /\ g.dfile = NoFile /\ r.whole
    <3>1. /\ s.whole /\ f.open /\ f.dfile = NoFile
          /\ \A k \in DOMAIN s.seen : s.seen[k].off <= f.off
      BY <1>9, <1>10, <2>2 DEF UpToDate
    <3>2. off <= f.off
      BY <1>9, <2>2, <3>1
    <3>3. \A k \in DOMAIN r.seen : r.seen[k].off <= g.off
      BY <1>4, <1>9, <1>10, <2>2
    <3>4. ASSUME NEW name, NEW e \in Entries(n), e.name = name, e.off <= off, IsListed(s, name)
          PROVE  IsListed(r, name)
      <4>1. PICK k \in DOMAIN s.seen : s.seen[k].name = name
        BY <3>4 DEF IsListed
      <4>2. s.seen[k].off = e.off
        BY <1>1, <3>4, <4>1, EntriesOneToOne
      <4>3. k \in 1..m
        BY <1>9, <2>2, <3>4, <4>1, <4>2
      <4> QED
        BY <1>4, <4>1, <4>3 DEF IsListed
    <3>5. ASSUME f.fd = OsFd("dir"), NEW i \in 1..n, i <= off, fs[Names[i]].exists
          PROVE  IsListed(r, Names[i])
      <4>1. i <= f.off
        BY <1>10, <3>2, <3>5
      <4>2. IsListed(s, Names[i])
        BY <1>10, <3>1, <3>5, <4>1 DEF UpToDate
      <4>3. Listed(i) \in Entries(n) /\ Listed(i).name = Names[i] /\ Listed(i).off = i
        BY DEF Entries, Listed
      <4> QED
        BY <3>4, <3>5, <4>2, <4>3
    <3>6. ASSUME f.fd = OsFd("dir"), NEW k \in DOMAIN OsEntries, Pad + k <= off
          PROVE  IsListed(r, OsEntries[k])
      <4>1. Pad + k <= f.off
        BY <1>10, <3>2, <3>6, Sizes
      <4>2. IsListed(s, OsEntries[k])
        BY <1>10, <3>1, <3>6, <4>1 DEF UpToDate
      <4>3. OsEntry(k) \in Entries(n) /\ OsEntry(k).name = OsEntries[k] /\ OsEntry(k).off = Pad + k
        BY DEF Entries, OsEntry
      <4> QED
        BY <3>4, <3>6, <4>2, <4>3
    <3> QED
      BY <1>10, <3>3, <3>5, <3>6 DEF UpToDate
  <2> QED
    BY <2>1, <2>2 DEF UpToDate
<1> QED
  BY <1>7, <1>8, <1>10 DEF r

(* One list after another: every place is in the first or, further on, in the second. *)
LEMMA Joined ==
  ASSUME NEW S, NEW a \in Seq(S), NEW b \in Seq(S)
  PROVE  /\ a \o b \in Seq(S)
         /\ \A k \in DOMAIN a : k \in DOMAIN (a \o b) /\ (a \o b)[k] = a[k]
         /\ \A k \in DOMAIN b : Len(a) + k \in DOMAIN (a \o b) /\ (a \o b)[Len(a) + k] = b[k]
         /\ \A k \in DOMAIN (a \o b) : k \in DOMAIN a \/ \E q \in DOMAIN b : k = Len(a) + q
         /\ \A i, j \in DOMAIN (a \o b) : i < j =>
              \/ i \in DOMAIN a /\ j \in DOMAIN a
              \/ i \in DOMAIN a /\ \E q \in DOMAIN b : j = Len(a) + q
              \/ \E h, q \in DOMAIN b : h < q /\ i = Len(a) + h /\ j = Len(a) + q
<1>1. PICK m \in Nat, l \in Nat : m = Len(a) /\ l = Len(b) /\ DOMAIN a = 1..m /\ DOMAIN b = 1..l
  OBVIOUS
<1>2. /\ a \o b \in Seq(S) /\ DOMAIN (a \o b) = 1 .. m + l
      /\ \A k \in 1 .. m + l : (a \o b)[k] = IF k <= m THEN a[k] ELSE b[k - m]
  BY <1>1
<1> DEFINE c == a \o b
<1> HIDE DEF c
<1>3. \A k \in 1..m : k \in 1 .. m + l /\ c[k] = a[k]
  BY <1>2 DEF c
<1>4. ASSUME NEW k \in 1..l PROVE m + k \in 1 .. m + l /\ c[m + k] = b[k]
  <2>1. m + k \in 1 .. m + l /\ ~(m + k <= m) /\ (m + k) - m = k
    OBVIOUS
  <2> QED
    BY <1>2, <2>1 DEF c
<1>5. ASSUME NEW k \in 1 .. m + l PROVE k \in 1..m \/ (k - m \in 1..l /\ k = m + (k - m))
  OBVIOUS
<1>6. \A k \in 1 .. m + l : k \in 1..m \/ \E q \in 1..l : k = m + q
  BY <1>5
<1>7. ASSUME NEW i \in 1 .. m + l, NEW j \in 1 .. m + l, i < j
      PROVE  \/ i \in 1..m /\ j \in 1..m
             \/ i \in 1..m /\ \E q \in 1..l : j = m + q
             \/ \E h, q \in 1..l : h < q /\ i = m + h /\ j = m + q
  <2>1. CASE j \in 1..m
    BY <1>7, <2>1
  <2>2. CASE j \notin 1..m
    <3>1. j - m \in 1..l /\ j = m + (j - m)
      BY <1>5, <2>2
    <3>2. CASE i \in 1..m
      BY <3>1, <3>2
    <3>3. CASE i \notin 1..m
      <4>1. i - m \in 1..l /\ i = m + (i - m)
        BY <1>5, <3>3
      <4>2. i - m < j - m
        BY <1>7
      <4> QED
        BY <3>1, <4>1, <4>2
    <3> QED
      BY <3>2, <3>3
  <2> QED
    BY <2>1, <2>2
<1> QED
  <2>1. c \in Seq(S) /\ DOMAIN c = 1 .. m + l
    BY <1>2 DEF c
  <2>2. \A k \in DOMAIN a : k \in DOMAIN c /\ c[k] = a[k]
    BY <1>1, <1>3, <2>1
  <2>3. \A k \in DOMAIN b : m + k \in DOMAIN c /\ c[m + k] = b[k]
    BY <1>1, <1>4, <2>1
  <2>4. \A k \in DOMAIN c : k \in DOMAIN a \/ \E q \in DOMAIN b : k = m + q
    BY <1>1, <1>6, <2>1
  <2>5. ASSUME NEW i \in DOMAIN c, NEW j \in DOMAIN c, i < j
        PROVE  \/ i \in DOMAIN a /\ j \in DOMAIN a
               \/ i \in DOMAIN a /\ \E q \in DOMAIN b : j = m + q
               \/ \E h, q \in DOMAIN b : h < q /\ i = m + h /\ j = m + q
    <3>1. i \in 1 .. m + l /\ j \in 1 .. m + l
      BY <2>1, <2>5
    <3>2. CASE i \in 1..m /\ j \in 1..m
      BY <1>1, <3>2
    <3>3. CASE i \in 1..m /\ \E q \in 1..l : j = m + q
      BY <1>1, <3>3
    <3>4. CASE \E h, q \in 1..l : h < q /\ i = m + h /\ j = m + q
      BY <1>1, <3>4
    <3> QED
      BY <1>7, <2>5, <3>1, <3>2, <3>3, <3>4
  <2> QED
    BY <1>1, <2>1, <2>2, <2>3, <2>4, <2>5 DEF c

\* Entries that follow an offset, up to another, all of them there.
Follow(new, fs, from, end) ==
  /\ \A k \in DOMAIN new : /\ from < new[k].off /\ new[k].off <= end
                           /\ new[k].name \in DOMAIN fs => fs[new[k].name].exists
  /\ \A i, j \in DOMAIN new : i < j => new[i].off < new[j].off

Appends(n, D, s, fs, f, new, end, r) ==
  /\ s \in Scans(n, D) /\ GoodScan(n, s, fs) /\ UpToDate(n, f, s, fs)
  /\ f.open /\ f.dfile = NoFile /\ f.off \in Nat /\ end \in Nat /\ f.off <= end
  /\ new \in Seq(Entries(n)) /\ Follow(new, fs, f.off, end)
  /\ r.seen = s.seen \o new /\ r.gone = s.gone /\ r.whole = s.whole

Appended(n, s, fs, new, end, r) ==
  /\ r.seen \in Seq(Entries(n))
  /\ \A name : IsListed(r, name) <=> \/ IsListed(s, name)
                                     \/ \E k \in DOMAIN new : new[k].name = name
  /\ r.whole => /\ InOffsetOrder(r)
                /\ \A k \in DOMAIN r.seen : r.seen[k].off <= end
                /\ \A k \in DOMAIN r.seen :
                     r.seen[k].name \in DOMAIN fs /\ ~fs[r.seen[k].name].exists
                     => r.seen[k].name \in r.gone

(* They are added to the listing. *)
LEMMA EntriesAppended ==
  ASSUME NEW n \in 0..Len(Names), NEW D, NEW s, NEW fs, NEW f, NEW new, NEW end, NEW r,
         Appends(n, D, s, fs, f, new, end, r)
  PROVE  Appended(n, s, fs, new, end, r)
<1> USE DEF Appends
<1>1. s.seen \in Seq(Entries(n))
  BY DEF Scans
<1>2. /\ \A k \in DOMAIN s.seen : s.seen[k].off \in Nat
      /\ \A k \in DOMAIN new : new[k].off \in Nat
  BY <1>1, EntriesOneToOne
<1>3. PICK a, m : a = s.seen /\ m = Len(s.seen)
  OBVIOUS
<1>4. PICK c : c = r.seen
  OBVIOUS
<1>5. /\ c \in Seq(Entries(n))
      /\ \A k \in DOMAIN a : k \in DOMAIN c /\ c[k] = a[k]
      /\ \A k \in DOMAIN new : m + k \in DOMAIN c /\ c[m + k] = new[k]
      /\ \A k \in DOMAIN c : k \in DOMAIN a \/ \E q \in DOMAIN new : k = m + q
      /\ \A i, j \in DOMAIN c : i < j =>
           \/ i \in DOMAIN a /\ j \in DOMAIN a
           \/ i \in DOMAIN a /\ \E q \in DOMAIN new : j = m + q
           \/ \E h, q \in DOMAIN new : h < q /\ i = m + h /\ j = m + q
  BY <1>1, <1>3, <1>4, Joined, SMTT(60)
<1>6. ASSUME NEW name
      PROVE  IsListed(r, name) <=> IsListed(s, name) \/ \E k \in DOMAIN new : new[k].name = name
  <2>1. IsListed(s, name) <=> \E k \in DOMAIN a : a[k].name = name
    BY <1>3 DEF IsListed
  <2>2. IsListed(r, name) <=> \E k \in DOMAIN c : c[k].name = name
    BY <1>4 DEF IsListed
  <2>3. ASSUME NEW k \in DOMAIN c, c[k].name = name
        PROVE  (\E j \in DOMAIN a : a[j].name = name) \/ \E j \in DOMAIN new : new[j].name = name
    BY <1>5, <2>3
  <2>4. ASSUME NEW k \in DOMAIN a, a[k].name = name PROVE \E j \in DOMAIN c : c[j].name = name
    BY <1>5, <2>4
  <2>5. ASSUME NEW k \in DOMAIN new, new[k].name = name PROVE \E j \in DOMAIN c : c[j].name = name
    BY <1>5, <2>5
  <2> QED
    BY <2>1, <2>2, <2>3, <2>4, <2>5
<1>7. ASSUME r.whole
      PROVE  /\ \A i, j \in DOMAIN a : i < j => a[i].off < a[j].off
             /\ \A k \in DOMAIN a : a[k].off <= f.off
             /\ \A k \in DOMAIN a : a[k].name \in DOMAIN fs /\ ~fs[a[k].name].exists => a[k].name \in r.gone
  BY <1>3, <1>7 DEF GoodScan, UpToDate, InOffsetOrder
<1>8. ASSUME r.whole, NEW i \in DOMAIN c, NEW j \in DOMAIN c, i < j
      PROVE  c[i].off < c[j].off
  <2>1. CASE i \in DOMAIN a /\ j \in DOMAIN a
    BY <1>5, <1>7, <1>8, <2>1
  <2>2. CASE i \in DOMAIN a /\ \E q \in DOMAIN new : j = m + q
    <3>1. PICK q \in DOMAIN new : j = m + q
      BY <2>2
    <3>2. c[i].off \in Nat /\ c[j].off \in Nat /\ c[i].off <= f.off /\ f.off < c[j].off
      BY <1>2, <1>3, <1>5, <1>7, <1>8, <2>2, <3>1 DEF Follow
    <3> QED
      BY <3>2
  <2>3. CASE \E h, q \in DOMAIN new : h < q /\ i = m + h /\ j = m + q
    BY <1>5, <2>3 DEF Follow
  <2> QED
    BY <1>5, <1>8, <2>1, <2>2, <2>3
<1>9. ASSUME r.whole, NEW k \in DOMAIN c
      PROVE  /\ c[k].off <= end
             /\ c[k].name \in DOMAIN fs /\ ~fs[c[k].name].exists => c[k].name \in r.gone
  <2>1. CASE k \in DOMAIN a
    <3>1. c[k] = a[k] /\ a[k].off \in Nat /\ a[k].off <= f.off
      BY <1>2, <1>3, <1>5, <1>7, <1>9, <2>1
    <3> QED
      BY <1>7, <1>9, <2>1, <3>1
  <2>2. CASE \E q \in DOMAIN new : k = m + q
    BY <1>5, <2>2 DEF Follow
  <2> QED
    BY <1>5, <2>1, <2>2
<1> QED
  BY <1>4, <1>5, <1>6, <1>8, <1>9 DEF InOffsetOrder, Appended

(* The runtime's own part of a directory: every symbolic file from the offset on. *)
LEMMA OwnPartListed ==
  ASSUME NEW n \in 0..Len(Names), NEW D, NEW s \in Scans(n, D), NEW fs, NEW f,
         f.open, f.dfile = NoFile, f.off \in Nat, f.off <= n,
         GoodScan(n, s, fs), UpToDate(n, f, s, fs),
         NEW g, g.open, g.dfile = NoFile, g.fd = f.fd, g.off = Pad
  PROVE  LET shown == Ascending({i \in f.off + 1 .. n : fs[Names[i]].exists})
             r == [s EXCEPT !.seen = @ \o [k \in DOMAIN shown |-> Listed(shown[k])]]
         IN  r \in Scans(n, D) /\ GoodScan(n, r, fs) /\ UpToDate(n, g, r, fs)
<1> DEFINE files1 == {i \in f.off + 1 .. n : fs[Names[i]].exists}
           shown == Ascending(files1)
           new == [k \in DOMAIN shown |-> Listed(shown[k])]
           r == [s EXCEPT !.seen = @ \o new]
<1>1. n \in Nat /\ n <= 3 /\ Pad \in Nat /\ n <= Pad
  BY Sizes
<1>2. PICK l \in Nat : /\ shown \in [1..l -> files1]
                       /\ \A i, j \in 1..l : i < j => shown[i] < shown[j]
                       /\ \A x \in files1 : \E k \in 1..l : shown[k] = x
  <2>1. f.off + 1 .. n \in SUBSET Nat /\ IsFiniteSet(f.off + 1 .. n)
    <3>1. f.off + 1 \in Int /\ n \in Int /\ f.off + 1 .. n \in SUBSET Nat
      BY <1>1
    <3> QED
      BY <3>1, FS_Interval
  <2>2. files1 \in SUBSET (f.off + 1 .. n)
    OBVIOUS
  <2> HIDE DEF files1
  <2>3. files1 \in SUBSET Nat /\ IsFiniteSet(files1)
    BY <2>1, <2>2, FS_Subset
  <2> QED
    BY <2>3, AscendingOrder
<1> HIDE DEF shown
<1>3. \A k \in 1..l : /\ shown[k] \in f.off + 1 .. n /\ shown[k] \in 1..n
                      /\ fs[Names[shown[k]]].exists
  BY <1>1, <1>2
<1>4. /\ DOMAIN new = 1..l /\ new \in Seq(Entries(n))
      /\ \A k \in 1..l : new[k].off = shown[k] /\ new[k].name = Names[shown[k]]
  <2>1. DOMAIN shown = 1..l
    BY <1>2
  <2>2. \A k \in 1..l : Listed(shown[k]) \in Entries(n)
    BY <1>3 DEF Entries
  <2> QED
    BY <2>1, <2>2 DEF Listed
<1>5. Follow(new, fs, f.off, Pad)
  <2>1. \A k \in 1..l : f.off < shown[k] /\ shown[k] <= Pad
    BY <1>1, <1>3
  <2> QED
    BY <1>2, <1>3, <1>4, <2>1 DEF Follow
<1>6. r.seen = s.seen \o new /\ r.gone = s.gone /\ r.whole = s.whole /\ r.ended = s.ended
  BY DEF Scans
<1> HIDE DEF new
<1>7. Appended(n, s, fs, new, Pad, r)
  <2> HIDE DEF r
  <2>1. f.off <= Pad
    BY <1>1
  <2>2. Appends(n, D, s, fs, f, new, Pad, r)
    BY <1>1, <1>4, <1>5, <1>6, <2>1 DEF Appends
  <2> QED
    BY <2>2, EntriesAppended
<1>8. r \in Scans(n, D)
  BY <1>7 DEF Scans, Appended
<1> HIDE DEF r
<1>9. GoodScan(n, r, fs)
  BY <1>6, <1>7 DEF GoodScan, Appended
<1>10. UpToDate(n, g, r, fs)
  <2>1. ASSUME r.whole, f.fd = OsFd("dir"), NEW i \in 1..n, fs[Names[i]].exists
        PROVE  IsListed(r, Names[i])
    <3>1. CASE i <= f.off
      BY <1>6, <1>7, <2>1, <3>1 DEF UpToDate, Appended
    <3>2. CASE f.off < i
      <4>1. i \in files1
        BY <1>1, <2>1, <3>2
      <4>2. PICK k \in 1..l : shown[k] = i
        BY <1>2, <4>1
      <4> QED
        BY <1>4, <1>7, <4>2 DEF Appended
    <3> QED
      BY <1>1, <3>1, <3>2
  <2>2. \A k \in DOMAIN OsEntries : ~(Pad + k <= Pad)
    BY <1>1, Sizes
  <2> QED
    BY <1>7, <2>1, <2>2 DEF UpToDate, Appended
<1> QED
  BY <1>8, <1>9, <1>10 DEF r, new, shown

WithOsPart(s, from, m) ==
  [s EXCEPT !.seen = @ \o [k \in 1..m |-> [name |-> OsEntries[from + k], off |-> Pad + from + k]],
            !.ended = m = 0]

OsPart(n, D, s, fs, f, from, m, g) ==
  /\ s \in Scans(n, D) /\ GoodScan(n, s, fs) /\ UpToDate(n, f, s, fs)
  /\ f.open /\ f.dfile = NoFile /\ f.off \in Nat /\ f.fd = OsFd("dir") /\ f.off = Pad + from
  /\ from + m <= Len(OsEntries) /\ (m = 0 => from = Len(OsEntries))
  /\ g.open /\ g.dfile = NoFile /\ g.fd = f.fd /\ g.off = Pad + from + m

(* The operating system's part: m entries more, or none when all have been listed. *)
LEMMA OsPartListed ==
  ASSUME NEW n \in 0..Len(Names), NEW D, NEW s, NEW fs, NEW f, NEW from \in Nat, NEW m \in Nat, NEW g,
         DOMAIN fs \subseteq {Names[i] : i \in 1..n} \cup {"stdin", "stdout"},
         OsPart(n, D, s, fs, f, from, m, g)
  PROVE  /\ WithOsPart(s, from, m) \in Scans(n, D) /\ GoodScan(n, WithOsPart(s, from, m), fs)
         /\ UpToDate(n, g, WithOsPart(s, from, m), fs)
<1> DEFINE new == [k \in 1..m |-> [name |-> OsEntries[from + k], off |-> Pad + from + k]]
           r == WithOsPart(s, from, m)
           end == Pad + from + m
<1> USE DEF OsPart
<1>1. n \in Nat /\ n <= 3 /\ Pad \in Nat /\ n <= Pad /\ Len(OsEntries) \in Nat
  BY Places
<1>2. \A k \in 1..m : from + k \in DOMAIN OsEntries
  <2>1. \A k \in 1..m : from + k \in 1..Len(OsEntries)
    BY <1>1
  <2> QED
    BY <2>1, Places
<1>3. /\ DOMAIN new = 1..m /\ new \in Seq(Entries(n))
      /\ \A k \in 1..m : new[k].off = Pad + from + k /\ new[k].name = OsEntries[from + k]
  <2>1. \A k \in 1..m : new[k] = OsEntry(from + k)
    BY <1>1, <1>2 DEF OsEntry
  <2>2. \A k \in 1..m : new[k] \in Entries(n)
    BY <1>2, <2>1 DEF Entries
  <2> QED
    BY <2>2
<1>4. \A k \in 1..m : OsEntries[from + k] \notin DOMAIN fs
  <2>1. n <= 3
    BY <1>1
  <2> QED
    BY <1>1, <1>2, <2>1, Sizes
<1>5. Follow(new, fs, f.off, end) /\ end \in Nat /\ f.off <= end
  <2>1. \A k \in 1..m : f.off < Pad + from + k /\ Pad + from + k <= end
    BY <1>1
  <2>2. \A i, j \in 1..m : i < j => Pad + from + i < Pad + from + j
    BY <1>1
  <2>3. end \in Nat /\ f.off <= end
    BY <1>1
  <2> HIDE DEF new, end, OsPart
  <2>4. ASSUME NEW k \in DOMAIN new
        PROVE  f.off < new[k].off /\ new[k].off <= end /\ new[k].name \notin DOMAIN fs
    <3>1. k \in 1..m
      BY <1>3, <2>4
    <3> QED
      BY <1>3, <1>4, <2>1, <3>1
  <2>5. \A i, j \in DOMAIN new : i < j => new[i].off < new[j].off
    BY <1>3, <2>2
  <2> QED
    BY <2>3, <2>4, <2>5 DEF Follow
<1>6. r.seen = s.seen \o new /\ r.gone = s.gone /\ r.whole = s.whole /\ r.ended = (m = 0)
      /\ r = [s EXCEPT !.seen = r.seen, !.ended = r.ended]
  BY DEF Scans, WithOsPart
<1> HIDE DEF new, end
<1>7. Appended(n, s, fs, new, end, r)
  <2> HIDE DEF r
  <2>1. Appends(n, D, s, fs, f, new, end, r)
    BY <1>3, <1>5, <1>6 DEF Appends
  <2> QED
    BY <2>1, EntriesAppended
<1>8. r \in Scans(n, D)
  <2> HIDE DEF r
  <2>1. PICK a, e : a = r.seen /\ e = r.ended
    OBVIOUS
  <2>2. e \in BOOLEAN /\ a \in Seq(Entries(n)) /\ r = [s EXCEPT !.seen = a, !.ended = e]
    BY <1>6, <1>7, <2>1 DEF Appended
  <2> QED
    BY <2>2 DEF Scans
<1> HIDE DEF r
<1>9. ASSUME r.whole
      PROVE  /\ \A i \in 1..n : fs[Names[i]].exists => IsListed(r, Names[i])
             /\ \A k \in DOMAIN OsEntries : k <= from + m => IsListed(r, OsEntries[k])
  <2>1. ASSUME NEW i \in 1..n, fs[Names[i]].exists PROVE IsListed(r, Names[i])
    <3>1. i <= f.off
      BY <1>1
    <3> QED
      BY <1>6, <1>7, <1>9, <2>1, <3>1 DEF UpToDate, Appended
  <2>2. ASSUME NEW k \in DOMAIN OsEntries, k <= from + m PROVE IsListed(r, OsEntries[k])
    <3>1. k \in Nat /\ k >= 1
      BY <2>2, Places
    <3>2. CASE k <= from
      <4>1. Pad + k <= f.off
        BY <1>1, <3>1, <3>2
      <4> QED
        BY <1>6, <1>7, <1>9, <4>1 DEF UpToDate, Appended
    <3>3. CASE from < k
      <4>1. k - from \in 1..m /\ from + (k - from) = k
        BY <2>2, <3>1, <3>3
      <4>2. k - from \in DOMAIN new /\ new[k - from].name = OsEntries[k]
        BY <1>3, <4>1
      <4> QED
        BY <1>7, <4>2 DEF Appended
    <3> QED
      BY <3>1, <3>2, <3>3
  <2> QED
    BY <2>1, <2>2
<1>10. GoodScan(n, r, fs)
  <2>1. m = 0 => \A k \in DOMAIN OsEntries : k <= from + m
    BY <1>1, Places
  <2> QED
    BY <1>6, <1>7, <1>9, <2>1 DEF GoodScan, Appended
<1>11. UpToDate(n, g, r, fs)
  <2>1. ASSUME NEW k \in DOMAIN OsEntries, Pad + k <= g.off PROVE k <= from + m
    <3>1. k \in Nat
      BY <2>1, Places
    <3>2. Pad + k <= Pad + (from + m)
      BY <1>1, <2>1, <3>1
    <3> QED
      BY <1>1, <3>1, <3>2
  <2>2. g.off = end
    BY DEF end
  <2> QED
    BY <1>7, <1>9, <2>1, <2>2 DEF UpToDate, Appended
<1> QED
  BY <1>8, <1>10, <1>11 DEF r, new

-----------------------------------------------------------------------------
(* The invariant. *)

FileRecords == [size : Int, exists : BOOLEAN, type : {"reg", "dir", "chr", "lnk"},
                mode : SUBSET ModeBits, mine : BOOLEAN]
FdRecords(D) == [fd : Int, open : BOOLEAN, cloexec : BOOLEAN, readable : BOOLEAN, writeable : BOOLEAN,
                 off : Nat, dfile : D \cup {NoFile}]

FilesTyped ==
  /\ nSym \in 0..Len(Names)
  /\ files \in [DOMAIN files -> FileRecords]
  /\ {Names[i] : i \in 1..nSym} \subseteq DOMAIN files
  /\ DOMAIN files \subseteq {Names[i] : i \in 1..nSym} \cup {"stdin", "stdout"}

TablesTyped ==
  /\ fds \in [Fds -> FdRecords(DOMAIN files)]
  /\ scan \in [Fds -> Scans(nSym, DOMAIN files)]

ListingsGood ==
  \A fd \in Fds :
    GoodScan(nSym, scan[fd], files) /\ UpToDate(nSym, fds[fd], scan[fd], files)

Listings == FilesTyped /\ TablesTyped /\ ListingsGood

\* What a call does to the files, the descriptors and the listings.
FilesKept ==
  /\ files' \in [DOMAIN files -> FileRecords]
  /\ \A x \in DOMAIN files : files'[x].exists = files[x].exists

\* A descriptor is closed, or refers to a symbolic file, or is further on in a file that
\* is no directory.
Moves(fd, g) ==
  /\ fds' = [fds EXCEPT ![fd] = g] /\ g \in FdRecords(DOMAIN files)
  /\ \/ ~g.open \/ g.dfile # NoFile
     \/ g.open = fds[fd].open /\ g.dfile = fds[fd].dfile /\ g.fd # OsFd("dir") /\ g.off >= fds[fd].off
  /\ scan' = scan /\ FilesKept

Begins(fd, g) ==
  /\ fds' = [fds EXCEPT ![fd] = g] /\ g \in FdRecords(DOMAIN files) /\ g.off = 0
  /\ scan' = [scan EXCEPT ![fd] = FreshScan] /\ files' = files

Copies(old, new) ==
  /\ fds' = [fds EXCEPT ![new] = [fds[old] EXCEPT !.cloexec = FALSE]]
  /\ scan' = [scan EXCEPT ![new] = scan[old]] /\ files' = files

Seeks(fd, off) ==
  /\ fds' = [fds EXCEPT ![fd].off = off] /\ off \in Nat
  /\ scan' = [scan EXCEPT ![fd] = Rewound(@, off)] /\ files' = files

Deletes(df) ==
  /\ files' = [files EXCEPT ![df].exists = FALSE]
  /\ scan' = [fd \in Fds |-> [scan[fd] EXCEPT !.gone = @ \cup {df}]]
  /\ fds' = fds

LEMMA KeptInRange ==
  ASSUME Listings, FilesKept, nSym' = nSym, UNCHANGED <<fds, scan>>
  PROVE  Listings'
<1>1. FilesTyped /\ TablesTyped /\ ListingsGood
  BY DEF Listings
<1>2. DOMAIN files' = DOMAIN files /\ FilesTyped'
  BY <1>1 DEF FilesTyped, FilesKept
<1>3. TablesTyped'
  BY <1>1, <1>2 DEF TablesTyped
<1>4. ASSUME NEW fd \in Fds
      PROVE  GoodScan(nSym, scan[fd], files') /\ UpToDate(nSym, fds[fd], scan[fd], files')
  BY <1>1, <1>2, GoodScanKept DEF FilesTyped, FilesKept, ListingsGood
<1>5. ListingsGood'
  BY <1>4 DEF ListingsGood
<1> QED
  BY <1>2, <1>3, <1>5 DEF Listings

(* One descriptor and its listing change. *)
LEMMA OneChanges ==
  ASSUME Listings, nSym' = nSym, NEW fd \in Fds,
         NEW g \in FdRecords(DOMAIN files), NEW r \in Scans(nSym, DOMAIN files),
         GoodScan(nSym, r, files), UpToDate(nSym, g, r, files),
         fds' = [fds EXCEPT ![fd] = g], scan' = [scan EXCEPT ![fd] = r], files' = files
  PROVE  Listings'
<1>1. FilesTyped /\ TablesTyped /\ ListingsGood
  BY DEF Listings
<1>2. FilesTyped'
  BY <1>1 DEF FilesTyped
<1>3. TablesTyped'
  BY <1>1 DEF TablesTyped
<1>4. ASSUME NEW h \in Fds
      PROVE  GoodScan(nSym, scan'[h], files) /\ UpToDate(nSym, fds'[h], scan'[h], files)
  <2>1. /\ fds'[h] = IF h = fd THEN g ELSE fds[h]
        /\ scan'[h] = IF h = fd THEN r ELSE scan[h]
    BY <1>1 DEF TablesTyped
  <2> QED
    BY <1>1, <2>1 DEF ListingsGood
<1>5. ListingsGood'
  BY <1>1, <1>4 DEF ListingsGood
<1> QED
  BY <1>2, <1>3, <1>5 DEF Listings

LEMMA MovesGood ==
  ASSUME Listings, nSym' = nSym, NEW fd \in Fds, NEW g, Moves(fd, g)
  PROVE  Listings'
<1>1. FilesTyped /\ TablesTyped /\ ListingsGood
  BY DEF Listings
<1>2. DOMAIN files' = DOMAIN files /\ FilesTyped'
  BY <1>1 DEF FilesTyped, FilesKept, Moves
<1>3. TablesTyped'
  BY <1>1, <1>2 DEF TablesTyped, Moves
<1>4. ASSUME NEW h \in Fds
      PROVE  /\ GoodScan(nSym, scan[h], files')
             /\ UpToDate(nSym, fds[h], scan[h], files')
  BY <1>1, <1>2, GoodScanKept DEF FilesTyped, FilesKept, ListingsGood, Moves
<1>5. UpToDate(nSym, g, scan[fd], files')
  <2>1. scan[fd].seen \in Seq(Entries(nSym)) /\ fds[fd].off \in Nat /\ g.off \in Nat
    BY <1>1 DEF TablesTyped, Scans, FdRecords, Moves
  <2>2. nSym \in 0..Len(Names)
    BY <1>1 DEF FilesTyped
  <2>3. \A k \in DOMAIN scan[fd].seen : scan[fd].seen[k].off \in Nat
    BY <2>1, <2>2, EntriesOneToOne
  <2>4. UpToDate(nSym, fds[fd], scan[fd], files')
    BY <1>4
  <2>5. CASE ~g.open \/ g.dfile # NoFile
    BY <2>5 DEF UpToDate
  <2>6. CASE /\ g.open = fds[fd].open /\ g.dfile = fds[fd].dfile
             /\ g.fd # OsFd("dir") /\ g.off >= fds[fd].off
    <3>1. ASSUME g.open, g.dfile = NoFile, scan[fd].whole, NEW k \in DOMAIN scan[fd].seen
          PROVE  scan[fd].seen[k].off <= g.off
      <4>1. scan[fd].seen[k].off <= fds[fd].off
        BY <2>4, <2>6, <3>1 DEF UpToDate
      <4>2. scan[fd].seen[k].off \in Nat
        BY <2>3, <3>1
      <4> QED
        BY <2>1, <2>6, <4>1, <4>2
    <3> QED
      BY <2>6, <3>1 DEF UpToDate
  <2> QED
    BY <2>5, <2>6 DEF Moves
<1>6. ListingsGood'
  <2> SUFFICES ASSUME NEW h \in Fds
               PROVE  GoodScan(nSym, scan[h], files') /\ UpToDate(nSym, fds'[h], scan[h], files')
    BY DEF ListingsGood, Moves
  <2>1. fds'[h] = IF h = fd THEN g ELSE fds[h]
    BY <1>1 DEF TablesTyped, Moves
  <2> QED
    BY <1>4, <1>5, <2>1
<1> QED
  BY <1>2, <1>3, <1>6 DEF Listings

LEMMA BeginsGood ==
  ASSUME Listings, nSym' = nSym, NEW fd \in Fds, NEW g, Begins(fd, g)
  PROVE  Listings'
<1>1. nSym \in 0..Len(Names)
  BY DEF Listings, FilesTyped
<1>2. /\ FreshScan \in Scans(nSym, DOMAIN files) /\ GoodScan(nSym, FreshScan, files)
      /\ UpToDate(nSym, g, FreshScan, files)
  BY <1>1, FreshIsGood DEF Begins
<1> QED
  BY <1>2, OneChanges DEF Begins

LEMMA CopiesGood ==
  ASSUME Listings, nSym' = nSym, NEW old \in Fds, NEW new \in Fds, Copies(old, new)
  PROVE  Listings'
<1>1. TablesTyped /\ ListingsGood
  BY DEF Listings
<1>2. PICK g : g = [fds[old] EXCEPT !.cloexec = FALSE]
  OBVIOUS
<1>3. /\ g \in FdRecords(DOMAIN files)
      /\ g.open = fds[old].open /\ g.dfile = fds[old].dfile /\ g.off = fds[old].off /\ g.fd = fds[old].fd
  BY <1>1, <1>2 DEF TablesTyped, FdRecords
<1>4. /\ scan[old] \in Scans(nSym, DOMAIN files) /\ GoodScan(nSym, scan[old], files)
      /\ UpToDate(nSym, g, scan[old], files)
  BY <1>1, <1>3 DEF TablesTyped, ListingsGood, UpToDate
<1> QED
  BY <1>2, <1>3, <1>4, OneChanges DEF Copies

LEMMA SeeksGood ==
  ASSUME Listings, nSym' = nSym, NEW fd \in Fds, NEW off, Seeks(fd, off)
  PROVE  Listings'
<1>1. TablesTyped /\ ListingsGood /\ nSym \in 0..Len(Names)
  BY DEF Listings, FilesTyped
<1>2. PICK g, r : g = [fds[fd] EXCEPT !.off = off] /\ r = Rewound(scan[fd], off)
  OBVIOUS
<1>3. /\ g \in FdRecords(DOMAIN files) /\ off \in Nat /\ fds[fd].off \in Nat
      /\ g.open = fds[fd].open /\ g.dfile = fds[fd].dfile /\ g.off = off /\ g.fd = fds[fd].fd
  BY <1>1, <1>2 DEF TablesTyped, FdRecords, Seeks
<1>4. /\ scan[fd] \in Scans(nSym, DOMAIN files) /\ GoodScan(nSym, scan[fd], files)
      /\ UpToDate(nSym, fds[fd], scan[fd], files)
  BY <1>1 DEF TablesTyped, ListingsGood
<1>5. r \in Scans(nSym, DOMAIN files) /\ GoodScan(nSym, r, files) /\ UpToDate(nSym, g, r, files)
  BY <1>1, <1>2, <1>3, <1>4, GoodScanRewound
<1> QED
  BY <1>2, <1>3, <1>5, OneChanges DEF Seeks

LEMMA DeletesGood ==
  ASSUME Listings, nSym' = nSym, NEW df \in DOMAIN files, Deletes(df)
  PROVE  Listings'
<1>1. FilesTyped /\ TablesTyped /\ ListingsGood /\ fds' = fds /\ nSym \in 0..Len(Names)
      /\ {Names[i] : i \in 1..nSym} \subseteq DOMAIN files
  BY DEF Listings, Deletes, FilesTyped
<1>2. /\ DOMAIN files' = DOMAIN files /\ files' \in [DOMAIN files -> FileRecords]
      /\ ~files'[df].exists
      /\ \A x \in DOMAIN files : x # df => files'[x].exists = files[x].exists
  BY <1>1 DEF FilesTyped, FileRecords, Deletes
<1>3. FilesTyped'
  BY <1>1, <1>2 DEF FilesTyped
<1>4. ASSUME NEW h \in Fds
      PROVE  /\ scan'[h] \in Scans(nSym, DOMAIN files)
             /\ GoodScan(nSym, scan'[h], files') /\ UpToDate(nSym, fds[h], scan'[h], files')
  <2>1. /\ scan[h] \in Scans(nSym, DOMAIN files) /\ GoodScan(nSym, scan[h], files)
        /\ UpToDate(nSym, fds[h], scan[h], files)
    BY <1>1 DEF TablesTyped, ListingsGood
  <2>2. scan'[h] = [scan[h] EXCEPT !.gone = @ \cup {df}]
    BY DEF Deletes
  <2>3. LET r == [scan[h] EXCEPT !.gone = @ \cup {df}]
        IN  /\ r \in Scans(nSym, DOMAIN files)
            /\ GoodScan(nSym, scan[h], files) => GoodScan(nSym, r, files')
            /\ UpToDate(nSym, fds[h], scan[h], files) => UpToDate(nSym, fds[h], r, files')
    <3>1. PICK n, D, f, s, gs : n = nSym /\ D = DOMAIN files /\ f = fds[h] /\ s = scan[h] /\ gs = files'
      OBVIOUS
    <3>2. /\ n \in 0..Len(Names) /\ s \in Scans(n, D) /\ DOMAIN gs = DOMAIN files /\ df \in D
          /\ \A x \in DOMAIN files : x # df => gs[x].exists = files[x].exists
          /\ {Names[i] : i \in 1..n} \subseteq DOMAIN files /\ ~gs[df].exists
      BY <1>1, <1>2, <2>1, <3>1
    <3> QED
      BY <3>1, <3>2, GoodScanDeleted
  <2> QED
    BY <2>1, <2>2, <2>3
<1>5. TablesTyped'
  BY <1>1, <1>2, <1>4 DEF TablesTyped, Deletes
<1>6. ListingsGood'
  BY <1>1, <1>4 DEF ListingsGood
<1> QED
  BY <1>3, <1>5, <1>6 DEF Listings

LEMMA OwnPartGood ==
  ASSUME Listings, nSym' = nSym, NEW fd \in Fds, NEW count \in Nat, GetDentsOwn(fd, count),
         fds[fd].open, ~Symbolic(fds[fd])
  PROVE  Listings'
<1>1. FilesTyped /\ TablesTyped /\ ListingsGood /\ nSym \in 0..Len(Names)
  BY DEF Listings, FilesTyped
<1>2. CASE fds[fd].off > nSym
  BY <1>1, <1>2, KeptInRange DEF GetDentsOwn, Keep, FilesKept, FilesTyped
<1>3. CASE ~(fds[fd].off > nSym)
  <2>1. PICK f, g, s, r :
          /\ f = fds[fd] /\ g = [f EXCEPT !.off = Pad] /\ s = scan[fd]
          /\ LET shown == Ascending({i \in f.off + 1 .. nSym : files[Names[i]].exists})
             IN  r = [s EXCEPT !.seen = @ \o [k \in DOMAIN shown |-> Listed(shown[k])]]
    OBVIOUS
  <2>2. /\ f \in FdRecords(DOMAIN files) /\ f.open /\ f.dfile = NoFile /\ f.off \in Nat /\ f.off <= nSym
        /\ s \in Scans(nSym, DOMAIN files) /\ GoodScan(nSym, s, files) /\ UpToDate(nSym, f, s, files)
    <3>1. /\ f \in FdRecords(DOMAIN files) /\ s \in Scans(nSym, DOMAIN files)
          /\ GoodScan(nSym, s, files) /\ UpToDate(nSym, f, s, files)
      BY <1>1, <2>1 DEF TablesTyped, ListingsGood
    <3>2. f.off \in Nat /\ nSym \in Nat
      BY <1>1, <3>1, Places DEF FdRecords
    <3> QED
      BY <1>3, <2>1, <3>1, <3>2 DEF Symbolic
  <2>3. /\ g \in FdRecords(DOMAIN files)
        /\ g.open /\ g.dfile = NoFile /\ g.off = Pad /\ g.fd = f.fd
    BY <2>1, <2>2, Places DEF FdRecords
  <2>4. r \in Scans(nSym, DOMAIN files) /\ GoodScan(nSym, r, files) /\ UpToDate(nSym, g, r, files)
    <3>1. PICK n, fs, D : n = nSym /\ fs = files /\ D = DOMAIN files
      OBVIOUS
    <3>2. /\ n \in 0..Len(Names) /\ f.off <= n
          /\ s \in Scans(n, D) /\ GoodScan(n, s, fs) /\ UpToDate(n, f, s, fs)
      BY <1>1, <2>2, <3>1
    <3>3. LET shown == Ascending({i \in f.off + 1 .. n : fs[Names[i]].exists})
              q == [s EXCEPT !.seen = @ \o [k \in DOMAIN shown |-> Listed(shown[k])]]
          IN  q \in Scans(n, D) /\ GoodScan(n, q, fs) /\ UpToDate(n, g, q, fs)
      BY <2>2, <2>3, <3>2, OwnPartListed
    <3> QED
      BY <2>1, <3>1, <3>3
  <2>5. Min({count, Pad}) = IF count <= Pad THEN count ELSE Pad
    BY Places, LesserOfTwo
  <2>6. CASE count >= Pad
    <3>1. Min({count, Pad}) = Pad
      BY <2>5, <2>6, Places
    <3>2. fds' = [fds EXCEPT ![fd] = g] /\ files' = files
      BY <1>3, <2>1, <3>1 DEF GetDentsOwn
    <3>3. PICK seen : seen = r.seen
      OBVIOUS
    <3>4. scan' = [scan EXCEPT ![fd].seen = seen, ![fd].whole = @ /\ (count >= Pad)]
      BY <1>3, <2>1, <2>2, <3>3 DEF GetDentsOwn, Present, Scans
    <3>5. r = [s EXCEPT !.seen = seen] /\ s.whole \in BOOLEAN
      BY <2>1, <2>2, <3>3 DEF Scans
    <3>6. (s.whole /\ (count >= Pad)) = s.whole
      BY <2>6, <3>5
    <3>7. r = [s EXCEPT !.seen = seen, !.whole = s.whole]
      BY <2>2, <3>5 DEF Scans
    <3>8. scan' = [scan EXCEPT ![fd] = r]
      BY <2>1, <3>4, <3>6, <3>7
    <3> QED
      BY <1>1, <2>3, <2>4, <3>2, <3>8, OneChanges
  <2>7. CASE count < Pad
    <3>1. PICK h, q : h = [f EXCEPT !.off = count] /\ q = [r EXCEPT !.whole = FALSE]
      OBVIOUS
    <3>2. h \in FdRecords(DOMAIN files)
      BY <2>2, <3>1 DEF FdRecords
    <3>3. q \in Scans(nSym, DOMAIN files) /\ ~q.whole
      BY <2>4, <3>1 DEF Scans
    <3>4. Min({count, Pad}) = count
      BY <2>5, <2>7, Places
    <3>5. fds' = [fds EXCEPT ![fd] = h] /\ files' = files
      BY <1>3, <2>1, <3>1, <3>4 DEF GetDentsOwn
    <3>6. scan' = [scan EXCEPT ![fd] = q]
      <4>1. (count >= Pad) = FALSE
        BY <2>7, Places
      <4> QED
        BY <1>3, <2>1, <3>1, <4>1 DEF GetDentsOwn, Present
    <3>7. GoodScan(nSym, q, files) /\ UpToDate(nSym, h, q, files)
      BY <3>3 DEF GoodScan, UpToDate
    <3> QED
      BY <1>1, <3>2, <3>3, <3>5, <3>6, <3>7, OneChanges
  <2> QED
    BY <2>6, <2>7, Places
<1> QED
  BY <1>2, <1>3

LEMMA OsPartGood ==
  ASSUME Listings, nSym' = nSym, NEW fd \in Fds, NEW count \in Nat, GetDentsOs(fd, count),
         fds[fd].open, ~Symbolic(fds[fd]), ~(fds[fd].off < Pad), fds[fd].fd = OsFd("dir")
  PROVE  Listings'
<1>1. FilesTyped /\ TablesTyped /\ ListingsGood /\ nSym \in 0..Len(Names)
      /\ DOMAIN files \subseteq {Names[i] : i \in 1..nSym} \cup {"stdin", "stdout"}
  BY DEF Listings, FilesTyped
<1>2. PICK m \in 0 .. Min({count, Len(OsEntries) - (fds[fd].off - Pad)}) :
        LET from == fds[fd].off - Pad
        IN  /\ m = 0 => from = Len(OsEntries)
            /\ fds' = [fds EXCEPT ![fd].off = Pad + from + m]
            /\ scan' = [scan EXCEPT ![fd].seen = @ \o [k \in 1..m |->
                                       [name |-> OsEntries[from + k], off |-> Pad + from + k]],
                                    ![fd].ended = m = 0]
            /\ files' = files
  BY DEF GetDentsOs
<1>3. PICK f, s, from : f = fds[fd] /\ s = scan[fd] /\ from = fds[fd].off - Pad
  OBVIOUS
<1>4. PICK g, r :
        /\ g = [f EXCEPT !.off = Pad + from + m]
        /\ r = WithOsPart(s, from, m)
  OBVIOUS
<1>5. /\ f \in FdRecords(DOMAIN files) /\ f.open /\ f.dfile = NoFile /\ f.off \in Nat /\ f.fd = OsFd("dir")
      /\ s \in Scans(nSym, DOMAIN files) /\ GoodScan(nSym, s, files) /\ UpToDate(nSym, f, s, files)
  <2>1. /\ f \in FdRecords(DOMAIN files) /\ s \in Scans(nSym, DOMAIN files)
        /\ GoodScan(nSym, s, files) /\ UpToDate(nSym, f, s, files)
    BY <1>1, <1>3 DEF TablesTyped, ListingsGood
  <2>2. f.off \in Nat
    BY <2>1 DEF FdRecords
  <2> QED
    BY <1>3, <2>1, <2>2 DEF Symbolic
<1>6. from \in Nat /\ f.off = Pad + from /\ Pad \in Nat /\ Len(OsEntries) \in Nat
  BY <1>3, <1>5, Places
<1>7. m \in Nat /\ from + m <= Len(OsEntries)
  <2> DEFINE rest == Len(OsEntries) - from
  <2>1. rest \in Int
    BY <1>6
  <2>2. m \in 0 .. Min({count, rest})
    BY <1>2, <1>3
  <2> HIDE DEF rest
  <2>3. Min({count, rest}) = IF count <= rest THEN count ELSE rest
    BY <2>1, LesserOfTwo
  <2>4. m \in Nat /\ m <= rest
    BY <2>1, <2>2, <2>3
  <2> QED
    BY <1>6, <2>4 DEF rest
<1>8. m = 0 => from = Len(OsEntries)
  BY <1>2, <1>3
<1>9. /\ g \in FdRecords(DOMAIN files)
      /\ g.open /\ g.dfile = NoFile /\ g.off = Pad + from + m /\ g.fd = f.fd
  <2>1. Pad + from + m \in Nat
    BY <1>6, <1>7
  <2> QED
    BY <1>4, <1>5, <2>1 DEF FdRecords
<1>10. r \in Scans(nSym, DOMAIN files) /\ GoodScan(nSym, r, files) /\ UpToDate(nSym, g, r, files)
  <2>1. PICK n, fs, D : n = nSym /\ fs = files /\ D = DOMAIN files
    OBVIOUS
  <2>2. /\ n \in 0..Len(Names) /\ DOMAIN fs \subseteq {Names[i] : i \in 1..n} \cup {"stdin", "stdout"}
        /\ s \in Scans(n, D) /\ GoodScan(n, s, fs) /\ UpToDate(n, f, s, fs)
    BY <1>1, <1>5, <2>1
  <2>3. LET q == WithOsPart(s, from, m)
        IN  q \in Scans(n, D) /\ GoodScan(n, q, fs) /\ UpToDate(n, g, q, fs)
    <3>1. OsPart(n, D, s, fs, f, from, m, g)
      BY <1>5, <1>6, <1>7, <1>8, <1>9, <2>2 DEF OsPart
    <3> QED
      BY <1>6, <1>7, <2>2, <3>1, OsPartListed
  <2> QED
    BY <1>4, <2>1, <2>3
<1>11. fds' = [fds EXCEPT ![fd] = g] /\ scan' = [scan EXCEPT ![fd] = r] /\ files' = files
  BY <1>2, <1>3, <1>4 DEF WithOsPart
<1> QED
  BY <1>1, <1>9, <1>10, <1>11, OneChanges

-----------------------------------------------------------------------------
(* Every call keeps the invariant. *)

LEMMA KeepGood ==
  ASSUME Listings, nSym' = nSym, Keep
  PROVE  Listings'
BY KeptInRange DEF Keep, FilesKept, Listings, FilesTyped

LEMMA SharedGood ==
  ASSUME Listings, nSym' = nSym
  PROVE  /\ PassedOn => Listings'
         /\ \A e : Told(e) \/ Inject(e) \/ Abort(e) => Listings'
BY KeepGood DEF PassedOn, Told, Inject, Abort

LEMMA SymFile ==
  ASSUME FilesTyped, NEW path, GetSymFile(path) # NoFile
  PROVE  GetSymFile(path) \in DOMAIN files /\ GetSymFile(path) \in {Names[i] : i \in 1..nSym}
BY DEF GetSymFile, FilesTyped

LEMMA FdTypes ==
  ASSUME Listings
  PROVE  /\ \A fd \in Fds : fds[fd] \in FdRecords(DOMAIN files) /\ fds[fd].off \in Nat
         /\ \A fd \in Fds : Symbolic(fds[fd]) => /\ fds[fd].dfile \in DOMAIN files
                                                /\ files[fds[fd].dfile].size \in Int
         /\ Blank \in FdRecords(DOMAIN files) /\ Blank.open = FALSE /\ Blank.off = 0
         /\ NoFile \notin DOMAIN files
<1>1. NoFile \notin {Names[i] : i \in 1..nSym} \cup {"stdin", "stdout"}
  <2>1. nSym \in 0..3
    BY Sizes DEF Listings, FilesTyped
  <2>2. \A i \in 1..3 : Names[i] # "none"
    BY DEF Names
  <2>3. \A i \in 1..nSym : i \in 1..3
    BY <2>1
  <2> QED
    BY <2>2, <2>3 DEF NoFile
<1>2. \A fd \in Fds : fds[fd] \in FdRecords(DOMAIN files) /\ fds[fd].off \in Nat
  BY DEF Listings, TablesTyped, FdRecords
<1>3. ASSUME NEW fd \in Fds, Symbolic(fds[fd])
      PROVE  fds[fd].dfile \in DOMAIN files /\ files[fds[fd].dfile].size \in Int
  <2>1. fds[fd].dfile \in DOMAIN files
    BY <1>2, <1>3 DEF FdRecords, Symbolic
  <2>2. files[fds[fd].dfile] \in FileRecords
    BY <2>1 DEF Listings, FilesTyped
  <2> QED
    BY <2>1, <2>2 DEF FileRecords
<1>4. Blank \in FdRecords(DOMAIN files) /\ Blank.open = FALSE /\ Blank.off = 0
  BY DEF Blank, FdRecords, NoFile
<1>5. NoFile \notin DOMAIN files
  BY <1>1 DEF Listings, FilesTyped
<1> QED
  BY <1>2, <1>3, <1>4, <1>5

(* A symbolic file's permissions change. *)
LEMMA ModesKept ==
  ASSUME FilesTyped, NEW df \in DOMAIN files, NEW mode \in SUBSET ModeBits,
         files' = [files EXCEPT ![df].mode = mode]
  PROVE  FilesKept
<1>1. files \in [DOMAIN files -> FileRecords]
  BY DEF FilesTyped
<1>2. files'[df] = [files[df] EXCEPT !.mode = mode] /\ files[df] \in FileRecords
  BY <1>1
<1>3. files'[df] \in FileRecords /\ files'[df].exists = files[df].exists
  BY <1>2 DEF FileRecords
<1>4. \A x \in DOMAIN files : x # df => files'[x] = files[x]
  OBVIOUS
<1>5. files' \in [DOMAIN files -> FileRecords]
  BY <1>1, <1>3
<1> QED
  BY <1>3, <1>4, <1>5 DEF FilesKept

LEMMA OpenedTyped ==
  ASSUME NEW D, NEW f \in FdRecords(D), NEW acc
  PROVE  /\ Opened(f, acc) \in FdRecords(D)
         /\ Opened(f, acc).off = f.off /\ Opened(f, acc).dfile = f.dfile
BY DEF Opened, FdRecords

(* Descriptors that are about to be opened. *)
LEMMA BlankTyped ==
  ASSUME NEW D
  PROVE  /\ \A n \in Int : /\ [Blank EXCEPT !.fd = n] \in FdRecords(D)
                          /\ [Blank EXCEPT !.fd = n].off = 0
         /\ \A df \in D : /\ [Blank EXCEPT !.dfile = df] \in FdRecords(D)
                         /\ [Blank EXCEPT !.dfile = df].open = FALSE
                         /\ [Blank EXCEPT !.dfile = df].dfile = df
<1>1. Blank \in FdRecords(D) /\ Blank.off = 0 /\ Blank.open = FALSE
  BY DEF Blank, FdRecords, NoFile
<1>2. ASSUME NEW n \in Int
      PROVE  [Blank EXCEPT !.fd = n] \in FdRecords(D) /\ [Blank EXCEPT !.fd = n].off = 0
  BY <1>1 DEF FdRecords
<1>3. ASSUME NEW df \in D
      PROVE  /\ [Blank EXCEPT !.dfile = df] \in FdRecords(D)
             /\ [Blank EXCEPT !.dfile = df].open = FALSE /\ [Blank EXCEPT !.dfile = df].dfile = df
  BY <1>1 DEF FdRecords
<1> QED
  BY <1>2, <1>3

LEMMA NewlyOpened ==
  ASSUME NEW D, NEW acc
  PROVE  /\ \A path : LET g == Opened([Blank EXCEPT !.fd = OsFd(path)], acc)
                     IN  g \in FdRecords(D) /\ g.off = 0
         /\ \A df \in D : LET g == Opened([Blank EXCEPT !.dfile = df], acc)
                         IN  g \in FdRecords(D) /\ g.dfile = df
<1>1. ASSUME NEW path
      PROVE  LET g == Opened([Blank EXCEPT !.fd = OsFd(path)], acc)
             IN  g \in FdRecords(D) /\ g.off = 0
  <2>1. OsFd(path) \in Int
    BY DEF OsFd
  <2>2. PICK f \in FdRecords(D) : f = [Blank EXCEPT !.fd = OsFd(path)] /\ f.off = 0
    BY <2>1, BlankTyped
  <2>3. Opened(f, acc) \in FdRecords(D) /\ Opened(f, acc).off = 0
    BY <2>2, OpenedTyped
  <2> QED
    BY <2>2, <2>3
<1>2. ASSUME NEW df \in D
      PROVE  LET g == Opened([Blank EXCEPT !.dfile = df], acc)
             IN  g \in FdRecords(D) /\ g.dfile = df
  <2>1. PICK f \in FdRecords(D) : f = [Blank EXCEPT !.dfile = df] /\ f.dfile = df
    BY BlankTyped
  <2>2. Opened(f, acc) \in FdRecords(D) /\ Opened(f, acc).dfile = df
    BY <2>1, OpenedTyped
  <2> QED
    BY <2>1, <2>2
<1> QED
  BY <1>1, <1>2

LEMMA FdOpenGood ==
  ASSUME Listings, nSym' = nSym, NEW path, NEW acc, NEW opts, NEW mode \in SUBSET ModeBits,
         FdOpen(path, acc, opts, mode)
  PROVE  Listings'
<1>1. CASE FreeFds = {}
  BY <1>1, KeepGood DEF FdOpen
<1>2. CASE FreeFds # {} /\ GetSymFile(path) = NoFile
  <2>1. Min(FreeFds) \in Fds /\ OpenOs(path, acc)
    BY <1>2, FreeFd DEF FdOpen
  <2>2. PICK fd \in Fds : fd = Min(FreeFds)
    BY <2>1
  <2>3. CASE /\ fds' = [fds EXCEPT ![fd] = Blank] /\ UNCHANGED <<files, scan>>
    <3>1. Moves(fd, Blank)
      BY <2>3, FdTypes DEF Moves, FilesKept, Listings, FilesTyped
    <3> QED
      BY <3>1, MovesGood
  <2>4. CASE /\ fds' = [fds EXCEPT ![fd] = Opened([Blank EXCEPT !.fd = OsFd(path)], acc)]
             /\ scan' = [scan EXCEPT ![fd] = FreshScan] /\ files' = files
    <3>1. PICK g : g = Opened([Blank EXCEPT !.fd = OsFd(path)], acc)
      OBVIOUS
    <3>2. g \in FdRecords(DOMAIN files) /\ g.off = 0
      BY <3>1, NewlyOpened
    <3>3. Begins(fd, g)
      BY <2>4, <3>1, <3>2 DEF Begins
    <3> QED
      BY <3>3, BeginsGood
  <2> QED
    BY <2>1, <2>2, <2>3, <2>4 DEF OpenOs
<1>3. CASE FreeFds # {} /\ GetSymFile(path) # NoFile
  <2>1. PICK df : df = GetSymFile(path)
    OBVIOUS
  <2>2. df \in DOMAIN files /\ df # NoFile /\ OpenSym(df, acc, opts, mode)
    BY <1>3, <2>1, SymFile DEF Listings, FdOpen
  <2>3. PICK fd \in Fds : fd = Min(FreeFds)
    BY <1>3, FreeFd
  <2>4. CASE /\ fds' = [fds EXCEPT ![fd] = [Blank EXCEPT !.dfile = df]] /\ UNCHANGED <<files, scan>>
    <3>1. PICK g : g = [Blank EXCEPT !.dfile = df]
      OBVIOUS
    <3>2. g \in FdRecords(DOMAIN files) /\ ~g.open
      BY <2>2, <3>1, BlankTyped
    <3>3. Moves(fd, g)
      BY <2>4, <3>1, <3>2 DEF Moves, FilesKept, Listings, FilesTyped
    <3> QED
      BY <3>3, MovesGood
  <2>5. CASE /\ fds' = [fds EXCEPT ![fd] = Opened([Blank EXCEPT !.dfile = df], acc)]
             /\ files' = [files EXCEPT ![df].mode = mode \ umask] /\ scan' = scan
    <3>1. PICK g : g = Opened([Blank EXCEPT !.dfile = df], acc)
      OBVIOUS
    <3>2. g \in FdRecords(DOMAIN files) /\ g.dfile # NoFile
      BY <2>2, <3>1, NewlyOpened
    <3>3. FilesKept
      <4>1. mode \ umask \in SUBSET ModeBits
        OBVIOUS
      <4> QED
        BY <2>2, <2>5, <4>1, ModesKept DEF Listings
    <3>4. Moves(fd, g)
      BY <2>5, <3>1, <3>2, <3>3 DEF Moves
    <3> QED
      BY <3>4, MovesGood
  <2> QED
    BY <2>2, <2>3, <2>4, <2>5 DEF OpenSym
<1> QED
  BY <1>1, <1>2, <1>3

LEMMA OpenGood ==
  ASSUME Listings, NEW path, NEW base, NEW acc, NEW opts, NEW mode \in SUBSET ModeBits,
         Open(path, acc, opts, mode) \/ OpenAt(base, path, acc, opts, mode)
  PROVE  Listings'
BY FdOpenGood, KeepGood DEF Open, OpenAt, Settings

LEMMA ClosedGood ==
  ASSUME Listings, nSym' = nSym, NEW fd \in Fds,
         fds' = [fds EXCEPT ![fd] = Blank], UNCHANGED <<files, scan>>
  PROVE  Listings'
<1>1. Moves(fd, Blank)
  BY FdTypes DEF Moves, FilesKept, Listings, FilesTyped
<1> QED
  BY <1>1, MovesGood

LEMMA DuplicatedGood ==
  ASSUME Listings, nSym' = nSym, NEW old \in Fds, NEW new \in Fds, Duplicated(old, new)
  PROVE  Listings'
BY CopiesGood DEF Duplicated, Copies

LEMMA CloseGood ==
  ASSUME Listings, NEW fd \in Fds, Close(fd)
  PROVE  Listings'
BY ClosedGood, KeepGood, SharedGood DEF Close, MayFail, Settings

LEMMA DupGood ==
  ASSUME Listings, NEW old \in Fds, NEW new \in Fds, Dup2(old, new) \/ Dup(old)
  PROVE  Listings'
<1>1. nSym' = nSym
  BY DEF Dup2, Dup, Settings
<1>2. CASE Dup2(old, new)
  <2>1. \/ Keep \/ Duplicated(old, new)
        \/ fds' = [fds EXCEPT ![new] = Blank] /\ UNCHANGED <<files, scan>>
    BY <1>2 DEF Dup2
  <2> QED
    BY <1>1, <2>1, KeepGood, DuplicatedGood, ClosedGood
<1>3. CASE Dup(old)
  <2>1. Keep \/ (FreeFds # {} /\ Duplicated(old, Min(FreeFds)))
    BY <1>3 DEF Dup
  <2> QED
    BY <1>1, <2>1, KeepGood, DuplicatedGood, FreeFd
<1> QED
  BY <1>2, <1>3

(* Reading and writing move the descriptor on; the operating system reads no directory. *)
LEMMA FurtherGood ==
  ASSUME Listings, nSym' = nSym, NEW fd \in Fds, NEW r \in Nat,
         Symbolic(fds[fd]) \/ fds[fd].fd # OsFd("dir"),
         fds' = [fds EXCEPT ![fd].off = @ + r], UNCHANGED <<files, scan>>
  PROVE  Listings'
<1>1. PICK g : g = [fds[fd] EXCEPT !.off = @ + r]
  OBVIOUS
<1>2. fds[fd] \in FdRecords(DOMAIN files) /\ fds[fd].off \in Nat
  BY FdTypes
<1>3. /\ g \in FdRecords(DOMAIN files)
      /\ g.open = fds[fd].open /\ g.dfile = fds[fd].dfile /\ g.fd = fds[fd].fd /\ g.off >= fds[fd].off
  BY <1>1, <1>2 DEF FdRecords
<1>4. Moves(fd, g)
  BY <1>1, <1>3 DEF Moves, FilesKept, Listings, FilesTyped, Symbolic
<1> QED
  BY <1>4, MovesGood

LEMMA ReadGood ==
  ASSUME Listings, NEW fd \in Fds, NEW count \in Nat, NEW null, Read(fd, count, null)
  PROVE  Listings'
<1>1. nSym' = nSym
  BY DEF Read, Settings
<1>2. ASSUME ReadSym(fd, count), Symbolic(fds[fd]) PROVE Listings'
  <2>1. PICK left \in Int : left = files[fds[fd].dfile].size - fds[fd].off
    <3>1. files[fds[fd].dfile].size - fds[fd].off \in Int
      BY <1>2, FdTypes
    <3> QED
      BY <3>1
  <2>2. CASE left < 0
    BY <1>1, <1>2, <2>1, <2>2, KeepGood DEF ReadSym
  <2>3. CASE ~(left < 0)
    <3>1. Min({count, left}) \in Nat
      BY <2>3, LesserOfTwo
    <3>2. fds' = [fds EXCEPT ![fd].off = @ + Min({count, left})] /\ UNCHANGED <<files, scan>>
      BY <1>2, <2>1, <2>3 DEF ReadSym
    <3> QED
      BY <1>1, <1>2, <3>1, <3>2, FurtherGood
  <2> QED
    BY <2>2, <2>3
<1>3. ASSUME ReadOs(fd, count) PROVE Listings'
  <2>1. CASE Keep
    BY <1>1, <2>1, KeepGood
  <2>2. CASE \E r \in 0..count : /\ fds[fd].fd # OsFd("dir") /\ UNCHANGED <<files, scan>>
                                 /\ fds' = fds \/ fds' = [fds EXCEPT ![fd].off = @ + r]
    <3>1. PICK r \in Nat : /\ fds[fd].fd # OsFd("dir") /\ UNCHANGED <<files, scan>>
                           /\ fds' = fds \/ fds' = [fds EXCEPT ![fd].off = @ + r]
      BY <2>2
    <3>2. CASE fds' = fds
      BY <1>1, <3>1, <3>2, KeptInRange DEF FilesKept, Listings, FilesTyped
    <3>3. CASE fds' = [fds EXCEPT ![fd].off = @ + r]
      BY <1>1, <3>1, <3>3, FurtherGood
    <3> QED
      BY <3>1, <3>2, <3>3
  <2> QED
    BY <1>3, <2>1, <2>2 DEF ReadOs
<1> QED
  BY <1>1, <1>2, <1>3, KeepGood, SharedGood DEF Read, MayFail

LEMMA WriteGood ==
  ASSUME Listings, NEW fd \in Fds, NEW count \in Nat, Write(fd, count)
  PROVE  Listings'
<1>1. nSym' = nSym
  BY DEF Write, Settings
<1>2. ASSUME WriteSym(fd, count), Symbolic(fds[fd]) PROVE Listings'
  <2>1. fds' = [fds EXCEPT ![fd].off = @ + count] /\ UNCHANGED <<files, scan>>
    BY <1>2 DEF WriteSym
  <2> QED
    BY <1>1, <1>2, <2>1, FurtherGood
<1>3. ASSUME WriteOs(fd, count) PROVE Listings'
  <2>1. CASE Keep
    BY <1>1, <2>1, KeepGood
  <2>2. CASE \E r \in 0..count : /\ fds[fd].fd # OsFd("dir") /\ UNCHANGED <<files, scan>>
                                 /\ fds' = fds \/ fds' = [fds EXCEPT ![fd].off = @ + r]
    <3>1. PICK r \in Nat : /\ fds[fd].fd # OsFd("dir") /\ UNCHANGED <<files, scan>>
                           /\ fds' = fds \/ fds' = [fds EXCEPT ![fd].off = @ + r]
      BY <2>2
    <3>2. CASE fds' = fds
      BY <1>1, <3>1, <3>2, KeptInRange DEF FilesKept, Listings, FilesTyped
    <3>3. CASE fds' = [fds EXCEPT ![fd].off = @ + r]
      BY <1>1, <3>1, <3>3, FurtherGood
    <3> QED
      BY <3>1, <3>2, <3>3
  <2> QED
    BY <1>3, <2>1, <2>2 DEF WriteOs
<1> QED
  BY <1>1, <1>2, <1>3, KeepGood, SharedGood DEF Write, MayFail

LEMMA LSeekGood ==
  ASSUME Listings, NEW fd \in Fds, NEW offset \in Int, NEW whence \in {"SET", "CUR", "END"},
         LSeek(fd, offset, whence)
  PROVE  Listings'
<1>1. nSym' = nSym
  BY DEF LSeek, Settings
<1>2. PICK new : new = Target(fd, offset, whence)
  OBVIOUS
<1>3. new = NoFd \/ new \in Nat
  <2>1. fds[fd].off \in Nat /\ Pad \in Nat
    BY FdTypes, Places
  <2>2. Symbolic(fds[fd]) => files[fds[fd].dfile].size \in Int
    BY FdTypes
  <2> QED
    BY <1>2, <2>1, <2>2 DEF Target, NoFd
<1>4. Keep \/ (new # NoFd /\ fds' = [fds EXCEPT ![fd].off = new]
               /\ scan' = [scan EXCEPT ![fd] = Rewound(@, new)] /\ files' = files)
  BY <1>2 DEF LSeek
<1> QED
  BY <1>1, <1>3, <1>4, KeepGood, SeeksGood DEF Seeks

LEMMA GetDentsGood ==
  ASSUME Listings, NEW fd \in Fds, NEW count \in Nat, GetDents(fd, count)
  PROVE  Listings'
<1>1. nSym' = nSym
  BY DEF GetDents, Settings
<1>2. \/ Keep
      \/ /\ fds[fd].open /\ ~Symbolic(fds[fd])
         /\ \/ GetDentsOwn(fd, count)
            \/ ~(fds[fd].off < Pad) /\ fds[fd].fd = OsFd("dir") /\ GetDentsOs(fd, count)
  BY DEF GetDents, GetFile
<1> QED
  BY <1>1, <1>2, KeepGood, OwnPartGood, OsPartGood

LEMMA ModeGood ==
  ASSUME Listings, NEW mode \in SUBSET ModeBits, NEW path, NEW fd \in Fds,
         ChMod(path, mode) \/ FChMod(fd, mode)
  PROVE  Listings'
<1>1. nSym' = nSym
  BY DEF ChMod, FChMod, Settings
<1>2. ASSUME NEW df \in DOMAIN files, DfChMod(df, mode) PROVE Listings'
  <2>1. CASE Keep
    BY <1>1, <2>1, KeepGood
  <2>2. CASE files' = [files EXCEPT ![df].mode = mode] /\ UNCHANGED <<fds, scan>>
    BY <1>1, <2>2, ModesKept, KeptInRange DEF Listings
  <2> QED
    BY <1>2, <2>1, <2>2 DEF DfChMod
<1>3. CASE ChMod(path, mode)
  BY <1>1, <1>2, <1>3, SharedGood, SymFile DEF ChMod, MayFail, Listings
<1>4. CASE FChMod(fd, mode)
  BY <1>1, <1>2, <1>4, SharedGood, KeepGood, FdTypes DEF FChMod, MayFail
<1> QED
  BY <1>3, <1>4

LEMMA DeleteGood ==
  ASSUME Listings, NEW path, RmDir(path) \/ Unlink(path)
  PROVE  Listings'
<1>1. nSym' = nSym
  BY DEF RmDir, Unlink, Settings
<1>2. Keep \/ (GetSymFile(path) # NoFile /\ Deleted(GetSymFile(path)))
  BY DEF RmDir, Unlink
<1>3. ASSUME GetSymFile(path) # NoFile, Deleted(GetSymFile(path)) PROVE Listings'
  <2>1. GetSymFile(path) \in DOMAIN files
    BY <1>3, SymFile DEF Listings
  <2>2. Deletes(GetSymFile(path))
    BY <1>3 DEF Deleted, Deletes
  <2> QED
    BY <1>1, <2>1, <2>2, DeletesGood
<1> QED
  BY <1>1, <1>2, <1>3, KeepGood

LEMMA SetFdGood ==
  ASSUME Listings, NEW fd \in Fds, NEW cloexec \in BOOLEAN, SetFd(fd, cloexec)
  PROVE  Listings'
<1>1. nSym' = nSym
  BY DEF SetFd, Settings
<1>2. CASE Symbolic(fds[fd]) /\ fds' = [fds EXCEPT ![fd].cloexec = cloexec] /\ UNCHANGED <<files, scan>>
  <2>1. PICK g : g = [fds[fd] EXCEPT !.cloexec = cloexec]
    OBVIOUS
  <2>2. g \in FdRecords(DOMAIN files) /\ g.dfile # NoFile
    BY <1>2, <2>1, FdTypes DEF FdRecords, Symbolic
  <2>3. Moves(fd, g)
    BY <1>2, <2>1, <2>2 DEF Moves, FilesKept, Listings, FilesTyped
  <2> QED
    BY <1>1, <2>3, MovesGood
<1> QED
  BY <1>1, <1>2, KeepGood, SharedGood DEF SetFd

(* Calls that only ask, and those that leave files and descriptors alone. *)
LEMMA OthersGood ==
  ASSUME Listings, NEW fd, NEW path, NEW a, NEW b, NEW c,
         \/ FTruncate(fd) \/ GetCwd \/ UMask(a) \/ Select(a)
         \/ AskPath(a, path) \/ AskFd(a, fd) \/ AskAt(a, path) \/ ReadLink(path) \/ IoCtl(fd, a) \/ Stub(a, b)
  PROVE  Listings'
<1>1. nSym' = nSym
  BY DEF FTruncate, GetCwd, UMask, Select, AskPath, AskFd, AskAt, ReadLink, IoCtl, Stub, Settings
<1>2. CASE FTruncate(fd) \/ GetCwd
  BY <1>1, <1>2, KeepGood, SharedGood DEF FTruncate, GetCwd, MayFail
<1>3. CASE UMask(a)
  BY <1>1, <1>3, KeptInRange DEF UMask, FilesKept, Listings, FilesTyped
<1>4. CASE Select(a)
  <2>1. Keep
    BY <1>4 DEF Select, Selected
  <2> QED
    BY <1>1, <2>1, KeepGood
<1>5. CASE AskPath(a, path) \/ AskFd(a, fd) \/ AskAt(a, path) \/ ReadLink(path) \/ IoCtl(fd, a) \/ Stub(a, b)
  BY <1>1, <1>5, KeepGood, SharedGood DEF AskPath, AskFd, AskAt, ReadLink, IoCtl, Stub
<1> QED
  BY <1>2, <1>3, <1>4, <1>5

(* Where the program starts: no directory has been read. *)
LEMMA InitListings == Init => Listings
<1> SUFFICES ASSUME Init PROVE Listings
  OBVIOUS
<1> DEFINE D == DOMAIN files
           s == InitEnv(program.line)
<1>1. program \in Programs /\ InitFds(s) /\ scan = [fd \in Fds |-> FreshScan]
  BY DEF Init
<1>2. s.symFiles \in 0..Len(Names) /\ s.fileLen \in Nat /\ s.stdinLen \in Nat
  BY <1>1, InitEnvTypes
<1> HIDE DEF s
<1>3. FilesTyped
  <2> DEFINE names == {Names[i] : i \in 1..s.symFiles}
                      \cup (IF s.stdinLen > 0 THEN {"stdin"} ELSE {})
                      \cup (IF s.symStdout THEN {"stdout"} ELSE {})
             Size(f) == IF f = "stdin" THEN s.stdinLen ELSE IF f = "stdout" THEN StdoutSize ELSE s.fileLen
  <2>1. PICK attr \in [names -> program.attrs] : files = [f \in names |-> NewDfile(Size(f), attr[f])]
    BY <1>1 DEF InitFds
  <2>2. nSym = s.symFiles
    BY <1>1 DEF InitFds
  <2>3. ASSUME NEW size \in Nat, NEW a \in program.attrs
        PROVE  NewDfile(size, a) \in FileRecords
    <3>1. a \in [type : {"reg", "dir", "chr", "lnk"}, mode : SUBSET ModeBits, mine : BOOLEAN]
      BY <1>1, ProgramsAssumption
    <3>2. /\ a.type \in {"reg", "dir", "chr", "lnk"} /\ a.mode \in SUBSET ModeBits
          /\ a.mine \in BOOLEAN
      BY <3>1
    <3>3. size \in Int
      OBVIOUS
    <3> QED
      BY <3>2, <3>3 DEF NewDfile, FileRecords
  <2>4. StdoutSize \in Nat
    BY DEF StdoutSize
  <2>5. \A f : Size(f) \in Nat
    BY <1>2, <2>4
  <2>6. /\ {Names[i] : i \in 1..s.symFiles} \subseteq names
        /\ names \subseteq {Names[i] : i \in 1..s.symFiles} \cup {"stdin", "stdout"}
    OBVIOUS
  <2> HIDE DEF names, Size
  <2>7. files \in [names -> FileRecords] /\ DOMAIN files = names
    BY <2>1, <2>3, <2>5
  <2> QED
    BY <1>2, <2>2, <2>6, <2>7 DEF FilesTyped
<1>4. fds \in [Fds -> FdRecords(D)] /\ \A fd \in Fds : fds[fd].off = 0
  <2>1. ASSUME NEW i \in Int
        PROVE  Std(i) \in FdRecords(D) /\ Std(i).off = 0 /\ Blank \in FdRecords(D) /\ Blank.off = 0
    <3>1. Blank \in FdRecords(D) /\ Blank.off = 0
      BY DEF Blank, FdRecords, NoFile
    <3>2. Std(i) \in FdRecords(D) /\ Std(i).off = 0
      BY <3>1 DEF Std, FdRecords
    <3> QED
      BY <3>1, <3>2
  <2>2. ASSUME NEW i \in Int, NEW df \in D
        PROVE  [Std(i) EXCEPT !.dfile = df] \in FdRecords(D) /\ [Std(i) EXCEPT !.dfile = df].off = 0
    BY <2>1 DEF FdRecords
  <2>3. (s.stdinLen > 0 => "stdin" \in D) /\ (s.symStdout => "stdout" \in D)
    BY <1>1 DEF InitFds
  <2>4. fds = [i \in Fds |->
                 IF i > 2 THEN Blank
                 ELSE IF i = 0 /\ s.stdinLen > 0 THEN [Std(0) EXCEPT !.dfile = "stdin"]
                 ELSE IF i = 1 /\ s.symStdout THEN [Std(1) EXCEPT !.dfile = "stdout"]
                 ELSE Std(i)]
    BY <1>1 DEF InitFds
  <2>5. \A i \in Fds : i \in Int
    BY FdsFinite
  <2> HIDE DEF D
  <2>6. ASSUME NEW i \in Fds PROVE fds[i] \in FdRecords(D) /\ fds[i].off = 0
    BY <2>1, <2>2, <2>3, <2>4, <2>5
  <2> QED
    BY <2>4, <2>6
<1>5. nSym \in 0..Len(Names)
  BY <1>3 DEF FilesTyped
<1>6. TablesTyped
  BY <1>1, <1>4, <1>5, FreshIsGood DEF TablesTyped
<1>7. ListingsGood
  BY <1>1, <1>4, <1>5, FreshIsGood DEF ListingsGood
<1> QED
  BY <1>3, <1>6, <1>7 DEF Listings

LEMMA CallGood ==
  ASSUME Listings, program \in Programs, Call
  PROVE  Listings'
<1>1. \A o \in program.opens : o.mode \in SUBSET ModeBits
  BY ProgramsAssumption
<1>2. \A mode \in SomeModes : mode \in SUBSET ModeBits
  BY DEF SomeModes, ModeBits
<1>3. (\A count \in 0..2 : count \in Nat) /\ (\A offset \in -1..1 : offset \in Int) /\ Pad \in Nat
  BY Places
<1>4. 0 \in Fds
  BY FdsAssumption DEF Fds
<1>5. CASE \E path \in Paths, o \in program.opens :
             \/ Open(path, o.acc, o.opts, o.mode)
             \/ \E base \in Fds \cup {AT_FDCWD} : OpenAt(base, path, o.acc, o.opts, o.mode)
  BY <1>1, <1>5, OpenGood
<1>6. CASE \E path \in Paths, mode \in SomeModes : ChMod(path, mode)
  BY <1>2, <1>4, <1>6, ModeGood
<1>7. ASSUME NEW fd \in Fds, Close(fd) \/ Dup(fd) \/ (\E new \in Fds : Dup2(fd, new)) \/ FTruncate(fd)
      PROVE  Listings'
  BY <1>7, CloseGood, DupGood, OthersGood
<1>8. ASSUME NEW fd \in Fds, NEW count \in 0..2,
             Read(fd, count, FALSE) \/ Read(fd, count, TRUE) \/ Write(fd, count)
      PROVE  Listings'
  BY <1>3, <1>8, ReadGood, WriteGood
<1>9. ASSUME NEW fd \in Fds, NEW offset \in -1..1, NEW whence \in {"SET", "CUR", "END"},
             LSeek(fd, offset, whence)
      PROVE  Listings'
  BY <1>3, <1>9, LSeekGood
<1>10. ASSUME NEW fd \in Fds, NEW count \in 1..Pad, GetDents(fd, count)
       PROVE  Listings'
  BY <1>3, <1>10, GetDentsGood
<1>11. ASSUME NEW fd \in Fds, NEW mode \in SomeModes, FChMod(fd, mode)
       PROVE  Listings'
  BY <1>2, <1>11, ModeGood
<1>12. ASSUME NEW fd \in Fds, NEW cloexec \in BOOLEAN, SetFd(fd, cloexec)
       PROVE  Listings'
  BY <1>12, SetFdGood
<1>13. ASSUME NEW fd, NEW a, AskFd(a, fd) \/ IoCtl(fd, a)
       PROVE  Listings'
  BY <1>13, OthersGood
<1>14. ASSUME NEW path, RmDir(path) \/ Unlink(path)
       PROVE  Listings'
  BY <1>14, DeleteGood
<1>15. ASSUME NEW path, NEW a, NEW b,
              ReadLink(path) \/ AskPath(a, path) \/ AskAt(a, path) \/ UMask(a) \/ Select(a)
              \/ Stub(a, b) \/ GetCwd
       PROVE  Listings'
  BY <1>15, OthersGood
<1> QED
  BY <1>5, <1>6, <1>7, <1>8, <1>9, <1>10, <1>11, <1>12, <1>13, <1>14, <1>15 DEF Call

(* Reading a directory lists nothing twice and, to the end, everything but what is deleted *)
(* meanwhile: getdents(), lseek(), unlink(), and every call that moves a descriptor. *)
THEOREM ListingsAreComplete == Spec => []ScanIsComplete
<1> DEFINE Good == program \in Programs /\ Listings
<1>1. Init => Good
  BY InitListings DEF Init
<1>2. Good /\ [Next]_vars => Good'
  <2> SUFFICES ASSUME Good, [Next]_vars PROVE Good'
    OBVIOUS
  <2>1. CASE Next
    <3>1. Call /\ program' = program
      BY <2>1 DEF Next
    <3> QED
      BY <3>1, CallGood
  <2>2. CASE UNCHANGED vars
    <3>1. program' = program /\ nSym' = nSym /\ Keep
      BY <2>2 DEF vars, Keep
    <3> QED
      BY <3>1, KeepGood
  <2> QED
    BY <2>1, <2>2
<1>3. Good => ScanIsComplete
  <2> SUFFICES ASSUME Listings, NEW fd \in Fds, scan[fd].whole
               PROVE  LET s == scan[fd]
                          names == {s.seen[n].name : n \in DOMAIN s.seen}
                      IN  /\ Len(s.seen) = Cardinality(names)
                          /\ s.ended => /\ ToSet(OsEntries) \subseteq names
                                        /\ {f \in {Names[i] : i \in 1..nSym} : files[f].exists} \subseteq names
                          /\ \A f \in names : f \in DOMAIN files /\ ~files[f].exists => f \in s.gone
    BY DEF ScanIsComplete
  <2>1. nSym \in 0..Len(Names) /\ scan[fd] \in Scans(nSym, DOMAIN files) /\ GoodScan(nSym, scan[fd], files)
    BY DEF Listings, FilesTyped, TablesTyped, ListingsGood
  <2> QED
    BY <2>1, GoodScanIsComplete
<1> QED
  BY <1>1, <1>2, <1>3, PTL DEF Spec

=============================================================================
