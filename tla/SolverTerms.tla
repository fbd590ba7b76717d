---------------------------- MODULE SolverTerms ----------------------------
(***************************************************************************)
(* What the core solvers are asked: STPBuilder and Z3Builder write an      *)
(* expression as terms of the solver, shifts as extracts and concats,      *)
(* products and quotients by a constant as shifts and sums                 *)
(* (ConstantDivision.cpp).  A term stands here for its value when the      *)
(* symbolic arrays hold `a`; the solver's own operations are trusted.      *)
(***************************************************************************)
EXTENDS Exprs

CONSTANT DivW    \* quotients by a constant are rewritten at this width (32)

ASSUME DivWidthAssumption == DivW \in Nat \ {0}

Word == 2 * DivW \* the width products are computed in (64)

-----------------------------------------------------------------------------
(* ConstantDivision.cpp                                                    *)

LowBit(x) == CHOOSE b \in {2^i : i \in 0..Word} : x % b = 0 /\ (x \div b) % 2 = 1
IsPowerOfTwo(x) == x # 0 /\ LowBit(x) = x
BitIndex(b) == CHOOSE i \in 0..Word : 2^i = b
ActiveBits(x) == CHOOSE i \in 0..(Word + 1) : x < 2^i /\ (i = 0 \/ x >= 2^(i-1))
Log2Ceil(x) == ActiveBits(x - 1)

\* The runs of ones in x, each as a power of two added and one subtracted.
RECURSIVE MultConstants(_, _, _)
MultConstants(x, add, sub) ==
  IF x = 0 THEN [add |-> add, sub |-> sub]
  ELSE LET low == LowBit(x)
           p == Wrap(x + low, Word)
           q == IF p = 0 THEN 0 ELSE LowBit(p)
           single == (IF q = 0 THEN 2^Word ELSE q) = 2 * low
           below == low \div 2
           joins == low > 1 /\ (add & below) # 0
       IN  CASE single          -> MultConstants(p - q, add + low, sub)
             [] ~single /\ joins  -> MultConstants(p - q, add - below + q, sub + below)
             [] ~single /\ ~joins -> MultConstants(p - q, add + q, sub + low)

\* Mutant: the logarithm is rounded down.
UDivConstantsWrong(d) ==
  LET l == ActiveBits(d) - 1
      mid == Wrap(2^l - d, DivW)
  IN  [mprime |-> Wrap((2^DivW * mid) \div d + 1, DivW), sh1 |-> Min({l, 1}), sh2 |-> Max({l - 1, 0})]

UDivConstants(d) ==
  LET l == Log2Ceil(d)
      mid == Wrap((IF l = DivW THEN 0 ELSE 2^l) - d, DivW)
  IN  [mprime |-> Wrap((2^DivW * mid) \div d + 1, DivW), sh1 |-> Min({l, 1}), sh2 |-> Max({l - 1, 0})]

SDivConstants(d) ==
  LET absd == AbsVal(Signed(d, DivW))
      l == IF absd = 2^(DivW-1) THEN DivW - 1 ELSE Max({1, Log2Ceil(absd)})
  IN  [mprime |-> Wrap((2^DivW * 2^(l-1)) \div absd + 1 - 2^DivW, DivW),
       dsign |-> IF Signed(d, DivW) < 0 THEN AllOnes(DivW) ELSE 0,
       shpost |-> l - 1]

-----------------------------------------------------------------------------
(* Shifts, of a value v of width w.                                        *)

LeftShift(v, w, s) ==
  IF s = 0 THEN v ELSE IF s >= w THEN 0 ELSE ConcatValue(ExtractValue(v, 0, w - s), 0, s)

RightShift(v, w, s) ==
  IF s = 0 THEN v ELSE IF s >= w THEN 0 ELSE ConcatValue(0, ExtractValue(v, s, w - s), w - s)

SignBit(v, w) == ExtractValue(v, w - 1, 1)
ArithShift(v, w, s) ==
  IF s = 0 THEN v
  ELSE IF s >= w THEN 0
  ELSE IF SignBit(v, w) = 1 THEN ConcatValue(AllOnes(s), ExtractValue(v, s, w - s), w - s)
  ELSE RightShift(v, w, s)

ShiftBy(op, v, w, s) ==
  CASE op = "Shl"  -> LeftShift(v, w, s)
    [] op = "LShr" -> RightShift(v, w, s)
    [] op = "AShr" -> ArithShift(v, w, s)

\* One case per amount; STP's terms compare only the bits an amount needs.
VarShift(solver, op, v, w, s) ==
  LET amount == IF solver = "STP" THEN ExtractValue(s, 0, ActiveBits(w)) ELSE s
      chosen == IF amount < w THEN ShiftBy(op, v, w, amount)
                ELSE IF op = "AShr" THEN ArithShift(v, w, w - 1) ELSE 0
  IN  IF s < w THEN chosen ELSE 0

-----------------------------------------------------------------------------
(* STPBuilder: products and quotients by a constant.                       *)

BitOf(x, j) == (x \div 2^j) % 2

MulByConstant(v, w, x) ==
  LET k == MultConstants(x, 0, 0)
      Shifted(bits) == MapThenSumSet(LAMBDA j : BitOf(Wrap(bits, w), j) * LeftShift(v, w, j), 0..(Word-1))
  IN  Wrap(Shifted(k.add) - Shifted(k.sub), w)

UDivByConstant(n, d) ==
  LET k == UDivConstants(d)
      t1 == ExtractValue(MulByConstant(n, Word, k.mprime), DivW, DivW)
      Shift(v, s) == VarShift("STP", "LShr", v, DivW, s)
  IN  Shift(Wrap(Shift(Wrap(n - t1, DivW), k.sh1) + t1, DivW), k.sh2)

SDivByConstant(n, d) ==
  LET k == SDivConstants(d)
      wide == MulByConstant(SExtValue(n, DivW, Word), Word, SExtValue(k.mprime, DivW, Word))
      nPlus == Wrap(n + ExtractValue(wide, DivW, DivW), DivW)
      shifted == VarShift("STP", "LShr", SExtValue(nPlus, DivW, Word), Word, k.shpost)
      xsign == IF SignBit(n, DivW) = 1 THEN AllOnes(DivW) ELSE 0
      q0 == Wrap(ExtractValue(shifted, 0, DivW) - xsign, DivW)
  IN  Wrap((q0 ^^ k.dsign) - k.dsign, DivW)

URemByPowerOfTwo(n, w, d) ==
  LET bits == BitIndex(d) IN IF bits = 0 THEN 0 ELSE ConcatValue(0, ExtractValue(n, 0, bits), w - bits)

\* A quotient or remainder of n by d, a constant if `const`.
DivTerm(solver, op, n, d, w, const) ==
  LET fast == solver = "STP" /\ const /\ w = DivW
  IN  CASE op = "UDiv" /\ const /\ IsPowerOfTwo(d) -> RightShift(n, w, BitIndex(d))
        [] op = "URem" /\ const /\ IsPowerOfTwo(d) -> URemByPowerOfTwo(n, w, d)
        [] op = "UDiv" /\ fast /\ ~IsPowerOfTwo(d) -> UDivByConstant(n, d)
        [] op = "URem" /\ fast /\ ~IsPowerOfTwo(d) -> Wrap(n - MulByConstant(UDivByConstant(n, d), w, d), w)
        [] op = "SDiv" /\ fast /\ d \notin {1, AllOnes(w)} -> SDivByConstant(n, d)
        [] OTHER -> ArithValue(op, n, d, w)

-----------------------------------------------------------------------------
(* constructActual(): terms of width one are truth values, and arithmetic  *)
(* on those is refused, which stands here for no value at all.             *)

Refused == -1
NoTruthValues == {"Add", "Sub", "Mul", "Shl", "LShr", "AShr", "Ult", "Ule", "Slt", "Sle"} \cup Divisions
Uncanonical == {"Ne", "Ugt", "Uge", "Sgt", "Sge"}

RECURSIVE Term(_, _, _), ArrayTerm(_, _, _, _)

\* getArrayForUpdate(): a chain of writes on the initial array, at index i.
ArrayTerm(solver, e, i, a) ==
  LET hits == {n \in DOMAIN e.ul : Term(solver, e.ul[n][1], a) = i}
      initial == IF IsConstArray(e.root) THEN Arrays[e.root].values ELSE a[e.root]
  IN  IF hits # {} THEN Term(solver, e.ul[Min(hits)][2], a)
      ELSE IF i < Arrays[e.root].size THEN initial[i + 1] ELSE 0

BinaryTerm(solver, e, a) ==
  LET l == Term(solver, Left(e), a)
      r == Term(solver, Right(e), a)
      w == Left(e).w
  IN  CASE e.k \in Uncanonical \/ (w = Bool /\ e.k \in NoTruthValues) -> Refused
        [] w = Bool /\ e.k = "Xor" -> IF l = 1 THEN 1 - r ELSE r
        [] w = Bool /\ e.k = "Eq"  -> IF IsConst(Left(e)) THEN (IF l = 1 THEN r ELSE 1 - r) ELSE Truth(l = r)
        [] w # Bool /\ e.k = "Mul" -> IF solver = "STP" /\ IsConst(Left(e)) THEN MulByConstant(r, w, l)
                                      ELSE ArithValue("Mul", l, r, w)
        [] w # Bool /\ e.k \in Divisions -> DivTerm(solver, e.k, l, r, w, IsConst(Right(e)))
        [] w # Bool /\ e.k \in {"Shl", "LShr", "AShr"} ->
             IF IsConst(Right(e)) THEN ShiftBy(e.k, l, w, r) ELSE VarShift(solver, e.k, l, w, r)
        [] OTHER -> BinaryValue(e.k, l, r, w)

Term(solver, e, a) ==
  LET Kid(n) == Term(solver, e.kids[n], a)
  IN  CASE e.k = "Constant" -> e.n
        [] e.k = "Read"     -> ArrayTerm(solver, e, Kid(1), a)
        [] e.k = "Select"   -> IF Kid(1) = 1 THEN Kid(2) ELSE Kid(3)
        [] e.k = "Concat"   -> ConcatValue(Kid(1), Kid(2), Right(e).w)
        [] e.k = "Extract"  -> ExtractValue(Kid(1), e.n, e.w)
        [] e.k = "ZExt"     -> IF Left(e).w = Bool THEN (IF Kid(1) = 1 THEN 1 ELSE 0)
                               ELSE ConcatValue(0, Kid(1), Left(e).w)
        [] e.k = "SExt"     -> IF Left(e).w = Bool THEN (IF Kid(1) = 1 THEN AllOnes(e.w) ELSE 0)
                               ELSE SExtValue(Kid(1), Left(e).w, e.w)
        [] e.k = "Not"      -> AllOnes(e.w) - Kid(1)
        [] e.k \in Arith \cup Compare -> BinaryTerm(solver, e, a)
=============================================================================
