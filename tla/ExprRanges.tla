---------------------------- MODULE ExprRanges ----------------------------
(***************************************************************************)
(* FastCexSolver.cpp's ValueRange and ExprRangeEvaluator.h: an interval    *)
(* that holds every value an expression can have.                          *)
(***************************************************************************)
EXTENDS Exprs

CONSTANT RangeW   \* width of the bounds of a range (64)

ASSUME RangeWidthAssumption == RangeW \in Nat \ {0}

Range2(lo, hi) == [min |-> lo, max |-> hi]
Fixed(v) == Range2(v, v)
EmptyRange == Range2(1, 0)
FullRange(w) == Range2(0, AllOnes(w))

IsEmptyRange(r) == r.min > r.max
IsFixed(r) == r.min = r.max
SetIntersection(r, s) == Range2(Max({r.min, s.min}), Min({r.max, s.max}))
SetUnion(r, s) == Range2(Min({r.min, s.min}), Max({r.max, s.max}))
MustEqual(r, s) == IsFixed(r) /\ IsFixed(s) /\ r.min = s.min
MayEqual(r, s) == ~IsEmptyRange(SetIntersection(r, s))

\* What is left of r without s: one interval, the lower one if there are two.
SetDifference(r, s) ==
  CASE IsEmptyRange(s) \/ s.min > r.max \/ s.max < r.min -> r
    [] s.min <= r.min /\ s.max >= r.max -> EmptyRange
    [] s.min <= r.min /\ s.max < r.max /\ s.max >= r.min -> Range2(s.max + 1, r.max)
    [] OTHER -> Range2(r.min, s.min - 1)

-----------------------------------------------------------------------------
(* Bounds of and, or and xor; m runs down the bits.                        *)

Has(v, m) == (v \div m) % 2 = 1
SetAndClearBelow(v, m) == ((v \div m) * m) + (IF Has(v, m) THEN 0 ELSE m)
Below(v, m) == ((v \div (2 * m)) * 2 * m) + m - 1  \* bit m cleared and those below set

RECURSIVE MinOr(_, _, _, _, _), MaxOr(_, _, _, _, _), MinAnd(_, _, _, _, _), MaxAnd(_, _, _, _, _)

MinOr(a, b, c, d, m) ==
  CASE m = 0 -> a | c
    [] m > 0 /\ ~Has(a, m) /\ Has(c, m) /\ SetAndClearBelow(a, m) <= b -> SetAndClearBelow(a, m) | c
    [] m > 0 /\ Has(a, m) /\ ~Has(c, m) /\ SetAndClearBelow(c, m) <= d -> a | SetAndClearBelow(c, m)
    [] OTHER -> MinOr(a, b, c, d, m \div 2)

MaxOr(a, b, c, d, m) ==
  CASE m = 0 -> b | d
    [] m > 0 /\ Has(b, m) /\ Has(d, m) /\ Below(b, m) >= a -> Below(b, m) | d
    [] m > 0 /\ Has(b, m) /\ Has(d, m) /\ Below(b, m) < a /\ Below(d, m) >= c -> b | Below(d, m)
    [] OTHER -> MaxOr(a, b, c, d, m \div 2)

MinAnd(a, b, c, d, m) ==
  CASE m = 0 -> a & c
    [] m > 0 /\ ~Has(a, m) /\ ~Has(c, m) /\ SetAndClearBelow(a, m) <= b -> SetAndClearBelow(a, m) & c
    [] m > 0 /\ ~Has(a, m) /\ ~Has(c, m) /\ SetAndClearBelow(a, m) > b /\ SetAndClearBelow(c, m) <= d ->
         a & SetAndClearBelow(c, m)
    [] OTHER -> MinAnd(a, b, c, d, m \div 2)

MaxAnd(a, b, c, d, m) ==
  CASE m = 0 -> b & d
    [] m > 0 /\ Has(b, m) /\ ~Has(d, m) /\ Below(b, m) >= a -> Below(b, m) & d
    [] m > 0 /\ ~Has(b, m) /\ Has(d, m) /\ Below(d, m) >= c -> b & Below(d, m)
    [] OTHER -> MaxAnd(a, b, c, d, m \div 2)

TopBit == 2^(RangeW - 1)
RangeAnd(r, s) ==
  IF IsFixed(r) /\ IsFixed(s) THEN Fixed(r.min & s.min)
  ELSE Range2(MinAnd(r.min, r.max, s.min, s.max, TopBit), MaxAnd(r.min, r.max, s.min, s.max, TopBit))
RangeOr(r, s) ==
  IF IsFixed(r) /\ IsFixed(s) THEN Fixed(r.min | s.min)
  ELSE Range2(MinOr(r.min, r.max, s.min, s.max, TopBit), MaxOr(r.min, r.max, s.min, s.max, TopBit))

RangeXor(r, s) ==
  IF IsFixed(r) /\ IsFixed(s) THEN Fixed(r.min ^^ s.min)
  ELSE LET t == r.max | s.max IN Range2(0, 2 * (CHOOSE b \in {2^i : i \in 0..RangeW} : b <= t /\ t < 2 * b) - 1)

RangeShiftLeft(r, n) == Range2(Wrap(r.min * 2^n, RangeW), Wrap(r.max * 2^n, RangeW))
RangeConcat(r, s, n) == RangeOr(RangeShiftLeft(r, n), s)
RangeExtract(r, low, high) == RangeAnd(Range2(r.min \div 2^low, r.max \div 2^low), Fixed(AllOnes(high - low)))

MinSigned(r, w) == IF r.max >= 2^(w-1) THEN -(2^(w-1)) ELSE r.min
MaxSigned(r, w) == IF r.min < 2^(w-1) /\ r.max >= 2^(w-1) THEN 2^(w-1) - 1 ELSE Signed(r.max, w)

-----------------------------------------------------------------------------
(* ExprRangeEvaluator: evaluate() and evalRead().                          *)

\* A comparison whose outcome two conditions on the operands' ranges decide.
Decided(yes, no) == IF yes THEN Fixed(1) ELSE IF no THEN Fixed(0) ELSE FullRange(Bool)

\* Mutant: operands that may be equal are taken to be out of order.
CompareRangeWrong(op, l, r, w) ==
  IF op = "Ule" THEN Decided(l.max <= r.min, l.min >= r.max) ELSE FullRange(Bool)

CompareRange(op, l, r, w) ==
  CASE op = "Eq"  -> Decided(MustEqual(l, r), ~MayEqual(l, r))
    [] op = "Ult" -> Decided(l.max < r.min, l.min >= r.max)
    [] op = "Ule" -> Decided(l.max <= r.min, l.min > r.max)
    [] op = "Slt" -> Decided(MaxSigned(l, w) < MinSigned(r, w), MinSigned(l, w) >= MaxSigned(r, w))
    [] op = "Sle" -> Decided(MaxSigned(l, w) <= MinSigned(r, w), MinSigned(l, w) > MaxSigned(r, w))

InitialReadRange(root, index) ==
  IF IsConstArray(root) /\ IsFixed(index) /\ index.min < Arrays[root].size
  THEN Fixed(Arrays[root].values[index.min + 1]) ELSE FullRange(ByteW)

RECURSIVE RangeOf(_), ReadRange(_, _, _, _)

\* The updates that may be seen, the latest first, added to what was found so far.
ReadRange(root, ul, index, found) ==
  IF ul = <<>> THEN SetUnion(found, InitialReadRange(root, index))
  ELSE LET at == RangeOf(ul[1][1])
           more == SetUnion(found, RangeOf(ul[1][2]))
       IN  IF MustEqual(at, index) THEN more
           ELSE IF ~MayEqual(at, index) THEN ReadRange(root, Tail(ul), index, found)
           ELSE IF more = FullRange(ByteW) THEN more
           ELSE ReadRange(root, Tail(ul), index, more)

RangeOf(e) ==
  LET Kid(n) == RangeOf(e.kids[n])
  IN  CASE e.k = "Constant" -> Fixed(e.n)
        [] e.k = "Read"     -> ReadRange(e.root, e.ul, Kid(1), EmptyRange)
        [] e.k = "Select"   -> IF MustEqual(Kid(1), Fixed(1)) THEN Kid(2)
                               ELSE IF MustEqual(Kid(1), Fixed(0)) THEN Kid(3)
                               ELSE SetUnion(Kid(2), Kid(3))
        [] e.k = "Concat"   -> RangeConcat(RangeConcat(Fixed(0), Kid(1), ByteW), Kid(2), ByteW)
        [] e.k = "And"      -> RangeAnd(Kid(1), Kid(2))
        [] e.k = "Or"       -> RangeOr(Kid(1), Kid(2))
        [] e.k = "Xor"      -> RangeXor(Kid(1), Kid(2))
        [] e.k \in {"Eq", "Ult", "Ule", "Slt", "Sle"} -> CompareRange(e.k, Kid(1), Kid(2), Left(e).w)
        [] OTHER            -> FullRange(e.w)

\* RangeOf shifts by one byte whatever the width of a concat's right operand.
RECURSIVE ConcatsAreOfBytes(_)
ConcatsAreOfBytes(e) ==
  /\ e.k = "Concat" => Right(e).w = ByteW
  /\ \A n \in DOMAIN e.kids : ConcatsAreOfBytes(e.kids[n])
  /\ \A n \in DOMAIN e.ul : ConcatsAreOfBytes(e.ul[n][1]) /\ ConcatsAreOfBytes(e.ul[n][2])
=============================================================================
